------------------------ MODULE SignedRequestsProofs ------------------------
(***************************************************************************)
(* Theorems about signed requests and the CA's files, for any accounts,    *)
(* tool calls, ages and number of CA generations.                          *)
(*                                                                         *)
(* Three inductive arguments.  CAFiles follows the writes of SaveCA        *)
(* through every crash.  Spent follows the nonces through every restart,   *)
(* leaving out what an operation that will be undone has added to one of   *)
(* them; it needs the account's files on the disk: the ledger forgets its  *)
(* accounts, but an id whose files exist is never given to a new one.      *)
(* NonceRead follows the nonce in the hands of each tool call.             *)
(***************************************************************************)
EXTENDS SignedRequests, FiniteSetTheorems, TLAPS

PayloadState == [kind : Spending \cup {"none"}, from : Ids \cup {NoId}, to : Ids \cup {NoId},
                 nonce : Nat]
ToolStates   == {"idle", "asked", "read", "sent", "done", "unparsable", "mismatch", "refused"}
ToolState    == [at : ToolStates, signer : Ids \cup {NoId}, payload : PayloadState]

\* What is on the disk: the certificate is written last and only over a CA that
\* was never completed.
CAFiles ==
    /\ proc \in Saving => established = 0 /\ caKey = gen /\ caCert = gen /\ gen > 0
    /\ proc \in {"open_cert", "write_cert"} => keyFile = caKey
    /\ established = 0 => certFile \in {Missing, Torn} /\ proc # "up"
    /\ established # 0 => keyFile = established /\ certFile = established
    /\ proc = "up" => caKey = established /\ caCert = established

\* An account's nonce without what the operation in flight will take back.
Settled(id) == IF flight = id THEN ledger[id] - 1 ELSE ledger[id]

\* The accounts of the ledger were created by the process that is up, and so was
\* the account of an operation in flight.
Accounts ==
    /\ Live # {} => proc = "up"
    /\ \A id \in Live : issuer[id] = caCert /\ creds[id] = "full"
    /\ flight # NoId => flight \in Live /\ ledger[flight] > 0
    /\ \A id \in Ids : Settled(id) <= total

\* A payload that was applied carries a nonce its account has left behind, and
\* that account's id is taken for good.
Spent ==
    /\ IsFiniteSet(applied)
    /\ OncePerSignature
    /\ \A x \in applied :
          /\ Spender(x) \in Ids
          /\ x.sig.key = Spender(x)
          /\ x.payload.nonce \in Nat
          /\ creds[Spender(x)] # "none"
          /\ ledger[Spender(x)] # Gone => x.payload.nonce < Settled(Spender(x))

\* A tool call that was not overtaken has its account's nonce, and no operation of
\* that account is in flight.
NonceRead ==
    /\ tool \in [Tools -> ToolState]
    /\ \A t \in Tools : tool[t].at # "idle" =>
          /\ tool[t].signer \in Live
          /\ tool[t].payload.kind \in Spending
          /\ tool[t].at \in {"asked", "read"} /\ t \notin raced => flight # tool[t].signer
          /\ tool[t].at = "read" /\ t \notin raced => tool[t].payload.nonce = ledger[tool[t].signer]
    /\ MismatchExplained

SignedInv == TypeOK /\ CAFiles /\ Accounts /\ Spent /\ NonceRead

-----------------------------------------------------------------------------
\* What the checks of a request establish: it was signed with the key of the
\* account that pays for it.
LEMMA SignedBySpender ==
  ASSUME NEW e, e.payload.kind \in Spending, Verify(e)
  PROVE  e.sig.key = Spender(e) /\ e.sig.signer = Spender(e)
<1>1. VerifyRequest(e, Spender(e))
  BY DEF Spending, TwoParty, Verify, Spender, VerifyTransfer, VerifyMintToken,
         VerifyTransferToken, VerifyAuthorizeTokenTransfer, VerifyUnauthorizeTokenTransfer,
         VerifyBurnToken, VerifyClawbackToken, VerifyFreezeToken, VerifyUnfreezeToken
<1> QED
  BY <1>1 DEF VerifyRequest, VerifyEnvelopeData, VerifySignature

\* The timestamp is not part of what identifies a signed request; the account
\* that pays for it is.
LEMMA SignedFields ==
  ASSUME NEW e
  PROVE  /\ Spender(Signed(e)) = Spender(e)
         /\ Signed(e).sig.key = e.sig.key
         /\ Signed(e).payload.nonce = e.payload.nonce
BY DEF Signed, Spender

\* The invariant holds before the first start.
LEMMA SignedInit == Init => SignedInv
<1> SUFFICES ASSUME Init PROVE SignedInv
  OBVIOUS
<1> USE GenAssumption, TotalAssumption DEF Init, CAInit
<1>1. Live = {}
  BY DEF Live, Gone
<1>2. Idle \in ToolState /\ Idle.at = "idle"
  BY DEF Idle, ToolState, ToolStates, PayloadState
<1>3. TypeOK
  BY <1>1, <1>2 DEF TypeOK, CATypeOK, Saving, Missing, Gone
<1>4. CAFiles
  BY DEF CAFiles, Saving, Missing
<1>5. Accounts
  BY <1>1, NoIdAssumption DEF Accounts, Settled, Gone
<1>6. Spent
  BY FS_EmptySet DEF Spent, OncePerSignature
<1>7. NonceRead
  BY <1>2 DEF NonceRead, MismatchExplained
<1> QED
  BY <1>3, <1>4, <1>5, <1>6, <1>7 DEF SignedInv

\* The files follow the process through every step and every crash.
LEMMA CAFilesNext ==
  ASSUME CATypeOK, CAFiles
  PROVE  /\ NewCA => CATypeOK' /\ CAFiles'
         /\ Crash => CATypeOK' /\ CAFiles'
         /\ \A id \in Ids : CreateAccountCredentials(id) \/ SaveAccountCredentialsFails(id) =>
               CATypeOK' /\ CAFiles'
<1>0. /\ keyFile \in Int /\ certFile \in Int /\ caKey \in Int /\ caCert \in Int
      /\ gen \in Int /\ established \in Int /\ MaxGen \in Int
      /\ 0 <= gen /\ gen <= MaxGen
  BY GenAssumption DEF CATypeOK
<1> USE DEF Saving, Missing, Torn
<1>1. ASSUME load PROVE CATypeOK' /\ CAFiles'
  <2>1. CATypeOK'
    BY <1>1, GenAssumption DEF load, CAExists, CATypeOK
  <2>2. CAFiles'
    BY <1>0, <1>1 DEF load, CAExists, CAFiles
  <2> QED
    BY <2>1, <2>2
<1>2. ASSUME LoadFails PROVE CATypeOK' /\ CAFiles'
  <2>1. CATypeOK'
    BY <1>2, GenAssumption DEF LoadFails, caVars, CATypeOK
  <2>2. CAFiles'
    BY <1>0, <1>2 DEF LoadFails, caVars, CAFiles
  <2> QED
    BY <2>1, <2>2
<1>3. ASSUME bootstrap PROVE CATypeOK' /\ CAFiles'
  <2>1. CATypeOK'
    BY <1>3, GenAssumption DEF bootstrap, CAExists, CATypeOK
  <2>2. CAFiles'
    BY <1>0, <1>3 DEF bootstrap, CAExists, CAFiles
  <2> QED
    BY <2>1, <2>2
<1>4. ASSUME SaveKey PROVE CATypeOK' /\ CAFiles'
  <2>1. CATypeOK'
    BY <1>4, GenAssumption DEF SaveKey, CATypeOK
  <2>2. CAFiles'
    BY <1>0, <1>4 DEF SaveKey, CAFiles
  <2> QED
    BY <2>1, <2>2
<1>5. ASSUME SaveCert PROVE CATypeOK' /\ CAFiles'
  <2>1. CATypeOK'
    BY <1>5, GenAssumption DEF SaveCert, CATypeOK
  <2>2. CAFiles'
    BY <1>0, <1>5 DEF SaveCert, CAFiles
  <2> QED
    BY <2>1, <2>2
<1>6. ASSUME Crash PROVE CATypeOK' /\ CAFiles'
  <2>1. CATypeOK'
    BY <1>6, GenAssumption DEF Crash, CATypeOK
  <2>2. CAFiles'
    BY <1>0, <1>6 DEF Crash, CAFiles
  <2> QED
    BY <2>1, <2>2
<1>7. ASSUME NEW id \in Ids, CreateAccountCredentials(id) \/ SaveAccountCredentialsFails(id)
      PROVE  CATypeOK' /\ CAFiles'
  BY <1>7 DEF CreateAccountCredentials, SaveAccountCredentialsFails, CATypeOK, CAFiles
<1> QED
  BY <1>1, <1>2, <1>3, <1>4, <1>5, <1>6, <1>7 DEF NewCA

\* Starting or saving the CA touches neither the ledger nor the credentials, and
\* no account is in the ledger then.
LEMMA StartStep == ASSUME SignedInv, NewCA, UNCHANGED ledgerVars PROVE SignedInv'
<1>1. CATypeOK' /\ CAFiles'
  BY CAFilesNext DEF SignedInv, TypeOK
<1>2. UNCHANGED <<creds, ledger, flight, issuer, tool, applied, total, raced>>
  BY DEF NewCA, load, LoadFails, bootstrap, SaveKey, SaveCert, caVars, ledgerVars
<1>3. proc = "up" => FALSE \/ proc' = proc
  BY DEF NewCA, load, LoadFails, bootstrap, SaveKey, SaveCert, caVars
<1>4. proc = "up" => caCert' = caCert
  BY DEF NewCA, load, LoadFails, bootstrap, SaveKey, SaveCert, caVars
<1>5. Live' = Live
  BY <1>2 DEF Live
<1>6. Accounts'
  BY <1>2, <1>3, <1>4, <1>5 DEF SignedInv, Accounts, Settled
<1>7. TypeOK'
  BY <1>1, <1>2, <1>3, <1>5 DEF SignedInv, TypeOK
<1>8. Spent' /\ NonceRead'
  BY <1>2, <1>5 DEF SignedInv, Spent, OncePerSignature, Settled, NonceRead, MismatchExplained
<1> QED
  BY <1>1, <1>6, <1>7, <1>8 DEF SignedInv

\* A process that ends takes the ledger and the tools' calls with it.
LEMMA EndStep == ASSUME SignedInv, ProcessEnds PROVE SignedInv'
<1>1. CATypeOK' /\ CAFiles'
  BY CAFilesNext DEF SignedInv, TypeOK, ProcessEnds
<1>2. /\ ledger' = [id \in Ids |-> Gone] /\ tool' = [t \in Tools |-> Idle]
      /\ flight' = NoId /\ raced' = {}
      /\ UNCHANGED <<creds, issuer, applied, total>>
  BY DEF ProcessEnds, Crash
<1>3. Live' = {}
  BY <1>2 DEF Live, Gone
<1>4. Idle \in ToolState /\ Idle.at = "idle"
  BY DEF Idle, ToolState, ToolStates, PayloadState
<1>5. TypeOK'
  BY <1>1, <1>2, <1>3, <1>4, TotalAssumption DEF SignedInv, TypeOK, Gone
<1>6. Accounts'
  BY <1>2, <1>3, NoIdAssumption DEF SignedInv, TypeOK, Accounts, Settled, Gone
<1>7. Spent'
  BY <1>2 DEF SignedInv, Spent, OncePerSignature
<1>8. NonceRead'
  BY <1>2, <1>4 DEF SignedInv, NonceRead, MismatchExplained
<1> QED
  BY <1>1, <1>5, <1>6, <1>7, <1>8 DEF SignedInv

\* A new account's id has no files yet, so nothing was ever applied for it.
LEMMA CreateStep ==
  ASSUME SignedInv, NEW id \in Ids, flight = NoId, CreateAccountCredentials(id),
         ledger' = [ledger EXCEPT ![id] = 0], issuer' = [issuer EXCEPT ![id] = caCert],
         UNCHANGED <<flight, tool, applied, total, raced>>
  PROVE  SignedInv'
<1>1. CATypeOK' /\ CAFiles'
  BY CAFilesNext DEF SignedInv, TypeOK
<1>2. /\ proc = "up" /\ creds[id] = "none"
      /\ creds' = [creds EXCEPT ![id] = "full"]
      /\ UNCHANGED <<proc, caCert>>
  BY DEF CreateAccountCredentials
<1>3. /\ ledger \in [Ids -> -1 .. MaxTotal + 1] /\ issuer \in [Ids -> 0 .. MaxGen]
      /\ creds \in [Ids -> {"none", "partial", "full"}]
      /\ total \in 0 .. MaxTotal /\ caCert \in 0 .. MaxGen
  BY DEF SignedInv, TypeOK, CATypeOK
<1>4. Live' = Live \cup {id} /\ id \notin Live
  BY <1>2, <1>3 DEF Live, Gone, SignedInv, Accounts
<1>5. TypeOK'
  BY <1>1, <1>2, <1>3, TotalAssumption DEF SignedInv, TypeOK
<1>6. Accounts'
  BY <1>2, <1>3, <1>4, NoIdAssumption DEF SignedInv, Accounts, Settled
<1>7. \A x \in applied : Spender(x) \in Ids /\ Spender(x) # id
  BY <1>2 DEF SignedInv, Spent
<1>8. Spent'
  BY <1>2, <1>3, <1>7, NoIdAssumption DEF SignedInv, Spent, OncePerSignature, Settled
<1>9. NonceRead'
  BY <1>3, <1>4 DEF SignedInv, NonceRead, MismatchExplained, Live
<1> QED
  BY <1>1, <1>5, <1>6, <1>8, <1>9 DEF SignedInv

\* Files that could not all be written take the id, too, and change nothing else.
LEMMA CreateFailsStep ==
  ASSUME SignedInv, NEW id \in Ids, CreateAccountFails(id) PROVE SignedInv'
<1>1. CATypeOK' /\ CAFiles'
  BY CAFilesNext DEF SignedInv, TypeOK, CreateAccountFails
<1>2. /\ creds[id] = "none" /\ creds' = [creds EXCEPT ![id] = "partial"]
      /\ UNCHANGED <<proc, caCert, ledger, flight, issuer, tool, applied, total, raced>>
  BY DEF CreateAccountFails, SaveAccountCredentialsFails, ledgerVars
<1>3. creds \in [Ids -> {"none", "partial", "full"}] /\ Live' = Live
  BY <1>2 DEF SignedInv, TypeOK, CATypeOK, Live
<1>4. TypeOK' /\ Accounts'
  BY <1>1, <1>2, <1>3 DEF SignedInv, TypeOK, Accounts, Settled
<1>5. Spent' /\ NonceRead'
  BY <1>2, <1>3 DEF SignedInv, Spent, OncePerSignature, Settled, NonceRead, MismatchExplained
<1> QED
  BY <1>1, <1>4, <1>5 DEF SignedInv

\* What every operation does to the account that pays for it, whether it is applied
\* or will be undone: it advances a nonce that is the one in the payload.
LEMMA SpenderOf ==
  ASSUME SignedInv, NEW e, e.payload.kind \in Spending, Acceptable(e), Current(e)
  PROVE  /\ Spender(e) \in Live /\ Spender(e) \in Ids
         /\ e.sig.key = Spender(e) /\ e.sig.signer = Spender(e)
         /\ flight = NoId /\ flight # Spender(e)
         /\ e.payload.nonce = ledger[Spender(e)]
         /\ ledger[Spender(e)] \in 0 .. total
         /\ \A x \in Ids : Settled(x) = ledger[x]
<1>1. /\ Spender(e) \in Live /\ Spender(e) \in Ids /\ flight = NoId
      /\ e.payload.nonce = ledger[Spender(e)]
  BY DEF Acceptable, Current, Live
<1>2. \A x \in Ids : Settled(x) = ledger[x]
  BY <1>1, NoIdAssumption DEF Settled
<1>3. ledger[Spender(e)] \in 0 .. total
  BY <1>1, <1>2 DEF SignedInv, TypeOK, Accounts, Live, Gone
<1> QED
  BY <1>1, <1>2, <1>3, SignedBySpender, NoIdAssumption DEF Acceptable

\* An operation that is applied uses up a nonce: the signed payload is a new one.
LEMMA ExecuteStep ==
  ASSUME SignedInv, NEW e, e.payload.kind \in Spending, Execute(e)
  PROVE  /\ CATypeOK' /\ CAFiles' /\ Accounts' /\ Spent'
         /\ ledger' \in [Ids -> -1 .. MaxTotal + 1] /\ issuer' \in [Ids -> 0 .. MaxGen]
         /\ total' \in 0 .. MaxTotal
         /\ Live' = Live /\ (Live # {} => proc' = "up")
         /\ flight = NoId /\ flight' = NoId
         /\ \A x \in Ids : x # Spender(e) => ledger'[x] = ledger[x]
<1> DEFINE id == Spender(e)
<1>1. /\ id \in Live /\ id \in Ids /\ id = Spender(e)
      /\ e.payload.nonce = ledger[id] /\ e.sig.key = id
      /\ flight = NoId /\ flight' = NoId
      /\ ledger[id] \in 0 .. total
      /\ \A x \in Ids : Settled(x) = ledger[x]
      /\ total < MaxTotal /\ total' = total + 1
      /\ ledger' = [ledger EXCEPT ![id] = @ + 1]
      /\ applied' = applied \cup {Signed(e)}
      /\ UNCHANGED <<caVars, issuer>>
  BY SpenderOf DEF Execute
<1> HIDE DEF id
<1>2. /\ ledger \in [Ids -> -1 .. MaxTotal + 1] /\ total \in 0 .. MaxTotal
      /\ issuer \in [Ids -> 0 .. MaxGen]
  BY DEF SignedInv, TypeOK
<1>3. /\ ledger' \in [Ids -> -1 .. MaxTotal + 1] /\ total' \in 0 .. MaxTotal
      /\ \A x \in Ids : /\ ledger[x] = -1 <=> ledger'[x] = -1
                        /\ x # id => ledger'[x] = ledger[x]
      /\ ledger'[id] = ledger[id] + 1
  BY <1>1, <1>2, TotalAssumption
<1>4. Live' = Live /\ \A x \in Ids : Settled(x)' = ledger'[x]
  BY <1>1, <1>3, NoIdAssumption DEF Live, Gone, Settled
<1>5. CATypeOK' /\ CAFiles'
  BY <1>1 DEF caVars, SignedInv, TypeOK, CATypeOK, CAFiles
<1>6. Accounts'
  BY <1>1, <1>2, <1>3, <1>4 DEF SignedInv, Accounts, caVars
<1>7. /\ Spender(Signed(e)) = id /\ Signed(e).sig.key = id
      /\ Signed(e).payload.nonce = ledger[id]
  BY <1>1, SignedFields
<1>8. Signed(e) \notin applied
  <2> SUFFICES ASSUME Signed(e) \in applied PROVE FALSE
    OBVIOUS
  <2>1. ledger[id] < Settled(id)
    BY <1>1, <1>7 DEF SignedInv, Spent, Gone
  <2> QED
    BY <1>1, <1>2, <2>1
<1>9. IsFiniteSet(applied') /\ total' = Cardinality(applied')
  BY <1>1, <1>8, FS_AddElement DEF SignedInv, Spent, OncePerSignature
<1>10. creds[id] # "none" /\ creds' = creds
  BY <1>1 DEF SignedInv, Accounts, caVars
<1>11. \A x \in applied' :
          /\ Spender(x) \in Ids
          /\ x.sig.key = Spender(x)
          /\ x.payload.nonce \in Nat
          /\ creds'[Spender(x)] # "none"
          /\ ledger'[Spender(x)] # Gone => x.payload.nonce < ledger'[Spender(x)]
  <2> SUFFICES ASSUME NEW x \in applied'
               PROVE  /\ Spender(x) \in Ids
                      /\ x.sig.key = Spender(x)
                      /\ x.payload.nonce \in Nat
                      /\ creds'[Spender(x)] # "none"
                      /\ ledger'[Spender(x)] # Gone => x.payload.nonce < ledger'[Spender(x)]
    OBVIOUS
  <2>1. CASE x = Signed(e)
    BY <1>1, <1>2, <1>3, <1>7, <1>10, <2>1
  <2>2. CASE x \in applied
    <3>1. /\ Spender(x) \in Ids
          /\ x.sig.key = Spender(x)
          /\ x.payload.nonce \in Nat
          /\ creds[Spender(x)] # "none"
          /\ ledger[Spender(x)] # Gone => x.payload.nonce < Settled(Spender(x))
      BY <2>2 DEF SignedInv, Spent
    <3>2. PICK y \in Ids : y = Spender(x)
      BY <3>1
    <3> QED
      BY <1>1, <1>2, <1>3, <1>10, <3>1, <3>2 DEF Gone
  <2> QED
    BY <1>1, <2>1, <2>2
<1>12. \A x \in applied' : Settled(Spender(x))' = ledger'[Spender(x)]
  <2> SUFFICES ASSUME NEW x \in applied' PROVE Settled(Spender(x))' = ledger'[Spender(x)]
    BY Zenon
  <2>1. Spender(x)' = Spender(x) /\ Spender(x) \in Ids
    BY <1>11 DEF Spender
  <2> QED
    BY <1>1, <2>1, NoIdAssumption DEF Settled
<1>13. Spent'
  BY <1>9, <1>11, <1>12 DEF Spent, OncePerSignature
<1>14. Live # {} => proc' = "up"
  BY <1>1 DEF SignedInv, TypeOK, caVars
<1> QED
  BY <1>1, <1>2, <1>3, <1>4, <1>5, <1>6, <1>13, <1>14

\* What was applied stays spent while the settled nonces stay.
LEMMA SettledSpent ==
  ASSUME Spent, UNCHANGED <<applied, total, creds>>,
         \A x \in Ids : ledger[x] = -1 <=> ledger'[x] = -1,
         \A x \in Ids : Settled(x)' = Settled(x)
  PROVE  Spent'
<1> SUFFICES ASSUME NEW x \in applied
             PROVE  ledger'[Spender(x)] # Gone => x.payload.nonce < Settled(Spender(x))'
  BY DEF Spent, OncePerSignature, Spender
<1>1. Spender(x) \in Ids /\ Spender(x)' = Spender(x)
  BY DEF Spent, Spender
<1>2. Settled(Spender(x))' = Settled(Spender(x))
  BY <1>1
<1> QED
  BY <1>1, <1>2 DEF Spent, Gone

\* An operation that will be undone leaves every settled nonce where it was.
LEMMA BeginStep ==
  ASSUME SignedInv, NEW e, e.payload.kind \in Spending, Begin(e)
  PROVE  /\ CATypeOK' /\ CAFiles' /\ Accounts' /\ Spent'
         /\ ledger' \in [Ids -> -1 .. MaxTotal + 1] /\ issuer' \in [Ids -> 0 .. MaxGen]
         /\ total' \in 0 .. MaxTotal
         /\ Live' = Live /\ (Live # {} => proc' = "up")
         /\ flight = NoId /\ flight' = Spender(e) /\ Spender(e) \in Ids
         /\ \A x \in Ids : x # Spender(e) => ledger'[x] = ledger[x]
<1> DEFINE id == Spender(e)
<1>1. /\ id \in Live /\ id \in Ids /\ id = Spender(e)
      /\ flight = NoId /\ flight' = id
      /\ ledger[id] \in 0 .. total
      /\ \A x \in Ids : Settled(x) = ledger[x]
      /\ ledger' = [ledger EXCEPT ![id] = @ + 1]
      /\ UNCHANGED <<caVars, issuer, applied, total>>
  BY SpenderOf DEF Begin
<1> HIDE DEF id
<1>2. /\ ledger \in [Ids -> -1 .. MaxTotal + 1] /\ total \in 0 .. MaxTotal
      /\ issuer \in [Ids -> 0 .. MaxGen]
  BY DEF SignedInv, TypeOK
<1>3. /\ ledger' \in [Ids -> -1 .. MaxTotal + 1]
      /\ \A x \in Ids : /\ ledger[x] = -1 <=> ledger'[x] = -1
                        /\ x # id => ledger'[x] = ledger[x]
      /\ ledger'[id] = ledger[id] + 1
  BY <1>1, <1>2, TotalAssumption
<1>4. Live' = Live /\ \A x \in Ids : Settled(x)' = Settled(x)
  BY <1>1, <1>2, <1>3, NoIdAssumption DEF Live, Gone, Settled
<1>5. CATypeOK' /\ CAFiles'
  BY <1>1 DEF caVars, SignedInv, TypeOK, CATypeOK, CAFiles
<1>6. Accounts'
  BY <1>1, <1>2, <1>3, <1>4 DEF SignedInv, Accounts, caVars
<1>7. Spent'
  BY <1>1, <1>3, <1>4, SettledSpent DEF SignedInv, caVars
<1>8. Live # {} => proc' = "up"
  BY <1>1 DEF SignedInv, TypeOK, caVars
<1> QED
  BY <1>1, <1>2, <1>3, <1>4, <1>5, <1>6, <1>7, <1>8

\* A request of account `id' is the tool call's own, which it ends, or overtakes it.
ToolsFollow(id) ==
    /\ tool' \in [Tools -> ToolState]
    /\ \A t \in Tools :
          /\ tool'[t].signer = tool[t].signer /\ tool'[t].payload = tool[t].payload
          /\ \/ tool'[t].at = tool[t].at
             \/ tool[t].at = "read" /\ tool'[t].at \in {"done", "sent"}
          /\ tool'[t].at \in {"asked", "read"} /\ tool'[t].signer = id => t \in raced'
    /\ raced \subseteq raced'

\* After a request of account `id' the other accounts' nonces are as they were, and
\* the tools that work with a nonce of `id' count as overtaken.
LEMMA NoncesOf ==
  ASSUME SignedInv, NEW id \in Ids, flight = NoId, flight' \in {NoId, id}, Live' = Live,
         \A x \in Ids : x # id => ledger'[x] = ledger[x],
         ToolsFollow(id)
  PROVE  NonceRead'
<1> SUFFICES ASSUME NEW t \in Tools, tool'[t].at # "idle"
             PROVE  /\ tool'[t].signer \in Live
                    /\ tool'[t].payload.kind \in Spending
                    /\ tool'[t].at \in {"asked", "read"} /\ t \notin raced' => flight' # tool'[t].signer
                    /\ tool'[t].at = "read" /\ t \notin raced' => tool'[t].payload.nonce = ledger'[tool'[t].signer]
                    /\ tool'[t].at = "mismatch" => t \in raced' \/ SelfParty(tool'[t].payload)
  BY DEF NonceRead, MismatchExplained, ToolsFollow
<1>1. PICK s \in Ids : s = tool[t].signer
  BY DEF SignedInv, NonceRead, Live, ToolsFollow
<1>2. /\ s \in Live /\ tool[t].payload.kind \in Spending
      /\ tool[t].at \in {"asked", "read"} /\ t \notin raced => flight # s
      /\ tool[t].at = "read" /\ t \notin raced => tool[t].payload.nonce = ledger[s]
      /\ tool[t].at = "mismatch" => t \in raced \/ SelfParty(tool[t].payload)
  BY <1>1 DEF SignedInv, NonceRead, MismatchExplained, ToolsFollow
<1> QED
  BY <1>1, <1>2, NoIdAssumption DEF ToolsFollow

\* A client's request that is applied.
LEMMA ClientRequestStep ==
  ASSUME SignedInv, NEW e, e.payload.kind \in Spending, ClientRequest(e)
  PROVE  SignedInv'
<1>1. Execute(e) /\ tool' = tool /\ raced' = raced \cup Overtaken(Spender(e))
  BY DEF ClientRequest
<1>2. tool \in [Tools -> ToolState] /\ raced \subseteq Tools /\ Spender(e) \in Ids
  BY <1>1 DEF SignedInv, TypeOK, NonceRead, Execute, Acceptable, Live
<1>3. NonceRead'
  BY <1>1, <1>2, ExecuteStep, NoncesOf DEF Overtaken, ToolsFollow
<1>4. TypeOK'
  BY <1>1, <1>2, ExecuteStep DEF TypeOK, SignedInv, Overtaken
<1> QED
  BY <1>1, <1>3, <1>4, ExecuteStep DEF SignedInv

\* A client's request that will be undone.
LEMMA ClientBeginStep ==
  ASSUME SignedInv, NEW e, e.payload.kind \in Spending, ClientBegin(e)
  PROVE  SignedInv'
<1>1. Begin(e) /\ tool' = tool /\ raced' = raced \cup Overtaken(Spender(e))
  BY DEF ClientBegin
<1>2. tool \in [Tools -> ToolState] /\ raced \subseteq Tools
  BY DEF SignedInv, TypeOK, NonceRead
<1>3. NonceRead'
  BY <1>1, <1>2, BeginStep, NoncesOf DEF Overtaken, ToolsFollow
<1>4. TypeOK'
  BY <1>1, <1>2, BeginStep DEF TypeOK, SignedInv, Overtaken
<1> QED
  BY <1>1, <1>3, <1>4, BeginStep DEF SignedInv

\* What a tool signs and sends is of its own account.
LEMMA ToolSpender ==
  ASSUME SignedInv, NEW t \in Tools, tool[t].at = "read", NEW age, Acceptable(ToolEnvelope(t, age))
  PROVE  /\ ToolEnvelope(t, age).payload = tool[t].payload
         /\ ToolEnvelope(t, age).payload.kind \in Spending
         /\ Spender(ToolEnvelope(t, age)) = tool[t].signer
<1>1. /\ ToolEnvelope(t, age).payload = tool[t].payload
      /\ ToolEnvelope(t, age).sig.signer = tool[t].signer
  BY DEF ToolEnvelope, createSignedEnvelope
<1>2. tool[t].payload.kind \in Spending
  BY DEF SignedInv, NonceRead
<1> QED
  BY <1>1, <1>2, SignedBySpender DEF Acceptable

\* The tool that sends a request takes its step, and the others stay.
LEMMA ToolMoves ==
  ASSUME SignedInv, NEW t \in Tools, tool[t].at = "read", NEW at \in {"done", "sent"},
         tool' = [tool EXCEPT ![t].at = at],
         raced' = raced \cup (Overtaken(tool[t].signer) \ {t})
  PROVE  /\ ToolsFollow(tool[t].signer)
         /\ \A s \in Tools : tool'[s].at \in ToolStates
         /\ raced' \subseteq Tools
<1>1. tool \in [Tools -> ToolState] /\ raced \subseteq Tools
  BY DEF SignedInv, TypeOK, NonceRead
<1>2. /\ tool' \in [Tools -> ToolState]
      /\ tool'[t].at = at
      /\ \A s \in Tools : /\ tool'[s].signer = tool[s].signer /\ tool'[s].payload = tool[s].payload
                          /\ s # t => tool'[s] = tool[s]
  BY <1>1 DEF ToolState, ToolStates
<1>3. \A s \in Tools : tool'[s].at \in ToolStates
  BY <1>2 DEF ToolState
<1> QED
  BY <1>1, <1>2, <1>3 DEF Overtaken, ToolsFollow

\* A tool's request that is applied.
LEMMA ToolDoneStep ==
  ASSUME SignedInv, NEW t \in Tools, NEW age, ToolDone(t, age)
  PROVE  SignedInv'
<1> DEFINE e == ToolEnvelope(t, age)
<1>1. /\ tool[t].at = "read" /\ Execute(e) /\ tool' = [tool EXCEPT ![t].at = "done"]
      /\ raced' = raced \cup (Overtaken(tool[t].signer) \ {t})
      /\ Acceptable(e)
  BY DEF ToolDone, Execute
<1>2. e.payload.kind \in Spending /\ Spender(e) = tool[t].signer /\ Spender(e) \in Ids
  BY <1>1, ToolSpender DEF Acceptable, Live
<1> HIDE DEF e
<1>3. NonceRead'
  <2>1. ToolsFollow(Spender(e))
    BY <1>1, <1>2, ToolMoves
  <2> QED
    BY <1>1, <1>2, <2>1, ExecuteStep, NoncesOf
<1>4. TypeOK'
  BY <1>1, <1>2, ToolMoves, ExecuteStep DEF TypeOK, ToolStates
<1> QED
  BY <1>1, <1>2, <1>3, <1>4, ExecuteStep DEF SignedInv

\* A tool's request that will be undone.
LEMMA ToolBeginStep ==
  ASSUME SignedInv, NEW t \in Tools, NEW age, ToolBegin(t, age)
  PROVE  SignedInv'
<1> DEFINE e == ToolEnvelope(t, age)
<1>1. /\ tool[t].at = "read" /\ Begin(e) /\ tool' = [tool EXCEPT ![t].at = "sent"]
      /\ raced' = raced \cup (Overtaken(tool[t].signer) \ {t})
      /\ Acceptable(e)
  BY DEF ToolBegin, Begin
<1>2. e.payload.kind \in Spending /\ Spender(e) = tool[t].signer
  BY <1>1, ToolSpender
<1> HIDE DEF e
<1>3. NonceRead'
  <2>1. ToolsFollow(Spender(e))
    BY <1>1, <1>2, ToolMoves
  <2> QED
    BY <1>1, <1>2, <2>1, BeginStep, NoncesOf
<1>4. TypeOK'
  BY <1>1, <1>2, ToolMoves, BeginStep DEF TypeOK, ToolStates
<1> QED
  BY <1>1, <1>2, <1>3, <1>4, BeginStep DEF SignedInv

\* Undoing an operation takes its nonce back: every settled nonce stays, and no
\* tool works with a nonce of that account without having been overtaken.
LEMMA UndoStep == ASSUME SignedInv, Undo PROVE SignedInv'
<1>1. /\ flight \in Live /\ flight \in Ids /\ ledger[flight] > 0 /\ flight' = NoId
      /\ ledger' = [ledger EXCEPT ![flight] = @ - 1]
      /\ UNCHANGED <<caVars, issuer, applied, total, raced>>
  BY DEF Undo, SignedInv, Accounts, Live
<1>2. /\ ledger \in [Ids -> -1 .. MaxTotal + 1] /\ total \in 0 .. MaxTotal
      /\ issuer \in [Ids -> 0 .. MaxGen] /\ raced \subseteq Tools
      /\ tool \in [Tools -> ToolState]
  BY DEF SignedInv, TypeOK, NonceRead
<1>3. /\ ledger' \in [Ids -> -1 .. MaxTotal + 1]
      /\ \A x \in Ids : /\ ledger[x] = -1 <=> ledger'[x] = -1
                        /\ x # flight => ledger'[x] = ledger[x]
      /\ ledger'[flight] = ledger[flight] - 1
  BY <1>1, <1>2, TotalAssumption
<1>4. Live' = Live /\ \A x \in Ids : Settled(x)' = Settled(x)
  BY <1>1, <1>2, <1>3, NoIdAssumption DEF Live, Gone, Settled
<1>5. CATypeOK' /\ CAFiles'
  BY <1>1 DEF caVars, SignedInv, TypeOK, CATypeOK, CAFiles
<1>6. Accounts'
  BY <1>1, <1>2, <1>3, <1>4 DEF SignedInv, Accounts, caVars
<1>7. Spent'
  BY <1>1, <1>3, <1>4, SettledSpent DEF SignedInv, caVars
<1>8. /\ tool' \in [Tools -> ToolState]
      /\ \A t \in Tools : /\ tool'[t].signer = tool[t].signer /\ tool'[t].payload = tool[t].payload
                          /\ \/ tool'[t].at = tool[t].at
                             \/ tool[t].at = "sent" /\ tool'[t].at = SecondRefusal(tool[t].payload)
                          /\ tool'[t].at \in ToolStates
  BY <1>2 DEF Undo, ToolState, ToolStates, SecondRefusal
<1>9. NonceRead'
  <2> SUFFICES ASSUME NEW t \in Tools, tool'[t].at # "idle"
               PROVE  /\ tool[t].signer \in Live
                      /\ tool[t].payload.kind \in Spending
                      /\ tool'[t].at \in {"asked", "read"} /\ t \notin raced => NoId # tool[t].signer
                      /\ tool'[t].at = "read" /\ t \notin raced
                            => tool[t].payload.nonce = ledger'[tool[t].signer]
                      /\ tool'[t].at = "mismatch" => t \in raced \/ SelfParty(tool[t].payload)
    BY <1>1, <1>4, <1>8 DEF NonceRead, MismatchExplained
  <2>1. PICK s \in Ids : s = tool[t].signer
    BY <1>8 DEF SignedInv, NonceRead, Live
  <2>2. /\ s \in Live /\ tool[t].payload.kind \in Spending
        /\ tool[t].at \in {"asked", "read"} /\ t \notin raced => flight # s
        /\ tool[t].at = "read" /\ t \notin raced => tool[t].payload.nonce = ledger[s]
        /\ tool[t].at = "mismatch" => t \in raced \/ SelfParty(tool[t].payload)
    BY <1>8, <2>1 DEF SignedInv, NonceRead, MismatchExplained
  <2> QED
    BY <1>3, <1>8, <2>1, <2>2, NoIdAssumption DEF SecondRefusal
<1>10. TypeOK'
  BY <1>1, <1>2, <1>3, <1>4, <1>5, <1>8 DEF SignedInv, TypeOK, ToolStates, caVars
<1> QED
  BY <1>5, <1>6, <1>7, <1>9, <1>10 DEF SignedInv

\* The steps of a tool that leave the ledger alone keep the invariant if what they
\* make of the tool's state is right.
LEMMA ToolOnlyStep ==
  ASSUME SignedInv, UNCHANGED <<caVars, ledger, flight, issuer, applied, total, raced>>,
         NEW t \in Tools, NEW u \in ToolState, tool' = [tool EXCEPT ![t] = u],
         u.signer \in Live, u.payload.kind \in Spending,
         u.at \in {"asked", "read"} /\ t \notin raced => flight # u.signer,
         u.at = "read" /\ t \notin raced => u.payload.nonce = ledger[u.signer],
         u.at = "mismatch" => t \in raced \/ SelfParty(u.payload)
  PROVE  SignedInv'
<1>1. tool \in [Tools -> ToolState]
  BY DEF SignedInv, NonceRead
<1>2. tool' \in [Tools -> ToolState] /\ \A s \in Tools : tool'[s] = IF s = t THEN u ELSE tool[s]
  BY <1>1
<1>3. Live' = Live
  BY DEF Live
<1>4. NonceRead'
  BY <1>2, <1>3 DEF SignedInv, NonceRead, MismatchExplained
<1>5. \A s \in Tools : tool'[s].at \in ToolStates
  BY <1>2 DEF ToolState
<1>6. CATypeOK' /\ CAFiles' /\ TypeOK'
  BY <1>3, <1>5 DEF SignedInv, TypeOK, ToolStates, CATypeOK, CAFiles, caVars
<1>7. Accounts' /\ Spent'
  BY <1>3 DEF SignedInv, Accounts, Spent, OncePerSignature, Settled, caVars
<1> QED
  BY <1>4, <1>6, <1>7 DEF SignedInv

\* What a tool is asked for, with the nonce it was given.
LEMMA ToolPayloadFields ==
  ASSUME NEW kind \in ToolKinds, NEW self \in Ids, NEW other \in Ids, NEW n \in Nat
  PROVE  /\ ToolPayload(kind, self, other, n) \in PayloadState
         /\ ToolPayload(kind, self, other, n).kind \in Spending
<1>1. \A k \in Spending, f, g \in Ids \cup {NoId} :
          /\ Asked(k, f, g, n) \in PayloadState
          /\ Asked(k, f, g, n).kind = k
  BY DEF Asked, PayloadState
<1>2. \E k \in Spending, f, g \in Ids \cup {NoId} :
          ToolPayload(kind, self, other, n) = Asked(k, f, g, n)
  BY KindsAssumption
     DEF ToolPayload, Spending, TwoParty, transfer, mint_token,
         authorize_token_transfer, unauthorize_token_transfer, transfer_token, burn_token,
         clawback_token, freeze_token, unfreeze_token
<1> QED
  BY <1>1, <1>2

\* A tool asks for its account: nothing is in flight when the server answers.
LEMMA AskStep ==
  ASSUME SignedInv, NEW t \in Tools, NEW kind \in ToolKinds, NEW self \in Ids, NEW other \in Ids,
         getAccountNonce(t, kind, self, other)
  PROVE  SignedInv'
<1> DEFINE p == ToolPayload(kind, self, other, 0)
           u == [at |-> "asked", signer |-> self, payload |-> p]
           e == createSignedEnvelope(self, Asked("GetAccount", self, NoId, 0), 0)
<1>1. /\ Acceptable(e) /\ tool' = [tool EXCEPT ![t] = u]
      /\ UNCHANGED <<caVars, ledger, flight, issuer, applied, total, raced>>
  BY DEF getAccountNonce
<1>2. Spender(e) = self
  BY DEF Spender, createSignedEnvelope, Asked
<1>3. self \in Live /\ flight = NoId
  BY <1>1, <1>2 DEF Acceptable
<1>4. p \in PayloadState /\ p.kind \in Spending
  BY ToolPayloadFields
<1> HIDE DEF p
<1>5. u \in ToolState /\ u.signer = self /\ u.payload = p /\ u.at = "asked"
  BY <1>4 DEF ToolState, ToolStates
<1> HIDE DEF u, e
<1> QED
  BY <1>1, <1>3, <1>4, <1>5, ToolOnlyStep, NoIdAssumption

\* A tool reads the nonce of its account.
LEMMA ReadNonceStep ==
  ASSUME SignedInv, NEW t \in Tools, GetNonce(t)
  PROVE  SignedInv'
<1> DEFINE u == [tool[t] EXCEPT !.at = "read", !.payload.nonce = ledger[tool[t].signer]]
<1>1. /\ tool[t].at = "asked"
      /\ UNCHANGED <<caVars, ledger, flight, issuer, applied, total, raced>>
      /\ tool' = [tool EXCEPT ![t].at = "read", ![t].payload.nonce = ledger[tool[t].signer]]
  BY DEF GetNonce
<1>2. /\ tool \in [Tools -> ToolState] /\ tool[t] \in ToolState
      /\ tool[t].signer \in Live /\ tool[t].payload.kind \in Spending
      /\ t \notin raced => flight # tool[t].signer
  BY <1>1 DEF SignedInv, NonceRead
<1>3. ledger[tool[t].signer] \in Nat
  BY <1>2 DEF SignedInv, TypeOK, Live, Gone
<1>4. tool' = [tool EXCEPT ![t] = u]
  BY <1>1, <1>2 DEF ToolState, PayloadState
<1>5. /\ u \in ToolState /\ u.signer = tool[t].signer /\ u.at = "read"
      /\ u.payload.kind = tool[t].payload.kind /\ u.payload.nonce = ledger[tool[t].signer]
  BY <1>2, <1>3 DEF ToolState, ToolStates, PayloadState
<1> HIDE DEF u
<1>6. /\ u.signer \in Live /\ u.payload.kind \in Spending /\ u.at = "read"
      /\ t \notin raced => flight # u.signer
      /\ u.payload.nonce = ledger[u.signer]
  BY <1>2, <1>5
<1> QED
  BY <1>1, <1>4, <1>5, <1>6, ToolOnlyStep

\* A tool is refused: a nonce that is not its account's was overtaken.
LEMMA ToolRefusedStep ==
  ASSUME SignedInv, NEW t \in Tools, NEW age, ToolRefused(t, age)
  PROVE  SignedInv'
<1> DEFINE e == ToolEnvelope(t, age)
<1>1. /\ tool[t].at = "read"
      /\ UNCHANGED <<caVars, ledger, flight, issuer, applied, total, raced>>
  BY DEF ToolRefused
<1>2. PICK answer \in Refusals(e) : tool' = [tool EXCEPT ![t].at = answer]
  BY DEF ToolRefused
<1>3. /\ tool[t] \in ToolState
      /\ tool[t].signer \in Live /\ tool[t].payload.kind \in Spending
      /\ t \notin raced => tool[t].payload.nonce = ledger[tool[t].signer]
  BY <1>1 DEF SignedInv, NonceRead
<1>4. /\ answer \in {"unparsable", "mismatch", "refused"}
      /\ answer = "mismatch" => Acceptable(e) /\ ~Current(e)
  BY DEF Refusals
<1>5. answer = "mismatch" => t \in raced
  BY <1>1, <1>3, <1>4, ToolSpender DEF Current
<1> DEFINE u == [tool[t] EXCEPT !.at = answer]
<1>6. /\ u \in ToolState /\ u.signer = tool[t].signer /\ u.payload = tool[t].payload
      /\ u.at = answer /\ tool' = [tool EXCEPT ![t] = u]
  BY <1>2, <1>3, <1>4 DEF ToolState, ToolStates
<1> HIDE DEF u, e
<1> QED
  BY <1>1, <1>3, <1>4, <1>5, <1>6, ToolOnlyStep

\* Nothing changes.
LEMMA StutterStep == ASSUME SignedInv, UNCHANGED vars PROVE SignedInv'
<1>1. UNCHANGED caVars /\ UNCHANGED ledgerVars
  BY DEF vars
<1>2. Live' = Live
  BY <1>1 DEF Live, ledgerVars
<1>3. TypeOK' /\ CAFiles' /\ Accounts'
  BY <1>1, <1>2 DEF SignedInv, TypeOK, CATypeOK, CAFiles, Accounts, Settled, caVars, ledgerVars
<1>4. Spent' /\ NonceRead'
  BY <1>1, <1>2 DEF SignedInv, Spent, OncePerSignature, Settled, NonceRead, MismatchExplained,
                    caVars, ledgerVars
<1> QED
  BY <1>3, <1>4 DEF SignedInv

\* The inductive invariant holds in every state.
THEOREM SignedInvariant == Spec => []SignedInv
<1>1. SignedInv /\ [Next]_vars => SignedInv'
  <2> SUFFICES ASSUME SignedInv, [Next]_vars PROVE SignedInv'
    OBVIOUS
  <2>1. CASE NewCA /\ UNCHANGED ledgerVars
    BY <2>1, StartStep
  <2>2. CASE ProcessEnds
    BY <2>2, EndStep
  <2>3. ASSUME NEW id \in Ids,
               handleCreateAccount(id) \/ handleAdminCreateAccount(id) \/ CreateAccountFails(id)
        PROVE  SignedInv'
    BY <2>3, CreateStep, CreateFailsStep DEF handleCreateAccount, handleAdminCreateAccount
  <2>4. CASE Clients
    <3>1. PICK key \in Holders, signer \in Ids, age \in Ages, kind \in Kinds :
              \E from \in IF kind \in TwoParty \cup OneParty THEN Ids ELSE {NoId},
                 to \in IF kind \in TwoParty THEN Ids ELSE {NoId} :
                 \/ /\ kind \in Reads
                    /\ ClientRead(Envelope(kind, from, to, 0, signer, key, age))
                 \/ /\ kind \in Spending
                    /\ \E nonce \in Nonces :
                          \/ ClientRequest(Envelope(kind, from, to, nonce, signer, key, age))
                          \/ ClientBegin(Envelope(kind, from, to, nonce, signer, key, age))
      BY <2>4, Zenon DEF Clients
    <3>2. \A from, to, nonce : Envelope(kind, from, to, nonce, signer, key, age).payload.kind = kind
      BY DEF Envelope
    <3>3. ASSUME NEW e, ClientRead(e) PROVE SignedInv'
      BY <3>3, StutterStep DEF ClientRead
    <3> QED
      BY <3>1, <3>2, <3>3, ClientRequestStep, ClientBeginStep
  <2>5. CASE ToolCalls
    BY <2>5, AskStep, ReadNonceStep, ToolDoneStep, ToolBeginStep, ToolRefusedStep DEF ToolCalls
  <2>6. CASE Undo
    BY <2>6, UndoStep
  <2>7. CASE UNCHANGED vars
    BY <2>7, StutterStep
  <2> QED
    BY <2>1, <2>2, <2>3, <2>4, <2>5, <2>6, <2>7 DEF Next
<1> QED
  BY <1>1, SignedInit, PTL DEF Spec

\* Whatever changed the ledger was signed with the spender's key (Authentic),
\* across any number of restarts.
THEOREM OnlyTheKeyHolderSpends == Spec => []Authentic
<1>1. SignedInv => Authentic
  BY DEF SignedInv, Spent, Authentic
<1> QED
  BY <1>1, SignedInvariant, PTL

\* A signature changes the ledger at most once (OncePerSignature), also when it is
\* sent again within its five minutes to a process that was started anew.
THEOREM NoReplay == Spec => []OncePerSignature
<1>1. SignedInv => OncePerSignature
  BY DEF SignedInv, Spent
<1> QED
  BY <1>1, SignedInvariant, PTL

\* A CA that was completed once is the CA of every later process, and no crash
\* pairs its key with another certificate (CAKept).
THEOREM CAIsKept == Spec => []CAKept
<1>1. SignedInv => CAKept
  BY DEF SignedInv, CAFiles, Accounts, CAKept
<1> QED
  BY <1>1, SignedInvariant, PTL

\* A tool is told of a nonce mismatch only if another request of its account came in
\* between or its account was both parties (MismatchExplained), with any number of
\* tool calls and clients.
THEOREM MismatchHasAReason == Spec => []MismatchExplained
<1>1. SignedInv => MismatchExplained
  BY DEF SignedInv, NonceRead
<1> QED
  BY <1>1, SignedInvariant, PTL
=============================================================================
