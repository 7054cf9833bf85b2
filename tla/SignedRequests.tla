--------------------------- MODULE SignedRequests ---------------------------
(***************************************************************************)
(* Who may do what: signing (crypto/signer.go, the MCP tools), the checks  *)
(* the server makes before it calls the ledger (crypto/verifiable.go,      *)
(* verifier.go, the Verify method of every request) and the ledger's nonce *)
(* check, on top of the certificate authority.                             *)
(*                                                                         *)
(* An envelope is a payload and a signature.  A signature records the id   *)
(* its maker wrote into it, the key it was really made with, and its age   *)
(* when it is verified: negative if the maker's clock was ahead.           *)
(* Ed25519, SHA-1 and X.509 are taken as sound: a signature verifies under *)
(* exactly the key that made it.  A payload has the ids the code compares: *)
(* `from' is its first account field and `to' its second.                  *)
(*                                                                         *)
(* Clients sign what they like when they like and send it as often as they *)
(* like, at once or later, so an envelope is not part of the state before  *)
(* the server serves it.  A request that is refused changes nothing in the *)
(* end, but one that the second account refuses has advanced the nonce of  *)
(* the first until it is undone, and an MCP tool reads nonces in a         *)
(* goroutine of its own.                                                   *)
(***************************************************************************)
EXTENDS CertificateAuthority, FiniteSets

CONSTANTS
    NoId,        \* the empty string in an id field
    Kinds,       \* the kinds of request that clients send
    ToolKinds,   \* the kinds of request that MCP tools are asked for
    Tools,       \* concurrent calls of MCP tools
    Ages,        \* how old, in minutes, signatures are when they are verified
    MaxTotal     \* bound: operations applied

ASSUME AgesAssumption  == Ages \subseteq Int
ASSUME TotalAssumption == MaxTotal \in Nat

VARIABLES
    ledger,    \* App.accounts: Gone, or the account's nonce
    flight,    \* the account whose nonce an operation has advanced that will be undone
    issuer,    \* the CA generation that issued each account's certificate
    tool,      \* each MCP tool call: where it is, what it was asked, the nonce it read
    applied,   \* history: the signed payloads whose operation changed the ledger
    total,     \* history: how many times an operation changed the ledger
    raced      \* history: the tool calls that another request of their account overtook

ledgerVars == <<ledger, flight, issuer, tool, applied, total, raced>>
vars == <<caVars, ledgerVars>>

Gone     == -1
Live     == {id \in Ids : ledger[id] # Gone}
Idle     == [at |-> "idle", signer |-> NoId,
             payload |-> [kind |-> "none", from |-> NoId, to |-> NoId, nonce |-> 0]]

Init ==
    /\ CAInit
    /\ ledger = [id \in Ids |-> Gone]
    /\ issuer = [id \in Ids |-> 0]
    /\ tool = [t \in Tools |-> Idle]
    /\ applied = {}
    /\ total = 0
    /\ flight = NoId
    /\ raced = {}

-----------------------------------------------------------------------------
(***************************************************************************)
(* verifier.go                                                             *)
(***************************************************************************)
\* resolveSigner: the certificate's issuer and its key.  The CA's own id is the
\* hash of the key in its certificate; any other must be an account.
Resolves(sig)     == sig.signer = caCert \/ sig.signer \in Live
IssuerOf(sig)     == IF sig.signer = caCert THEN caCert ELSE issuer[sig.signer]
VerifyCertificate(sig) == IssuerOf(sig) = caCert

\* VerifySignature and VerifyAccountID: the certificate's key made the signature,
\* and the id written into it is that key's.
VerifySignature(sig)   == sig.key = sig.signer

\* VerifyTimestamp: at most a minute ahead and at most five old.
DefaultTimestampWindow == 5
VerifyTimestamp(sig)   == -1 <= sig.age /\ sig.age <= DefaultTimestampWindow

VerifyEnvelopeData(sig) ==
    /\ Resolves(sig)
    /\ VerifyCertificate(sig)
    /\ VerifySignature(sig)
    /\ VerifyTimestamp(sig)

\* VerifyRequest: the envelope, and that it was signed by whom the request expects.
\* The request's own fields are copies of the payload's (client.go), so its third
\* check, verifyData, compares the payload with itself.
VerifyRequest(e, expectedSignerID) ==
    /\ VerifyEnvelopeData(e.sig)
    /\ e.sig.signer = expectedSignerID

(***************************************************************************)
(* requests.go: the Verify methods, by the signer they expect.             *)
(***************************************************************************)
VerifyCreateAccount(e) == VerifyRequest(e, caKey)
VerifyGetAccount(e)    == VerifyRequest(e, e.payload.from)
VerifyTransfer(e)      == VerifyRequest(e, e.payload.from)
VerifyMintToken(e)     == VerifyRequest(e, e.sig.signer)
VerifyTransferToken(e) == VerifyRequest(e, e.payload.from)
VerifyAuthorizeTokenTransfer(e)   == VerifyRequest(e, e.payload.from)
VerifyUnauthorizeTokenTransfer(e) == VerifyRequest(e, e.payload.from)
VerifyBurnToken(e)     == VerifyRequest(e, e.payload.from)

\* Mutant of VerifyClawbackToken: signed by the holder, not by the authority.
VerifyClawbackByHolder(e) == VerifyRequest(e, e.payload.from)

VerifyClawbackToken(e) == VerifyRequest(e, e.payload.to)

VerifySubscribeEvents(e) == VerifyRequest(e, e.payload.from)
VerifyFreezeToken(e)     == VerifyRequest(e, e.payload.from)
VerifyUnfreezeToken(e)   == VerifyRequest(e, e.payload.from)

\* Any account may look into any other: the signer is whoever signed.
VerifyLookupToken(e)     == VerifyRequest(e, e.sig.signer)

Verify(e) ==
    CASE e.payload.kind = "CreateAccount"   -> VerifyCreateAccount(e)
      [] e.payload.kind = "GetAccount"      -> VerifyGetAccount(e)
      [] e.payload.kind = "Transfer"        -> VerifyTransfer(e)
      [] e.payload.kind = "MintToken"       -> VerifyMintToken(e)
      [] e.payload.kind = "TransferToken"   -> VerifyTransferToken(e)
      [] e.payload.kind = "AuthorizeTokenTransfer"   -> VerifyAuthorizeTokenTransfer(e)
      [] e.payload.kind = "UnauthorizeTokenTransfer" -> VerifyUnauthorizeTokenTransfer(e)
      [] e.payload.kind = "BurnToken"       -> VerifyBurnToken(e)
      [] e.payload.kind = "ClawbackToken"   -> VerifyClawbackToken(e)
      [] e.payload.kind = "SubscribeEvents" -> VerifySubscribeEvents(e)
      [] e.payload.kind = "FreezeToken"     -> VerifyFreezeToken(e)
      [] e.payload.kind = "UnfreezeToken"   -> VerifyUnfreezeToken(e)
      [] e.payload.kind = "LookupToken"     -> VerifyLookupToken(e)

(***************************************************************************)
(* client.go and the ledger's part                                         *)
(***************************************************************************)
TwoParty == {"Transfer", "TransferToken", "AuthorizeTokenTransfer", "UnauthorizeTokenTransfer",
             "ClawbackToken", "FreezeToken", "UnfreezeToken"}
Reads    == {"GetAccount", "SubscribeEvents", "LookupToken"}
OneParty == Reads \cup {"BurnToken"}
Spending == TwoParty \cup {"BurnToken", "MintToken"}

\* Clients and tools send the requests of these kinds; accounts are created by
\* requests of their own.
ASSUME KindsAssumption ==
    /\ Kinds \subseteq Spending \cup Reads
    /\ ToolKinds \subseteq Spending

ASSUME NoIdAssumption == NoId \notin Ids

\* The client parses the ids of a payload before it sends anything.
Parses(p) ==
    /\ p.kind \in TwoParty \cup OneParty => p.from # NoId
    /\ p.kind \in TwoParty => p.to # NoId

\* The account whose nonce the ledger compares and advances (app.go).
Spender(e) ==
    CASE e.payload.kind = "MintToken"     -> e.sig.signer
      [] e.payload.kind = "ClawbackToken" -> e.payload.to
      [] OTHER                            -> e.payload.from

\* Both accounts exist, and nobody sends money to himself.
KnownParties(p) ==
    /\ p.kind \in TwoParty => {p.from, p.to} \subseteq Live
    /\ p.kind = "Transfer" => p.from # p.to

\* What identifies a signed request: Ed25519 is deterministic, and a signature's
\* timestamp is not among the bytes that are signed.
Signed(e) == [payload |-> e.payload, sig |-> [signer |-> e.sig.signer, key |-> e.sig.key]]

Current(e) == e.payload.nonce = ledger[Spender(e)]

\* The server's one goroutine is free, and neither the client nor Verify nor the
\* ledger's first lookups object.
Acceptable(e) ==
    /\ proc = "up" /\ flight = NoId
    /\ Parses(e.payload)
    /\ Verify(e)
    /\ KnownParties(e.payload)
    /\ Spender(e) \in Live

\* The operations that advance the spender's nonce in the first of their two
\* appends.  In the second one they are undone if the other account refuses; when
\* the two accounts are one, it takes the sender's branch again and the nonce it
\* compares is one too high.
SpendFirst   == TwoParty \ {"Transfer", "ClawbackToken"}
SelfParty(p) == p.kind \in TwoParty /\ p.from = p.to

\* The tools that are working with a nonce of account `id' when it changes.
Overtaken(id) == {t \in Tools : tool[t].at \in {"asked", "read"} /\ tool[t].signer = id}

\* Mutant of Execute: any nonce will do.
ExecuteAnyNonce(e) ==
    /\ Acceptable(e) /\ ~SelfParty(e.payload)
    /\ total < MaxTotal
    /\ ledger' = [ledger EXCEPT ![Spender(e)] = @ + 1]
    /\ applied' = applied \cup {Signed(e)}
    /\ total' = total + 1
    /\ UNCHANGED <<caVars, flight, issuer>>

\* handleRequest, when neither it nor the ledger finds a reason to refuse.  What
\* the ledger may still object to (funds, tokens, slots) is the subject of App; to
\* one account as both parties it always objects, if only in the second append.
Execute(e) ==
    /\ Acceptable(e) /\ Current(e) /\ ~SelfParty(e.payload)
    /\ total < MaxTotal
    /\ ledger' = [ledger EXCEPT ![Spender(e)] = @ + 1]
    /\ applied' = applied \cup {Signed(e)}
    /\ total' = total + 1
    /\ UNCHANGED <<caVars, flight, issuer>>

\* handleRequest up to a second append that will fail: the nonce is one higher.
Begin(e) ==
    /\ Acceptable(e) /\ Current(e)
    /\ e.payload.kind \in SpendFirst
    /\ ledger' = [ledger EXCEPT ![Spender(e)] = @ + 1]
    /\ flight' = Spender(e)
    /\ UNCHANGED <<caVars, issuer, applied, total>>

\* What the second append answers when it refuses.
SecondRefusal(p) == IF SelfParty(p) THEN "mismatch" ELSE "refused"

\* rollbacklatestTransaction takes the nonce back, and the caller is answered.
Undo ==
    /\ flight # NoId
    /\ ledger' = [ledger EXCEPT ![flight] = @ - 1]
    /\ flight' = NoId
    /\ tool' = [t \in Tools |->
                   IF tool[t].at = "sent" THEN [tool[t] EXCEPT !.at = SecondRefusal(tool[t].payload)]
                                          ELSE tool[t]]
    /\ UNCHANGED <<caVars, issuer, applied, total, raced>>

-----------------------------------------------------------------------------
(***************************************************************************)
(* Requests of clients                                                     *)
(***************************************************************************)
Envelope(kind, from, to, nonce, signer, key, age) ==
    [payload |-> [kind |-> kind, from |-> from, to |-> to, nonce |-> nonce],
     sig     |-> [signer |-> signer, key |-> key, age |-> age]]

\* The create_account tool and the terminal UI sign with the CA's key.
create_account == Envelope("CreateAccount", NoId, NoId, 0, caKey, caKey, 0)

handleCreateAccount(id) ==
    /\ flight = NoId
    /\ VerifyCreateAccount(create_account)
    /\ CreateAccountCredentials(id)
    /\ ledger' = [ledger EXCEPT ![id] = 0]
    /\ issuer' = [issuer EXCEPT ![id] = caCert]
    /\ UNCHANGED <<flight, tool, applied, total, raced>>

\* handleAdminCreateAccount: the same without a signature.
handleAdminCreateAccount(id) ==
    /\ flight = NoId
    /\ CreateAccountCredentials(id)
    /\ ledger' = [ledger EXCEPT ![id] = 0]
    /\ issuer' = [issuer EXCEPT ![id] = caCert]
    /\ UNCHANGED <<flight, tool, applied, total, raced>>

\* The files could not be written: the request fails before the ledger is told.
CreateAccountFails(id) ==
    /\ flight = NoId
    /\ SaveAccountCredentialsFails(id)
    /\ UNCHANGED ledgerVars

ClientRequest(e) ==
    /\ Execute(e)
    /\ raced' = raced \cup Overtaken(Spender(e))
    /\ UNCHANGED tool

\* A client's request is refused by the second account.
ClientBegin(e) ==
    /\ Begin(e)
    /\ raced' = raced \cup Overtaken(Spender(e))
    /\ UNCHANGED tool

\* handleGetAccount, handleTokenLookup and eventHandler.Subscribe: verified, and
\* answered without any change.
ClientRead(e) ==
    /\ proc = "up" /\ flight = NoId
    /\ Parses(e.payload)
    /\ Verify(e)
    /\ UNCHANGED vars

(***************************************************************************)
(* The MCP tools: what is signed and by whom when `self' asks for an       *)
(* operation with `other'.  The transfer tool leaves From empty.           *)
(***************************************************************************)
Asked(kind, from, to, nonce) == [kind |-> kind, from |-> from, to |-> to, nonce |-> nonce]

transfer(self, other, n)       == Asked("Transfer", NoId, other, n)
mint_token(self, other, n)     == Asked("MintToken", NoId, NoId, n)
authorize_token_transfer(self, other, n)   == Asked("AuthorizeTokenTransfer", self, other, n)
unauthorize_token_transfer(self, other, n) == Asked("UnauthorizeTokenTransfer", self, other, n)
transfer_token(self, other, n) == Asked("TransferToken", self, other, n)
burn_token(self, other, n)     == Asked("BurnToken", self, NoId, n)
clawback_token(self, other, n) == Asked("ClawbackToken", other, self, n)
freeze_token(self, other, n)   == Asked("FreezeToken", self, other, n)
unfreeze_token(self, other, n) == Asked("UnfreezeToken", self, other, n)

ToolPayload(kind, self, other, n) ==
    CASE kind = "Transfer"       -> transfer(self, other, n)
      [] kind = "MintToken"      -> mint_token(self, other, n)
      [] kind = "AuthorizeTokenTransfer"   -> authorize_token_transfer(self, other, n)
      [] kind = "UnauthorizeTokenTransfer" -> unauthorize_token_transfer(self, other, n)
      [] kind = "TransferToken"  -> transfer_token(self, other, n)
      [] kind = "BurnToken"      -> burn_token(self, other, n)
      [] kind = "ClawbackToken"  -> clawback_token(self, other, n)
      [] kind = "FreezeToken"    -> freeze_token(self, other, n)
      [] kind = "UnfreezeToken"  -> unfreeze_token(self, other, n)

\* createSignedEnvelope: with the account's files, which must all be readable.
createSignedEnvelope(self, payload, age) ==
    [payload |-> payload, sig |-> [signer |-> self, key |-> self, age |-> age]]
HasCredentials(self) == creds[self] = "full"

\* A tool is called and asks for the account, signed; the answer is a pointer to it.
getAccountNonce(t, kind, self, other) ==
    /\ tool[t].at = "idle"
    /\ HasCredentials(self)
    /\ Acceptable(createSignedEnvelope(self, Asked("GetAccount", self, NoId, 0), 0))
    /\ tool' = [tool EXCEPT ![t] = [at |-> "asked", signer |-> self,
                                    payload |-> ToolPayload(kind, self, other, 0)]]
    /\ UNCHANGED <<caVars, ledger, flight, issuer, applied, total, raced>>

\* Mutant of GetNonce: the nonce after the next one.
NonceAhead(t) ==
    /\ tool[t].at = "asked"
    /\ tool' = [tool EXCEPT ![t].at = "read", ![t].payload.nonce = ledger[tool[t].signer] + 1]
    /\ UNCHANGED <<caVars, ledger, flight, issuer, applied, total, raced>>

\* The tool's goroutine reads the nonce from the account itself, also while the
\* server is in the middle of an operation.
GetNonce(t) ==
    /\ tool[t].at = "asked"
    /\ tool' = [tool EXCEPT ![t].at = "read", ![t].payload.nonce = ledger[tool[t].signer]]
    /\ UNCHANGED <<caVars, ledger, flight, issuer, applied, total, raced>>

ToolEnvelope(t, age) == createSignedEnvelope(tool[t].signer, tool[t].payload, age)

\* The tool signs its request and sends it, and the operation is done.
ToolDone(t, age) ==
    /\ tool[t].at = "read"
    /\ Execute(ToolEnvelope(t, age))
    /\ tool' = [tool EXCEPT ![t].at = "done"]
    /\ raced' = raced \cup (Overtaken(tool[t].signer) \ {t})

\* Or the second account will refuse it.
ToolBegin(t, age) ==
    /\ tool[t].at = "read"
    /\ Begin(ToolEnvelope(t, age))
    /\ tool' = [tool EXCEPT ![t].at = "sent"]
    /\ raced' = raced \cup (Overtaken(tool[t].signer) \ {t})

\* Or nothing changes: the client cannot parse the ids, the nonce is not the
\* account's, or the server or the first account refuses for another reason.
Refusals(e) ==
    IF ~Parses(e.payload) THEN {"unparsable"}
    ELSE {"refused"} \cup (IF Acceptable(e) /\ ~Current(e) THEN {"mismatch"} ELSE {})

ToolRefused(t, age) ==
    /\ tool[t].at = "read" /\ flight = NoId
    /\ \E answer \in Refusals(ToolEnvelope(t, age)) : tool' = [tool EXCEPT ![t].at = answer]
    /\ UNCHANGED <<caVars, ledger, flight, issuer, applied, total, raced>>

-----------------------------------------------------------------------------
\* The ledger and the tools' calls are not stored anywhere.
ProcessEnds ==
    /\ Crash
    /\ ledger' = [id \in Ids |-> Gone]
    /\ flight' = NoId
    /\ tool' = [t \in Tools |-> Idle]
    /\ raced' = {}
    /\ UNCHANGED <<issuer, applied, total>>

\* A client holds the key of an account that was made for it; it may put any id
\* into its signature and any ids into its payload.
Holders == {id \in Ids : creds[id] = "full"}
Nonces  == 0 .. MaxTotal

Clients ==
    /\ proc = "up"
    /\ \E key \in Holders, signer \in Ids, age \in Ages, kind \in Kinds :
        \E from \in IF kind \in TwoParty \cup OneParty THEN Ids ELSE {NoId},
           to \in IF kind \in TwoParty THEN Ids ELSE {NoId} :
            \/ /\ kind \in Reads
               /\ ClientRead(Envelope(kind, from, to, 0, signer, key, age))
            \/ /\ kind \in Spending
               /\ \E nonce \in Nonces :
                     LET e == Envelope(kind, from, to, nonce, signer, key, age)
                     IN  ClientRequest(e) \/ ClientBegin(e)

ToolCalls ==
    \E t \in Tools :
        \/ \E kind \in ToolKinds, self, other \in Ids : getAccountNonce(t, kind, self, other)
        \/ GetNonce(t)
        \/ \E age \in Ages \cap Nat : ToolDone(t, age) \/ ToolBegin(t, age) \/ ToolRefused(t, age)

Next ==
    \/ NewCA /\ UNCHANGED ledgerVars
    \/ ProcessEnds
    \/ \E id \in Ids : handleCreateAccount(id) \/ handleAdminCreateAccount(id) \/ CreateAccountFails(id)
    \/ Clients
    \/ ToolCalls
    \/ Undo

Spec == Init /\ [][Next]_vars

-----------------------------------------------------------------------------
\* Every variable keeps its type; no account outlives its process.
TypeOK ==
    /\ CATypeOK
    /\ ledger \in [Ids -> -1 .. MaxTotal + 1]
    /\ flight \in Ids \cup {NoId}
    /\ issuer \in [Ids -> 0 .. MaxGen]
    /\ \A t \in Tools :
          tool[t].at \in {"idle", "asked", "read", "sent", "done", "unparsable", "mismatch", "refused"}
    /\ raced \subseteq Tools
    /\ total \in 0 .. MaxTotal
    /\ Live # {} => proc = "up"

\* Whatever changes the ledger was signed with the key of the account that pays
\* for it: the one whose nonce is used up, whoever the request says it is from.
Authentic == \A e \in applied : e.sig.key = Spender(e)

\* One signature, one change: an envelope that is sent again, also after a restart
\* and within its time window, does not change the ledger a second time.
OncePerSignature == total = Cardinality(applied)

\* A process that is up works with a key and a certificate that belong together and
\* are the ones first completed, however often a start was cut short, and every
\* account of its ledger has a certificate that its verifier accepts.
CAKept ==
    /\ proc = "up" => caKey = established /\ caCert = established
    /\ \A id \in Live : issuer[id] = caCert

\* An MCP tool is told that its nonce is wrong for two reasons only: another
\* request of its account was applied, or begun and undone, after the tool had asked
\* for the account, or the tool was asked for an operation of an account with itself.
MismatchExplained ==
    \A t \in Tools : tool[t].at = "mismatch" => t \in raced \/ SelfParty(tool[t].payload)
=============================================================================
