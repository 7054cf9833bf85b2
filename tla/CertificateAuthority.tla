------------------------ MODULE CertificateAuthority ------------------------
(***************************************************************************)
(* The certificate authority and the files it keeps: internal/ca.          *)
(*                                                                         *)
(* A process starts with NewCA, which loads the CA's key and certificate   *)
(* when both files exist and otherwise makes new ones.  os.WriteFile       *)
(* creates or truncates a file and then writes it, so a process that dies  *)
(* in between leaves the file empty.  A key pair and everything signed     *)
(* with it is named by its generation: 1, 2, ...  An account's id is the   *)
(* hash of its public key, so an id also names the account's key.          *)
(***************************************************************************)
EXTENDS Integers

CONSTANTS
    Ids,       \* accounts, named by their keys
    MaxGen     \* bound: how many CA key pairs are made; the last one is saved

ASSUME GenAssumption == MaxGen \in Nat \ {0}

VARIABLES
    keyFile,      \* ca.key:  Missing, Torn or a generation
    certFile,     \* ca.crt:  likewise
    proc,         \* what the process is doing
    caKey,        \* CA.privateKey and publicKey of the process
    caCert,       \* CA.certificate of the process
    creds,        \* bin/accounts/<id>: nothing, an incomplete set of files, or all
    gen,          \* key pairs made so far
    established   \* history: the first CA whose files were completed

caVars == <<keyFile, certFile, proc, caKey, caCert, creds, gen, established>>

Missing == 0
Torn    == -1
Saving  == {"open_key", "write_key", "open_cert", "write_cert"}

CAInit ==
    /\ keyFile = Missing /\ certFile = Missing
    /\ proc = "down"
    /\ caKey = 0 /\ caCert = 0
    /\ creds = [id \in Ids |-> "none"]
    /\ gen = 0
    /\ established = 0

-----------------------------------------------------------------------------
CAExists == keyFile # Missing /\ certFile # Missing

\* LoadCA reads and decodes both files; an empty file is an error.
load ==
    /\ proc = "down" /\ CAExists
    /\ keyFile # Torn /\ certFile # Torn
    /\ caKey' = keyFile
    /\ caCert' = certFile
    /\ proc' = "up"
    /\ UNCHANGED <<keyFile, certFile, creds, gen, established>>

\* NewCA returns the error and main exits; nothing on the disk changes.
LoadFails ==
    /\ proc = "down" /\ CAExists
    /\ keyFile = Torn \/ certFile = Torn
    /\ UNCHANGED caVars

\* A new key pair and certificate; SaveCA is next.
bootstrap ==
    /\ proc = "down" /\ ~CAExists
    /\ gen < MaxGen
    /\ gen' = gen + 1
    /\ caKey' = gen + 1
    /\ caCert' = gen + 1
    /\ proc' = "open_key"
    /\ UNCHANGED <<keyFile, certFile, creds, established>>

\* Mutant of SaveKey: a key that is already there is not overwritten.
SaveKeyOnce ==
    \/ /\ proc = "open_key"
       /\ proc' = IF keyFile = Missing THEN "write_key" ELSE "open_cert"
       /\ keyFile' = IF keyFile = Missing THEN Torn ELSE keyFile
       /\ UNCHANGED <<certFile, caKey, caCert, creds, gen, established>>
    \/ /\ proc = "write_key"
       /\ proc' = "open_cert"
       /\ keyFile' = caKey
       /\ UNCHANGED <<certFile, caKey, caCert, creds, gen, established>>

\* SaveCA: the private key first ...
SaveKey ==
    /\ \/ proc = "open_key"  /\ proc' = "write_key" /\ keyFile' = Torn
       \/ proc = "write_key" /\ proc' = "open_cert" /\ keyFile' = caKey
    /\ UNCHANGED <<certFile, caKey, caCert, creds, gen, established>>

\* ... then the certificate; then NewCA returns.
SaveCert ==
    /\ \/ proc = "open_cert"  /\ proc' = "write_cert" /\ certFile' = Torn /\ UNCHANGED established
       \/ /\ proc = "write_cert" /\ proc' = "up" /\ certFile' = caCert
          /\ established' = IF established = 0 THEN caCert ELSE established
    /\ UNCHANGED <<keyFile, caKey, caCert, creds, gen>>

\* The process ends: killed, or after an error of SaveCA.
Crash ==
    /\ proc # "down"
    /\ proc \in Saving => gen < MaxGen
    /\ proc' = "down"
    /\ caKey' = 0 /\ caCert' = 0
    /\ UNCHANGED <<keyFile, certFile, creds, gen, established>>

\* CreateAccountCredentials: a new key pair, a certificate issued by the CA, and
\* three files.  x509 refuses to sign with a key that is not the certificate's.
CreateAccountCredentials(id) ==
    /\ proc = "up" /\ caKey = caCert
    /\ creds[id] = "none"
    /\ creds' = [creds EXCEPT ![id] = "full"]
    /\ UNCHANGED <<keyFile, certFile, proc, caKey, caCert, gen, established>>

\* One of SaveAccountCredentials' writes fails after the private key's.
SaveAccountCredentialsFails(id) ==
    /\ proc = "up" /\ caKey = caCert
    /\ creds[id] = "none"
    /\ creds' = [creds EXCEPT ![id] = "partial"]
    /\ UNCHANGED <<keyFile, certFile, proc, caKey, caCert, gen, established>>

\* The steps of a start.
NewCA == load \/ LoadFails \/ bootstrap \/ SaveKey \/ SaveCert

CATypeOK ==
    /\ keyFile \in -1 .. MaxGen /\ certFile \in -1 .. MaxGen
    /\ proc \in {"down", "up"} \cup Saving
    /\ caKey \in 0 .. MaxGen /\ caCert \in 0 .. MaxGen
    /\ creds \in [Ids -> {"none", "partial", "full"}]
    /\ gen \in 0 .. MaxGen /\ established \in 0 .. MaxGen
=============================================================================
