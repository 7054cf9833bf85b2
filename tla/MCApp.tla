-------------------------------- MODULE MCApp --------------------------------
(***************************************************************************)
(* Instances of the ledger for TLC.                                        *)
(***************************************************************************)
EXTENDS AppRefinement

CONSTANTS a, b, c

PlainTerms    == [clawback |-> None, freeze |-> None]
RegulatedBy(id) == [clawback |-> id, freeze |-> id]

\* A token nobody controls, and one that c may freeze and claw back.
TwoKinds   == {PlainTerms, RegulatedBy(c)}
Regulated  == {RegulatedBy(c)}
RegulatedB == {RegulatedBy(b)}
Plain      == {PlainTerms}

\* An amount, and one with the wrong sign.
GiveAndTake == {6, -6}

\* The part of the state the operations depend on.  A chain is read only to
\* compare its last block with the transaction being undone, so two states that
\* differ in older blocks have the same future up to their chains.
LedgerView ==
    <<created,
      [id \in Ids |-> <<accounts[id].balance, accounts[id].mbr, accounts[id].nonce, accounts[id].store>>],
      op,
      [id \in Ids |-> <<before[id].balance, before[id].mbr, before[id].nonce, before[id].store>>],
      op.phase = "rollback" => IsLatest(accounts[op.trx.sender], op.trx)>>
=============================================================================
