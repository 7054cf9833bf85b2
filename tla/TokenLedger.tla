----------------------------- MODULE TokenLedger -----------------------------
(***************************************************************************)
(* What the ledger promises to someone who never looks inside it: every    *)
(* operation happens at once or not at all.  There are no halves, no       *)
(* rollbacks and no chains here, and no minimum balance: an operation that *)
(* the promise allows may still be refused for want of funds.              *)
(***************************************************************************)
EXTENDS Integers

CONSTANTS
    Ids,       \* account ids
    TokenIds,  \* token ids: records with a minter, a nonce and terms
    Credits    \* amounts an operation may move, of either sign

VARIABLES
    known,   \* the accounts there are
    money,   \* what each account owns
    owned,   \* pairs <<id, t>>: id holds token t
    slots,   \* pairs <<id, t>>: id is ready to be sent token t
    frozen,  \* tokens that are frozen
    sent     \* how many signed operations each account has spent

vars == <<known, money, owned, slots, frozen, sent>>

Init ==
    /\ known = {}
    /\ money = [id \in Ids |-> 0]
    /\ owned = {}
    /\ slots = {}
    /\ frozen = {}
    /\ sent = [id \in Ids |-> 0]

-----------------------------------------------------------------------------
(***************************************************************************)
(* What nobody signs.                                                      *)
(***************************************************************************)
\* Nobody starts with less than nothing.
Create(id, x) ==
    /\ id \notin known
    /\ known' = known \cup {id}
    /\ money' = IF x > 0 THEN [money EXCEPT ![id] = @ + x] ELSE money
    /\ UNCHANGED <<owned, slots, frozen, sent>>

Deposit(id, x) ==
    /\ id \in known
    /\ money' = [money EXCEPT ![id] = @ + x]
    /\ UNCHANGED <<known, owned, slots, frozen, sent>>

\* What nobody asked for: undoing an authorization that was repeated for an open
\* slot closes the slot.
Lapse(slot) ==
    /\ slots' = slots \ {slot}
    /\ UNCHANGED <<known, money, owned, frozen, sent>>

\* The process ends; nothing was stored.
Fail ==
    /\ known' = {}
    /\ money' = [id \in Ids |-> 0]
    /\ owned' = {}
    /\ slots' = {}
    /\ frozen' = {}
    /\ sent' = [id \in Ids |-> 0]

-----------------------------------------------------------------------------
(***************************************************************************)
(* What account id signs for.                                              *)
(***************************************************************************)
Pay(id, to, x) ==
    /\ to \in known \ {id}
    /\ x <= money[id]
    /\ money' = [money EXCEPT ![id] = @ - x, ![to] = @ + x]
    /\ UNCHANGED <<known, owned, slots, frozen>>

\* A token is made once: its number is the one its minter spends on it.
Issue(id, t) ==
    /\ t.minter = id
    /\ t.nonce = sent[id]
    /\ owned' = owned \cup {<<id, t>>}
    /\ UNCHANGED <<known, money, slots, frozen>>

Destroy(id, t) ==
    /\ t.minter = id
    /\ <<id, t>> \in owned
    /\ owned' = owned \ {<<id, t>>}
    /\ frozen' = frozen \ {t}
    /\ UNCHANGED <<known, money, slots>>

\* An account opens or closes a slot for a token another one holds.
HeldByAnother(id, t) == \E holder \in known \ {id} : <<holder, t>> \in owned

Grant(id, t) ==
    /\ slots' = slots \cup {<<id, t>>}
    /\ HeldByAnother(id, t)
    /\ UNCHANGED <<known, money, owned, frozen>>

Revoke(id, t) ==
    /\ <<id, t>> \in slots
    /\ slots' = slots \ {<<id, t>>}
    /\ HeldByAnother(id, t)
    /\ UNCHANGED <<known, money, owned, frozen>>

Move(id, to, t) ==
    /\ <<id, t>> \in owned
    /\ t \notin frozen
    /\ <<to, t>> \in slots
    /\ owned' = (owned \ {<<id, t>>}) \cup {<<to, t>>}
    /\ slots' = slots \ {<<to, t>>}
    /\ UNCHANGED <<known, money, frozen>>

\* The clawback authority takes a token from its holder, frozen or not.
Seize(id, from, t) ==
    /\ t.terms.clawback = id
    /\ from # id
    /\ <<from, t>> \in owned
    /\ <<id, t>> \notin slots
    /\ owned' = (owned \ {<<from, t>>}) \cup {<<id, t>>}
    /\ UNCHANGED <<known, money, slots, frozen>>

\* The freeze authority freezes and thaws tokens that others hold.
Freeze(id, t) ==
    /\ t.terms.freeze = id
    /\ t \notin frozen
    /\ HeldByAnother(id, t)
    /\ frozen' = frozen \cup {t}
    /\ UNCHANGED <<known, money, owned, slots>>

Thaw(id, t) ==
    /\ t.terms.freeze = id
    /\ t \in frozen
    /\ HeldByAnother(id, t)
    /\ frozen' = frozen \ {t}
    /\ UNCHANGED <<known, money, owned, slots>>

\* Each uses up one of id's numbers.
Signed(id) ==
    /\ id \in known
    /\ sent' = [sent EXCEPT ![id] = @ + 1]
    /\ \/ \E to \in Ids, x \in Credits : Pay(id, to, x)
       \/ \E t \in TokenIds :
             \/ Issue(id, t) \/ Destroy(id, t)
             \/ Grant(id, t) \/ Revoke(id, t)
             \/ Freeze(id, t) \/ Thaw(id, t)
             \/ \E other \in Ids : Move(id, other, t) \/ Seize(id, other, t)

Next ==
    \/ \E id \in Ids, x \in Credits : Create(id, x) \/ Deposit(id, x)
    \/ \E slot \in slots : Lapse(slot)
    \/ \E id \in Ids : Signed(id)
    \/ Fail

Spec == Init /\ [][Next]_vars
=============================================================================
