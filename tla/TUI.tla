--------------------------------- MODULE TUI ---------------------------------
(***************************************************************************)
(* The terminal UI (internal/tui): a Model, updated by one key at a time   *)
(* and drawn again after every key.                                        *)
(*                                                                         *)
(* update.go works with positions in two lists it keeps, cachedAccounts    *)
(* and cachedTokens; view.go draws the lists again and marks the position. *)
(* A position that is beyond its list when it is used is a Go panic, which *)
(* Bubble Tea turns into the end of the UI.  Other transports go on        *)
(* working meanwhile: accounts appear (they never go away), tokens come,   *)
(* go and are frozen, chains grow and shrink.  So what GetTokens and       *)
(* GetBlocks find at a key press is any set of tokens and any length.      *)
(*                                                                         *)
(* Left out: sizes, scrolling, names, styles and wording.  Unfreeze Token  *)
(* and Lookup Token are listed by the token menu but cannot be selected    *)
(* (tokenMenuItemCount is 8), so their screens do not occur.               *)
(***************************************************************************)
EXTENDS Naturals, SequencesExt

CONSTANTS
    Ids,              \* account ids; numbers, in the order of the ids as strings
    Tokens,           \* tokens; numbers, in the order of their ids
    ClawbackAddress,  \* per token, an id or None
    FreezeAddress,    \* per token, an id or None
    None,
    OutOfRange,       \* what an index beyond its list gives
    MaxTransactions   \* bound: the transactions of one account that are looked at

ASSUME OrderAssumption == Ids \subseteq Nat /\ Tokens \subseteq Nat
ASSUME FiniteAssumption == IsFiniteSet(Ids) /\ IsFiniteSet(Tokens)
ASSUME NoneAssumption ==
    /\ None \notin Ids \cup Tokens
    /\ OutOfRange \notin Ids \cup Tokens \cup {None}
ASSUME TermsAssumption ==
    /\ ClawbackAddress \in [Tokens -> Ids \cup {None}]
    /\ FreezeAddress \in [Tokens -> Ids \cup {None}]
ASSUME BoundAssumption == MaxTransactions \in Nat

VARIABLES
    m,        \* the Model
    status,   \* running, quit or panicked
    known,    \* the ledger's accounts
    origin,   \* history: the account cachedTokens was read from
    request   \* history: what the last key sent to the server, or None

vars == <<m, status, known, origin, request>>

\* NewModel
NewModel ==
    [view |-> "ViewMenu", menuCursor |-> 0,
     createAccountFocus |-> 0,
     text |-> "empty",  \* balanceInput, sendAmount or tokenValueInput, whichever is shown
     cachedAccounts |-> << >>, cachedTokens |-> << >>,
     selectedAccountIndex |-> 0, selectedTransactionIndex |-> 0,
     sendStep |-> 0, sendFromIndex |-> 0, sendToIndex |-> 0,
     tokenMenuCursor |-> 0, tokenStep |-> 0, tokenAccountIndex |-> 0,
     tokenToAccountIndex |-> 0, tokenSourceIndex |-> 0, tokenClawbackIndex |-> 0,
     tokenFreezeIndex |-> 0, tokenTokenIndex |-> 0]

Init ==
    /\ m = NewModel
    /\ status = "running"
    /\ known \in SUBSET Ids
    /\ origin = None
    /\ request = None

-----------------------------------------------------------------------------
(***************************************************************************)
(* view.go: whom and what a screen names or marks.                         *)
(***************************************************************************)
Nothing == [first |-> None, second |-> None, token |-> None, clawback |-> None, freeze |-> None]

At(list, i)    == list[i + 1]
Beyond(list, i) == i >= Len(list)

\* A label reads the list at a position; a cursor marks the row that has it, if
\* such a row is drawn.
Label(list, i)          == IF Beyond(list, i) THEN OutOfRange ELSE At(list, i)
Cursor(list, i)         == IF Beyond(list, i) THEN None ELSE At(list, i)
CursorExcept(list, i, hidden) == IF i = hidden THEN None ELSE Cursor(list, i)

viewAccountDetail(s) == [Nothing EXCEPT !.first = Cursor(s.cachedAccounts, s.selectedAccountIndex)]

viewAccountDetailSingle(s) == viewAccountDetail(s)

viewTransactionDetail(s) == viewAccountDetail(s)

viewSendMoney(s) ==
    LET accounts == s.cachedAccounts
    IN  IF Len(accounts) < 2 THEN Nothing
        ELSE [Nothing EXCEPT
                !.first  = IF s.sendStep = 0 THEN Cursor(accounts, s.sendFromIndex)
                                             ELSE Label(accounts, s.sendFromIndex),
                !.second = CASE s.sendStep = 0 -> None
                             [] s.sendStep = 1 ->
                                  CursorExcept(accounts, s.sendToIndex, s.sendFromIndex)
                             [] s.sendStep = 2 -> Label(accounts, s.sendToIndex)]

\* The first row, position 0, is "No clawback" or "No freeze".
viewMintToken(s) ==
    LET accounts == s.cachedAccounts
        Choice(Row(_, _), i) == IF i = 0 THEN None ELSE Row(accounts, i - 1)
    IN  IF accounts = << >> THEN Nothing
        ELSE [Nothing EXCEPT
                !.first    = IF s.tokenStep = 0 THEN Cursor(accounts, s.tokenAccountIndex)
                                                ELSE Label(accounts, s.tokenAccountIndex),
                !.clawback = CASE s.tokenStep < 2 -> None
                               [] s.tokenStep = 2 -> Choice(Cursor, s.tokenClawbackIndex)
                               [] s.tokenStep = 3 -> Choice(Label, s.tokenClawbackIndex),
                !.freeze   = IF s.tokenStep < 3 THEN None ELSE Choice(Cursor, s.tokenFreezeIndex)]

\* Signer, then the other account, then one of that account's tokens.
ViewThreeSteps(s) ==
    LET accounts == s.cachedAccounts
    IN  IF accounts = << >> THEN Nothing
        ELSE [Nothing EXCEPT
                !.first  = IF s.tokenStep = 0 THEN Cursor(accounts, s.tokenAccountIndex)
                                              ELSE Label(accounts, s.tokenAccountIndex),
                !.second = CASE s.tokenStep = 0 -> None
                             [] s.tokenStep = 1 ->
                                  CursorExcept(accounts, s.tokenSourceIndex, s.tokenAccountIndex)
                             [] s.tokenStep = 2 -> Label(accounts, s.tokenSourceIndex),
                !.token  = IF s.tokenStep < 2 THEN None
                           ELSE Cursor(s.cachedTokens, s.tokenTokenIndex)]

viewAuthorizeTokenTransfer(s)   == ViewThreeSteps(s)
viewUnauthorizeTokenTransfer(s) == ViewThreeSteps(s)
viewClawbackToken(s)            == ViewThreeSteps(s)
viewFreezeToken(s)              == ViewThreeSteps(s)

\* An account, then one of its tokens.
ViewTwoSteps(s) ==
    IF s.tokenStep = 0
    THEN [Nothing EXCEPT !.first = Cursor(s.cachedAccounts, s.tokenAccountIndex)]
    ELSE [Nothing EXCEPT !.first = Label(s.cachedAccounts, s.tokenAccountIndex),
                         !.token = Cursor(s.cachedTokens, s.tokenTokenIndex)]

viewBurnToken(s) == IF s.cachedAccounts = << >> THEN Nothing ELSE ViewTwoSteps(s)

viewTokenList(s) == IF s.cachedAccounts = << >> THEN Nothing ELSE ViewTwoSteps(s)

viewTransferToken(s) ==
    IF Len(s.cachedAccounts) < 2 THEN Nothing
    ELSE [ViewTwoSteps(s) EXCEPT
            !.second = IF s.tokenStep < 2 THEN None
                       ELSE CursorExcept(s.cachedAccounts, s.tokenToAccountIndex, s.tokenAccountIndex)]

View(s) ==
    CASE s.view = "ViewAccountDetail"            -> viewAccountDetail(s)
      [] s.view = "ViewAccountDetailSingle"      -> viewAccountDetailSingle(s)
      [] s.view = "ViewTransactionDetail"        -> viewTransactionDetail(s)
      [] s.view = "ViewSendMoney"                -> viewSendMoney(s)
      [] s.view = "ViewMintToken"                -> viewMintToken(s)
      [] s.view = "ViewAuthorizeTokenTransfer"   -> viewAuthorizeTokenTransfer(s)
      [] s.view = "ViewUnauthorizeTokenTransfer" -> viewUnauthorizeTokenTransfer(s)
      [] s.view = "ViewTransferToken"            -> viewTransferToken(s)
      [] s.view = "ViewTokenList"                -> viewTokenList(s)
      [] s.view = "ViewBurnToken"                -> viewBurnToken(s)
      [] s.view = "ViewClawbackToken"            -> viewClawbackToken(s)
      [] s.view = "ViewFreezeToken"              -> viewFreezeToken(s)
      [] OTHER                                   -> Nothing

Draws(s) == LET shown == View(s) IN \A field \in DOMAIN shown : shown[field] # OutOfRange

-----------------------------------------------------------------------------
(***************************************************************************)
(* update.go: what a key does.                                             *)
(***************************************************************************)
Keys == {"up", "down", "enter", "esc", "tab", "shift+tab", "text", "ctrl+c"}

\* Mutant of Move: the cursor goes one row beyond the list.
MovePastEnd(key, i, n) ==
    CASE key = "up" /\ i > 0   -> i - 1
      [] key = "down" /\ i < n -> i + 1
      [] OTHER                 -> i

\* A cursor in a list of n rows.
Move(key, i, n) ==
    CASE key = "up" /\ i > 0       -> i - 1
      [] key = "down" /\ i + 1 < n -> i + 1
      [] OTHER                     -> i

\* A cursor that steps over the row of the account already chosen.
MoveAround(key, i, n, other) ==
    LET next == Move(key, i, n)
        over == Move(key, next, n)
    IN  IF next # other THEN next ELSE IF over # other THEN over ELSE i

\* Mutant of FirstOther: the list starts at its first row, whoever that is.
FirstRow(i) == 0

FirstOther(i) == IF i = 0 THEN 1 ELSE 0

\* The Model is s from now on, and is drawn.
Show(s) ==
    /\ m' = s
    /\ status' = IF Draws(s) THEN "running" ELSE "panicked"

\* A key that sends nothing and refreshes nothing.
Only(s) == Show(s) /\ UNCHANGED <<known, origin>> /\ request' = None

\* The server's lists are sorted by id, and a filter keeps the order.
Sorted(S) ==
    CHOOSE list \in [1 .. Cardinality(S) -> S] :
        \A i, j \in 1 .. Cardinality(S) : i < j => list[i] < list[j]

\* The ledger may not answer; the caller decides what is shown then.
refreshAccounts(s) ==
    /\ Show([s EXCEPT !.cachedAccounts = Sorted(known'), !.cachedTokens = << >>])
    /\ origin' = None

\* Mutant of refreshTokensForIndex: the tokens of the account that signs.
TokensOfSigner(s, idx, live) ==
    IF Beyond(s.cachedAccounts, idx) THEN [tokens |-> << >>, from |-> None]
    ELSE [tokens |-> Sorted(live), from |-> At(s.cachedAccounts, s.tokenAccountIndex)]

\* The tokens the account has just now, in order.
refreshTokensForIndex(s, idx, live) ==
    IF Beyond(s.cachedAccounts, idx) THEN [tokens |-> << >>, from |-> None]
    ELSE [tokens |-> Sorted(live), from |-> At(s.cachedAccounts, idx)]

\* Read the tokens at idx, keep those that Wanted holds of, and go on to the
\* list if there are any.  If there are none what was read stays in the cache.
ListTokens(idx, Wanted(_, _), emptyToo) ==
    \E live, frozen \in SUBSET Tokens :
        LET read     == refreshTokensForIndex(m, idx, live)
            filtered == Sorted({t \in Range(read.tokens) : Wanted(t, t \in frozen)})
        IN  /\ Show(IF filtered # << >> \/ emptyToo
                    THEN [m EXCEPT !.cachedTokens = filtered, !.tokenTokenIndex = 0,
                                   !.tokenStep = @ + 1]
                    ELSE [m EXCEPT !.cachedTokens = read.tokens])
            /\ origin' = read.from
            /\ UNCHANGED known
            /\ request' = None

AnyToken(t, isFrozen) == TRUE

\* An index beyond its list is used: Bubble Tea ends the UI.
Panic ==
    /\ status' = "panicked"
    /\ request' = None
    /\ UNCHANGED <<m, known, origin>>

\* Positions are looked up, credentials are loaded, the payload is signed and
\* sent.  Any of these may fail, and the screen stays.  If the server agrees the
\* lists are read again (an error in that is ignored) and `done' is shown.
Send(what, done) ==
    IF OutOfRange \in Range(what) THEN Panic
    ELSE \/ Only(m)
         \/ /\ UNCHANGED known
            /\ request' = [kind |-> m.view, what |-> what]
            /\ \/ Show(m) /\ UNCHANGED origin
               \/ refreshAccounts(done)
               \/ Show(done) /\ UNCHANGED origin

\* Read the accounts and show s; without an answer show `otherwise'.
RefreshThen(s, otherwise) ==
    /\ UNCHANGED known
    /\ request' = None
    /\ \/ refreshAccounts(s)
       \/ Show(otherwise) /\ UNCHANGED origin

Typing == \E text \in {"empty", "bad", "good"} : Only([m EXCEPT !.text = text])

\* The server makes the account; `done' is shown.
createAccountWithCA(id, done) ==
    \/ Only(m)
    \/ /\ known' = known \cup {id}
       /\ request' = [kind |-> m.view, what |-> Nothing]
       /\ \/ refreshAccounts(done)
          \/ Show(done) /\ UNCHANGED origin

menuItems == 5

updateMenu(key) ==
    /\ m.view = "ViewMenu"
    /\ \/ /\ key \in {"up", "down"}
          /\ Only([m EXCEPT !.menuCursor = Move(key, @, menuItems)])
       \/ /\ key = "enter"
          /\ \/ /\ m.menuCursor = 0
                /\ Only([m EXCEPT !.view = "ViewCreateAccount", !.createAccountFocus = 0,
                                  !.text = "empty"])
             \/ /\ m.menuCursor = 1
                /\ RefreshThen([m EXCEPT !.view = "ViewAccountDetail",
                                         !.selectedAccountIndex = 0], m)
             \/ /\ m.menuCursor = 2
                /\ RefreshThen([m EXCEPT !.view = "ViewSendMoney", !.sendStep = 0,
                                         !.sendFromIndex = 0, !.sendToIndex = 0,
                                         !.text = "empty"], m)
             \/ /\ m.menuCursor = 3
                /\ Only([m EXCEPT !.view = "ViewVirtualNodes"])
             \/ /\ m.menuCursor = 4
                /\ RefreshThen([m EXCEPT !.view = "ViewTokenMenu", !.tokenMenuCursor = 0], m)

\* Fields: balance, name, submit.
updateCreateAccount(key) ==
    /\ m.view = "ViewCreateAccount"
    /\ \/ key = "esc" /\ Only([m EXCEPT !.view = "ViewMenu"])
       \/ key = "tab" /\ Only([m EXCEPT !.createAccountFocus = (@ + 1) % 3])
       \/ key = "shift+tab" /\ Only([m EXCEPT !.createAccountFocus = (@ + 2) % 3])
       \/ key = "text" /\ m.createAccountFocus = 0 /\ Typing
       \/ /\ key = "enter" /\ m.createAccountFocus < 2
          /\ Only([m EXCEPT !.createAccountFocus = @ + 1])
       \/ /\ key = "enter" /\ m.createAccountFocus = 2 /\ m.text = "good"
          /\ \E id \in Ids \ known : createAccountWithCA(id, [m EXCEPT !.view = "ViewMenu"])

updateAccountDetail(key) ==
    LET accounts == m.cachedAccounts
    IN  /\ m.view = "ViewAccountDetail"
        /\ \/ key = "esc" /\ Only([m EXCEPT !.view = "ViewMenu"])
           \/ /\ key \in {"up", "down"}
              /\ Only([m EXCEPT !.selectedAccountIndex = Move(key, @, Len(accounts))])
           \/ /\ key = "enter" /\ accounts # << >>
              /\ IF Beyond(accounts, m.selectedAccountIndex) THEN Panic
                 ELSE \E txCount \in 0 .. MaxTransactions :
                        Only([m EXCEPT !.view = "ViewAccountDetailSingle",
                                       !.selectedTransactionIndex =
                                          IF txCount = 0 THEN 0 ELSE txCount - 1])

\* Transactions are listed from the newest: up is towards higher positions.
updateAccountDetailSingle(key) ==
    /\ m.view = "ViewAccountDetailSingle"
    /\ \E txCount \in 0 .. MaxTransactions :
          \/ key = "esc" /\ Only([m EXCEPT !.view = "ViewAccountDetail"])
          \/ /\ key = "up" /\ m.selectedTransactionIndex + 1 < txCount
             /\ Only([m EXCEPT !.selectedTransactionIndex = @ + 1])
          \/ /\ key = "down" /\ m.selectedTransactionIndex > 0
             /\ Only([m EXCEPT !.selectedTransactionIndex = @ - 1])
          \/ /\ key = "enter" /\ txCount > 0
             /\ Only([m EXCEPT !.view = "ViewTransactionDetail"])

updateTransactionDetail(key) ==
    /\ m.view = "ViewTransactionDetail"
    /\ key = "esc"
    /\ Only([m EXCEPT !.view = "ViewAccountDetailSingle"])

updateSendMoney(key) ==
    LET accounts == m.cachedAccounts
    IN  /\ m.view = "ViewSendMoney"
        /\ \/ /\ key = "esc"
              /\ Only(IF m.sendStep > 0 THEN [m EXCEPT !.sendStep = @ - 1]
                                        ELSE [m EXCEPT !.view = "ViewMenu"])
           \/ /\ m.sendStep = 0
              /\ \/ /\ key \in {"up", "down"}
                    /\ Only([m EXCEPT !.sendFromIndex = Move(key, @, Len(accounts))])
                 \/ /\ key = "enter"
                    /\ Only([m EXCEPT !.sendStep = 1, !.sendToIndex = FirstOther(m.sendFromIndex)])
           \/ /\ m.sendStep = 1
              /\ \/ /\ key \in {"up", "down"}
                    /\ Only([m EXCEPT !.sendToIndex =
                               MoveAround(key, @, Len(accounts), m.sendFromIndex)])
                 \/ /\ key = "enter"
                    /\ Only([m EXCEPT !.sendStep = 2, !.text = "empty"])
           \/ /\ m.sendStep = 2
              /\ \/ key = "text" /\ Typing
                 \/ /\ key = "enter" /\ m.text = "good"
                    /\ Send([Nothing EXCEPT !.first = Label(accounts, m.sendFromIndex),
                                            !.second = Label(accounts, m.sendToIndex)],
                            [m EXCEPT !.view = "ViewMenu", !.sendStep = 0])

updateVirtualNodes(key) ==
    /\ m.view = "ViewVirtualNodes"
    /\ key = "esc"
    /\ Only([m EXCEPT !.view = "ViewMenu"])

tokenMenuItemCount == 8

TokenMenuViews ==
    <<"ViewMintToken", "ViewAuthorizeTokenTransfer", "ViewUnauthorizeTokenTransfer",
      "ViewTransferToken", "ViewTokenList", "ViewBurnToken", "ViewClawbackToken",
      "ViewFreezeToken", "ViewUnfreezeToken", "ViewLookupToken">>

updateTokenMenu(key) ==
    LET reset == [m EXCEPT !.tokenStep = 0, !.tokenAccountIndex = 0, !.tokenToAccountIndex = 0,
                           !.tokenSourceIndex = 0, !.tokenClawbackIndex = 0,
                           !.tokenFreezeIndex = 0, !.tokenTokenIndex = 0]
    IN  /\ m.view = "ViewTokenMenu"
        /\ \/ key = "esc" /\ Only([m EXCEPT !.view = "ViewMenu"])
           \/ /\ key \in {"up", "down"}
              /\ Only([m EXCEPT !.tokenMenuCursor = Move(key, @, tokenMenuItemCount)])
           \/ /\ key = "enter"
              /\ RefreshThen([reset EXCEPT !.view = TokenMenuViews[m.tokenMenuCursor + 1],
                                           !.text = "empty"], reset)

-----------------------------------------------------------------------------
(***************************************************************************)
(* The token screens go forward step by step, and back with esc.           *)
(***************************************************************************)
StepBack(key) ==
    /\ key = "esc"
    /\ Only(IF m.tokenStep > 0 THEN [m EXCEPT !.tokenStep = @ - 1]
                               ELSE [m EXCEPT !.view = "ViewTokenMenu"])

\* Step 0 of every token screen: the cursor in the list of accounts.
PickAccount(key) ==
    /\ m.tokenStep = 0
    /\ key \in {"up", "down"}
    /\ Only([m EXCEPT !.tokenAccountIndex = Move(key, @, Len(m.cachedAccounts))])

PickToken(key) ==
    /\ key \in {"up", "down"}
    /\ Only([m EXCEPT !.tokenTokenIndex = Move(key, @, Len(m.cachedTokens))])

TokenDone == [m EXCEPT !.view = "ViewTokenMenu", !.tokenStep = 0]

updateMintToken(key) ==
    LET accounts == m.cachedAccounts
        Address(i) == IF i = 0 THEN None ELSE Label(accounts, i - 1)
    IN  /\ m.view = "ViewMintToken"
        /\ \/ StepBack(key)
           \/ PickAccount(key)
           \/ /\ m.tokenStep = 0 /\ key = "enter"
              /\ Only([m EXCEPT !.tokenStep = 1, !.text = "empty"])
           \/ /\ m.tokenStep = 1
              /\ \/ key = "text" /\ Typing
                 \/ /\ key = "enter" /\ m.text # "empty"
                    /\ Only([m EXCEPT !.tokenStep = 2, !.tokenClawbackIndex = 0])
           \/ /\ m.tokenStep = 2
              /\ \/ /\ key \in {"up", "down"}
                    /\ Only([m EXCEPT !.tokenClawbackIndex = Move(key, @, Len(accounts) + 1)])
                 \/ /\ key = "enter"
                    /\ Only([m EXCEPT !.tokenStep = 3, !.tokenFreezeIndex = 0])
           \/ /\ m.tokenStep = 3
              /\ \/ /\ key \in {"up", "down"}
                    /\ Only([m EXCEPT !.tokenFreezeIndex = Move(key, @, Len(accounts) + 1)])
                 \/ /\ key = "enter"
                    /\ Send([Nothing EXCEPT !.first = Label(accounts, m.tokenAccountIndex),
                                            !.clawback = Address(m.tokenClawbackIndex),
                                            !.freeze = Address(m.tokenFreezeIndex)],
                            TokenDone)

\* The account that signs, the account that has the token, the token.
ThreeSteps(key, Wanted(_, _)) ==
    LET accounts == m.cachedAccounts
    IN  \/ StepBack(key)
        \/ PickAccount(key)
        \/ /\ m.tokenStep = 0 /\ key = "enter" /\ Len(accounts) >= 2
           /\ Only([m EXCEPT !.tokenStep = 1, !.tokenSourceIndex = FirstOther(m.tokenAccountIndex)])
        \/ /\ m.tokenStep = 1
           /\ \/ /\ key \in {"up", "down"}
                 /\ Only([m EXCEPT !.tokenSourceIndex =
                            MoveAround(key, @, Len(accounts), m.tokenAccountIndex)])
              \/ key = "enter" /\ ListTokens(m.tokenSourceIndex, Wanted, FALSE)
        \/ /\ m.tokenStep = 2
           /\ \/ PickToken(key)
              \/ /\ key = "enter"
                 /\ Send([Nothing EXCEPT !.first = Label(accounts, m.tokenAccountIndex),
                                         !.second = Label(accounts, m.tokenSourceIndex),
                                         !.token = Label(m.cachedTokens, m.tokenTokenIndex)],
                         TokenDone)

Signer == At(m.cachedAccounts, m.tokenAccountIndex)

updateAuthorizeTokenTransfer(key) ==
    /\ m.view = "ViewAuthorizeTokenTransfer"
    /\ ThreeSteps(key, AnyToken)

updateUnauthorizeTokenTransfer(key) ==
    /\ m.view = "ViewUnauthorizeTokenTransfer"
    /\ ThreeSteps(key, AnyToken)

updateClawbackToken(key) ==
    /\ m.view = "ViewClawbackToken"
    /\ ThreeSteps(key, LAMBDA t, isFrozen : ClawbackAddress[t] = Signer)

updateFreezeToken(key) ==
    /\ m.view = "ViewFreezeToken"
    /\ ThreeSteps(key, LAMBDA t, isFrozen : FreezeAddress[t] = Signer /\ ~isFrozen)

updateTransferToken(key) ==
    LET accounts == m.cachedAccounts
    IN  /\ m.view = "ViewTransferToken"
        /\ \/ StepBack(key)
           \/ PickAccount(key)
           \/ m.tokenStep = 0 /\ key = "enter" /\ ListTokens(m.tokenAccountIndex, AnyToken, FALSE)
           \/ /\ m.tokenStep = 1
              /\ \/ PickToken(key)
                 \/ /\ key = "enter"
                    /\ Only([m EXCEPT !.tokenStep = 2,
                                      !.tokenToAccountIndex = FirstOther(m.tokenAccountIndex)])
           \/ /\ m.tokenStep = 2
              /\ \/ /\ key \in {"up", "down"}
                    /\ Only([m EXCEPT !.tokenToAccountIndex =
                               MoveAround(key, @, Len(accounts), m.tokenAccountIndex)])
                 \/ /\ key = "enter"
                    /\ Send([Nothing EXCEPT !.first = Label(accounts, m.tokenAccountIndex),
                                            !.second = Label(accounts, m.tokenToAccountIndex),
                                            !.token = Label(m.cachedTokens, m.tokenTokenIndex)],
                            TokenDone)

updateBurnToken(key) ==
    /\ m.view = "ViewBurnToken"
    /\ \/ StepBack(key)
       \/ PickAccount(key)
       \/ m.tokenStep = 0 /\ key = "enter" /\ ListTokens(m.tokenAccountIndex, AnyToken, FALSE)
       \/ /\ m.tokenStep = 1
          /\ \/ PickToken(key)
             \/ /\ key = "enter"
                /\ Send([Nothing EXCEPT !.first = Label(m.cachedAccounts, m.tokenAccountIndex),
                                        !.token = Label(m.cachedTokens, m.tokenTokenIndex)],
                        TokenDone)

\* An empty list is shown too; going back forgets the position in it.
updateTokenList(key) ==
    /\ m.view = "ViewTokenList"
    /\ \/ m.tokenStep = 0 /\ StepBack(key)
       \/ /\ m.tokenStep = 1 /\ key = "esc"
          /\ Only([m EXCEPT !.tokenStep = 0, !.tokenTokenIndex = 0])
       \/ PickAccount(key)
       \/ m.tokenStep = 0 /\ key = "enter" /\ ListTokens(m.tokenAccountIndex, AnyToken, TRUE)
       \/ m.tokenStep = 1 /\ PickToken(key)

-----------------------------------------------------------------------------
\* ctrl+c anywhere, q in the menu.
Quit ==
    /\ status' = "quit"
    /\ UNCHANGED <<m, known, origin>>
    /\ request' = None

\* A key the screen has no use for changes nothing.
Update(key) ==
    /\ status = "running"
    /\ \/ key = "ctrl+c" /\ Quit
       \/ updateMenu(key)
       \/ updateCreateAccount(key)
       \/ updateAccountDetail(key)
       \/ updateAccountDetailSingle(key)
       \/ updateTransactionDetail(key)
       \/ updateSendMoney(key)
       \/ updateVirtualNodes(key)
       \/ updateTokenMenu(key)
       \/ updateMintToken(key)
       \/ updateAuthorizeTokenTransfer(key)
       \/ updateUnauthorizeTokenTransfer(key)
       \/ updateTransferToken(key)
       \/ updateTokenList(key)
       \/ updateBurnToken(key)
       \/ updateClawbackToken(key)
       \/ updateFreezeToken(key)

\* Another transport creates an account.
CreatedElsewhere(id) ==
    /\ id \notin known
    /\ known' = known \cup {id}
    /\ request' = None
    /\ UNCHANGED <<m, status, origin>>

Next ==
    \/ \E key \in Keys : Update(key)
    \/ \E id \in Ids : CreatedElsewhere(id)

Spec == Init /\ [][Next]_vars

-----------------------------------------------------------------------------
\* With two or more accounts on the screen no key and no redraw uses a position
\* beyond its list, however lists were read again, filtered and gone back from.
\* (With fewer, Send Money, Mint Token and Transfer Token do.)
NoIndexPanic == status = "panicked" => Len(m.cachedAccounts) < 2

\* What a key sends to be signed is what the screen was showing: the accounts
\* and the token that were named or marked, no row that was not drawn, and two
\* different accounts where there are two.
SubmitsWhatIsShown ==
    [][request' # None =>
          /\ request'.what = View(m)
          /\ request'.what.first # None \/ request'.kind = "ViewCreateAccount"
          /\ request'.what.first = request'.what.second => request'.what.first = None]_vars

\* Who the tokens on the screen should belong to.
Source(s) == IF s.view \in {"ViewTransferToken", "ViewBurnToken", "ViewTokenList"}
             THEN View(s).first ELSE View(s).second

\* The tokens offered were read from the account the screen says they are from,
\* and those offered for clawback or freezing are under the authority that will
\* sign, also after going back and choosing another account or authority.
ListedFromSource ==
    LET shown == View(m)
    IN  shown.token # None =>
          /\ origin = Source(m)
          /\ \A t \in Range(m.cachedTokens) :
                /\ m.view = "ViewClawbackToken" => ClawbackAddress[t] = shown.first
                /\ m.view = "ViewFreezeToken" => FreezeAddress[t] = shown.first
=============================================================================
