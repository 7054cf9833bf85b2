-------------------------------- MODULE MCTUI --------------------------------
(***************************************************************************)
(* An instance of the terminal UI for TLC.                                 *)
(***************************************************************************)
EXTENDS TUI

\* The second token has other authorities than the first.
Clawbacks == [t \in Tokens |-> IF t = 1 THEN 1 ELSE None]
Freezers  == [t \in Tokens |-> t]

\* The fields a screen can read: every other one is assigned on the way to the
\* screen that reads it, so states that differ in it have the same future.
SendFields  == {"sendStep", "sendFromIndex", "sendToIndex", "text"}
TokenFields == {"tokenStep", "tokenAccountIndex", "tokenToAccountIndex", "tokenSourceIndex",
                "tokenClawbackIndex", "tokenFreezeIndex", "tokenTokenIndex", "text"}

Fields ==
    {"view", "menuCursor"}
      \cup CASE m.view = "ViewMenu"          -> {}
             [] m.view = "ViewVirtualNodes"  -> {}
             [] m.view = "ViewCreateAccount" -> {"createAccountFocus", "text"}
             [] m.view = "ViewSendMoney"     -> {"cachedAccounts"} \cup SendFields
             [] m.view = "ViewTokenMenu"     -> {"tokenMenuCursor"}
             [] m.view \in {"ViewAccountDetail", "ViewAccountDetailSingle", "ViewTransactionDetail"} ->
                  {"cachedAccounts", "selectedAccountIndex", "selectedTransactionIndex"}
             [] OTHER -> {"cachedAccounts", "cachedTokens", "tokenMenuCursor"} \cup TokenFields

ScreenView == <<status, known, [f \in Fields |-> m[f]], IF "cachedTokens" \in Fields THEN origin ELSE None>>
=============================================================================
