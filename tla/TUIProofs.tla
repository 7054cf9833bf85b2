------------------------------ MODULE TUIProofs ------------------------------
(***************************************************************************)
(* Theorems about the terminal UI, for any accounts and any tokens that    *)
(* come and go: no key uses a position beyond its list, what is signed is  *)
(* what was on the screen, and the tokens offered are those of the account *)
(* that the screen names.                                                  *)
(***************************************************************************)
EXTENDS TUI, FiniteSetTheorems, WellFoundedInduction, TLAPS

AccountViews == {"ViewAccountDetail", "ViewAccountDetailSingle", "ViewTransactionDetail"}
ThreeViews   == {"ViewAuthorizeTokenTransfer", "ViewUnauthorizeTokenTransfer", "ViewClawbackToken",
                 "ViewFreezeToken"}
TokenViews   == ThreeViews \cup {"ViewMintToken", "ViewTransferToken", "ViewTokenList", "ViewBurnToken"}
Views        == AccountViews \cup TokenViews
                  \cup {"ViewMenu", "ViewCreateAccount", "ViewSendMoney", "ViewVirtualNodes", "ViewTokenMenu"}

Model ==
    [view : Views, menuCursor : 0 .. 4, createAccountFocus : 0 .. 2, text : {"empty", "bad", "good"},
     cachedAccounts : Seq(Ids), cachedTokens : Seq(Tokens),
     selectedAccountIndex : Nat, selectedTransactionIndex : Nat,
     sendStep : 0 .. 2, sendFromIndex : Nat, sendToIndex : Nat,
     tokenMenuCursor : 0 .. 7, tokenStep : 0 .. 3, tokenAccountIndex : Nat,
     tokenToAccountIndex : Nat, tokenSourceIndex : Nat, tokenClawbackIndex : Nat,
     tokenFreezeIndex : Nat, tokenTokenIndex : Nat]

\* A cursor in a list of n rows that may have none, and one that has stepped over
\* the row of the account already chosen.  With a single row that account is the
\* only one, and the cursor is beyond the list.
Within(i, n)       == n = 0 \/ i < n
Other(i, chosen, n) == i # chosen /\ (n < 2 \/ i < n)

Distinct(list) == \A i, j \in 1 .. Len(list) : list[i] = list[j] => i = j

\* The tokens on the screen are those that were read from the account at i.
Offered(s, i, o) ==
    /\ s.tokenTokenIndex < Len(s.cachedTokens)
    /\ i < Len(s.cachedAccounts)
    /\ o = At(s.cachedAccounts, i)

AccountsFit(s) == s.view \in AccountViews => Within(s.selectedAccountIndex, Len(s.cachedAccounts))

SendFits(s) ==
    s.view = "ViewSendMoney" =>
        /\ Within(s.sendFromIndex, Len(s.cachedAccounts))
        /\ s.sendStep >= 1 => Other(s.sendToIndex, s.sendFromIndex, Len(s.cachedAccounts))

SignerFits(s) == s.view \in TokenViews => Within(s.tokenAccountIndex, Len(s.cachedAccounts))

MintFits(s) ==
    s.view = "ViewMintToken" =>
        /\ s.tokenStep >= 2 => s.tokenClawbackIndex <= Len(s.cachedAccounts)
        /\ s.tokenStep >= 3 => s.tokenFreezeIndex <= Len(s.cachedAccounts)

ThreeFit(s, o) ==
    s.view \in ThreeViews =>
        /\ s.tokenStep <= 2
        /\ s.tokenStep >= 1 =>
              /\ Len(s.cachedAccounts) >= 2
              /\ Other(s.tokenSourceIndex, s.tokenAccountIndex, Len(s.cachedAccounts))
        /\ s.tokenStep = 2 =>
              /\ Offered(s, s.tokenSourceIndex, o)
              /\ \A i \in 1 .. Len(s.cachedTokens) :
                    LET t == s.cachedTokens[i]
                        signer == At(s.cachedAccounts, s.tokenAccountIndex)
                    IN  /\ s.view = "ViewClawbackToken" => ClawbackAddress[t] = signer
                        /\ s.view = "ViewFreezeToken" => FreezeAddress[t] = signer

TransferFits(s, o) ==
    s.view = "ViewTransferToken" =>
        /\ s.tokenStep <= 2
        /\ s.tokenStep >= 1 => Offered(s, s.tokenAccountIndex, o)
        /\ s.tokenStep = 2 =>
              Other(s.tokenToAccountIndex, s.tokenAccountIndex, Len(s.cachedAccounts))

BurnFits(s, o) ==
    s.view = "ViewBurnToken" =>
        /\ s.tokenStep <= 1
        /\ s.tokenStep = 1 => Offered(s, s.tokenAccountIndex, o)

ListFits(s, o) ==
    s.view = "ViewTokenList" =>
        /\ s.tokenStep <= 1
        /\ s.tokenStep = 1 => s.cachedTokens = << >> \/ Offered(s, s.tokenAccountIndex, o)

\* The positions that the screen of s reads fit the lists of s, and the tokens of
\* s are from where the screen says.
Fits(s, o) ==
    /\ s \in Model
    /\ Distinct(s.cachedAccounts)
    /\ AccountsFit(s) /\ SendFits(s) /\ SignerFits(s) /\ MintFits(s)
    /\ ThreeFit(s, o) /\ TransferFits(s, o) /\ BurnFits(s, o) /\ ListFits(s, o)

ScreenInv ==
    /\ Fits(m, origin)
    /\ known \subseteq Ids
    /\ status = "panicked" => Len(m.cachedAccounts) < 2

-----------------------------------------------------------------------------
(***************************************************************************)
(* Sorted lists.                                                           *)
(***************************************************************************)
\* A set of naturals has a smallest element.
LEMMA Least ==
  ASSUME NEW T, T \subseteq Nat, T # {}
  PROVE  \E n \in T : \A i \in T : n <= i
<1>1. PICK n \in T : \A i \in T : ~(<<i, n>> \in OpToRel(<, Nat))
  BY NatLessThanWellFounded, WFMin
<1>2. \A i \in T : ~(i < n)
  BY <1>1 DEF OpToRel
<1> QED
  BY <1>2

\* Induction from low to high.
LEMMA Induction ==
  ASSUME NEW T, NEW low \in Nat, NEW high \in Nat, low \in T,
         \A n \in low .. high - 1 : n \in T => n + 1 \in T
  PROVE  \A n \in low .. high : n \in T
<1> SUFFICES ASSUME NEW k \in low .. high, k \notin T PROVE FALSE
  OBVIOUS
<1> DEFINE U == (low .. high) \ T
<1>1. PICK n \in U : \A i \in U : n <= i
  <2>1. U \subseteq Nat /\ U # {}
    OBVIOUS
  <2> QED
    BY <2>1, Least
<1>2. n # low /\ n \in low .. high
  OBVIOUS
<1>3. n - 1 \in low .. high - 1 /\ n - 1 \notin U
  BY <1>1, <1>2
<1>4. n - 1 \in T /\ (n - 1) + 1 = n
  BY <1>2, <1>3
<1> QED
  BY <1>3, <1>4

Ascending(list, n) == \A i, j \in 1 .. n : i < j => list[i] < list[j]

\* A finite set of numbers can be sorted.
LEMMA CanSort ==
  ASSUME NEW S, IsFiniteSet(S), S \subseteq Nat
  PROVE  \E list \in [1 .. Cardinality(S) -> S] : Ascending(list, Cardinality(S))
<1> DEFINE Sortable(A, n) == \E list \in [1 .. n -> A] : Ascending(list, n)
           T == {n \in Nat : \A A \in SUBSET S : Cardinality(A) = n => Sortable(A, n)}
<1>1. 0 \in T
  <2> SUFFICES ASSUME NEW A \in SUBSET S PROVE Sortable(A, 0)
    OBVIOUS
  <2> DEFINE e == [i \in 1 .. 0 |-> CHOOSE x \in A : TRUE]
  <2>1. e \in [1 .. 0 -> A] /\ Ascending(e, 0)
    BY DEF Ascending
  <2> QED
    BY <2>1
<1>2. ASSUME NEW n \in Nat, n \in T
      PROVE  n + 1 \in T
  <2> SUFFICES ASSUME NEW A \in SUBSET S, Cardinality(A) = n + 1 PROVE Sortable(A, n + 1)
    OBVIOUS
  <2>1. IsFiniteSet(A) /\ A # {} /\ A \subseteq Nat
    <3>1. IsFiniteSet(A)
      BY FS_Subset
    <3>2. A # {}
      BY FS_EmptySet
    <3> QED
      BY <3>1, <3>2
  <2>2. PICK x \in A : \A y \in A : x <= y
    BY <2>1, Least
  <2>3. Cardinality(A \ {x}) = n /\ A \ {x} \in SUBSET S
    <3>1. Cardinality(A \ {x}) = Cardinality(A) - 1
      BY <2>1, <2>2, FS_RemoveElement
    <3>2. Cardinality(A) - 1 = n
      OBVIOUS
    <3> QED
      BY <3>1, <3>2
  <2>4. PICK list \in [1 .. n -> A \ {x}] : Ascending(list, n)
    BY <1>2, <2>3
  <2> DEFINE r == [i \in 1 .. n + 1 |-> IF i = 1 THEN x ELSE list[i - 1]]
  <2>5. r \in [1 .. n + 1 -> A]
    BY <2>2, <2>4
  <2>6. \A j \in 2 .. n + 1 : j - 1 \in 1 .. n /\ r[j] = list[j - 1] /\ r[j] \in A \ {x}
    BY <2>4
  <2>7. \A y \in A \ {x} : x < y
    BY <2>1, <2>2
  <2>8. Ascending(r, n + 1)
    <3> SUFFICES ASSUME NEW i \in 1 .. n + 1, NEW j \in 1 .. n + 1, i < j PROVE r[i] < r[j]
      BY DEF Ascending
    <3>1. j \in 2 .. n + 1
      OBVIOUS
    <3>2. CASE i = 1
      <4>1. r[i] = x
        BY <3>2
      <4> HIDE DEF r
      <4> QED
        BY <2>6, <2>7, <3>1, <4>1
    <3>3. CASE i # 1
      <4>1. i \in 2 .. n + 1 /\ i - 1 < j - 1
        BY <3>3
      <4> HIDE DEF r
      <4> QED
        BY <2>4, <2>6, <3>1, <4>1 DEF Ascending
    <3> QED
      BY <3>2, <3>3
  <2> QED
    BY <2>5, <2>8
<1>3. Cardinality(S) \in Nat
  BY FS_CardinalityType
<1>4. Cardinality(S) \in T
  <2> HIDE DEF T
  <2> QED
    BY <1>1, <1>2, <1>3, Induction
<1> QED
  BY <1>4

\* What refreshAccounts and refreshTokensForIndex keep: elements of the set, each
\* at most once.
LEMMA SortedWorks ==
  ASSUME NEW S, IsFiniteSet(S), S \subseteq Nat
  PROVE  /\ Sorted(S) \in Seq(S)
         /\ Distinct(Sorted(S))
         /\ S = {} => Sorted(S) = << >>
<1> DEFINE n == Cardinality(S)
           list == Sorted(S)
<1>1. n \in Nat
  BY FS_CardinalityType
<1>2. list \in [1 .. n -> S] /\ Ascending(list, n)
  <2>1. \E r \in [1 .. n -> S] : \A i, j \in 1 .. n : i < j => r[i] < r[j]
    BY CanSort DEF Ascending
  <2> QED
    BY <2>1 DEF Sorted, Ascending
<1> HIDE DEF list
<1>3. list \in Seq(S) /\ Len(list) = n
  BY <1>1, <1>2
<1>4. Distinct(list)
  <2>1. \A i \in 1 .. n : list[i] \in Nat
    BY <1>2
  <2>2. \A i, j \in 1 .. n : i = j \/ i < j \/ j < i
    BY <1>1
  <2>3. \A i, j \in 1 .. n : i < j => list[i] # list[j]
    BY <1>2, <2>1 DEF Ascending
  <2> QED
    BY <1>3, <2>2, <2>3 DEF Distinct
<1>5. S = {} => list = << >>
  BY <1>2, <1>3, FS_EmptySet
<1> QED
  BY <1>3, <1>4, <1>5 DEF list

-----------------------------------------------------------------------------
(***************************************************************************)
(* Cursors.                                                                *)
(***************************************************************************)
LEMMA MoveStays ==
  ASSUME NEW key, NEW i \in Nat, NEW n \in Nat
  PROVE  /\ Move(key, i, n) \in Nat
         /\ Within(i, n) => Within(Move(key, i, n), n)
         /\ i < n => Move(key, i, n) < n
BY DEF Move, Within

LEMMA MoveAroundStays ==
  ASSUME NEW key, NEW i \in Nat, NEW n \in Nat, NEW chosen \in Nat, Other(i, chosen, n)
  PROVE  /\ MoveAround(key, i, n, chosen) \in Nat
         /\ Other(MoveAround(key, i, n, chosen), chosen, n)
<1> DEFINE next == Move(key, i, n)
           over == Move(key, next, n)
<1>1. next \in Nat /\ (i < n => next < n)
  BY MoveStays
<1>2. over \in Nat /\ (next < n => over < n)
  BY <1>1, MoveStays
<1>3. MoveAround(key, i, n, chosen) = IF next # chosen THEN next ELSE IF over # chosen THEN over ELSE i
  BY DEF MoveAround
<1> HIDE DEF next, over
<1> QED
  BY <1>1, <1>2, <1>3 DEF Other

LEMMA FirstOtherIsOther ==
  ASSUME NEW i \in Nat, NEW n \in Nat
  PROVE  FirstOther(i) \in Nat /\ Other(FirstOther(i), i, n)
BY DEF FirstOther, Other

-----------------------------------------------------------------------------
(***************************************************************************)
(* Drawing.                                                                *)
(***************************************************************************)
\* A label within its list and any cursor draw something.
LEMMA Rows ==
  ASSUME NEW S, OutOfRange \notin S \cup {None}, NEW list \in Seq(S), NEW i \in Nat
  PROVE  /\ Cursor(list, i) \in S \cup {None}
         /\ Cursor(list, i) # OutOfRange
         /\ Label(list, i) = OutOfRange <=> Beyond(list, i)
         /\ i < Len(list) => /\ Label(list, i) = At(list, i) /\ Cursor(list, i) = At(list, i)
                             /\ At(list, i) \in S
                             /\ Label(list, i) # OutOfRange
BY DEF Label, Cursor, Beyond, At

\* What a screen shows, or a key sends, field by field.
Shown(first, second, token, clawback, freeze) ==
    [first |-> first, second |-> second, token |-> token, clawback |-> clawback, freeze |-> freeze]

LEMMA ShownDraws ==
  ASSUME NEW s, NEW a, NEW b, NEW c, NEW d, NEW e, View(s) = Shown(a, b, c, d, e),
         a # OutOfRange, b # OutOfRange, c # OutOfRange, d # OutOfRange, e # OutOfRange
  PROVE  Draws(s)
BY DEF Draws, Shown

LEMMA NothingIsShown == Nothing = Shown(None, None, None, None, None)
BY DEF Nothing, Shown

\* The fields of a Model that the screens read.
LEMMA ModelFields ==
  ASSUME NEW s \in Model
  PROVE  /\ s.view \in Views /\ s.cachedAccounts \in Seq(Ids) /\ s.cachedTokens \in Seq(Tokens)
         /\ s.selectedAccountIndex \in Nat /\ s.sendStep \in 0 .. 2
         /\ s.sendFromIndex \in Nat /\ s.sendToIndex \in Nat
         /\ s.tokenStep \in 0 .. 3 /\ s.tokenAccountIndex \in Nat /\ s.tokenToAccountIndex \in Nat
         /\ s.tokenSourceIndex \in Nat /\ s.tokenClawbackIndex \in Nat /\ s.tokenFreezeIndex \in Nat
         /\ s.tokenTokenIndex \in Nat /\ Len(s.cachedAccounts) \in Nat /\ Len(s.cachedTokens) \in Nat
BY DEF Model

\* Assigning one field.
LEMMA Assigned ==
  ASSUME NEW s \in Model
  PROVE  /\ \A x \in Views : [s EXCEPT !.view = x] \in Model
         /\ \A x \in 0 .. 4 : [s EXCEPT !.menuCursor = x] \in Model
         /\ \A x \in 0 .. 2 : [s EXCEPT !.createAccountFocus = x] \in Model
         /\ \A x \in {"empty", "bad", "good"} : [s EXCEPT !.text = x] \in Model
         /\ \A x \in Seq(Ids) : [s EXCEPT !.cachedAccounts = x] \in Model
         /\ \A x \in Seq(Tokens) : [s EXCEPT !.cachedTokens = x] \in Model
         /\ \A x \in Nat : [s EXCEPT !.selectedAccountIndex = x] \in Model
         /\ \A x \in Nat : [s EXCEPT !.selectedTransactionIndex = x] \in Model
         /\ \A x \in 0 .. 2 : [s EXCEPT !.sendStep = x] \in Model
         /\ \A x \in Nat : [s EXCEPT !.sendFromIndex = x] \in Model
         /\ \A x \in Nat : [s EXCEPT !.sendToIndex = x] \in Model
         /\ \A x \in 0 .. 7 : [s EXCEPT !.tokenMenuCursor = x] \in Model
         /\ \A x \in 0 .. 3 : [s EXCEPT !.tokenStep = x] \in Model
         /\ \A x \in Nat : [s EXCEPT !.tokenAccountIndex = x] \in Model
         /\ \A x \in Nat : [s EXCEPT !.tokenToAccountIndex = x] \in Model
         /\ \A x \in Nat : [s EXCEPT !.tokenSourceIndex = x] \in Model
         /\ \A x \in Nat : [s EXCEPT !.tokenClawbackIndex = x] \in Model
         /\ \A x \in Nat : [s EXCEPT !.tokenFreezeIndex = x] \in Model
         /\ \A x \in Nat : [s EXCEPT !.tokenTokenIndex = x] \in Model
<1>1. \A x \in Views : [s EXCEPT !.view = x] \in Model
  BY DEF Model
<1>2. \A x \in 0 .. 4 : [s EXCEPT !.menuCursor = x] \in Model
  BY DEF Model
<1>3. \A x \in 0 .. 2 : [s EXCEPT !.createAccountFocus = x] \in Model
  BY DEF Model
<1>4. \A x \in {"empty", "bad", "good"} : [s EXCEPT !.text = x] \in Model
  BY DEF Model
<1>5. \A x \in Seq(Ids) : [s EXCEPT !.cachedAccounts = x] \in Model
  BY DEF Model
<1>6. \A x \in Seq(Tokens) : [s EXCEPT !.cachedTokens = x] \in Model
  BY DEF Model
<1>7. \A x \in Nat : [s EXCEPT !.selectedAccountIndex = x] \in Model
  BY DEF Model
<1>8. \A x \in Nat : [s EXCEPT !.selectedTransactionIndex = x] \in Model
  BY DEF Model
<1>9. \A x \in 0 .. 2 : [s EXCEPT !.sendStep = x] \in Model
  BY DEF Model
<1>10. \A x \in Nat : [s EXCEPT !.sendFromIndex = x] \in Model
  BY DEF Model
<1>11. \A x \in Nat : [s EXCEPT !.sendToIndex = x] \in Model
  BY DEF Model
<1>12. \A x \in 0 .. 7 : [s EXCEPT !.tokenMenuCursor = x] \in Model
  BY DEF Model
<1>13. \A x \in 0 .. 3 : [s EXCEPT !.tokenStep = x] \in Model
  BY DEF Model
<1>14. \A x \in Nat : [s EXCEPT !.tokenAccountIndex = x] \in Model
  BY DEF Model
<1>15. \A x \in Nat : [s EXCEPT !.tokenToAccountIndex = x] \in Model
  BY DEF Model
<1>16. \A x \in Nat : [s EXCEPT !.tokenSourceIndex = x] \in Model
  BY DEF Model
<1>17. \A x \in Nat : [s EXCEPT !.tokenClawbackIndex = x] \in Model
  BY DEF Model
<1>18. \A x \in Nat : [s EXCEPT !.tokenFreezeIndex = x] \in Model
  BY DEF Model
<1>19. \A x \in Nat : [s EXCEPT !.tokenTokenIndex = x] \in Model
  BY DEF Model
<1> QED
  BY <1>1, <1>2, <1>3, <1>4, <1>5, <1>6, <1>7, <1>8, <1>9, <1>10,
     <1>11, <1>12, <1>13, <1>14, <1>15, <1>16, <1>17, <1>18, <1>19

\* The values that are assigned.
LEMMA Values ==
  /\ 0 \in Nat /\ 0 \in 0 .. 7 /\ 0 \in 0 .. 2 /\ 1 \in 0 .. 2 /\ 2 \in 0 .. 2
  /\ 0 \in 0 .. 3 /\ 1 \in 0 .. 3 /\ 2 \in 0 .. 3 /\ 3 \in 0 .. 3
  /\ "empty" \in {"empty", "bad", "good"}
  /\ "ViewMenu" \in Views /\ "ViewCreateAccount" \in Views /\ "ViewSendMoney" \in Views
  /\ "ViewVirtualNodes" \in Views /\ "ViewTokenMenu" \in Views /\ AccountViews \subseteq Views
  /\ TokenViews \subseteq Views
BY DEF Views

LEMMA AccountRows ==
  ASSUME NEW s \in Model, NEW i \in Nat
  PROVE  /\ Cursor(s.cachedAccounts, i) \in Ids \cup {None}
         /\ Cursor(s.cachedAccounts, i) # OutOfRange
         /\ Label(s.cachedAccounts, i) = OutOfRange <=> i >= Len(s.cachedAccounts)
         /\ i < Len(s.cachedAccounts) =>
               /\ Label(s.cachedAccounts, i) = At(s.cachedAccounts, i)
               /\ Cursor(s.cachedAccounts, i) = At(s.cachedAccounts, i)
               /\ At(s.cachedAccounts, i) \in Ids
BY NoneAssumption, ModelFields, Rows DEF Beyond

LEMMA TokenRows ==
  ASSUME NEW s \in Model, NEW i \in Nat
  PROVE  /\ Cursor(s.cachedTokens, i) # OutOfRange
         /\ Label(s.cachedTokens, i) = OutOfRange <=> i >= Len(s.cachedTokens)
         /\ i < Len(s.cachedTokens) =>
               /\ Label(s.cachedTokens, i) = At(s.cachedTokens, i)
               /\ Cursor(s.cachedTokens, i) = At(s.cachedTokens, i)
               /\ At(s.cachedTokens, i) \in Tokens
BY NoneAssumption, ModelFields, Rows DEF Beyond

LEMMA AccountsDrawn ==
  ASSUME NEW s \in Model, s.view \in AccountViews
  PROVE  /\ View(s) = Shown(Cursor(s.cachedAccounts, s.selectedAccountIndex), None, None, None, None)
         /\ Draws(s)
<1>1. View(s) = Shown(Cursor(s.cachedAccounts, s.selectedAccountIndex), None, None, None, None)
  BY DEF View, AccountViews, viewAccountDetail, viewAccountDetailSingle, viewTransactionDetail, Nothing, Shown
<1> QED
  BY <1>1, ShownDraws, ModelFields, AccountRows, NoneAssumption

LEMMA SendDrawn ==
  ASSUME NEW s \in Model, s.view = "ViewSendMoney", Len(s.cachedAccounts) >= 2, SendFits(s)
  PROVE  /\ s.sendStep = 2 =>
              View(s) = Shown(Label(s.cachedAccounts, s.sendFromIndex),
                              Label(s.cachedAccounts, s.sendToIndex), None, None, None)
         /\ Draws(s)
<1> DEFINE a == s.cachedAccounts
           first == IF s.sendStep = 0 THEN Cursor(a, s.sendFromIndex) ELSE Label(a, s.sendFromIndex)
           second == CASE s.sendStep = 0 -> None
                       [] s.sendStep = 1 -> CursorExcept(a, s.sendToIndex, s.sendFromIndex)
                       [] s.sendStep = 2 -> Label(a, s.sendToIndex)
<1>1. View(s) = Shown(first, second, None, None, None)
  <2>1. View(s) = viewSendMoney(s)
    BY DEF View
  <2>2. viewSendMoney(s) = [Nothing EXCEPT !.first = first, !.second = second]
    <3>1. ~(Len(s.cachedAccounts) < 2)
      BY ModelFields
    <3> QED
      BY <3>1, Zenon DEF viewSendMoney
  <2> HIDE DEF first, second
  <2> QED
    BY <2>1, <2>2 DEF Nothing, Shown
<1>2. s.sendStep \in {0, 1, 2} /\ s.sendFromIndex < Len(a) /\ (s.sendStep >= 1 => s.sendToIndex < Len(a))
  BY ModelFields DEF SendFits, Within, Other
<1>3. first # OutOfRange
  BY <1>2, AccountRows, ModelFields
<1>4. second # OutOfRange /\ (s.sendStep = 2 => second = Label(a, s.sendToIndex))
  BY <1>2, AccountRows, ModelFields, NoneAssumption DEF CursorExcept
<1>5. s.sendStep = 2 => first = Label(a, s.sendFromIndex)
  OBVIOUS
<1> HIDE DEF first, second
<1>6. Draws(s)
  BY <1>1, <1>3, <1>4, ShownDraws, NoneAssumption
<1> QED
  BY <1>1, <1>4, <1>5, <1>6

\* The account of "Select clawback address", or "No clawback".
Address(list, i) == IF i = 0 THEN None ELSE Label(list, i - 1)

LEMMA MintDrawn ==
  ASSUME NEW s \in Model, s.view = "ViewMintToken", s.cachedAccounts # << >>, SignerFits(s), MintFits(s)
  PROVE  /\ s.tokenStep = 3 =>
              View(s) = Shown(Label(s.cachedAccounts, s.tokenAccountIndex), None, None,
                              Address(s.cachedAccounts, s.tokenClawbackIndex),
                              Address(s.cachedAccounts, s.tokenFreezeIndex))
         /\ Draws(s)
<1> DEFINE a == s.cachedAccounts
           c == s.tokenClawbackIndex
           f == s.tokenFreezeIndex
           Row(i) == IF i = 0 THEN None ELSE Cursor(a, i - 1)
           first == IF s.tokenStep = 0 THEN Cursor(a, s.tokenAccountIndex)
                                       ELSE Label(a, s.tokenAccountIndex)
           clawback == CASE s.tokenStep < 2 -> None
                         [] s.tokenStep = 2 -> Row(c)
                         [] s.tokenStep = 3 -> Address(a, c)
           freeze == IF s.tokenStep < 3 THEN None ELSE Row(f)
<1>1. View(s) = Shown(first, None, None, clawback, freeze)
  <2>1. View(s) = viewMintToken(s)
    BY DEF View
  <2>2. viewMintToken(s) = [Nothing EXCEPT !.first = first, !.clawback = clawback, !.freeze = freeze]
    BY Zenon DEF viewMintToken, Address
  <2> HIDE DEF first, clawback, freeze
  <2> QED
    BY <2>1, <2>2 DEF Nothing, Shown
<1>2. Len(a) \in Nat /\ Len(a) >= 1
  BY ModelFields
<1>3. s.tokenStep \in {0, 1, 2, 3} /\ s.tokenAccountIndex \in Nat /\ s.tokenAccountIndex < Len(a)
  BY <1>2, ModelFields DEF SignerFits, Within, TokenViews
<1>4. ASSUME NEW i \in Nat
      PROVE  Row(i) # OutOfRange /\ (i <= Len(a) => Row(i) = Address(a, i) /\ Address(a, i) # OutOfRange)
  <2>1. CASE i = 0
    BY <2>1, NoneAssumption DEF Address
  <2>2. CASE i # 0
    <3>1. PICK h \in Nat : h = i - 1
      BY <2>2
    <3>2. h < Len(a) \/ ~(i <= Len(a))
      BY <1>2, <3>1
    <3>3. Row(i) = Cursor(a, h) /\ Address(a, i) = Label(a, h)
      BY <2>2, <3>1 DEF Address
    <3>4. /\ Cursor(a, h) # OutOfRange
          /\ h < Len(a) => Label(a, h) = Cursor(a, h)
      BY AccountRows
    <3> QED
      BY <3>2, <3>3, <3>4
  <2> QED
    BY <2>1, <2>2
<1>5. c \in Nat /\ f \in Nat /\ (s.tokenStep >= 2 => c <= Len(a)) /\ (s.tokenStep >= 3 => f <= Len(a))
  BY ModelFields DEF MintFits
<1>6. first # OutOfRange /\ (s.tokenStep = 3 => first = Label(a, s.tokenAccountIndex))
  BY <1>3, AccountRows
<1>7. clawback # OutOfRange /\ (s.tokenStep = 3 => clawback = Address(a, c))
  <2> HIDE DEF Row
  <2> QED
    BY <1>3, <1>4, <1>5, NoneAssumption
<1>8. freeze # OutOfRange /\ (s.tokenStep = 3 => freeze = Address(a, f))
  <2> HIDE DEF Row
  <2> QED
    BY <1>3, <1>4, <1>5, NoneAssumption
<1> HIDE DEF first, clawback, freeze
<1>9. Draws(s)
  BY <1>1, <1>6, <1>7, <1>8, ShownDraws, NoneAssumption
<1> QED
  BY <1>1, <1>6, <1>7, <1>8, <1>9

LEMMA ThreeDrawn ==
  ASSUME NEW s \in Model, NEW o, s.view \in ThreeViews, s.cachedAccounts # << >>, SignerFits(s), ThreeFit(s, o)
  PROVE  /\ s.tokenStep # 2 => View(s).token = None
         /\ s.tokenStep = 2 =>
              View(s) = Shown(Label(s.cachedAccounts, s.tokenAccountIndex),
                              Label(s.cachedAccounts, s.tokenSourceIndex),
                              Label(s.cachedTokens, s.tokenTokenIndex), None, None)
         /\ Draws(s)
<1> DEFINE a == s.cachedAccounts
           i == s.tokenAccountIndex
           j == s.tokenSourceIndex
           first == IF s.tokenStep = 0 THEN Cursor(a, i) ELSE Label(a, i)
           second == CASE s.tokenStep = 0 -> None
                       [] s.tokenStep = 1 -> CursorExcept(a, j, i)
                       [] s.tokenStep = 2 -> Label(a, j)
           token == IF s.tokenStep < 2 THEN None ELSE Cursor(s.cachedTokens, s.tokenTokenIndex)
<1>1. View(s) = Shown(first, second, token, None, None)
  <2>1. View(s) = ViewThreeSteps(s)
    BY DEF View, ThreeViews, viewAuthorizeTokenTransfer, viewUnauthorizeTokenTransfer, viewClawbackToken,
           viewFreezeToken
  <2>2. ViewThreeSteps(s) = [Nothing EXCEPT !.first = first, !.second = second, !.token = token]
    BY Zenon DEF ViewThreeSteps
  <2> HIDE DEF first, second, token
  <2> QED
    BY <2>1, <2>2 DEF Nothing, Shown
<1>2. Len(a) \in Nat /\ Len(a) >= 1 /\ i \in Nat /\ j \in Nat /\ s.tokenTokenIndex \in Nat
  BY ModelFields
<1>3. s.tokenStep \in {0, 1, 2} /\ i < Len(a)
  BY <1>2, ModelFields DEF SignerFits, Within, TokenViews, ThreeFit
<1>4. s.tokenStep = 2 => j < Len(a) /\ s.tokenTokenIndex < Len(s.cachedTokens)
  BY ModelFields DEF ThreeFit, Offered
<1>5. first # OutOfRange /\ (s.tokenStep = 2 => first = Label(a, i))
  BY <1>2, <1>3, AccountRows
<1>6. second # OutOfRange /\ (s.tokenStep = 2 => second = Label(a, j))
  BY <1>2, <1>3, <1>4, AccountRows, NoneAssumption DEF CursorExcept
<1>7. /\ token # OutOfRange
      /\ s.tokenStep = 2 => token = Label(s.cachedTokens, s.tokenTokenIndex)
      /\ s.tokenStep # 2 => token = None
  BY <1>2, <1>3, <1>4, TokenRows, NoneAssumption
<1> HIDE DEF first, second, token
<1>8. Draws(s)
  BY <1>1, <1>5, <1>6, <1>7, ShownDraws, NoneAssumption
<1>9. View(s).token = token
  BY <1>1 DEF Shown
<1> QED
  BY <1>1, <1>5, <1>6, <1>7, <1>8, <1>9

LEMMA TwoStepsDrawn ==
  ASSUME NEW s \in Model, s.view \in {"ViewBurnToken", "ViewTokenList"}, s.cachedAccounts # << >>, SignerFits(s)
  PROVE  /\ s.tokenStep = 0 => View(s).token = None
         /\ s.tokenStep # 0 =>
              View(s) = Shown(Label(s.cachedAccounts, s.tokenAccountIndex), None,
                              Cursor(s.cachedTokens, s.tokenTokenIndex), None, None)
         /\ Draws(s)
<1> DEFINE i == s.tokenAccountIndex
           first == IF s.tokenStep = 0 THEN Cursor(s.cachedAccounts, i) ELSE Label(s.cachedAccounts, i)
           token == IF s.tokenStep = 0 THEN None ELSE Cursor(s.cachedTokens, s.tokenTokenIndex)
<1>1. View(s) = Shown(first, None, token, None, None)
  <2>1. View(s) = ViewTwoSteps(s)
    BY DEF View, viewBurnToken, viewTokenList
  <2> QED
    BY <2>1 DEF ViewTwoSteps, Nothing, Shown
<1>2. i \in Nat /\ i < Len(s.cachedAccounts) /\ s.tokenTokenIndex \in Nat
  BY ModelFields DEF SignerFits, Within, TokenViews
<1>3. first # OutOfRange
  BY <1>2, AccountRows
<1>4. token # OutOfRange
  BY <1>2, TokenRows, NoneAssumption
<1>5. s.tokenStep = 0 => token = None
  OBVIOUS
<1>6. s.tokenStep # 0 => first = Label(s.cachedAccounts, i) /\ token = Cursor(s.cachedTokens, s.tokenTokenIndex)
  OBVIOUS
<1> HIDE DEF first, token
<1>7. Draws(s)
  BY <1>1, <1>3, <1>4, ShownDraws, NoneAssumption
<1>8. View(s).token = token
  BY <1>1 DEF Shown
<1> QED
  BY <1>1, <1>5, <1>6, <1>7, <1>8

LEMMA TransferDrawn ==
  ASSUME NEW s \in Model, NEW o, s.view = "ViewTransferToken", Len(s.cachedAccounts) >= 2, SignerFits(s),
         TransferFits(s, o)
  PROVE  /\ s.tokenStep = 0 => View(s).token = None
         /\ s.tokenStep # 0 => View(s).first = Label(s.cachedAccounts, s.tokenAccountIndex)
         /\ s.tokenStep = 2 =>
              View(s) = Shown(Label(s.cachedAccounts, s.tokenAccountIndex),
                              Label(s.cachedAccounts, s.tokenToAccountIndex),
                              Label(s.cachedTokens, s.tokenTokenIndex), None, None)
         /\ Draws(s)
<1> DEFINE a == s.cachedAccounts
           i == s.tokenAccountIndex
           j == s.tokenToAccountIndex
           first == IF s.tokenStep = 0 THEN Cursor(a, i) ELSE Label(a, i)
           second == IF s.tokenStep < 2 THEN None ELSE CursorExcept(a, j, i)
           token == IF s.tokenStep = 0 THEN None ELSE Cursor(s.cachedTokens, s.tokenTokenIndex)
<1>1. View(s) = Shown(first, second, token, None, None)
  <2>1. View(s) = viewTransferToken(s)
    BY DEF View
  <2>2. ~(Len(a) < 2)
    BY ModelFields
  <2>3. viewTransferToken(s) = [ViewTwoSteps(s) EXCEPT !.second = second]
    BY <2>2, Zenon DEF viewTransferToken
  <2>4. ViewTwoSteps(s) = Shown(first, None, token, None, None)
    BY DEF ViewTwoSteps, Nothing, Shown
  <2> HIDE DEF first, second, token
  <2> QED
    BY <2>1, <2>3, <2>4 DEF Shown
<1>2. /\ Len(a) \in Nat /\ i \in Nat /\ j \in Nat /\ s.tokenTokenIndex \in Nat
      /\ s.tokenStep \in {0, 1, 2} /\ i < Len(a)
  BY ModelFields DEF SignerFits, Within, TokenViews, TransferFits
<1>3. s.tokenStep # 0 => s.tokenTokenIndex < Len(s.cachedTokens)
  BY <1>2 DEF TransferFits, Offered
<1>4. s.tokenStep = 2 => j # i /\ j < Len(a)
  BY <1>2 DEF TransferFits, Other
<1>5. first # OutOfRange /\ (s.tokenStep # 0 => first = Label(a, i))
  BY <1>2, AccountRows
<1>6. second # OutOfRange /\ (s.tokenStep = 2 => second = Label(a, j))
  <2>1. s.tokenStep # 2 => second = None
    BY <1>2
  <2>2. s.tokenStep = 2 => second = Cursor(a, j)
    BY <1>4 DEF CursorExcept
  <2> HIDE DEF second
  <2> QED
    BY <1>2, <1>4, <2>1, <2>2, AccountRows, NoneAssumption
<1>7. /\ token # OutOfRange
      /\ s.tokenStep = 0 => token = None
      /\ s.tokenStep # 0 => token = Label(s.cachedTokens, s.tokenTokenIndex)
  BY <1>2, <1>3, TokenRows, NoneAssumption
<1> HIDE DEF first, second, token
<1>8. Draws(s)
  BY <1>1, <1>5, <1>6, <1>7, ShownDraws, NoneAssumption
<1>9. View(s).token = token /\ View(s).first = first
  BY <1>1 DEF Shown
<1>10. s.tokenStep = 2 => s.tokenStep # 0
  OBVIOUS
<1> QED
  BY <1>1, <1>5, <1>6, <1>7, <1>8, <1>9, <1>10

\* Screens without positions.
LEMMA OthersDrawn ==
  ASSUME NEW s \in Model, s.view \notin AccountViews \cup TokenViews \cup {"ViewSendMoney"}
  PROVE  View(s) = Nothing /\ Draws(s)
<1>1. View(s) = Nothing
  BY DEF View, AccountViews, TokenViews, ThreeViews
<1> QED
  BY <1>1, NothingIsShown, ShownDraws, NoneAssumption

\* With two accounts in the list every position fits its list.
LEMMA FittingDraws ==
  ASSUME NEW s, NEW o, Fits(s, o), Len(s.cachedAccounts) >= 2
  PROVE  Draws(s)
<1>1. s \in Model /\ s.cachedAccounts # << >>
  BY DEF Fits
<1>2. CASE s.view \in AccountViews
  BY <1>1, <1>2, AccountsDrawn
<1>3. CASE s.view = "ViewSendMoney"
  BY <1>1, <1>3, SendDrawn DEF Fits
<1>4. CASE s.view = "ViewMintToken"
  BY <1>1, <1>4, MintDrawn DEF Fits
<1>5. CASE s.view \in ThreeViews
  BY <1>1, <1>5, ThreeDrawn DEF Fits
<1>6. CASE s.view \in {"ViewBurnToken", "ViewTokenList"}
  BY <1>1, <1>6, TwoStepsDrawn DEF Fits
<1>7. CASE s.view = "ViewTransferToken"
  BY <1>1, <1>7, TransferDrawn DEF Fits
<1>8. CASE s.view \notin AccountViews \cup TokenViews \cup {"ViewSendMoney"}
  BY <1>1, <1>8, OthersDrawn
<1> QED
  BY <1>2, <1>3, <1>4, <1>5, <1>6, <1>7, <1>8 DEF TokenViews

-----------------------------------------------------------------------------
(***************************************************************************)
(* Keys.                                                                   *)
(***************************************************************************)
\* What SubmitsWhatIsShown says of one step.
Honest ==
    request' # None =>
        /\ request'.what = View(m)
        /\ request'.what.first # None \/ request'.kind = "ViewCreateAccount"
        /\ request'.what.first = request'.what.second => request'.what.first = None

\* A Model that fits is shown.
LEMMA ShowKeeps ==
  ASSUME NEW s, NEW o, Fits(s, o), Show(s), origin' = o, known' \subseteq Ids
  PROVE  ScreenInv'
<1>1. m' = s
  BY DEF Show
<1>2. status' = "panicked" => ~(Len(s.cachedAccounts) >= 2)
  BY FittingDraws DEF Show
<1>3. Len(s.cachedAccounts) \in Nat
  BY ModelFields DEF Fits
<1> QED
  BY <1>1, <1>2, <1>3 DEF ScreenInv

LEMMA OnlyKeeps ==
  ASSUME ScreenInv, NEW s, Only(s), Fits(s, origin)
  PROVE  ScreenInv' /\ Honest
<1>1. Show(s) /\ origin' = origin /\ known' = known /\ request' = None
  BY DEF Only
<1>2. ScreenInv'
  BY <1>1, ShowKeeps DEF ScreenInv
<1> QED
  BY <1>1, <1>2 DEF Honest

PlainViews == {"ViewMenu", "ViewCreateAccount", "ViewVirtualNodes", "ViewTokenMenu"}

\* Screens that read no position fit any lists.
LEMMA PlainFits ==
  ASSUME NEW s \in Model, NEW o, s.view \in PlainViews, Distinct(s.cachedAccounts)
  PROVE  Fits(s, o)
BY DEF Fits, AccountsFit, SendFits, SignerFits, MintFits, ThreeFit, TransferFits, BurnFits, ListFits,
       PlainViews, AccountViews, TokenViews, ThreeViews

LEMMA VirtualNodesKeeps ==
  ASSUME ScreenInv, NEW key, updateVirtualNodes(key)
  PROVE  ScreenInv' /\ Honest
<1> DEFINE t == [m EXCEPT !.view = "ViewMenu"]
<1>1. t \in Model /\ t.view \in PlainViews /\ Distinct(t.cachedAccounts)
  BY DEF ScreenInv, Fits, Model, Views, PlainViews
<1>2. Only(t)
  BY DEF updateVirtualNodes
<1> QED
  BY <1>1, <1>2, OnlyKeeps, PlainFits

\* The lists read again, when the ledger has the accounts `ids'.
Refreshed(s, ids) == [s EXCEPT !.cachedAccounts = Sorted(ids), !.cachedTokens = << >>]

\* A Model that fits whatever is read.
Fresh(s) == \A ids \in SUBSET Ids : Fits(Refreshed(s, ids), None)

LEMMA RefreshedModel ==
  ASSUME NEW s \in Model, NEW ids \in SUBSET Ids
  PROVE  /\ Refreshed(s, ids) \in Model
         /\ Distinct(Refreshed(s, ids).cachedAccounts)
         /\ Len(Refreshed(s, ids).cachedAccounts) \in Nat
         /\ Refreshed(s, ids).view = s.view
         /\ Refreshed(s, ids).selectedAccountIndex = s.selectedAccountIndex
         /\ Refreshed(s, ids).sendStep = s.sendStep /\ Refreshed(s, ids).sendFromIndex = s.sendFromIndex
         /\ Refreshed(s, ids).tokenStep = s.tokenStep
         /\ Refreshed(s, ids).tokenAccountIndex = s.tokenAccountIndex
<1>1. PICK a : a = Sorted(ids)
  OBVIOUS
<1>2. a \in Seq(Ids) /\ Distinct(a)
  <2>1. IsFiniteSet(ids) /\ ids \subseteq Nat
    BY FiniteAssumption, OrderAssumption, FS_Subset
  <2>2. a \in Seq(ids) /\ Distinct(a)
    BY <1>1, <2>1, SortedWorks
  <2> QED
    BY <2>2
<1>3. PICK t : t = [s EXCEPT !.cachedAccounts = a, !.cachedTokens = << >>]
  OBVIOUS
<1>4. Refreshed(s, ids) = t
  BY <1>1, <1>3 DEF Refreshed
<1>5. << >> \in Seq(Tokens)
  OBVIOUS
<1>6. t \in Model
  BY <1>2, <1>3, <1>5 DEF Model
<1>7. t.cachedAccounts = a
  BY <1>3 DEF Model
<1>8. /\ t.view = s.view /\ t.selectedAccountIndex = s.selectedAccountIndex
      /\ t.sendStep = s.sendStep /\ t.sendFromIndex = s.sendFromIndex
      /\ t.tokenStep = s.tokenStep /\ t.tokenAccountIndex = s.tokenAccountIndex
  BY <1>3 DEF Model
<1>9. Len(a) \in Nat
  BY <1>2
<1> QED
  BY <1>2, <1>4, <1>6, <1>7, <1>8, <1>9

\* A screen that starts at the first row, or reads no position.
LEMMA FreshIf ==
  ASSUME NEW s \in Model,
         \/ s.view \in PlainViews
         \/ s.view \in AccountViews /\ s.selectedAccountIndex = 0
         \/ s.view = "ViewSendMoney" /\ s.sendStep = 0 /\ s.sendFromIndex = 0
         \/ s.view \in TokenViews /\ s.tokenStep = 0 /\ s.tokenAccountIndex = 0
  PROVE  Fresh(s)
<1> SUFFICES ASSUME NEW ids \in SUBSET Ids PROVE Fits(Refreshed(s, ids), None)
  BY DEF Fresh
<1>1. PICK t : t = Refreshed(s, ids)
  OBVIOUS
<1>2. /\ t \in Model /\ Distinct(t.cachedAccounts) /\ Len(t.cachedAccounts) \in Nat
      /\ t.view = s.view /\ t.selectedAccountIndex = s.selectedAccountIndex
      /\ t.sendStep = s.sendStep /\ t.sendFromIndex = s.sendFromIndex
      /\ t.tokenStep = s.tokenStep /\ t.tokenAccountIndex = s.tokenAccountIndex
  BY <1>1, RefreshedModel
<1>3. AccountsFit(t)
  BY <1>2 DEF AccountsFit, Within, PlainViews, AccountViews, TokenViews, ThreeViews
<1>4. SendFits(t)
  BY <1>2 DEF SendFits, Within, PlainViews, AccountViews, TokenViews, ThreeViews
<1>5. SignerFits(t)
  BY <1>2 DEF SignerFits, Within, PlainViews, AccountViews, TokenViews, ThreeViews
<1>6. t.view \in TokenViews => t.tokenStep = 0
  BY <1>2 DEF PlainViews, AccountViews, TokenViews, ThreeViews
<1>7. MintFits(t) /\ ThreeFit(t, None) /\ TransferFits(t, None) /\ BurnFits(t, None) /\ ListFits(t, None)
  BY <1>6 DEF MintFits, ThreeFit, TransferFits, BurnFits, ListFits, TokenViews
<1> QED
  BY <1>1, <1>2, <1>3, <1>4, <1>5, <1>7 DEF Fits

LEMMA RefreshKeeps ==
  ASSUME NEW s, Fresh(s), refreshAccounts(s), known' \subseteq Ids
  PROVE  ScreenInv'
<1>1. Show(Refreshed(s, known')) /\ origin' = None
  BY DEF refreshAccounts, Refreshed
<1>2. PICK t : t = Refreshed(s, known')
  OBVIOUS
<1>3. Fits(t, None)
  BY <1>2 DEF Fresh
<1>4. Show(t)
  BY <1>1, <1>2
<1> QED
  BY <1>1, <1>3, <1>4, ShowKeeps

LEMMA RefreshThenKeeps ==
  ASSUME ScreenInv, NEW s, NEW otherwise, Fresh(s), Fits(otherwise, origin), RefreshThen(s, otherwise)
  PROVE  ScreenInv' /\ Honest
<1>1. known' \subseteq Ids /\ request' = None
  BY DEF RefreshThen, ScreenInv
<1>2. CASE refreshAccounts(s)
  BY <1>1, <1>2, RefreshKeeps DEF Honest
<1>3. CASE Show(otherwise) /\ UNCHANGED origin
  BY <1>1, <1>3, ShowKeeps DEF Honest
<1> QED
  BY <1>2, <1>3 DEF RefreshThen

\* A request that is what the screen shows, or would use a position beyond its list.
ShownOrPanics(what) ==
    IF OutOfRange \in Range(what) THEN Len(m.cachedAccounts) < 2
    ELSE what = View(m) /\ what.first # None /\ what.first # what.second

LEMMA SendKeeps ==
  ASSUME ScreenInv, NEW what, NEW done, Send(what, done), ShownOrPanics(what), Fresh(done), Fits(done, origin)
  PROVE  ScreenInv' /\ Honest
<1>1. CASE OutOfRange \in Range(what)
  BY <1>1 DEF Send, Panic, ShownOrPanics, ScreenInv, Honest
<1>2. CASE OutOfRange \notin Range(what)
  <2>1. CASE Only(m)
    BY <2>1, OnlyKeeps DEF ScreenInv
  <2>2. CASE ~Only(m)
    <3>1. /\ known' = known /\ request' = [kind |-> m.view, what |-> what]
          /\ \/ Show(m) /\ UNCHANGED origin
             \/ refreshAccounts(done)
             \/ Show(done) /\ UNCHANGED origin
      BY <1>2, <2>2 DEF Send
    <3>2. Honest
      BY <1>2, <3>1 DEF Honest, ShownOrPanics
    <3>3. known' \subseteq Ids
      BY <3>1 DEF ScreenInv
    <3>4. CASE Show(m) /\ UNCHANGED origin
      BY <3>2, <3>3, <3>4, ShowKeeps DEF ScreenInv
    <3>5. CASE refreshAccounts(done)
      BY <3>2, <3>3, <3>5, RefreshKeeps
    <3>6. CASE Show(done) /\ UNCHANGED origin
      BY <3>2, <3>3, <3>6, ShowKeeps
    <3> QED
      BY <3>1, <3>4, <3>5, <3>6
  <2> QED
    BY <2>1, <2>2
<1> QED
  BY <1>1, <1>2

LEMMA MenuKeeps ==
  ASSUME ScreenInv, NEW key, updateMenu(key)
  PROVE  ScreenInv' /\ Honest
<1>1. m \in Model /\ Distinct(m.cachedAccounts) /\ m.view = "ViewMenu" /\ Fits(m, origin)
  BY DEF ScreenInv, Fits, updateMenu
<1>2. CASE key \in {"up", "down"}
  <2>1. PICK i : i = Move(key, m.menuCursor, menuItems)
    OBVIOUS
  <2>2. i \in 0 .. 4
    <3>1. m.menuCursor \in 0 .. 4
      BY <1>1 DEF Model
    <3> QED
      BY <2>1, <3>1 DEF Move, menuItems
  <2> DEFINE t == [m EXCEPT !.menuCursor = i]
  <2>3. t \in Model /\ t.view \in PlainViews /\ Distinct(t.cachedAccounts)
    BY <1>1, <2>2 DEF Model, PlainViews
  <2>4. Only(t)
    BY <1>2, <2>1 DEF updateMenu
  <2> QED
    BY <2>3, <2>4, OnlyKeeps, PlainFits
<1>3. CASE key = "enter" /\ m.menuCursor = 0
  <2> DEFINE t == [m EXCEPT !.view = "ViewCreateAccount", !.createAccountFocus = 0, !.text = "empty"]
  <2>1. t \in Model /\ t.view \in PlainViews /\ Distinct(t.cachedAccounts)
    <3>1. t \in Model
      BY <1>1, Values, Assigned, Zenon
    <3>2. t.view = "ViewCreateAccount" /\ t.cachedAccounts = m.cachedAccounts
      BY <1>1 DEF Model
    <3> QED
      BY <1>1, <3>1, <3>2 DEF PlainViews
  <2>2. Only(t)
    BY <1>3 DEF updateMenu
  <2> QED
    BY <2>1, <2>2, OnlyKeeps, PlainFits
<1>4. CASE key = "enter" /\ m.menuCursor = 1
  <2> DEFINE t == [m EXCEPT !.view = "ViewAccountDetail", !.selectedAccountIndex = 0]
  <2>1. t \in Model /\ t.view \in AccountViews /\ t.selectedAccountIndex = 0
    BY <1>1 DEF Model, Views, AccountViews
  <2>2. RefreshThen(t, m)
    BY <1>4 DEF updateMenu
  <2> QED
    BY <1>1, <2>1, <2>2, FreshIf, RefreshThenKeeps
<1>5. CASE key = "enter" /\ m.menuCursor = 2
  <2> DEFINE t == [m EXCEPT !.view = "ViewSendMoney", !.sendStep = 0, !.sendFromIndex = 0,
                            !.sendToIndex = 0, !.text = "empty"]
  <2>1. t \in Model /\ t.view = "ViewSendMoney" /\ t.sendStep = 0 /\ t.sendFromIndex = 0
    <3>1. t \in Model
      BY <1>1, Values, Assigned, Zenon
    <3>2. t.view = "ViewSendMoney" /\ t.sendStep = 0 /\ t.sendFromIndex = 0
      BY <1>1 DEF Model
    <3> QED
      BY <3>1, <3>2
  <2>2. RefreshThen(t, m)
    BY <1>5 DEF updateMenu
  <2> QED
    BY <1>1, <2>1, <2>2, FreshIf, RefreshThenKeeps
<1>6. CASE key = "enter" /\ m.menuCursor = 3
  <2> DEFINE t == [m EXCEPT !.view = "ViewVirtualNodes"]
  <2>1. t \in Model /\ t.view \in PlainViews /\ Distinct(t.cachedAccounts)
    BY <1>1 DEF Model, Views, PlainViews
  <2>2. Only(t)
    BY <1>6 DEF updateMenu
  <2> QED
    BY <2>1, <2>2, OnlyKeeps, PlainFits
<1>7. CASE key = "enter" /\ m.menuCursor = 4
  <2> DEFINE t == [m EXCEPT !.view = "ViewTokenMenu", !.tokenMenuCursor = 0]
  <2>1. t \in Model /\ t.view \in PlainViews
    <3>1. t \in Model
      BY <1>1, Values, Assigned, Zenon
    <3>2. t.view = "ViewTokenMenu"
      BY <1>1 DEF Model
    <3> QED
      BY <3>1, <3>2 DEF PlainViews
  <2>2. RefreshThen(t, m)
    BY <1>7 DEF updateMenu
  <2> QED
    BY <1>1, <2>1, <2>2, FreshIf, RefreshThenKeeps
<1> QED
  BY <1>2, <1>3, <1>4, <1>5, <1>6, <1>7 DEF updateMenu

\* Text is of no concern to the lists.
LEMMA TypingKeeps ==
  ASSUME ScreenInv, Typing
  PROVE  ScreenInv' /\ Honest
<1>1. PICK text \in {"empty", "bad", "good"} : Only([m EXCEPT !.text = text])
  BY DEF Typing
<1>2. PICK t : t = [m EXCEPT !.text = text]
  OBVIOUS
<1>3. m \in Model
  BY DEF ScreenInv, Fits
<1>4. t \in Model
  BY <1>2, <1>3 DEF Model
<1>5. /\ t.view = m.view /\ t.cachedAccounts = m.cachedAccounts /\ t.cachedTokens = m.cachedTokens
      /\ t.selectedAccountIndex = m.selectedAccountIndex /\ t.sendStep = m.sendStep
      /\ t.sendFromIndex = m.sendFromIndex /\ t.sendToIndex = m.sendToIndex
      /\ t.tokenStep = m.tokenStep /\ t.tokenAccountIndex = m.tokenAccountIndex
      /\ t.tokenToAccountIndex = m.tokenToAccountIndex /\ t.tokenSourceIndex = m.tokenSourceIndex
      /\ t.tokenClawbackIndex = m.tokenClawbackIndex /\ t.tokenFreezeIndex = m.tokenFreezeIndex
      /\ t.tokenTokenIndex = m.tokenTokenIndex
  BY <1>2, <1>3 DEF Model
<1>6. Fits(t, origin)
  BY <1>4, <1>5 DEF ScreenInv, Fits, AccountsFit, SendFits, SignerFits, MintFits, ThreeFit, TransferFits,
                    BurnFits, ListFits, Offered
<1> QED
  BY <1>1, <1>2, <1>6, OnlyKeeps

LEMMA CreateAccountKeeps ==
  ASSUME ScreenInv, NEW key, updateCreateAccount(key)
  PROVE  ScreenInv' /\ Honest
<1>1. m \in Model /\ Distinct(m.cachedAccounts) /\ m.view = "ViewCreateAccount"
  BY DEF ScreenInv, Fits, updateCreateAccount
<1>2. m.createAccountFocus \in 0 .. 2
  BY <1>1 DEF Model
<1>3. ASSUME NEW i \in 0 .. 2, Only([m EXCEPT !.createAccountFocus = i])
      PROVE  ScreenInv' /\ Honest
  <2> DEFINE t == [m EXCEPT !.createAccountFocus = i]
  <2>1. t \in Model /\ t.view \in PlainViews /\ Distinct(t.cachedAccounts)
    BY <1>1 DEF Model, PlainViews
  <2> QED
    BY <1>3, <2>1, OnlyKeeps, PlainFits
<1>4. PICK menu : menu = [m EXCEPT !.view = "ViewMenu"]
  OBVIOUS
<1>5. menu \in Model /\ menu.view \in PlainViews /\ Distinct(menu.cachedAccounts)
  BY <1>1, <1>4 DEF Model, Views, PlainViews
<1>6. CASE key = "esc"
  BY <1>4, <1>5, <1>6, OnlyKeeps, PlainFits DEF updateCreateAccount
<1>7. CASE key = "tab"
  BY <1>2, <1>3, <1>7 DEF updateCreateAccount
<1>8. CASE key = "shift+tab"
  BY <1>2, <1>3, <1>8 DEF updateCreateAccount
<1>9. CASE key = "text"
  BY <1>9, TypingKeeps DEF updateCreateAccount
<1>10. CASE key = "enter" /\ m.createAccountFocus < 2
  BY <1>2, <1>3, <1>10 DEF updateCreateAccount
<1>11. CASE key = "enter" /\ ~(m.createAccountFocus < 2)
  <2>1. PICK id \in Ids \ known : createAccountWithCA(id, menu)
    BY <1>4, <1>11 DEF updateCreateAccount
  <2>2. CASE Only(m)
    BY <2>2, OnlyKeeps DEF ScreenInv
  <2>3. CASE ~Only(m)
    <3>1. /\ known' = known \cup {id}
          /\ request' = [kind |-> m.view, what |-> Nothing]
          /\ \/ refreshAccounts(menu)
             \/ Show(menu) /\ UNCHANGED origin
      BY <2>1, <2>3 DEF createAccountWithCA
    <3>2. known' \subseteq Ids
      BY <3>1 DEF ScreenInv
    <3>3. View(m) = Nothing
      BY <1>1, OthersDrawn DEF AccountViews, TokenViews, ThreeViews
    <3>4. Honest
      BY <1>1, <3>1, <3>3 DEF Honest, Nothing
    <3> QED
      BY <1>5, <3>1, <3>2, <3>4, FreshIf, PlainFits, RefreshKeeps, ShowKeeps
  <2> QED
    BY <2>2, <2>3
<1> QED
  BY <1>6, <1>7, <1>8, <1>9, <1>10, <1>11 DEF updateCreateAccount

LEMMA AccountDetailKeeps ==
  ASSUME ScreenInv, NEW key, updateAccountDetail(key)
  PROVE  ScreenInv' /\ Honest
<1>1. /\ m \in Model /\ Distinct(m.cachedAccounts) /\ m.view = "ViewAccountDetail"
      /\ Within(m.selectedAccountIndex, Len(m.cachedAccounts))
  BY DEF ScreenInv, Fits, AccountsFit, AccountViews, updateAccountDetail
<1>2. m.selectedAccountIndex \in Nat /\ Len(m.cachedAccounts) \in Nat
  BY <1>1, ModelFields
<1>3. CASE key = "esc"
  <2> DEFINE t == [m EXCEPT !.view = "ViewMenu"]
  <2>1. t \in Model /\ t.view \in PlainViews /\ Distinct(t.cachedAccounts)
    BY <1>1 DEF Model, Views, PlainViews
  <2>2. Only(t)
    BY <1>3 DEF updateAccountDetail
  <2> QED
    BY <2>1, <2>2, OnlyKeeps, PlainFits
<1>4. CASE key \in {"up", "down"}
  <2>1. PICK i : i = Move(key, m.selectedAccountIndex, Len(m.cachedAccounts))
    OBVIOUS
  <2>2. i \in Nat /\ Within(i, Len(m.cachedAccounts))
    BY <1>1, <1>2, <2>1, MoveStays
  <2>3. PICK t : t = [m EXCEPT !.selectedAccountIndex = i]
    OBVIOUS
  <2>4. t \in Model /\ t.view = m.view /\ t.selectedAccountIndex = i /\ t.cachedAccounts = m.cachedAccounts
    BY <1>1, <2>2, <2>3 DEF Model
  <2>5. Fits(t, origin)
    BY <1>1, <2>2, <2>4 DEF Fits, AccountsFit, SendFits, SignerFits, MintFits, ThreeFit, TransferFits,
                            BurnFits, ListFits, TokenViews, ThreeViews
  <2>6. Only(t)
    BY <1>4, <2>1, <2>3 DEF updateAccountDetail
  <2> QED
    BY <2>5, <2>6, OnlyKeeps
<1>5. CASE key = "enter"
  <2>1. ~Beyond(m.cachedAccounts, m.selectedAccountIndex)
    <3>1. m.cachedAccounts # << >>
      BY <1>5 DEF updateAccountDetail
    <3>2. Len(m.cachedAccounts) # 0
      BY <1>1, <3>1, ModelFields
    <3> QED
      BY <1>1, <1>2, <3>2 DEF Beyond, Within
  <2>2. PICK txCount \in 0 .. MaxTransactions :
          Only([m EXCEPT !.view = "ViewAccountDetailSingle",
                         !.selectedTransactionIndex = IF txCount = 0 THEN 0 ELSE txCount - 1])
    BY <1>5, <2>1 DEF updateAccountDetail
  <2>3. PICK i \in Nat : i = IF txCount = 0 THEN 0 ELSE txCount - 1
    BY BoundAssumption
  <2>4. PICK t : t = [m EXCEPT !.view = "ViewAccountDetailSingle", !.selectedTransactionIndex = i]
    OBVIOUS
  <2>5. t \in Model
    <3>1. "ViewAccountDetailSingle" \in Views
      BY DEF Views, AccountViews
    <3> QED
      BY <1>1, <2>4, <3>1, Assigned, Zenon
  <2>6. /\ t.view = "ViewAccountDetailSingle" /\ t.selectedAccountIndex = m.selectedAccountIndex
        /\ t.cachedAccounts = m.cachedAccounts
    BY <1>1, <2>4 DEF Model
  <2>7. Fits(t, origin)
    BY <1>1, <2>5, <2>6 DEF Fits, AccountsFit, SendFits, SignerFits, MintFits, ThreeFit, TransferFits,
                            BurnFits, ListFits, TokenViews, ThreeViews
  <2> QED
    BY <2>2, <2>3, <2>4, <2>7, OnlyKeeps
<1> QED
  BY <1>3, <1>4, <1>5 DEF updateAccountDetail

\* The screens of one account keep its position.
LEMMA SingleKeeps ==
  ASSUME ScreenInv, NEW key, updateAccountDetailSingle(key) \/ updateTransactionDetail(key)
  PROVE  ScreenInv' /\ Honest
<1>1. /\ m \in Model /\ Distinct(m.cachedAccounts) /\ m.view \in AccountViews
      /\ Within(m.selectedAccountIndex, Len(m.cachedAccounts))
  BY DEF ScreenInv, Fits, AccountsFit, AccountViews, updateAccountDetailSingle, updateTransactionDetail
<1>2. ASSUME NEW t, t \in Model, t.view \in AccountViews, t.selectedAccountIndex = m.selectedAccountIndex,
             t.cachedAccounts = m.cachedAccounts, Only(t)
      PROVE  ScreenInv' /\ Honest
  <2>1. Fits(t, origin)
    BY <1>1, <1>2 DEF Fits, AccountsFit, SendFits, SignerFits, MintFits, ThreeFit, TransferFits,
                      BurnFits, ListFits, AccountViews, TokenViews, ThreeViews
  <2> QED
    BY <1>2, <2>1, OnlyKeeps
<1>3. ASSUME NEW v \in AccountViews, Only([m EXCEPT !.view = v])
      PROVE  ScreenInv' /\ Honest
  <2>1. PICK t : t = [m EXCEPT !.view = v]
    OBVIOUS
  <2>2. t \in Model /\ t.view = v /\ t.selectedAccountIndex = m.selectedAccountIndex
        /\ t.cachedAccounts = m.cachedAccounts
    <3>1. v \in Views
      BY DEF Views
    <3> QED
      BY <1>1, <2>1, <3>1 DEF Model
  <2> QED
    BY <1>2, <1>3, <2>1, <2>2
<1>4. ASSUME NEW i \in Nat, Only([m EXCEPT !.selectedTransactionIndex = i])
      PROVE  ScreenInv' /\ Honest
  <2>1. PICK t : t = [m EXCEPT !.selectedTransactionIndex = i]
    OBVIOUS
  <2>2. t \in Model /\ t.view = m.view /\ t.selectedAccountIndex = m.selectedAccountIndex
        /\ t.cachedAccounts = m.cachedAccounts
    BY <1>1, <2>1 DEF Model
  <2> QED
    BY <1>1, <1>2, <1>4, <2>1, <2>2
<1>5. m.selectedTransactionIndex \in Nat
  BY <1>1 DEF Model
<1>6. CASE updateTransactionDetail(key)
  BY <1>3, <1>6 DEF updateTransactionDetail, AccountViews
<1>7. CASE updateAccountDetailSingle(key)
  <2>1. CASE key = "esc"
    BY <1>3, <1>7, <2>1 DEF updateAccountDetailSingle, AccountViews
  <2>2. CASE key = "up"
    BY <1>4, <1>5, <1>7, <2>2 DEF updateAccountDetailSingle
  <2>3. CASE key = "down"
    BY <1>4, <1>5, <1>7, <2>3 DEF updateAccountDetailSingle
  <2>4. CASE key = "enter"
    BY <1>3, <1>7, <2>4 DEF updateAccountDetailSingle, AccountViews
  <2> QED
    BY <1>7, <2>1, <2>2, <2>3, <2>4 DEF updateAccountDetailSingle
<1> QED
  BY <1>6, <1>7

\* Payloads.
LEMMA FilledSend ==
  ASSUME NEW x, NEW y
  PROVE  [Nothing EXCEPT !.first = x, !.second = y] = Shown(x, y, None, None, None)
<1>1. PICK r : r = [Nothing EXCEPT !.first = x, !.second = y]
  OBVIOUS
<1>2. r = Shown(x, y, None, None, None)
  BY <1>1 DEF Nothing, Shown
<1> QED
  BY <1>1, <1>2

LEMMA FilledBurn ==
  ASSUME NEW x, NEW z
  PROVE  [Nothing EXCEPT !.first = x, !.token = z] = Shown(x, None, z, None, None)
<1>1. PICK r : r = [Nothing EXCEPT !.first = x, !.token = z]
  OBVIOUS
<1>2. r = Shown(x, None, z, None, None)
  BY <1>1 DEF Nothing, Shown
<1> QED
  BY <1>1, <1>2

LEMMA FilledThree ==
  ASSUME NEW x, NEW y, NEW z
  PROVE  [Nothing EXCEPT !.first = x, !.second = y, !.token = z] = Shown(x, y, z, None, None)
<1>1. PICK r : r = [Nothing EXCEPT !.first = x, !.second = y, !.token = z]
  OBVIOUS
<1>2. r = Shown(x, y, z, None, None)
  BY <1>1 DEF Nothing, Shown
<1> QED
  BY <1>1, <1>2

LEMMA FilledMint ==
  ASSUME NEW x, NEW y, NEW z
  PROVE  [Nothing EXCEPT !.first = x, !.clawback = y, !.freeze = z] = Shown(x, None, None, y, z)
<1>1. PICK r : r = [Nothing EXCEPT !.first = x, !.clawback = y, !.freeze = z]
  OBVIOUS
<1>2. r = Shown(x, None, None, y, z)
  BY <1>1 DEF Nothing, Shown
<1> QED
  BY <1>1, <1>2

\* Send Money.  The steps that stay on the screen, by what they assign.
LEMMA SendFitsThen ==
  ASSUME NEW t \in Model, NEW o, t.view = "ViewSendMoney", Distinct(t.cachedAccounts),
         Within(t.sendFromIndex, Len(t.cachedAccounts)),
         t.sendStep >= 1 => Other(t.sendToIndex, t.sendFromIndex, Len(t.cachedAccounts))
  PROVE  Fits(t, o)
BY DEF Fits, AccountsFit, SendFits, SignerFits, MintFits, ThreeFit, TransferFits, BurnFits, ListFits,
       AccountViews, TokenViews, ThreeViews

LEMMA SendSubmits ==
  ASSUME ScreenInv, m.view = "ViewSendMoney", m.sendStep = 2
  PROVE  ShownOrPanics([Nothing EXCEPT !.first = Label(m.cachedAccounts, m.sendFromIndex),
                                       !.second = Label(m.cachedAccounts, m.sendToIndex)])
<1> DEFINE a == m.cachedAccounts
           i == m.sendFromIndex
           j == m.sendToIndex
<1>1. m \in Model /\ Distinct(a) /\ SendFits(m) /\ Within(i, Len(a)) /\ Other(j, i, Len(a))
  BY DEF ScreenInv, Fits, SendFits
<1>2. a \in Seq(Ids) /\ Len(a) \in Nat /\ i \in Nat /\ j \in Nat
  BY <1>1, ModelFields
<1>3. PICK what : what = Shown(Label(a, i), Label(a, j), None, None, None)
  OBVIOUS
<1>4. what = [Nothing EXCEPT !.first = Label(a, i), !.second = Label(a, j)]
  BY <1>3, FilledSend, Zenon
<1>5. Range(what) = {Label(a, i), Label(a, j), None}
  BY <1>3 DEF Range, Shown
<1>6. OutOfRange \in Range(what) <=> i >= Len(a) \/ j >= Len(a)
  BY <1>1, <1>2, <1>5, AccountRows, NoneAssumption
<1>7. CASE OutOfRange \in Range(what)
  <2>1. Len(a) < 2
    BY <1>1, <1>2, <1>6, <1>7 DEF Within, Other
  <2> QED
    BY <1>4, <1>7, <2>1 DEF ShownOrPanics
<1>8. CASE OutOfRange \notin Range(what)
  <2>1. i < Len(a) /\ j < Len(a) /\ i # j /\ Len(a) >= 2
    BY <1>1, <1>2, <1>6, <1>8 DEF Other
  <2>2. what = View(m)
    BY <1>1, <1>3, <2>1, SendDrawn
  <2>3. Label(a, i) = a[i + 1] /\ Label(a, j) = a[j + 1] /\ Label(a, i) \in Ids
    BY <1>1, <1>2, <2>1, AccountRows DEF At
  <2>4. i + 1 \in 1 .. Len(a) /\ j + 1 \in 1 .. Len(a) /\ i + 1 # j + 1
    BY <1>2, <2>1
  <2>5. Label(a, i) # Label(a, j) /\ Label(a, i) # None
    BY <1>1, <2>3, <2>4, NoneAssumption DEF Distinct
  <2>6. what.first = Label(a, i) /\ what.second = Label(a, j)
    BY <1>3 DEF Shown
  <2> QED
    BY <1>4, <1>8, <2>2, <2>5, <2>6 DEF ShownOrPanics
<1> QED
  BY <1>7, <1>8

LEMMA SendMoneyKeeps ==
  ASSUME ScreenInv, NEW key, updateSendMoney(key)
  PROVE  ScreenInv' /\ Honest
<1> DEFINE n == Len(m.cachedAccounts)
<1>1. /\ m \in Model /\ Distinct(m.cachedAccounts) /\ m.view = "ViewSendMoney"
      /\ Within(m.sendFromIndex, n)
      /\ m.sendStep >= 1 => Other(m.sendToIndex, m.sendFromIndex, n)
  BY DEF ScreenInv, Fits, SendFits, updateSendMoney
<1>2. n \in Nat /\ m.sendFromIndex \in Nat /\ m.sendToIndex \in Nat /\ m.sendStep \in 0 .. 2
  BY <1>1, ModelFields
<1>3. CASE key = "esc" /\ m.sendStep > 0
  <2>1. PICK k : k = m.sendStep - 1
    OBVIOUS
  <2>2. k \in 0 .. 2 /\ (k >= 1 => m.sendStep >= 1)
    BY <1>2, <1>3, <2>1
  <2>3. PICK t : t = [m EXCEPT !.sendStep = k]
    OBVIOUS
  <2>4. /\ t \in Model /\ t.view = m.view /\ t.cachedAccounts = m.cachedAccounts /\ t.sendStep = k
        /\ t.sendFromIndex = m.sendFromIndex /\ t.sendToIndex = m.sendToIndex
    BY <1>1, <2>2, <2>3 DEF Model
  <2>5. Fits(t, origin)
    BY <1>1, <2>2, <2>4, SendFitsThen
  <2>6. Only(t)
    BY <1>3, <2>1, <2>3 DEF updateSendMoney
  <2> QED
    BY <2>5, <2>6, OnlyKeeps
<1>4. CASE key = "esc" /\ ~(m.sendStep > 0)
  <2> DEFINE t == [m EXCEPT !.view = "ViewMenu"]
  <2>1. t \in Model /\ t.view \in PlainViews /\ Distinct(t.cachedAccounts)
    BY <1>1 DEF Model, Views, PlainViews
  <2>2. Only(t)
    BY <1>4 DEF updateSendMoney
  <2> QED
    BY <2>1, <2>2, OnlyKeeps, PlainFits
<1>5. CASE m.sendStep = 0 /\ key \in {"up", "down"}
  <2>1. PICK i : i = Move(key, m.sendFromIndex, n)
    OBVIOUS
  <2>2. i \in Nat /\ Within(i, n)
    BY <1>1, <1>2, <2>1, MoveStays
  <2>3. PICK t : t = [m EXCEPT !.sendFromIndex = i]
    OBVIOUS
  <2>4. /\ t \in Model /\ t.view = m.view /\ t.cachedAccounts = m.cachedAccounts /\ t.sendStep = 0
        /\ t.sendFromIndex = i
    BY <1>1, <1>5, <2>2, <2>3 DEF Model
  <2>5. Fits(t, origin)
    BY <1>1, <2>2, <2>4, SendFitsThen
  <2>6. Only(t)
    BY <1>5, <2>1, <2>3 DEF updateSendMoney
  <2> QED
    BY <2>5, <2>6, OnlyKeeps
<1>6. CASE m.sendStep = 0 /\ key = "enter"
  <2>1. PICK j : j = FirstOther(m.sendFromIndex)
    OBVIOUS
  <2>2. j \in Nat /\ Other(j, m.sendFromIndex, n)
    BY <1>2, <2>1, FirstOtherIsOther
  <2>3. PICK t : t = [m EXCEPT !.sendStep = 1, !.sendToIndex = j]
    OBVIOUS
  <2>4. t \in Model
    BY <1>1, <2>2, <2>3, Values, Assigned, Zenon
  <2>5. /\ t.view = m.view /\ t.cachedAccounts = m.cachedAccounts
        /\ t.sendFromIndex = m.sendFromIndex /\ t.sendToIndex = j
    BY <1>1, <2>3 DEF Model
  <2>6. Fits(t, origin)
    BY <1>1, <2>2, <2>4, <2>5, SendFitsThen
  <2>7. Only(t)
    BY <1>6, <2>1, <2>3 DEF updateSendMoney
  <2> QED
    BY <2>6, <2>7, OnlyKeeps
<1>7. CASE m.sendStep = 1 /\ key \in {"up", "down"}
  <2>1. PICK j : j = MoveAround(key, m.sendToIndex, n, m.sendFromIndex)
    OBVIOUS
  <2>2. j \in Nat /\ Other(j, m.sendFromIndex, n)
    BY <1>1, <1>2, <1>7, <2>1, MoveAroundStays
  <2>3. PICK t : t = [m EXCEPT !.sendToIndex = j]
    OBVIOUS
  <2>4. /\ t \in Model /\ t.view = m.view /\ t.cachedAccounts = m.cachedAccounts
        /\ t.sendFromIndex = m.sendFromIndex /\ t.sendToIndex = j
    BY <1>1, <2>2, <2>3 DEF Model
  <2>5. Fits(t, origin)
    BY <1>1, <2>2, <2>4, SendFitsThen
  <2>6. Only(t)
    BY <1>7, <2>1, <2>3 DEF updateSendMoney
  <2> QED
    BY <2>5, <2>6, OnlyKeeps
<1>8. CASE m.sendStep = 1 /\ key = "enter"
  <2>1. PICK t : t = [m EXCEPT !.sendStep = 2, !.text = "empty"]
    OBVIOUS
  <2>2. t \in Model
    BY <1>1, <2>1, Values, Assigned, Zenon
  <2>3. /\ t.view = m.view /\ t.cachedAccounts = m.cachedAccounts
        /\ t.sendFromIndex = m.sendFromIndex /\ t.sendToIndex = m.sendToIndex
    BY <1>1, <2>1 DEF Model
  <2>4. Fits(t, origin)
    BY <1>1, <1>8, <2>2, <2>3, SendFitsThen
  <2>5. Only(t)
    BY <1>8, <2>1 DEF updateSendMoney
  <2> QED
    BY <2>4, <2>5, OnlyKeeps
<1>9. CASE m.sendStep = 2 /\ key = "text"
  BY <1>9, TypingKeeps DEF updateSendMoney
<1>10. CASE m.sendStep = 2 /\ key = "enter"
  <2>1. PICK done : done = [m EXCEPT !.view = "ViewMenu", !.sendStep = 0]
    OBVIOUS
  <2>2. done \in Model
    BY <1>1, <2>1, Values, Assigned, Zenon
  <2>3. done.view = "ViewMenu" /\ done.cachedAccounts = m.cachedAccounts
    BY <1>1, <2>1 DEF Model
  <2>4. Fresh(done) /\ Fits(done, origin)
    BY <1>1, <2>2, <2>3, FreshIf, PlainFits DEF PlainViews
  <2>5. Send([Nothing EXCEPT !.first = Label(m.cachedAccounts, m.sendFromIndex),
                             !.second = Label(m.cachedAccounts, m.sendToIndex)], done)
    BY <1>10, <2>1 DEF updateSendMoney
  <2> QED
    BY <1>1, <1>10, <2>4, <2>5, SendSubmits, SendKeeps
<1> QED
  BY <1>3, <1>4, <1>5, <1>6, <1>7, <1>8, <1>9, <1>10 DEF updateSendMoney

\* Only the first eight items can be chosen.
LEMMA MenuScreens == \A i \in 0 .. 7 : TokenMenuViews[i + 1] \in TokenViews
<1> SUFFICES ASSUME NEW i \in 0 .. 7 PROVE TokenMenuViews[i + 1] \in TokenViews
  OBVIOUS
<1>1. i \in {0, 1, 2, 3, 4, 5, 6, 7}
  OBVIOUS
<1> QED
  BY <1>1 DEF TokenMenuViews, TokenViews, ThreeViews

LEMMA TokenMenuKeeps ==
  ASSUME ScreenInv, NEW key, updateTokenMenu(key)
  PROVE  ScreenInv' /\ Honest
<1>1. m \in Model /\ Distinct(m.cachedAccounts) /\ m.view = "ViewTokenMenu"
  BY DEF ScreenInv, Fits, updateTokenMenu
<1>2. m.tokenMenuCursor \in 0 .. 7
  BY <1>1 DEF Model
<1>3. CASE key = "esc"
  <2> DEFINE t == [m EXCEPT !.view = "ViewMenu"]
  <2>1. t \in Model /\ t.view \in PlainViews /\ Distinct(t.cachedAccounts)
    BY <1>1 DEF Model, Views, PlainViews
  <2>2. Only(t)
    BY <1>3 DEF updateTokenMenu
  <2> QED
    BY <2>1, <2>2, OnlyKeeps, PlainFits
<1>4. CASE key \in {"up", "down"}
  <2>1. PICK i : i = Move(key, m.tokenMenuCursor, tokenMenuItemCount)
    OBVIOUS
  <2>2. i \in 0 .. 7
    BY <1>2, <2>1 DEF Move, tokenMenuItemCount
  <2> DEFINE t == [m EXCEPT !.tokenMenuCursor = i]
  <2>3. t \in Model /\ t.view \in PlainViews /\ Distinct(t.cachedAccounts)
    BY <1>1, <2>2 DEF Model, PlainViews
  <2>4. Only(t)
    BY <1>4, <2>1 DEF updateTokenMenu
  <2> QED
    BY <2>3, <2>4, OnlyKeeps, PlainFits
<1>5. CASE key = "enter"
  <2>1. PICK reset : reset = [m EXCEPT !.tokenStep = 0, !.tokenAccountIndex = 0, !.tokenToAccountIndex = 0,
                                       !.tokenSourceIndex = 0, !.tokenClawbackIndex = 0,
                                       !.tokenFreezeIndex = 0, !.tokenTokenIndex = 0]
    OBVIOUS
  <2>2. reset \in Model
    BY <1>1, <2>1, Values, Assigned, ZenonT(60)
  <2>3. /\ reset.view = m.view /\ reset.cachedAccounts = m.cachedAccounts
        /\ reset.tokenStep = 0 /\ reset.tokenAccountIndex = 0
    BY <1>1, <2>1 DEF Model
  <2>4. PICK v \in TokenViews : v = TokenMenuViews[m.tokenMenuCursor + 1]
    BY <1>2, MenuScreens
  <2>5. PICK t : t = [reset EXCEPT !.view = v, !.text = "empty"]
    OBVIOUS
  <2>6. t \in Model
    BY <2>2, <2>4, <2>5, Values, Assigned, Zenon
  <2>7. t.view = v /\ t.tokenStep = 0 /\ t.tokenAccountIndex = 0
    BY <2>2, <2>3, <2>5 DEF Model
  <2>8. Fresh(t)
    BY <2>4, <2>6, <2>7, FreshIf
  <2>9. Fits(reset, origin)
    BY <1>1, <2>2, <2>3, PlainFits DEF PlainViews
  <2>10. RefreshThen(t, reset)
    BY <1>5, <2>1, <2>4, <2>5 DEF updateTokenMenu
  <2> QED
    BY <2>8, <2>9, <2>10, RefreshThenKeeps
<1> QED
  BY <1>3, <1>4, <1>5 DEF updateTokenMenu

-----------------------------------------------------------------------------
(***************************************************************************)
(* The token screens.                                                      *)
(***************************************************************************)
\* A token screen whose own part fits.
LEMMA TokenFitsThen ==
  ASSUME NEW t \in Model, NEW o, t.view \in TokenViews, Distinct(t.cachedAccounts), SignerFits(t),
         MintFits(t), ThreeFit(t, o), TransferFits(t, o), BurnFits(t, o), ListFits(t, o)
  PROVE  Fits(t, o)
BY DEF Fits, AccountsFit, SendFits, AccountViews, TokenViews, ThreeViews

\* Going back: what an earlier step needs was there already.
LEMMA StepBackKeeps ==
  ASSUME ScreenInv, m.view \in TokenViews, NEW key, StepBack(key)
  PROVE  ScreenInv' /\ Honest
<1>1. m \in Model /\ Distinct(m.cachedAccounts) /\ m.tokenStep \in 0 .. 3
  BY ModelFields DEF ScreenInv, Fits
<1>2. CASE m.tokenStep > 0
  <2>1. PICK k : k = m.tokenStep - 1
    OBVIOUS
  <2>2. k \in 0 .. 3 /\ k + 1 = m.tokenStep
    BY <1>1, <1>2, <2>1
  <2>3. PICK t : t = [m EXCEPT !.tokenStep = k]
    OBVIOUS
  <2>4. t \in Model
    BY <1>1, <2>2, <2>3 DEF Model
  <2>5. /\ t.view = m.view /\ t.tokenStep = k
        /\ t.cachedAccounts = m.cachedAccounts /\ t.cachedTokens = m.cachedTokens
        /\ t.tokenAccountIndex = m.tokenAccountIndex /\ t.tokenToAccountIndex = m.tokenToAccountIndex
        /\ t.tokenSourceIndex = m.tokenSourceIndex /\ t.tokenTokenIndex = m.tokenTokenIndex
        /\ t.tokenClawbackIndex = m.tokenClawbackIndex /\ t.tokenFreezeIndex = m.tokenFreezeIndex
    BY <1>1, <2>3 DEF Model
  <2>6. SignerFits(t)
    BY <2>5 DEF ScreenInv, Fits, SignerFits
  <2>7. MintFits(t)
    BY <2>2, <2>5 DEF ScreenInv, Fits, MintFits
  <2>8. ThreeFit(t, origin)
    BY <2>2, <2>5 DEF ScreenInv, Fits, ThreeFit
  <2>9. TransferFits(t, origin)
    BY <2>2, <2>5 DEF ScreenInv, Fits, TransferFits, Offered
  <2>10. BurnFits(t, origin)
    BY <2>2, <2>5 DEF ScreenInv, Fits, BurnFits
  <2>11. ListFits(t, origin)
    BY <2>2, <2>5 DEF ScreenInv, Fits, ListFits
  <2>12. Fits(t, origin)
    BY <1>1, <2>4, <2>5, <2>6, <2>7, <2>8, <2>9, <2>10, <2>11, TokenFitsThen
  <2>13. Only(t)
    BY <1>2, <2>1, <2>3 DEF StepBack
  <2> QED
    BY <2>12, <2>13, OnlyKeeps
<1>3. CASE ~(m.tokenStep > 0)
  <2> DEFINE t == [m EXCEPT !.view = "ViewTokenMenu"]
  <2>1. t \in Model /\ t.view \in PlainViews /\ Distinct(t.cachedAccounts)
    BY <1>1 DEF Model, Views, PlainViews
  <2>2. Only(t)
    BY <1>3 DEF StepBack
  <2> QED
    BY <2>1, <2>2, OnlyKeeps, PlainFits
<1> QED
  BY <1>2, <1>3

LEMMA PickAccountKeeps ==
  ASSUME ScreenInv, m.view \in TokenViews, NEW key, PickAccount(key)
  PROVE  ScreenInv' /\ Honest
<1>1. m \in Model /\ Distinct(m.cachedAccounts) /\ m.tokenStep = 0 /\ SignerFits(m)
  BY DEF ScreenInv, Fits, PickAccount
<1>2. PICK i : i = Move(key, m.tokenAccountIndex, Len(m.cachedAccounts))
  OBVIOUS
<1>3. i \in Nat /\ Within(i, Len(m.cachedAccounts))
  BY <1>1, <1>2, ModelFields, MoveStays DEF SignerFits
<1>4. PICK t : t = [m EXCEPT !.tokenAccountIndex = i]
  OBVIOUS
<1>5. /\ t \in Model /\ t.view = m.view /\ t.cachedAccounts = m.cachedAccounts /\ t.tokenStep = 0
      /\ t.tokenAccountIndex = i
  BY <1>1, <1>3, <1>4 DEF Model
<1>6. SignerFits(t)
  BY <1>3, <1>5 DEF SignerFits
<1>7. MintFits(t) /\ ThreeFit(t, origin) /\ TransferFits(t, origin) /\ BurnFits(t, origin) /\ ListFits(t, origin)
  BY <1>5 DEF MintFits, ThreeFit, TransferFits, BurnFits, ListFits
<1>8. Only(t)
  BY <1>2, <1>4 DEF PickAccount
<1> QED
  BY <1>1, <1>5, <1>6, <1>7, <1>8, TokenFitsThen, OnlyKeeps

LEMMA PickTokenKeeps ==
  ASSUME ScreenInv, m.view \in TokenViews, NEW key, PickToken(key)
  PROVE  ScreenInv' /\ Honest
<1>1. m \in Model /\ Distinct(m.cachedAccounts)
  BY DEF ScreenInv, Fits
<1>2. PICK i : i = Move(key, m.tokenTokenIndex, Len(m.cachedTokens))
  OBVIOUS
<1>3. i \in Nat /\ (m.tokenTokenIndex < Len(m.cachedTokens) => i < Len(m.cachedTokens))
  BY <1>1, <1>2, ModelFields, MoveStays
<1>4. PICK t : t = [m EXCEPT !.tokenTokenIndex = i]
  OBVIOUS
<1>5. t \in Model
  BY <1>1, <1>3, <1>4 DEF Model
<1>6. /\ t.view = m.view /\ t.tokenStep = m.tokenStep /\ t.tokenTokenIndex = i
      /\ t.cachedAccounts = m.cachedAccounts /\ t.cachedTokens = m.cachedTokens
      /\ t.tokenAccountIndex = m.tokenAccountIndex /\ t.tokenToAccountIndex = m.tokenToAccountIndex
      /\ t.tokenSourceIndex = m.tokenSourceIndex
      /\ t.tokenClawbackIndex = m.tokenClawbackIndex /\ t.tokenFreezeIndex = m.tokenFreezeIndex
  BY <1>1, <1>4 DEF Model
<1>7. \A j : Offered(m, j, origin) => Offered(t, j, origin)
  BY <1>3, <1>6 DEF Offered
<1>8. SignerFits(t) /\ MintFits(t)
  BY <1>6 DEF ScreenInv, Fits, SignerFits, MintFits
<1>9. ThreeFit(t, origin)
  BY <1>6, <1>7 DEF ScreenInv, Fits, ThreeFit
<1>10. TransferFits(t, origin)
  BY <1>6, <1>7 DEF ScreenInv, Fits, TransferFits
<1>11. BurnFits(t, origin) /\ ListFits(t, origin)
  BY <1>6, <1>7 DEF ScreenInv, Fits, BurnFits, ListFits
<1>12. Only(t)
  BY <1>2, <1>4 DEF PickToken
<1> QED
  BY <1>1, <1>5, <1>6, <1>8, <1>9, <1>10, <1>11, <1>12, TokenFitsThen, OnlyKeeps

\* ListTokens, once the filter has left the set S.
Listed(idx, S, emptyToo) ==
    \E live \in SUBSET Tokens :
        LET read == refreshTokensForIndex(m, idx, live)
        IN  /\ S \subseteq Range(read.tokens)
            /\ Show(IF Sorted(S) # << >> \/ emptyToo
                    THEN [m EXCEPT !.cachedTokens = Sorted(S), !.tokenTokenIndex = 0, !.tokenStep = @ + 1]
                    ELSE [m EXCEPT !.cachedTokens = read.tokens])
            /\ origin' = read.from
            /\ UNCHANGED known
            /\ request' = None

\* Where it ends: on the same step, or on the next with tokens of S.
Arrived(t, o, idx, S, emptyToo) ==
    /\ t \in Model
    /\ t.view = m.view /\ t.cachedAccounts = m.cachedAccounts
    /\ t.tokenAccountIndex = m.tokenAccountIndex /\ t.tokenSourceIndex = m.tokenSourceIndex
    /\ \/ t.tokenStep = m.tokenStep
       \/ /\ t.tokenStep = m.tokenStep + 1
          /\ t.cachedTokens \in Seq(S)
          /\ t.cachedTokens = << >> => emptyToo
          /\ t.cachedTokens # << >> => Offered(t, idx, o)

LEMMA TokensRead ==
  ASSUME NEW live \in SUBSET Tokens, NEW idx \in Nat
  PROVE  LET read == refreshTokensForIndex(m, idx, live)
         IN  /\ read.tokens \in Seq(Tokens)
             /\ Beyond(m.cachedAccounts, idx) => read.tokens = << >>
             /\ ~Beyond(m.cachedAccounts, idx) => read.from = At(m.cachedAccounts, idx)
<1>1. IsFiniteSet(live) /\ live \subseteq Nat
  BY FiniteAssumption, OrderAssumption, FS_Subset
<1>2. PICK a : a = Sorted(live)
  OBVIOUS
<1>3. a \in Seq(live)
  BY <1>1, <1>2, SortedWorks
<1>4. a \in Seq(Tokens)
  BY <1>3
<1> QED
  BY <1>2, <1>4 DEF refreshTokensForIndex

LEMMA ListedArrives ==
  ASSUME m \in Model, m.tokenStep <= 2, NEW idx \in Nat, NEW S, NEW emptyToo, Listed(idx, S, emptyToo)
  PROVE  \E t, o : Arrived(t, o, idx, S, emptyToo) /\ Show(t) /\ origin' = o /\ known' = known /\ request' = None
<1>1. PICK live \in SUBSET Tokens :
        LET read == refreshTokensForIndex(m, idx, live)
        IN  /\ S \subseteq Range(read.tokens)
            /\ Show(IF Sorted(S) # << >> \/ emptyToo
                    THEN [m EXCEPT !.cachedTokens = Sorted(S), !.tokenTokenIndex = 0, !.tokenStep = @ + 1]
                    ELSE [m EXCEPT !.cachedTokens = read.tokens])
            /\ origin' = read.from
            /\ UNCHANGED known
            /\ request' = None
  BY DEF Listed
<1>2. PICK read : read = refreshTokensForIndex(m, idx, live)
  OBVIOUS
<1>3. PICK list : list = Sorted(S)
  OBVIOUS
<1>4. /\ read.tokens \in Seq(Tokens)
      /\ Beyond(m.cachedAccounts, idx) => read.tokens = << >>
      /\ ~Beyond(m.cachedAccounts, idx) => read.from = At(m.cachedAccounts, idx)
  BY <1>2, TokensRead
<1>5. S \subseteq Range(read.tokens)
  BY <1>1, <1>2
<1>6. S \subseteq Tokens
  BY <1>4, <1>5 DEF Range
<1>7. IsFiniteSet(S) /\ S \subseteq Nat
  BY <1>6, FiniteAssumption, OrderAssumption, FS_Subset
<1>8. list \in Seq(S) /\ (S = {} => list = << >>)
  BY <1>3, <1>7, SortedWorks
<1>9. list \in Seq(Tokens)
  BY <1>6, <1>8
<1>10. Beyond(m.cachedAccounts, idx) => list = << >>
  BY <1>4, <1>5, <1>8 DEF Range
<1>11. idx < Len(m.cachedAccounts) \/ Beyond(m.cachedAccounts, idx)
  BY ModelFields DEF Beyond
<1>12. CASE list # << >> \/ emptyToo
  <2>1. PICK k : k = m.tokenStep + 1
    OBVIOUS
  <2>2. k \in 0 .. 3
    BY <2>1, ModelFields
  <2>3. PICK t : t = [m EXCEPT !.cachedTokens = list, !.tokenTokenIndex = 0, !.tokenStep = k]
    OBVIOUS
  <2>4. t \in Model
    BY <1>9, <2>2, <2>3, Values, Assigned, Zenon
  <2>5. /\ t.view = m.view /\ t.cachedAccounts = m.cachedAccounts
        /\ t.tokenAccountIndex = m.tokenAccountIndex /\ t.tokenSourceIndex = m.tokenSourceIndex
        /\ t.cachedTokens = list /\ t.tokenTokenIndex = 0 /\ t.tokenStep = k
    BY <2>3 DEF Model
  <2>6. list # << >> => Offered(t, idx, read.from)
    <3>1. list # << >> => 0 < Len(list)
      BY <1>9
    <3> QED
      BY <1>4, <1>10, <1>11, <2>5, <3>1 DEF Offered
  <2>7. Arrived(t, read.from, idx, S, emptyToo)
    BY <1>8, <1>12, <2>1, <2>4, <2>5, <2>6 DEF Arrived
  <2>8. Show(t)
    BY <1>1, <1>3, <1>12, <2>1, <2>3
  <2> QED
    BY <1>1, <1>2, <2>7, <2>8
<1>13. CASE ~(list # << >> \/ emptyToo)
  <2>1. PICK t : t = [m EXCEPT !.cachedTokens = read.tokens]
    OBVIOUS
  <2>2. /\ t \in Model
        /\ t.view = m.view /\ t.cachedAccounts = m.cachedAccounts
        /\ t.tokenAccountIndex = m.tokenAccountIndex /\ t.tokenSourceIndex = m.tokenSourceIndex
        /\ t.tokenStep = m.tokenStep
    BY <1>4, <2>1 DEF Model
  <2>3. Arrived(t, read.from, idx, S, emptyToo)
    BY <2>2 DEF Arrived
  <2>4. Show(t)
    BY <1>1, <1>2, <1>3, <1>13, <2>1
  <2> QED
    BY <1>1, <1>2, <2>3, <2>4
<1> QED
  BY <1>12, <1>13

\* Every one of the tokens can be clawed back, or frozen, by the account that signs.
MayClawback(S) == \A t \in S : ClawbackAddress[t] = Signer
MayFreeze(S)   == \A t \in S : FreezeAddress[t] = Signer

\* The filters.
LEMMA AnyListed ==
  ASSUME NEW idx, NEW emptyToo, ListTokens(idx, AnyToken, emptyToo)
  PROVE  \E S : Listed(idx, S, emptyToo)
<1>1. PICK live, frozen \in SUBSET Tokens :
        LET read == refreshTokensForIndex(m, idx, live)
            filtered == Sorted({t \in Range(read.tokens) : AnyToken(t, t \in frozen)})
        IN  /\ Show(IF filtered # << >> \/ emptyToo
                    THEN [m EXCEPT !.cachedTokens = filtered, !.tokenTokenIndex = 0, !.tokenStep = @ + 1]
                    ELSE [m EXCEPT !.cachedTokens = read.tokens])
            /\ origin' = read.from
            /\ UNCHANGED known
            /\ request' = None
  BY Zenon DEF ListTokens
<1> DEFINE S == {t \in Range(refreshTokensForIndex(m, idx, live).tokens) : AnyToken(t, t \in frozen)}
<1>2. S \subseteq Range(refreshTokensForIndex(m, idx, live).tokens)
  OBVIOUS
<1>3. Listed(idx, S, emptyToo)
  BY <1>1, <1>2, Zenon DEF Listed
<1> QED
  BY <1>3

LEMMA ClawbackListed ==
  ASSUME NEW idx, ListTokens(idx, LAMBDA t, isFrozen : ClawbackAddress[t] = Signer, FALSE)
  PROVE  \E S : MayClawback(S) /\ Listed(idx, S, FALSE)
<1>1. PICK live, frozen \in SUBSET Tokens :
        LET read == refreshTokensForIndex(m, idx, live)
            filtered == Sorted({t \in Range(read.tokens) : ClawbackAddress[t] = Signer})
        IN  /\ Show(IF filtered # << >> \/ FALSE
                    THEN [m EXCEPT !.cachedTokens = filtered, !.tokenTokenIndex = 0, !.tokenStep = @ + 1]
                    ELSE [m EXCEPT !.cachedTokens = read.tokens])
            /\ origin' = read.from
            /\ UNCHANGED known
            /\ request' = None
  BY Zenon DEF ListTokens
<1> DEFINE S == {t \in Range(refreshTokensForIndex(m, idx, live).tokens) : ClawbackAddress[t] = Signer}
<1>2. S \subseteq Range(refreshTokensForIndex(m, idx, live).tokens)
  OBVIOUS
<1>3. Listed(idx, S, FALSE)
  BY <1>1, <1>2, Zenon DEF Listed
<1>4. MayClawback(S)
  BY DEF MayClawback
<1> QED
  BY <1>3, <1>4

LEMMA FreezeListed ==
  ASSUME NEW idx, ListTokens(idx, LAMBDA t, isFrozen : FreezeAddress[t] = Signer /\ ~isFrozen, FALSE)
  PROVE  \E S : MayFreeze(S) /\ Listed(idx, S, FALSE)
<1>1. PICK live, frozen \in SUBSET Tokens :
        LET read == refreshTokensForIndex(m, idx, live)
            filtered == Sorted({t \in Range(read.tokens) : FreezeAddress[t] = Signer /\ ~(t \in frozen)})
        IN  /\ Show(IF filtered # << >> \/ FALSE
                    THEN [m EXCEPT !.cachedTokens = filtered, !.tokenTokenIndex = 0, !.tokenStep = @ + 1]
                    ELSE [m EXCEPT !.cachedTokens = read.tokens])
            /\ origin' = read.from
            /\ UNCHANGED known
            /\ request' = None
  BY Zenon DEF ListTokens
<1> DEFINE S == {t \in Range(refreshTokensForIndex(m, idx, live).tokens) :
                   FreezeAddress[t] = Signer /\ ~(t \in frozen)}
<1>2. S \subseteq Range(refreshTokensForIndex(m, idx, live).tokens)
  OBVIOUS
<1>3. Listed(idx, S, FALSE)
  BY <1>1, <1>2, Zenon DEF Listed
<1>4. MayFreeze(S)
  BY DEF MayFreeze
<1> QED
  BY <1>3, <1>4

\* The screen after a request.
LEMMA TokenDoneFits ==
  ASSUME ScreenInv
  PROVE  Fresh(TokenDone) /\ Fits(TokenDone, origin)
<1>1. m \in Model /\ Distinct(m.cachedAccounts)
  BY DEF ScreenInv, Fits
<1>2. PICK done : done = [m EXCEPT !.view = "ViewTokenMenu", !.tokenStep = 0]
  OBVIOUS
<1>3. done \in Model
  BY <1>1, <1>2, Values, Assigned, Zenon
<1>4. done.view = "ViewTokenMenu" /\ done.cachedAccounts = m.cachedAccounts
  BY <1>1, <1>2 DEF Model
<1>5. Fresh(done) /\ Fits(done, origin)
  BY <1>1, <1>3, <1>4, FreshIf, PlainFits DEF PlainViews
<1> QED
  BY <1>2, <1>5 DEF TokenDone

ArrivalFits(idx, S, emptyToo) ==
    \A t, o : Arrived(t, o, idx, S, emptyToo) =>
        MintFits(t) /\ ThreeFit(t, o) /\ TransferFits(t, o) /\ BurnFits(t, o) /\ ListFits(t, o)

\* Tokens are listed from the account at idx, on the screen's step.
LEMMA ListKeeps ==
  ASSUME ScreenInv, m.view \in TokenViews, m.tokenStep <= 2, NEW idx \in Nat, NEW S, NEW emptyToo,
         Listed(idx, S, emptyToo), ArrivalFits(idx, S, emptyToo)
  PROVE  ScreenInv' /\ Honest
<1>1. m \in Model /\ Distinct(m.cachedAccounts) /\ SignerFits(m) /\ known \subseteq Ids
  BY DEF ScreenInv, Fits
<1>2. PICK t, o : Arrived(t, o, idx, S, emptyToo) /\ Show(t) /\ origin' = o /\ known' = known /\ request' = None
  BY <1>1, ListedArrives
<1>3. t \in Model /\ t.view = m.view /\ t.cachedAccounts = m.cachedAccounts
      /\ t.tokenAccountIndex = m.tokenAccountIndex
  BY <1>2 DEF Arrived
<1>4. SignerFits(t)
  BY <1>1, <1>3 DEF SignerFits
<1>5. Fits(t, o)
  BY <1>1, <1>2, <1>3, <1>4, TokenFitsThen DEF ArrivalFits
<1>6. ScreenInv'
  BY <1>1, <1>2, <1>5, ShowKeeps
<1> QED
  BY <1>2, <1>6 DEF Honest

\* Range of a payload.
LEMMA RangeOfShown ==
  ASSUME NEW a, NEW b, NEW c, NEW d, NEW e
  PROVE  /\ Range(Shown(a, b, c, d, e)) = {a, b, c, d, e}
         /\ Shown(a, b, c, d, e).first = a /\ Shown(a, b, c, d, e).second = b
BY DEF Range, Shown

LEMMA MintSubmits ==
  ASSUME ScreenInv, m.view = "ViewMintToken", m.tokenStep = 3
  PROVE  ShownOrPanics([Nothing EXCEPT !.first = Label(m.cachedAccounts, m.tokenAccountIndex),
                                       !.clawback = Address(m.cachedAccounts, m.tokenClawbackIndex),
                                       !.freeze = Address(m.cachedAccounts, m.tokenFreezeIndex)])
<1> DEFINE a == m.cachedAccounts
           i == m.tokenAccountIndex
<1>1. m \in Model /\ SignerFits(m) /\ MintFits(m) /\ Within(i, Len(a))
  BY DEF ScreenInv, Fits, SignerFits, TokenViews
<1>2. a \in Seq(Ids) /\ Len(a) \in Nat /\ i \in Nat
  BY <1>1, ModelFields
<1>3. PICK c : c = Address(a, m.tokenClawbackIndex)
  OBVIOUS
<1>4. PICK f : f = Address(a, m.tokenFreezeIndex)
  OBVIOUS
<1>5. PICK what : what = Shown(Label(a, i), None, None, c, f)
  OBVIOUS
<1>6. what = [Nothing EXCEPT !.first = Label(a, i), !.clawback = c, !.freeze = f]
  BY <1>5, FilledMint, Zenon
<1>7. Range(what) = {Label(a, i), None, c, f} /\ what.first = Label(a, i) /\ what.second = None
  BY <1>5, RangeOfShown
<1>8. CASE a = << >>
  <2>1. Label(a, i) = OutOfRange /\ Len(a) < 2
    BY <1>1, <1>2, <1>8, AccountRows
  <2> QED
    BY <1>3, <1>4, <1>6, <1>7, <2>1 DEF ShownOrPanics
<1>9. CASE a # << >>
  <2>1. i < Len(a)
    BY <1>1, <1>2, <1>9 DEF Within
  <2>2. what = View(m) /\ Draws(m)
    BY <1>1, <1>3, <1>4, <1>5, <1>9, MintDrawn
  <2>3. Label(a, i) \in Ids
    BY <1>1, <1>2, <2>1, AccountRows
  <2>4. OutOfRange \notin Range(what)
    <3>1. DOMAIN what = {"first", "second", "token", "clawback", "freeze"} /\ what.clawback = c /\ what.freeze = f
      BY <1>5 DEF Shown
    <3>2. c # OutOfRange /\ f # OutOfRange /\ Label(a, i) # OutOfRange
      BY <1>7, <2>2, <3>1 DEF Draws
    <3> QED
      BY <1>7, <3>2, NoneAssumption
  <2>5. what.first # None /\ what.first # what.second
    BY <1>7, <2>3, NoneAssumption
  <2> QED
    BY <1>3, <1>4, <1>6, <2>2, <2>4, <2>5 DEF ShownOrPanics
<1> QED
  BY <1>8, <1>9

LEMMA MintFitsThen ==
  ASSUME NEW t \in Model, NEW o, t.view = "ViewMintToken", Distinct(t.cachedAccounts), SignerFits(t),
         MintFits(t)
  PROVE  Fits(t, o)
BY TokenFitsThen DEF ThreeFit, TransferFits, BurnFits, ListFits, TokenViews, ThreeViews

LEMMA MintKeeps ==
  ASSUME ScreenInv, NEW key, updateMintToken(key)
  PROVE  ScreenInv' /\ Honest
<1> DEFINE n == Len(m.cachedAccounts)
<1>1. /\ m \in Model /\ Distinct(m.cachedAccounts) /\ m.view = "ViewMintToken" /\ m.view \in TokenViews
      /\ SignerFits(m) /\ MintFits(m) /\ Within(m.tokenAccountIndex, n)
  BY DEF ScreenInv, Fits, SignerFits, updateMintToken, TokenViews
<1>2. n \in Nat /\ m.tokenClawbackIndex \in Nat /\ m.tokenFreezeIndex \in Nat /\ m.tokenStep \in 0 .. 3
  BY <1>1, ModelFields
<1>3. CASE StepBack(key)
  BY <1>1, <1>3, StepBackKeeps
<1>4. CASE PickAccount(key)
  BY <1>1, <1>4, PickAccountKeeps
<1>5. CASE m.tokenStep = 0 /\ key = "enter" /\ Only([m EXCEPT !.tokenStep = 1, !.text = "empty"])
  <2>1. PICK t : t = [m EXCEPT !.tokenStep = 1, !.text = "empty"]
    OBVIOUS
  <2>2. t \in Model
    BY <1>1, <2>1, Values, Assigned, Zenon
  <2>3. /\ t.view = m.view /\ t.cachedAccounts = m.cachedAccounts /\ t.tokenStep = 1
        /\ t.tokenAccountIndex = m.tokenAccountIndex
    BY <1>1, <2>1 DEF Model
  <2>4. Fits(t, origin)
    BY <1>1, <2>2, <2>3, MintFitsThen DEF MintFits, SignerFits
  <2> QED
    BY <1>5, <2>1, <2>4, OnlyKeeps
<1>6. CASE m.tokenStep = 1 /\ Typing
  BY <1>6, TypingKeeps
<1>7. CASE m.tokenStep = 1 /\ Only([m EXCEPT !.tokenStep = 2, !.tokenClawbackIndex = 0])
  <2>1. PICK t : t = [m EXCEPT !.tokenStep = 2, !.tokenClawbackIndex = 0]
    OBVIOUS
  <2>2. t \in Model
    BY <1>1, <2>1, Values, Assigned, Zenon
  <2>3. /\ t.view = m.view /\ t.cachedAccounts = m.cachedAccounts /\ t.tokenStep = 2
        /\ t.tokenAccountIndex = m.tokenAccountIndex /\ t.tokenClawbackIndex = 0
    BY <1>1, <2>1 DEF Model
  <2>4. Fits(t, origin)
    BY <1>1, <1>2, <2>2, <2>3, MintFitsThen DEF MintFits, SignerFits
  <2> QED
    BY <1>7, <2>1, <2>4, OnlyKeeps
<1>8. CASE m.tokenStep = 2 /\ Only([m EXCEPT !.tokenClawbackIndex = Move(key, @, n + 1)])
  <2>1. PICK i : i = Move(key, m.tokenClawbackIndex, n + 1)
    OBVIOUS
  <2>2. i \in Nat /\ i <= n
    <3>1. m.tokenClawbackIndex < n + 1 /\ n + 1 \in Nat
      BY <1>1, <1>2, <1>8 DEF MintFits
    <3>2. i \in Nat /\ i < n + 1
      BY <1>2, <2>1, <3>1, MoveStays
    <3> QED
      BY <1>2, <3>2
  <2>3. PICK t : t = [m EXCEPT !.tokenClawbackIndex = i]
    OBVIOUS
  <2>4. /\ t \in Model /\ t.view = m.view /\ t.cachedAccounts = m.cachedAccounts /\ t.tokenStep = 2
        /\ t.tokenAccountIndex = m.tokenAccountIndex /\ t.tokenClawbackIndex = i
    BY <1>1, <1>8, <2>2, <2>3 DEF Model
  <2>5. Fits(t, origin)
    BY <1>1, <2>2, <2>4, MintFitsThen DEF MintFits, SignerFits
  <2> QED
    BY <1>8, <2>1, <2>3, <2>5, OnlyKeeps
<1>9. CASE m.tokenStep = 2 /\ Only([m EXCEPT !.tokenStep = 3, !.tokenFreezeIndex = 0])
  <2>1. PICK t : t = [m EXCEPT !.tokenStep = 3, !.tokenFreezeIndex = 0]
    OBVIOUS
  <2>2. t \in Model
    BY <1>1, <2>1, Values, Assigned, Zenon
  <2>3. /\ t.view = m.view /\ t.cachedAccounts = m.cachedAccounts /\ t.tokenStep = 3
        /\ t.tokenAccountIndex = m.tokenAccountIndex /\ t.tokenFreezeIndex = 0
        /\ t.tokenClawbackIndex = m.tokenClawbackIndex
    BY <1>1, <2>1 DEF Model
  <2>4. m.tokenClawbackIndex <= n
    BY <1>1, <1>9 DEF MintFits
  <2>5. Fits(t, origin)
    BY <1>1, <1>2, <2>2, <2>3, <2>4, MintFitsThen DEF MintFits, SignerFits
  <2> QED
    BY <1>9, <2>1, <2>5, OnlyKeeps
<1>10. CASE m.tokenStep = 3 /\ Only([m EXCEPT !.tokenFreezeIndex = Move(key, @, n + 1)])
  <2>1. PICK i : i = Move(key, m.tokenFreezeIndex, n + 1)
    OBVIOUS
  <2>2. i \in Nat /\ i <= n /\ m.tokenClawbackIndex <= n
    <3>1. m.tokenFreezeIndex < n + 1 /\ n + 1 \in Nat /\ m.tokenClawbackIndex <= n
      BY <1>1, <1>2, <1>10 DEF MintFits
    <3>2. i \in Nat /\ i < n + 1
      BY <1>2, <2>1, <3>1, MoveStays
    <3> QED
      BY <1>2, <3>1, <3>2
  <2>3. PICK t : t = [m EXCEPT !.tokenFreezeIndex = i]
    OBVIOUS
  <2>4. /\ t \in Model /\ t.view = m.view /\ t.cachedAccounts = m.cachedAccounts /\ t.tokenStep = 3
        /\ t.tokenAccountIndex = m.tokenAccountIndex /\ t.tokenFreezeIndex = i
        /\ t.tokenClawbackIndex = m.tokenClawbackIndex
    BY <1>1, <1>10, <2>2, <2>3 DEF Model
  <2>5. Fits(t, origin)
    BY <1>1, <2>2, <2>4, MintFitsThen DEF MintFits, SignerFits
  <2> QED
    BY <1>10, <2>1, <2>3, <2>5, OnlyKeeps
<1>11. CASE /\ m.tokenStep = 3
            /\ Send([Nothing EXCEPT !.first = Label(m.cachedAccounts, m.tokenAccountIndex),
                                    !.clawback = Address(m.cachedAccounts, m.tokenClawbackIndex),
                                    !.freeze = Address(m.cachedAccounts, m.tokenFreezeIndex)], TokenDone)
  BY <1>1, <1>11, TokenDoneFits, MintSubmits, SendKeeps
<1> QED
  BY <1>3, <1>4, <1>5, <1>6, <1>7, <1>8, <1>9, <1>10, <1>11 DEF updateMintToken, Address

\* Two accounts at different positions, and a token.
LEMMA PairSubmits ==
  ASSUME NEW s \in Model, Distinct(s.cachedAccounts), NEW i \in Nat, NEW j \in Nat, NEW k \in Nat,
         i < Len(s.cachedAccounts), j < Len(s.cachedAccounts), i # j, k < Len(s.cachedTokens),
         NEW what, what = Shown(Label(s.cachedAccounts, i), Label(s.cachedAccounts, j),
                                Label(s.cachedTokens, k), None, None)
  PROVE  OutOfRange \notin Range(what) /\ what.first # None /\ what.first # what.second
<1> DEFINE a == s.cachedAccounts
<1>1. /\ Label(a, i) = a[i + 1] /\ Label(a, j) = a[j + 1] /\ Label(a, i) \in Ids /\ Label(a, j) \in Ids
      /\ Label(a, i) # OutOfRange /\ Label(a, j) # OutOfRange
  <2>1. Len(a) \in Nat
    BY ModelFields
  <2> QED
    BY <2>1, AccountRows, NoneAssumption DEF At
<1>2. Label(s.cachedTokens, k) # OutOfRange
  BY ModelFields, TokenRows
<1>3. i + 1 \in 1 .. Len(a) /\ j + 1 \in 1 .. Len(a) /\ i + 1 # j + 1
  BY ModelFields
<1>4. Label(a, i) # Label(a, j)
  BY <1>1, <1>3 DEF Distinct
<1>5. /\ Range(what) = {Label(a, i), Label(a, j), Label(s.cachedTokens, k), None}
      /\ what.first = Label(a, i) /\ what.second = Label(a, j)
  BY RangeOfShown
<1> QED
  BY <1>1, <1>2, <1>4, <1>5, NoneAssumption

LEMMA ThreeSubmits ==
  ASSUME ScreenInv, m.view \in ThreeViews, m.tokenStep = 2
  PROVE  ShownOrPanics([Nothing EXCEPT !.first = Label(m.cachedAccounts, m.tokenAccountIndex),
                                       !.second = Label(m.cachedAccounts, m.tokenSourceIndex),
                                       !.token = Label(m.cachedTokens, m.tokenTokenIndex)])
<1> DEFINE a == m.cachedAccounts
           i == m.tokenAccountIndex
           j == m.tokenSourceIndex
           k == m.tokenTokenIndex
<1>1. m \in Model /\ Distinct(a) /\ SignerFits(m) /\ ThreeFit(m, origin) /\ Within(i, Len(a))
  BY DEF ScreenInv, Fits, SignerFits, TokenViews
<1>2. Len(a) \in Nat /\ i \in Nat /\ j \in Nat /\ k \in Nat
  BY <1>1, ModelFields
<1>3. Len(a) >= 2 /\ j # i /\ j < Len(a) /\ k < Len(m.cachedTokens)
  BY <1>1, <1>2 DEF ThreeFit, Other, Offered
<1>4. i < Len(a) /\ a # << >>
  BY <1>1, <1>2, <1>3 DEF Within
<1>5. PICK what : what = Shown(Label(a, i), Label(a, j), Label(m.cachedTokens, k), None, None)
  OBVIOUS
<1>6. what = [Nothing EXCEPT !.first = Label(a, i), !.second = Label(a, j), !.token = Label(m.cachedTokens, k)]
  BY <1>5, FilledThree, Zenon
<1>7. what = View(m)
  BY <1>1, <1>4, <1>5, ThreeDrawn
<1>8. OutOfRange \notin Range(what) /\ what.first # None /\ what.first # what.second
  BY <1>1, <1>2, <1>3, <1>4, <1>5, PairSubmits
<1> QED
  BY <1>6, <1>7, <1>8 DEF ShownOrPanics

LEMMA TransferSubmits ==
  ASSUME ScreenInv, m.view = "ViewTransferToken", m.tokenStep = 2
  PROVE  ShownOrPanics([Nothing EXCEPT !.first = Label(m.cachedAccounts, m.tokenAccountIndex),
                                       !.second = Label(m.cachedAccounts, m.tokenToAccountIndex),
                                       !.token = Label(m.cachedTokens, m.tokenTokenIndex)])
<1> DEFINE a == m.cachedAccounts
           i == m.tokenAccountIndex
           j == m.tokenToAccountIndex
           k == m.tokenTokenIndex
<1>1. m \in Model /\ Distinct(a) /\ SignerFits(m) /\ TransferFits(m, origin)
  BY DEF ScreenInv, Fits
<1>2. Len(a) \in Nat /\ i \in Nat /\ j \in Nat /\ k \in Nat
  BY <1>1, ModelFields
<1>3. i < Len(a) /\ Other(j, i, Len(a)) /\ k < Len(m.cachedTokens)
  BY <1>1, <1>2 DEF TransferFits, Offered
<1>4. PICK what : what = Shown(Label(a, i), Label(a, j), Label(m.cachedTokens, k), None, None)
  OBVIOUS
<1>5. what = [Nothing EXCEPT !.first = Label(a, i), !.second = Label(a, j), !.token = Label(m.cachedTokens, k)]
  BY <1>4, FilledThree, Zenon
<1>6. CASE Len(a) >= 2
  <2>1. what = View(m)
    BY <1>1, <1>4, <1>6, TransferDrawn
  <2>2. j < Len(a) /\ i # j
    BY <1>2, <1>3, <1>6 DEF Other
  <2>3. OutOfRange \notin Range(what) /\ what.first # None /\ what.first # what.second
    BY <1>1, <1>2, <1>3, <1>4, <2>2, PairSubmits
  <2> QED
    BY <1>5, <2>1, <2>3 DEF ShownOrPanics
<1>7. CASE ~(Len(a) >= 2)
  <2>1. j >= Len(a) /\ Len(a) < 2
    BY <1>2, <1>3, <1>7 DEF Other
  <2>2. Label(a, j) = OutOfRange
    BY <1>1, <1>2, <2>1, AccountRows
  <2>3. OutOfRange \in Range(what)
    BY <1>4, <2>2, RangeOfShown
  <2> QED
    BY <1>5, <2>1, <2>3 DEF ShownOrPanics
<1> QED
  BY <1>6, <1>7

LEMMA BurnSubmits ==
  ASSUME ScreenInv, m.view = "ViewBurnToken", m.tokenStep = 1
  PROVE  ShownOrPanics([Nothing EXCEPT !.first = Label(m.cachedAccounts, m.tokenAccountIndex),
                                       !.token = Label(m.cachedTokens, m.tokenTokenIndex)])
<1> DEFINE a == m.cachedAccounts
           i == m.tokenAccountIndex
           k == m.tokenTokenIndex
<1>1. m \in Model /\ SignerFits(m) /\ BurnFits(m, origin)
  BY DEF ScreenInv, Fits
<1>2. a \in Seq(Ids) /\ Len(a) \in Nat /\ i \in Nat /\ k \in Nat
  BY <1>1, ModelFields
<1>3. i < Len(a) /\ a # << >> /\ k < Len(m.cachedTokens)
  BY <1>1, <1>2 DEF BurnFits, Offered
<1>4. PICK what : what = Shown(Label(a, i), None, Label(m.cachedTokens, k), None, None)
  OBVIOUS
<1>5. what = [Nothing EXCEPT !.first = Label(a, i), !.token = Label(m.cachedTokens, k)]
  BY <1>4, FilledBurn, Zenon
<1>6. /\ Label(a, i) \in Ids /\ Label(m.cachedTokens, k) = Cursor(m.cachedTokens, k)
      /\ Label(m.cachedTokens, k) # OutOfRange
  BY <1>1, <1>2, <1>3, AccountRows, TokenRows
<1>7. what = View(m)
  BY <1>1, <1>3, <1>4, <1>6, TwoStepsDrawn
<1>8. /\ Range(what) = {Label(a, i), None, Label(m.cachedTokens, k)}
      /\ what.first = Label(a, i) /\ what.second = None
  BY <1>4, RangeOfShown
<1>9. OutOfRange \notin Range(what) /\ what.first # None /\ what.first # what.second
  BY <1>6, <1>8, NoneAssumption
<1> QED
  BY <1>5, <1>7, <1>9 DEF ShownOrPanics

LEMMA ThreeFitsThen ==
  ASSUME NEW t \in Model, NEW o, t.view \in ThreeViews, Distinct(t.cachedAccounts), SignerFits(t),
         ThreeFit(t, o)
  PROVE  Fits(t, o)
<1>1. t.view \in TokenViews
  BY DEF TokenViews
<1>2. MintFits(t) /\ TransferFits(t, o) /\ BurnFits(t, o) /\ ListFits(t, o)
  BY DEF MintFits, TransferFits, BurnFits, ListFits, ThreeViews
<1> QED
  BY <1>1, <1>2, TokenFitsThen

\* All steps of the screens with three steps but the one that lists tokens.
LEMMA ThreeKeep ==
  ASSUME ScreenInv, m.view \in ThreeViews, NEW key, ThreeSteps(key, AnyToken), ~(m.tokenStep = 1 /\ key = "enter")
  PROVE  ScreenInv' /\ Honest
<1> DEFINE n == Len(m.cachedAccounts)
<1>1. /\ m \in Model /\ Distinct(m.cachedAccounts) /\ m.view \in TokenViews
      /\ SignerFits(m) /\ ThreeFit(m, origin)
  BY DEF ScreenInv, Fits, TokenViews
<1>2. n \in Nat /\ m.tokenAccountIndex \in Nat /\ m.tokenSourceIndex \in Nat /\ m.tokenStep \in 0 .. 3
  BY <1>1, ModelFields
<1>3. CASE StepBack(key)
  BY <1>1, <1>3, StepBackKeeps
<1>4. CASE PickAccount(key)
  BY <1>1, <1>4, PickAccountKeeps
<1>5. CASE /\ m.tokenStep = 0 /\ n >= 2
           /\ Only([m EXCEPT !.tokenStep = 1, !.tokenSourceIndex = FirstOther(m.tokenAccountIndex)])
  <2>1. PICK j : j = FirstOther(m.tokenAccountIndex)
    OBVIOUS
  <2>2. j \in Nat /\ Other(j, m.tokenAccountIndex, n)
    BY <1>2, <2>1, FirstOtherIsOther
  <2>3. PICK t : t = [m EXCEPT !.tokenStep = 1, !.tokenSourceIndex = j]
    OBVIOUS
  <2>4. t \in Model
    BY <1>1, <2>2, <2>3, Values, Assigned, Zenon
  <2>5. /\ t.view = m.view /\ t.cachedAccounts = m.cachedAccounts /\ t.tokenStep = 1
        /\ t.tokenAccountIndex = m.tokenAccountIndex /\ t.tokenSourceIndex = j
    BY <1>1, <2>3 DEF Model
  <2>6. SignerFits(t)
    BY <1>1, <2>5 DEF SignerFits
  <2>7. ThreeFit(t, origin)
    BY <1>5, <2>2, <2>5 DEF ThreeFit
  <2> QED
    BY <1>1, <1>5, <2>1, <2>3, <2>4, <2>5, <2>6, <2>7, ThreeFitsThen, OnlyKeeps
<1>6. CASE /\ m.tokenStep = 1
           /\ Only([m EXCEPT !.tokenSourceIndex = MoveAround(key, @, n, m.tokenAccountIndex)])
  <2>1. PICK j : j = MoveAround(key, m.tokenSourceIndex, n, m.tokenAccountIndex)
    OBVIOUS
  <2>2. n >= 2 /\ Other(m.tokenSourceIndex, m.tokenAccountIndex, n)
    BY <1>1, <1>6 DEF ThreeFit
  <2>3. j \in Nat /\ Other(j, m.tokenAccountIndex, n)
    BY <1>2, <2>1, <2>2, MoveAroundStays
  <2>4. PICK t : t = [m EXCEPT !.tokenSourceIndex = j]
    OBVIOUS
  <2>5. /\ t \in Model /\ t.view = m.view /\ t.cachedAccounts = m.cachedAccounts /\ t.tokenStep = 1
        /\ t.tokenAccountIndex = m.tokenAccountIndex /\ t.tokenSourceIndex = j
    BY <1>1, <1>6, <2>3, <2>4 DEF Model
  <2>6. SignerFits(t)
    BY <1>1, <2>5 DEF SignerFits
  <2>7. ThreeFit(t, origin)
    BY <2>2, <2>3, <2>5 DEF ThreeFit
  <2> QED
    BY <1>1, <1>6, <2>1, <2>4, <2>5, <2>6, <2>7, ThreeFitsThen, OnlyKeeps
<1>7. CASE m.tokenStep = 2 /\ PickToken(key)
  BY <1>1, <1>7, PickTokenKeeps
<1>8. CASE /\ m.tokenStep = 2
           /\ Send([Nothing EXCEPT !.first = Label(m.cachedAccounts, m.tokenAccountIndex),
                                   !.second = Label(m.cachedAccounts, m.tokenSourceIndex),
                                   !.token = Label(m.cachedTokens, m.tokenTokenIndex)], TokenDone)
  BY <1>8, TokenDoneFits, ThreeSubmits, SendKeeps
<1> QED
  BY <1>3, <1>4, <1>5, <1>6, <1>7, <1>8 DEF ThreeSteps

\* What a filter leaves to be offered on the screen.
MayOffer(S) ==
    /\ m.view = "ViewClawbackToken" => MayClawback(S)
    /\ m.view = "ViewFreezeToken" => MayFreeze(S)

LEMMA ThreeListKeeps ==
  ASSUME ScreenInv, m.view \in ThreeViews, m.tokenStep = 1, NEW S, MayOffer(S),
         Listed(m.tokenSourceIndex, S, FALSE)
  PROVE  ScreenInv' /\ Honest
<1> DEFINE n == Len(m.cachedAccounts)
<1>1. /\ m \in Model /\ m.view \in TokenViews /\ ThreeFit(m, origin)
      /\ n >= 2 /\ Other(m.tokenSourceIndex, m.tokenAccountIndex, n)
  BY DEF ScreenInv, Fits, TokenViews, ThreeFit
<1>2. m.tokenSourceIndex \in Nat
  BY <1>1, ModelFields
<1>3. ASSUME NEW t, NEW o, Arrived(t, o, m.tokenSourceIndex, S, FALSE)
      PROVE  MintFits(t) /\ ThreeFit(t, o) /\ TransferFits(t, o) /\ BurnFits(t, o) /\ ListFits(t, o)
  <2>1. /\ t \in Model /\ t.view = m.view /\ t.cachedAccounts = m.cachedAccounts
        /\ t.tokenAccountIndex = m.tokenAccountIndex /\ t.tokenSourceIndex = m.tokenSourceIndex
    BY <1>3 DEF Arrived
  <2>2. MintFits(t) /\ TransferFits(t, o) /\ BurnFits(t, o) /\ ListFits(t, o)
    BY <2>1 DEF MintFits, TransferFits, BurnFits, ListFits, ThreeViews
  <2>3. CASE t.tokenStep = 1
    <3>1. ThreeFit(t, o)
      BY <1>1, <2>1, <2>3 DEF ThreeFit
    <3> QED
      BY <2>2, <3>1
  <2>4. CASE t.tokenStep # 1
    <3>1. t.tokenStep = 2 /\ t.cachedTokens \in Seq(S) /\ Offered(t, t.tokenSourceIndex, o)
      BY <1>3, <2>1, <2>4 DEF Arrived
    <3>2. \A i \in 1 .. Len(t.cachedTokens) : t.cachedTokens[i] \in S
      BY <3>1
    <3>3. Signer = At(t.cachedAccounts, t.tokenAccountIndex)
      BY <2>1 DEF Signer
    <3>4. \A i \in 1 .. Len(t.cachedTokens) :
            /\ t.view = "ViewClawbackToken" =>
                  ClawbackAddress[t.cachedTokens[i]] = At(t.cachedAccounts, t.tokenAccountIndex)
            /\ t.view = "ViewFreezeToken" =>
                  FreezeAddress[t.cachedTokens[i]] = At(t.cachedAccounts, t.tokenAccountIndex)
      BY <2>1, <3>2, <3>3 DEF MayOffer, MayClawback, MayFreeze
    <3>5. ThreeFit(t, o)
      BY <1>1, <2>1, <3>1, <3>4 DEF ThreeFit
    <3> QED
      BY <2>2, <3>5
  <2> QED
    BY <2>2, <2>3, <2>4
<1>4. ArrivalFits(m.tokenSourceIndex, S, FALSE)
  BY <1>3 DEF ArrivalFits
<1>5. m.tokenStep <= 2
  OBVIOUS
<1> QED
  BY <1>1, <1>2, <1>4, <1>5, ListKeeps

LEMMA ThreeScreensKeep ==
  ASSUME ScreenInv, NEW key,
         \/ updateAuthorizeTokenTransfer(key)
         \/ updateUnauthorizeTokenTransfer(key)
         \/ updateClawbackToken(key)
         \/ updateFreezeToken(key)
  PROVE  ScreenInv' /\ Honest
<1>1. CASE updateAuthorizeTokenTransfer(key) \/ updateUnauthorizeTokenTransfer(key)
  <2>1. /\ m.view \in {"ViewAuthorizeTokenTransfer", "ViewUnauthorizeTokenTransfer"}
        /\ ThreeSteps(key, AnyToken)
    BY <1>1 DEF updateAuthorizeTokenTransfer, updateUnauthorizeTokenTransfer
  <2>2. m.view \in ThreeViews
    BY <2>1 DEF ThreeViews
  <2>3. CASE m.tokenStep = 1 /\ key = "enter"
    <3>1. ListTokens(m.tokenSourceIndex, AnyToken, FALSE)
      <4>1. key # "esc" /\ ~(key \in {"up", "down"}) /\ m.tokenStep # 0 /\ m.tokenStep # 2
        BY <2>3
      <4> QED
        BY <2>1, <4>1, Zenon DEF ThreeSteps, StepBack, PickAccount
    <3>2. PICK S : Listed(m.tokenSourceIndex, S, FALSE)
      BY <3>1, AnyListed
    <3>3. MayOffer(S)
      BY <2>1 DEF MayOffer
    <3> QED
      BY <2>2, <2>3, <3>2, <3>3, ThreeListKeeps
  <2> QED
    BY <2>1, <2>2, <2>3, ThreeKeep
<1>2. CASE updateClawbackToken(key)
  <2>1. m.view = "ViewClawbackToken" /\ m.view \in ThreeViews
    BY <1>2 DEF updateClawbackToken, ThreeViews
  <2>2. CASE m.tokenStep = 1 /\ key = "enter"
    <3>1. ListTokens(m.tokenSourceIndex, LAMBDA t, isFrozen : ClawbackAddress[t] = Signer, FALSE)
      <4>1. key # "esc" /\ ~(key \in {"up", "down"}) /\ m.tokenStep # 0 /\ m.tokenStep # 2
        BY <2>2
      <4> QED
        BY <1>2, <4>1, Zenon DEF updateClawbackToken, ThreeSteps, StepBack, PickAccount
    <3>2. PICK S : MayClawback(S) /\ Listed(m.tokenSourceIndex, S, FALSE)
      BY <3>1, ClawbackListed
    <3>3. MayOffer(S)
      BY <2>1, <3>2 DEF MayOffer
    <3> QED
      BY <2>1, <2>2, <3>2, <3>3, ThreeListKeeps
  <2>3. CASE ~(m.tokenStep = 1 /\ key = "enter")
    <3>1. ThreeSteps(key, AnyToken)
      BY <1>2, <2>3 DEF updateClawbackToken, ThreeSteps
    <3> QED
      BY <2>1, <2>3, <3>1, ThreeKeep
  <2> QED
    BY <2>2, <2>3
<1>3. CASE updateFreezeToken(key)
  <2>1. m.view = "ViewFreezeToken" /\ m.view \in ThreeViews
    BY <1>3 DEF updateFreezeToken, ThreeViews
  <2>2. CASE m.tokenStep = 1 /\ key = "enter"
    <3>1. ListTokens(m.tokenSourceIndex, LAMBDA t, isFrozen : FreezeAddress[t] = Signer /\ ~isFrozen, FALSE)
      <4>1. key # "esc" /\ ~(key \in {"up", "down"}) /\ m.tokenStep # 0 /\ m.tokenStep # 2
        BY <2>2
      <4> QED
        BY <1>3, <4>1, Zenon DEF updateFreezeToken, ThreeSteps, StepBack, PickAccount
    <3>2. PICK S : MayFreeze(S) /\ Listed(m.tokenSourceIndex, S, FALSE)
      BY <3>1, FreezeListed
    <3>3. MayOffer(S)
      BY <2>1, <3>2 DEF MayOffer
    <3> QED
      BY <2>1, <2>2, <3>2, <3>3, ThreeListKeeps
  <2>3. CASE ~(m.tokenStep = 1 /\ key = "enter")
    <3>1. ThreeSteps(key, AnyToken)
      BY <1>3, <2>3 DEF updateFreezeToken, ThreeSteps
    <3> QED
      BY <2>1, <2>3, <3>1, ThreeKeep
  <2> QED
    BY <2>2, <2>3
<1> QED
  BY <1>1, <1>2, <1>3

\* The screens that list the tokens of the account that signs.
LEMMA OwnListKeeps ==
  ASSUME ScreenInv, m.view \in {"ViewTransferToken", "ViewBurnToken", "ViewTokenList"}, m.tokenStep = 0,
         NEW emptyToo, emptyToo => m.view = "ViewTokenList", ListTokens(m.tokenAccountIndex, AnyToken, emptyToo)
  PROVE  ScreenInv' /\ Honest
<1>1. PICK S : Listed(m.tokenAccountIndex, S, emptyToo)
  BY AnyListed
<1>2. m \in Model /\ m.view \in TokenViews /\ m.tokenStep <= 2
  BY DEF ScreenInv, Fits, TokenViews
<1>3. m.tokenAccountIndex \in Nat
  BY <1>2, ModelFields
<1>4. ASSUME NEW t, NEW o, Arrived(t, o, m.tokenAccountIndex, S, emptyToo)
      PROVE  MintFits(t) /\ ThreeFit(t, o) /\ TransferFits(t, o) /\ BurnFits(t, o) /\ ListFits(t, o)
  <2>1. /\ t \in Model /\ t.view = m.view /\ t.tokenAccountIndex = m.tokenAccountIndex
        /\ t.tokenStep \in {0, 1}
    BY <1>4 DEF Arrived
  <2>2. MintFits(t) /\ ThreeFit(t, o)
    BY <2>1 DEF MintFits, ThreeFit, ThreeViews
  <2>3. t.tokenStep = 1 =>
          /\ t.cachedTokens = << >> => t.view = "ViewTokenList"
          /\ t.cachedTokens # << >> => Offered(t, t.tokenAccountIndex, o)
    BY <1>4, <2>1 DEF Arrived
  <2>4. TransferFits(t, o) /\ BurnFits(t, o) /\ ListFits(t, o)
    BY <2>1, <2>3 DEF TransferFits, BurnFits, ListFits
  <2> QED
    BY <2>2, <2>4
<1>5. ArrivalFits(m.tokenAccountIndex, S, emptyToo)
  BY <1>4 DEF ArrivalFits
<1> QED
  BY <1>1, <1>2, <1>3, <1>5, ListKeeps

LEMMA TransferKeeps ==
  ASSUME ScreenInv, NEW key, updateTransferToken(key)
  PROVE  ScreenInv' /\ Honest
<1> DEFINE n == Len(m.cachedAccounts)
<1>1. /\ m \in Model /\ Distinct(m.cachedAccounts) /\ m.view = "ViewTransferToken" /\ m.view \in TokenViews
      /\ SignerFits(m) /\ TransferFits(m, origin)
  BY DEF ScreenInv, Fits, TokenViews, updateTransferToken
<1>2. n \in Nat /\ m.tokenAccountIndex \in Nat /\ m.tokenToAccountIndex \in Nat
  BY <1>1, ModelFields
<1>3. ASSUME NEW t, t \in Model, t.view = m.view, t.cachedAccounts = m.cachedAccounts,
             t.cachedTokens = m.cachedTokens, t.tokenAccountIndex = m.tokenAccountIndex,
             t.tokenTokenIndex = m.tokenTokenIndex, t.tokenStep = 2, m.tokenStep >= 1,
             Other(t.tokenToAccountIndex, m.tokenAccountIndex, n), Only(t)
      PROVE  ScreenInv' /\ Honest
  <2>1. SignerFits(t)
    BY <1>1, <1>3 DEF SignerFits
  <2>2. Offered(t, t.tokenAccountIndex, origin)
    BY <1>1, <1>3 DEF TransferFits, Offered
  <2>3. TransferFits(t, origin)
    BY <1>3, <2>2 DEF TransferFits
  <2>4. MintFits(t) /\ ThreeFit(t, origin) /\ BurnFits(t, origin) /\ ListFits(t, origin)
    BY <1>1, <1>3 DEF MintFits, ThreeFit, BurnFits, ListFits, ThreeViews
  <2> QED
    BY <1>1, <1>3, <2>1, <2>3, <2>4, TokenFitsThen, OnlyKeeps
<1>4. CASE StepBack(key)
  BY <1>1, <1>4, StepBackKeeps
<1>5. CASE PickAccount(key)
  BY <1>1, <1>5, PickAccountKeeps
<1>6. CASE m.tokenStep = 0 /\ ListTokens(m.tokenAccountIndex, AnyToken, FALSE)
  BY <1>1, <1>6, OwnListKeeps
<1>7. CASE m.tokenStep = 1 /\ PickToken(key)
  BY <1>1, <1>7, PickTokenKeeps
<1>8. CASE /\ m.tokenStep = 1
           /\ Only([m EXCEPT !.tokenStep = 2, !.tokenToAccountIndex = FirstOther(m.tokenAccountIndex)])
  <2>1. PICK j : j = FirstOther(m.tokenAccountIndex)
    OBVIOUS
  <2>2. j \in Nat /\ Other(j, m.tokenAccountIndex, n)
    BY <1>2, <2>1, FirstOtherIsOther
  <2>3. PICK t : t = [m EXCEPT !.tokenStep = 2, !.tokenToAccountIndex = j]
    OBVIOUS
  <2>4. t \in Model
    BY <1>1, <2>2, <2>3, Values, Assigned, Zenon
  <2>5. /\ t.view = m.view /\ t.cachedAccounts = m.cachedAccounts /\ t.cachedTokens = m.cachedTokens
        /\ t.tokenAccountIndex = m.tokenAccountIndex /\ t.tokenTokenIndex = m.tokenTokenIndex
        /\ t.tokenStep = 2 /\ t.tokenToAccountIndex = j
    BY <1>1, <2>3 DEF Model
  <2>6. Only(t) /\ m.tokenStep >= 1
    BY <1>8, <2>1, <2>3
  <2> QED
    BY <1>3, <2>2, <2>4, <2>5, <2>6
<1>9. CASE /\ m.tokenStep = 2
           /\ Only([m EXCEPT !.tokenToAccountIndex = MoveAround(key, @, n, m.tokenAccountIndex)])
  <2>1. PICK j : j = MoveAround(key, m.tokenToAccountIndex, n, m.tokenAccountIndex)
    OBVIOUS
  <2>2. j \in Nat /\ Other(j, m.tokenAccountIndex, n)
    BY <1>1, <1>2, <1>9, <2>1, MoveAroundStays DEF TransferFits
  <2>3. PICK t : t = [m EXCEPT !.tokenToAccountIndex = j]
    OBVIOUS
  <2>4. t \in Model
    BY <1>1, <2>2, <2>3 DEF Model
  <2>5. /\ t.view = m.view /\ t.cachedAccounts = m.cachedAccounts /\ t.cachedTokens = m.cachedTokens
        /\ t.tokenAccountIndex = m.tokenAccountIndex /\ t.tokenTokenIndex = m.tokenTokenIndex
        /\ t.tokenStep = 2 /\ t.tokenToAccountIndex = j
    BY <1>1, <1>9, <2>3 DEF Model
  <2>6. Only(t) /\ m.tokenStep >= 1
    BY <1>9, <2>1, <2>3
  <2> QED
    BY <1>3, <2>2, <2>4, <2>5, <2>6
<1>10. CASE /\ m.tokenStep = 2
            /\ Send([Nothing EXCEPT !.first = Label(m.cachedAccounts, m.tokenAccountIndex),
                                    !.second = Label(m.cachedAccounts, m.tokenToAccountIndex),
                                    !.token = Label(m.cachedTokens, m.tokenTokenIndex)], TokenDone)
  BY <1>1, <1>10, TokenDoneFits, TransferSubmits, SendKeeps
<1> QED
  BY <1>4, <1>5, <1>6, <1>7, <1>8, <1>9, <1>10 DEF updateTransferToken

LEMMA BurnKeeps ==
  ASSUME ScreenInv, NEW key, updateBurnToken(key)
  PROVE  ScreenInv' /\ Honest
<1>1. m.view = "ViewBurnToken" /\ m.view \in TokenViews
  BY DEF TokenViews, updateBurnToken
<1>2. CASE StepBack(key)
  BY <1>1, <1>2, StepBackKeeps
<1>3. CASE PickAccount(key)
  BY <1>1, <1>3, PickAccountKeeps
<1>4. CASE m.tokenStep = 0 /\ ListTokens(m.tokenAccountIndex, AnyToken, FALSE)
  BY <1>1, <1>4, OwnListKeeps
<1>5. CASE m.tokenStep = 1 /\ PickToken(key)
  BY <1>1, <1>5, PickTokenKeeps
<1>6. CASE /\ m.tokenStep = 1
           /\ Send([Nothing EXCEPT !.first = Label(m.cachedAccounts, m.tokenAccountIndex),
                                   !.token = Label(m.cachedTokens, m.tokenTokenIndex)], TokenDone)
  BY <1>1, <1>6, TokenDoneFits, BurnSubmits, SendKeeps
<1> QED
  BY <1>2, <1>3, <1>4, <1>5, <1>6 DEF updateBurnToken

LEMMA TokenListKeeps ==
  ASSUME ScreenInv, NEW key, updateTokenList(key)
  PROVE  ScreenInv' /\ Honest
<1>1. /\ m \in Model /\ Distinct(m.cachedAccounts) /\ SignerFits(m)
      /\ m.view = "ViewTokenList" /\ m.view \in TokenViews
  BY DEF ScreenInv, Fits, TokenViews, updateTokenList
<1>2. CASE StepBack(key)
  BY <1>1, <1>2, StepBackKeeps
<1>3. CASE Only([m EXCEPT !.tokenStep = 0, !.tokenTokenIndex = 0])
  <2>1. PICK t : t = [m EXCEPT !.tokenStep = 0, !.tokenTokenIndex = 0]
    OBVIOUS
  <2>2. t \in Model
    BY <1>1, <2>1, Values, Assigned, Zenon
  <2>3. /\ t.view = m.view /\ t.cachedAccounts = m.cachedAccounts
        /\ t.tokenAccountIndex = m.tokenAccountIndex /\ t.tokenStep = 0
    BY <1>1, <2>1 DEF Model
  <2>4. SignerFits(t)
    BY <1>1, <2>3 DEF SignerFits
  <2>5. MintFits(t) /\ ThreeFit(t, origin) /\ TransferFits(t, origin) /\ BurnFits(t, origin) /\ ListFits(t, origin)
    BY <2>3 DEF MintFits, ThreeFit, TransferFits, BurnFits, ListFits
  <2> QED
    BY <1>1, <1>3, <2>1, <2>2, <2>3, <2>4, <2>5, TokenFitsThen, OnlyKeeps
<1>4. CASE PickAccount(key)
  BY <1>1, <1>4, PickAccountKeeps
<1>5. CASE m.tokenStep = 0 /\ ListTokens(m.tokenAccountIndex, AnyToken, TRUE)
  BY <1>1, <1>5, OwnListKeeps
<1>6. CASE m.tokenStep = 1 /\ PickToken(key)
  BY <1>1, <1>6, PickTokenKeeps
<1> QED
  BY <1>2, <1>3, <1>4, <1>5, <1>6 DEF updateTokenList

-----------------------------------------------------------------------------
(***************************************************************************)
(* The theorems.                                                           *)
(***************************************************************************)
LEMMA ScreenInit == Init => ScreenInv
<1> SUFFICES ASSUME Init PROVE ScreenInv
  OBVIOUS
<1>1. m \in Model
  BY DEF Init, NewModel, Model, Views
<1>2. m.view = "ViewMenu" /\ m.cachedAccounts = << >>
  BY DEF Init, NewModel
<1>3. Distinct(m.cachedAccounts)
  BY <1>2 DEF Distinct
<1>4. Fits(m, origin)
  BY <1>1, <1>2, <1>3, PlainFits DEF PlainViews
<1> QED
  BY <1>2, <1>4 DEF ScreenInv, Init

\* One key press, or an account created by another transport.
LEMMA ScreenStep ==
  ASSUME ScreenInv, Next
  PROVE  ScreenInv' /\ Honest
<1>1. ASSUME NEW id \in Ids, CreatedElsewhere(id)
      PROVE  ScreenInv' /\ Honest
  BY <1>1 DEF CreatedElsewhere, ScreenInv, Honest
<1>2. ASSUME NEW key \in Keys, Update(key)
      PROVE  ScreenInv' /\ Honest
  <2>1. CASE Quit
    BY <2>1 DEF Quit, ScreenInv, Honest
  <2>2. CASE updateMenu(key)
    BY <2>2, MenuKeeps
  <2>3. CASE updateCreateAccount(key)
    BY <2>3, CreateAccountKeeps
  <2>4. CASE updateAccountDetail(key)
    BY <2>4, AccountDetailKeeps
  <2>5. CASE updateAccountDetailSingle(key) \/ updateTransactionDetail(key)
    BY <2>5, SingleKeeps
  <2>6. CASE updateSendMoney(key)
    BY <2>6, SendMoneyKeeps
  <2>7. CASE updateVirtualNodes(key)
    BY <2>7, VirtualNodesKeeps
  <2>8. CASE updateTokenMenu(key)
    BY <2>8, TokenMenuKeeps
  <2>9. CASE updateMintToken(key)
    BY <2>9, MintKeeps
  <2>10. CASE \/ updateAuthorizeTokenTransfer(key)
              \/ updateUnauthorizeTokenTransfer(key)
              \/ updateClawbackToken(key)
              \/ updateFreezeToken(key)
    BY <2>10, ThreeScreensKeep
  <2>11. CASE updateTransferToken(key)
    BY <2>11, TransferKeeps
  <2>12. CASE updateTokenList(key)
    BY <2>12, TokenListKeeps
  <2>13. CASE updateBurnToken(key)
    BY <2>13, BurnKeeps
  <2> QED
    BY <1>2, <2>1, <2>2, <2>3, <2>4, <2>5, <2>6, <2>7, <2>8, <2>9, <2>10, <2>11, <2>12, <2>13 DEF Update
<1> QED
  BY <1>1, <1>2 DEF Next

\* The positions in the Model fit its lists, whatever was read when and from
\* which screen a key went back.
THEOREM ScreenInvariant == Spec => []ScreenInv
<1>1. Init => ScreenInv
  BY ScreenInit
<1>2. ScreenInv /\ [Next]_vars => ScreenInv'
  <2>1. ASSUME ScreenInv, UNCHANGED vars
        PROVE  ScreenInv'
    BY <2>1 DEF ScreenInv, vars
  <2> QED
    BY <2>1, ScreenStep
<1> QED
  BY <1>1, <1>2, PTL DEF Spec

\* With two or more accounts on the screen neither update.go nor view.go uses a
\* position beyond its list, for any number of accounts and tokens.
THEOREM NoPositionBeyond == Spec => []NoIndexPanic
<1>1. ScreenInv => NoIndexPanic
  BY DEF ScreenInv, NoIndexPanic
<1> QED
  BY <1>1, ScreenInvariant, PTL

\* What update.go gives to be signed is what view.go was showing.
THEOREM SignsWhatIsShown == Spec => SubmitsWhatIsShown
<1>1. ScreenInv /\ [Next]_vars =>
        [request' # None =>
            /\ request'.what = View(m)
            /\ request'.what.first # None \/ request'.kind = "ViewCreateAccount"
            /\ request'.what.first = request'.what.second => request'.what.first = None]_vars
  BY ScreenStep DEF Honest
<1> QED
  BY <1>1, ScreenInvariant, PTL DEF Spec, SubmitsWhatIsShown

LEMMA OfferedFromSource == ScreenInv => ListedFromSource
<1> SUFFICES ASSUME ScreenInv, View(m).token # None
             PROVE  /\ origin = Source(m)
                    /\ \A t \in Range(m.cachedTokens) :
                          /\ m.view = "ViewClawbackToken" => ClawbackAddress[t] = View(m).first
                          /\ m.view = "ViewFreezeToken" => FreezeAddress[t] = View(m).first
  BY DEF ListedFromSource
<1> DEFINE a == m.cachedAccounts
           i == m.tokenAccountIndex
<1>1. m \in Model /\ Fits(m, origin)
  BY DEF ScreenInv, Fits
<1>2. /\ a \in Seq(Ids) /\ Len(a) \in Nat /\ i \in Nat /\ m.tokenSourceIndex \in Nat
      /\ m.tokenStep \in 0 .. 3 /\ m.cachedTokens \in Seq(Tokens) /\ m.tokenTokenIndex \in Nat
  BY <1>1, ModelFields
<1>3. Nothing.token = None
  BY DEF Nothing
<1>4. CASE m.view \in ThreeViews
  <2>1. a # << >>
    <3>1. View(m) = ViewThreeSteps(m)
      BY <1>4 DEF View, ThreeViews, viewAuthorizeTokenTransfer, viewUnauthorizeTokenTransfer,
                  viewClawbackToken, viewFreezeToken
    <3>2. a = << >> => ViewThreeSteps(m) = Nothing
      BY Zenon DEF ViewThreeSteps
    <3> QED
      BY <1>3, <3>1, <3>2
  <2>2. SignerFits(m) /\ ThreeFit(m, origin)
    BY <1>1 DEF Fits
  <2>3. /\ m.tokenStep = 2
        /\ View(m) = Shown(Label(a, i), Label(a, m.tokenSourceIndex),
                           Label(m.cachedTokens, m.tokenTokenIndex), None, None)
    BY <1>1, <1>4, <2>1, <2>2, ThreeDrawn
  <2>4. View(m).first = Label(a, i) /\ View(m).second = Label(a, m.tokenSourceIndex)
    BY <2>3 DEF Shown
  <2>5. i < Len(a)
    BY <1>2, <1>4, <2>1, <2>2 DEF SignerFits, Within, TokenViews
  <2>6. m.tokenSourceIndex < Len(a) /\ origin = At(a, m.tokenSourceIndex)
    BY <1>4, <2>2, <2>3 DEF ThreeFit, Offered
  <2>7. Label(a, i) = At(a, i) /\ Label(a, m.tokenSourceIndex) = At(a, m.tokenSourceIndex)
    BY <1>1, <1>2, <2>5, <2>6, AccountRows
  <2>8. Source(m) = View(m).second
    BY <1>4 DEF Source, ThreeViews
  <2>9. ASSUME NEW t \in Range(m.cachedTokens)
        PROVE  /\ m.view = "ViewClawbackToken" => ClawbackAddress[t] = At(a, i)
               /\ m.view = "ViewFreezeToken" => FreezeAddress[t] = At(a, i)
    <3>1. PICK k \in 1 .. Len(m.cachedTokens) : t = m.cachedTokens[k]
      BY <1>2 DEF Range
    <3> QED
      BY <1>4, <2>2, <2>3, <3>1 DEF ThreeFit
  <2> QED
    BY <2>4, <2>6, <2>7, <2>8, <2>9
<1>5. CASE m.view \in {"ViewBurnToken", "ViewTokenList"}
  <2>1. a # << >>
    BY <1>3, <1>5 DEF View, viewBurnToken, viewTokenList
  <2>2. SignerFits(m) /\ BurnFits(m, origin) /\ ListFits(m, origin)
    BY <1>1 DEF Fits
  <2>3. /\ m.tokenStep # 0
        /\ View(m) = Shown(Label(a, i), None, Cursor(m.cachedTokens, m.tokenTokenIndex), None, None)
    BY <1>1, <1>5, <2>1, <2>2, TwoStepsDrawn
  <2>4. View(m).first = Label(a, i) /\ View(m).token = Cursor(m.cachedTokens, m.tokenTokenIndex)
    BY <2>3 DEF Shown
  <2>5. m.cachedTokens # << >>
    BY <1>2, <2>4 DEF Cursor, Beyond
  <2>6. i < Len(a) /\ origin = At(a, i)
    <3>1. m.tokenStep = 1
      BY <1>2, <1>5, <2>2, <2>3 DEF BurnFits, ListFits
    <3>2. Offered(m, i, origin)
      BY <1>5, <2>2, <2>5, <3>1 DEF BurnFits, ListFits
    <3> QED
      BY <3>2 DEF Offered
  <2>7. Label(a, i) = At(a, i)
    BY <1>1, <1>2, <2>6, AccountRows
  <2>8. Source(m) = View(m).first
    BY <1>5 DEF Source
  <2> QED
    BY <1>5, <2>4, <2>6, <2>7, <2>8
<1>6. CASE m.view = "ViewTransferToken"
  <2>1. Len(a) >= 2
    <3>1. View(m) = viewTransferToken(m)
      BY <1>6 DEF View
    <3>2. Len(a) < 2 => viewTransferToken(m) = Nothing
      BY Zenon DEF viewTransferToken
    <3> QED
      BY <1>2, <1>3, <3>1, <3>2
  <2>2. SignerFits(m) /\ TransferFits(m, origin)
    BY <1>1 DEF Fits
  <2>3. m.tokenStep # 0 /\ View(m).first = Label(a, i)
    BY <1>1, <1>6, <2>1, <2>2, TransferDrawn
  <2>4. i < Len(a) /\ origin = At(a, i)
    BY <1>2, <1>6, <2>2, <2>3 DEF TransferFits, Offered
  <2>5. Label(a, i) = At(a, i)
    BY <1>1, <1>2, <2>4, AccountRows
  <2>6. Source(m) = View(m).first
    BY <1>6 DEF Source
  <2> QED
    BY <1>6, <2>3, <2>4, <2>5, <2>6
<1>7. CASE m.view \in AccountViews
  <2>1. View(m).token = None
    BY <1>1, <1>7, AccountsDrawn DEF Shown
  <2> QED
    BY <2>1
<1>8. CASE m.view = "ViewSendMoney"
  <2>1. View(m) = viewSendMoney(m)
    BY <1>8 DEF View
  <2>2. viewSendMoney(m).token = None
    BY DEF viewSendMoney, Nothing
  <2> QED
    BY <2>1, <2>2
<1>9. CASE m.view = "ViewMintToken"
  <2>1. View(m) = viewMintToken(m)
    BY <1>9 DEF View
  <2>2. viewMintToken(m).token = None
    BY DEF viewMintToken, Nothing
  <2> QED
    BY <2>1, <2>2
<1>10. CASE m.view \notin AccountViews \cup TokenViews \cup {"ViewSendMoney"}
  <2>1. View(m) = Nothing
    BY <1>1, <1>10, OthersDrawn
  <2> QED
    BY <1>3, <2>1
<1> QED
  BY <1>4, <1>5, <1>6, <1>7, <1>8, <1>9, <1>10 DEF TokenViews

\* The tokens that view.go lists were read, by refreshTokensForIndex, from the
\* account that it names, and are under the authority that it names.
THEOREM TokensAreOfTheSource == Spec => []ListedFromSource
BY OfferedFromSource, ScreenInvariant, PTL
=============================================================================
