-------------------------- MODULE MCRecordsProofs --------------------------
(***************************************************************************)
(* Proofs about the components side by side, as MCRecords has them: one in *)
(* focus goes through the steps of its own specification, what the others  *)
(* keep stays as it is, and so every component keeps what it is proved to  *)
(* keep by itself.                                                         *)
(***************************************************************************)
EXTENDS MCRecords, RecordsProofs, ShopProofs, TLAPS

-----------------------------------------------------------------------------
(* A step of the composition *)

\* It is a step of the component in focus.
LEMMA StepOfTheOneInFocus ==
    ASSUME [RecordsNext]_vars
    PROVE  /\ focus' = focus
           /\ focus = "staff" => [StaffNext]_staffVars
           /\ focus = "factor" => [FactorNext]_factorVars
           /\ focus = "catalogue" => [CatalogueNext]_catalogueVars
           /\ focus = "listings" => [ListingsNext]_listingVars
           /\ focus = "book" => [BookNext]_bookVars
           /\ focus = "accounts" => [AccountsNext]_accountVars
           /\ focus = "intake" => [IntakeNext]_intakeVars
           /\ focus = "map" => [MapNext]_mapVars
           /\ focus = "windows" => [WindowsNext]_windowVars
           /\ focus = "screens" => [ScreensNext]_screenVars
           /\ focus = "visit" => [VisitNext]_visitVars
BY DEF RecordsNext, vars, staffVars, staffRows, factorVars, factorRows, catalogueVars, shelfRows,
       catalogueRows, galleryRows, listingVars, priceRows, bookVars, bookRows, accountVars,
       accountRows, intakeVars, intakeRows, mapVars, mapRows, windowVars, slotRows, screenVars,
       visitVars

LEMMA ScreensAskNothing == ScreensNext => UNCHANGED request
BY DEF ScreensNext, OpenScreen, ShowScreen, Press, Serve, OrderMoves, AccountMoves, SignInAgain,
       OtherEntry

\* It leaves alone what the others keep.
LEMMA OthersStay ==
    ASSUME [RecordsNext]_vars
    PROVE  /\ focus \notin {"staff", "screens"} => UNCHANGED staffRows
           /\ focus = "screens" => UNCHANGED request
           /\ focus # "factor" => UNCHANGED factorRows
           /\ focus # "catalogue" => UNCHANGED shelfRows
           /\ focus # "listings" => UNCHANGED priceRows
           /\ focus # "book" => UNCHANGED bookRows
           /\ focus # "accounts" => UNCHANGED accountRows
           /\ focus # "intake" => UNCHANGED intakeRows
           /\ focus # "windows" => UNCHANGED slotRows
           /\ focus # "screens" => UNCHANGED screenRows
BY ScreensAskNothing DEF RecordsNext, vars

\* A component that takes no requests goes through its own steps, or none,
\* whoever is in focus.
LEMMA StepOfTheRest ==
    ASSUME [RecordsNext]_vars
    PROVE  /\ [WindowNext]_pageVars
           /\ [CsvNext]_csvVars
           /\ [SeedNext]_seedVars
           /\ [PoolNext]_poolRows
BY DEF RecordsNext, vars

-----------------------------------------------------------------------------
(* A behaviour of the composition *)

\* It is one of the component in focus.
LEMMA StaffInFocus == RecordsSpec /\ focus = "staff" => StaffSpec
<1>1. RecordsInit => StaffInit
  BY DEF RecordsInit
<1>2. focus = "staff" /\ [RecordsNext]_vars => (focus = "staff")' /\ [StaffNext]_staffVars
  BY StepOfTheOneInFocus
<1> QED BY <1>1, <1>2, PTL DEF RecordsSpec, StaffSpec

LEMMA FactorInFocus == RecordsSpec /\ focus = "factor" => FactorSpec
<1>1. RecordsInit => FactorInit
  BY DEF RecordsInit
<1>2. focus = "factor" /\ [RecordsNext]_vars => (focus = "factor")' /\ [FactorNext]_factorVars
  BY StepOfTheOneInFocus
<1> QED BY <1>1, <1>2, PTL DEF RecordsSpec, FactorSpec

LEMMA CatalogueInFocus == RecordsSpec /\ focus = "catalogue" => CatalogueSpec
<1>1. RecordsInit => CatalogueInit
  BY DEF RecordsInit
<1>2. focus = "catalogue" /\ [RecordsNext]_vars =>
        (focus = "catalogue")' /\ [CatalogueNext]_catalogueVars
  BY StepOfTheOneInFocus
<1> QED BY <1>1, <1>2, PTL DEF RecordsSpec, CatalogueSpec

LEMMA ListingsInFocus == RecordsSpec /\ focus = "listings" => ListingsSpec
<1>1. RecordsInit => ListingsInit
  BY DEF RecordsInit
<1>2. focus = "listings" /\ [RecordsNext]_vars =>
        (focus = "listings")' /\ [ListingsNext]_listingVars
  BY StepOfTheOneInFocus
<1> QED BY <1>1, <1>2, PTL DEF RecordsSpec, ListingsSpec

LEMMA BookInFocus == RecordsSpec /\ focus = "book" => BookSpec
<1>1. RecordsInit => BookInit
  BY DEF RecordsInit
<1>2. focus = "book" /\ [RecordsNext]_vars => (focus = "book")' /\ [BookNext]_bookVars
  BY StepOfTheOneInFocus
<1> QED BY <1>1, <1>2, PTL DEF RecordsSpec, BookSpec

LEMMA AccountsInFocus == RecordsSpec /\ focus = "accounts" => AccountsSpec
<1>1. RecordsInit => AccountsInit
  BY DEF RecordsInit
<1>2. focus = "accounts" /\ [RecordsNext]_vars =>
        (focus = "accounts")' /\ [AccountsNext]_accountVars
  BY StepOfTheOneInFocus
<1> QED BY <1>1, <1>2, PTL DEF RecordsSpec, AccountsSpec

LEMMA IntakeInFocus == RecordsSpec /\ focus = "intake" => IntakeSpec
<1>1. RecordsInit => IntakeInit
  BY DEF RecordsInit
<1>2. focus = "intake" /\ [RecordsNext]_vars => (focus = "intake")' /\ [IntakeNext]_intakeVars
  BY StepOfTheOneInFocus
<1> QED BY <1>1, <1>2, PTL DEF RecordsSpec, IntakeSpec

LEMMA MapInFocus == RecordsSpec /\ focus = "map" => MapSpec
<1>1. RecordsInit => MapInit
  BY DEF RecordsInit
<1>2. focus = "map" /\ [RecordsNext]_vars => (focus = "map")' /\ [MapNext]_mapVars
  BY StepOfTheOneInFocus
<1> QED BY <1>1, <1>2, PTL DEF RecordsSpec, MapSpec

LEMMA WindowsInFocus == RecordsSpec /\ focus = "windows" => WindowsSpec
<1>1. RecordsInit => WindowsInit
  BY DEF RecordsInit
<1>2. focus = "windows" /\ [RecordsNext]_vars => (focus = "windows")' /\ [WindowsNext]_windowVars
  BY StepOfTheOneInFocus
<1> QED BY <1>1, <1>2, PTL DEF RecordsSpec, WindowsSpec

LEMMA ScreensInFocus == RecordsSpec /\ focus = "screens" => ScreensSpec
<1>1. RecordsInit => ScreensInit
  BY DEF RecordsInit
<1>2. focus = "screens" /\ [RecordsNext]_vars => (focus = "screens")' /\ [ScreensNext]_screenVars
  BY StepOfTheOneInFocus
<1> QED BY <1>1, <1>2, PTL DEF RecordsSpec, ScreensSpec

LEMMA VisitInFocus == RecordsSpec /\ focus = "visit" => VisitSpec
<1>1. RecordsInit => RequestsInit /\ VisitInit
  BY DEF RecordsInit, StaffInit
<1>2. focus = "visit" /\ [RecordsNext]_vars => (focus = "visit")' /\ [VisitNext]_visitVars
  BY StepOfTheOneInFocus
<1> QED BY <1>1, <1>2, PTL DEF RecordsSpec, VisitSpec

LEMMA TheRestGoesOn == RecordsSpec => WindowSpec /\ CsvSpec /\ SeedSpec /\ PoolSpec
<1>1. RecordsInit => WindowInit /\ CsvInit /\ SeedInit /\ PoolInit
  BY DEF RecordsInit
<1>2. [RecordsNext]_vars =>
        [WindowNext]_pageVars /\ [CsvNext]_csvVars /\ [SeedNext]_seedVars /\ [PoolNext]_poolRows
  BY StepOfTheRest
<1> QED BY <1>1, <1>2, PTL DEF RecordsSpec, WindowSpec, CsvSpec, SeedSpec, PoolSpec

-----------------------------------------------------------------------------
(* Components that are not in focus *)

LEMMA CodesAtRest == RecordsSpec /\ focus # "factor" => []CodeWorksOnce
<1>1. RecordsInit => CodeWorksOnce
  BY FactorStart DEF RecordsInit, FactorRight
<1>2. focus # "factor" /\ CodeWorksOnce /\ [RecordsNext]_vars =>
        (focus # "factor")' /\ CodeWorksOnce'
  BY StepOfTheOneInFocus, OthersStay DEF factorRows, CodeWorksOnce
<1> QED BY <1>1, <1>2, PTL DEF RecordsSpec

LEMMA TreeAtRest == RecordsSpec /\ focus # "catalogue" => []TreeHasNoCycle
<1>1. RecordsInit => TreeHasNoCycle
  BY TreeInit DEF RecordsInit, TreeRight, Forest, TreeHasNoCycle
<1>2. focus # "catalogue" /\ TreeHasNoCycle /\ [RecordsNext]_vars =>
        (focus # "catalogue")' /\ TreeHasNoCycle'
  BY StepOfTheOneInFocus, OthersStay DEF shelfRows, catalogueRows, TreeHasNoCycle, Acyclic, Existing
<1> QED BY <1>1, <1>2, PTL DEF RecordsSpec

LEMMA PricesAtRest == RecordsSpec /\ focus # "listings" => []PriceHistoryChains
<1>1. RecordsInit => PriceHistoryChains
  BY ListingsStart DEF RecordsInit, ListingsRight
<1>2. focus # "listings" /\ PriceHistoryChains /\ [RecordsNext]_vars =>
        (focus # "listings")' /\ PriceHistoryChains'
  BY StepOfTheOneInFocus, OthersStay DEF priceRows, PriceHistoryChains
<1> QED BY <1>1, <1>2, PTL DEF RecordsSpec

LEMMA BookAtRest == RecordsSpec /\ focus # "book" => []OneDefault
<1>1. RecordsInit => OneDefault
  BY BookStart DEF RecordsInit, BookRight
<1>2. focus # "book" /\ OneDefault /\ [RecordsNext]_vars =>
        (focus # "book")' /\ OneDefault'
  BY StepOfTheOneInFocus, OthersStay DEF bookRows, OneDefault
<1> QED BY <1>1, <1>2, PTL DEF RecordsSpec

LEMMA WindowsAtRest == RecordsSpec /\ focus # "windows" => []WindowsAreApart
<1>1. RecordsInit => WindowsAreApart
  BY DEF RecordsInit, WindowsInit, WindowsAreApart
<1>2. focus # "windows" /\ WindowsAreApart /\ [RecordsNext]_vars =>
        (focus # "windows")' /\ WindowsAreApart'
  BY StepOfTheOneInFocus, OthersStay DEF slotRows, WindowsAreApart
<1> QED BY <1>1, <1>2, PTL DEF RecordsSpec

LEMMA CapsAtRest == RecordsSpec /\ focus # "intake" => []CapsHold
<1>1. RecordsInit => CapsHold
  BY IntakeStart DEF RecordsInit, IntakeRight
<1>2. focus # "intake" /\ CapsHold /\ [RecordsNext]_vars => (focus # "intake")' /\ CapsHold'
  <2> SUFFICES ASSUME focus # "intake", CapsHold, [RecordsNext]_vars
               PROVE  (focus # "intake")' /\ CapsHold'
    OBVIOUS
  <2>1. focus' = focus /\ asks' = asks
    BY StepOfTheOneInFocus, OthersStay DEF intakeRows
  <2>2. PICK before : before = asks
    OBVIOUS
  <2>3. Capped(before)
    BY <2>2, CapsAreCapped
  <2>4. asks' = before
    BY <2>1, <2>2
  <2>5. (CapsHold <=> Capped(asks))'
    BY CapsAreCapped, PTL
  <2>6. CapsHold' <=> Capped(asks')
    BY <2>5
  <2> QED BY <2>1, <2>3, <2>4, <2>6
<1> QED BY <1>1, <1>2, PTL DEF RecordsSpec

\* Accounts move on the screens as well: what no longer fits an account's
\* sessions ends them, and what a sign-in verifies is the account as it is.
PasswordsAreKept ==
    \A u \in Users : account[u] # Nothing => account[u].password >= resetTo[u]

SessionsRight == ScreensRight /\ PasswordsAreKept /\ CookiesMatchAuthority

LEMMA SessionsRightAtFirst == ScreensInit => SessionsRight
<1> SUFFICES ASSUME ScreensInit PROVE SessionsRight
  OBVIOUS
<1>1. StaffInit /\ ScreensRight
  BY ScreensStart DEF ScreensInit
<1>2. CookiesMatchAuthority
  BY <1>1, StaffStarts DEF StaffRight
<1>3. account \in [Users -> Accounts \cup {Nothing}] /\ resetTo = [u \in Users |-> 0]
  BY <1>1 DEF ScreensRight, PairedAccounts, StaffInit
<1>4. PasswordsAreKept
  BY <1>3 DEF PasswordsAreKept, Accounts
<1> QED BY <1>1, <1>2, <1>4 DEF SessionsRight

LEMMA SessionsMoveWithAccounts ==
    ASSUME SessionsRight, AccountMoves
    PROVE  (PasswordsAreKept /\ CookiesMatchAuthority)'
<1>1. PICK a \in SignedIn, u \in Users, j \in StaffJobs :
        /\ account[u] # Nothing
        /\ j.op \in {"update", "disable"} /\ j.target = u
        /\ Eligible(Principal(a), j, account[u])
        /\ account' = [account EXCEPT ![u] = Written(j, account[u])]
        /\ cookies' = IF EndsSessions(j, account[u]) THEN cookies \ SessionsOf(u) ELSE cookies
  BY DEF AccountMoves
<1>2. resetTo' = resetTo
  BY DEF AccountMoves
<1>3. /\ account \in [Users -> Accounts \cup {Nothing}] /\ account[u] \in Accounts
      /\ \A c \in cookies : c.user \in Users
  BY <1>1 DEF SessionsRight, ScreensRight, PairedAccounts
<1> DEFINE row == Written(j, account[u])
<1>4. /\ row.password = account[u].password
      /\ ~EndsSessions(j, account[u]) =>
            row.role = account[u].role /\ row.store = account[u].store
                /\ row.active = account[u].active
  BY <1>1, <1>3 DEF Written, EndsSessions, Accounts
<1>5. row # Nothing
  <2>1. Paired(account[u].role, account[u].store)
    BY <1>1 DEF SessionsRight, ScreensRight, PairedAccounts
  <2>2. j.op = "update" => j.post \in Posts /\ Paired(j.post.role, j.post.store)
    BY <1>1 DEF StaffJobs, Eligible
  <2>3. row \in Accounts
    BY <1>1, <1>3, <2>1, <2>2, RowsStayAccounts
  <2> QED BY <2>3, StaffConstants
<1>6. /\ account'[u] = row
      /\ \A q \in Users \ {u} : account'[q] = account[q]
  BY <1>1, <1>3
<1> HIDE DEF row
<1>7. PasswordsAreKept'
  BY <1>1, <1>2, <1>4, <1>6 DEF PasswordsAreKept, SessionsRight
<1>8. ASSUME NEW c \in cookies'
      PROVE  \/ c.late
             \/ /\ account'[c.user] # Nothing
                /\ account'[c.user].role = c.row.role
                /\ account'[c.user].store = c.row.store
                /\ account'[c.user].active = c.row.active
                /\ c.row.password >= resetTo'[c.user]
  <2>1. c \in cookies /\ (c.user = u => ~EndsSessions(j, account[u]))
    BY <1>1, <1>8 DEF SessionsOf
  <2>2. CASE c.user # u
    BY <1>2, <1>3, <1>6, <2>1, <2>2 DEF SessionsRight, CookiesMatchAuthority
  <2>3. CASE c.user = u
    BY <1>2, <1>4, <1>5, <1>6, <2>1, <2>3 DEF SessionsRight, CookiesMatchAuthority
  <2> QED BY <2>2, <2>3
<1>9. CookiesMatchAuthority'
  BY <1>8 DEF CookiesMatchAuthority
<1> QED BY <1>7, <1>9

LEMMA SessionsStayRight == SessionsRight /\ [ScreensNext]_screenVars => SessionsRight'
<1> SUFFICES ASSUME SessionsRight, [ScreensNext]_screenVars
             PROVE  SessionsRight'
  OBVIOUS
<1>1. ScreensRight'
  BY ScreensStep DEF SessionsRight
<1>2. CASE UNCHANGED <<account, resetTo, cookies>>
  BY <1>1, <1>2 DEF SessionsRight, PasswordsAreKept, CookiesMatchAuthority
<1>3. CASE AccountMoves
  BY <1>1, <1>3, SessionsMoveWithAccounts DEF SessionsRight
<1>4. CASE SignInAgain
  <2>1. PICK u \in Users :
          /\ account[u] # Nothing
          /\ cookies' = cookies \cup {[user |-> u, row |-> account[u], late |-> FALSE]}
    BY <1>4 DEF SignInAgain, IsActive
  <2>2. account' = account /\ resetTo' = resetTo
    BY <1>4 DEF SignInAgain
  <2> QED BY <1>1, <2>1, <2>2 DEF SessionsRight, PasswordsAreKept, CookiesMatchAuthority
<1> QED
  BY <1>2, <1>3, <1>4
     DEF ScreensNext, OpenScreen, ShowScreen, Press, Serve, OrderMoves, OtherEntry, screenVars,
         staffRows

LEMMA CookiesAtRest == RecordsSpec /\ focus # "staff" => []CookiesMatchAuthority
<1>1. RecordsSpec /\ focus = "screens" => []CookiesMatchAuthority
  <2>1. SessionsRight => CookiesMatchAuthority
    BY DEF SessionsRight
  <2> QED
    BY <2>1, ScreensInFocus, SessionsRightAtFirst, SessionsStayRight, PTL DEF ScreensSpec
<1>2. RecordsInit => CookiesMatchAuthority
  BY StaffStarts DEF RecordsInit, StaffRight
<1>3. focus \notin {"staff", "screens"} /\ CookiesMatchAuthority /\ [RecordsNext]_vars =>
        (focus \notin {"staff", "screens"})' /\ CookiesMatchAuthority'
  BY StepOfTheOneInFocus, OthersStay DEF staffRows, CookiesMatchAuthority
<1>4. RecordsSpec /\ focus \notin {"staff", "screens"} => []CookiesMatchAuthority
  BY <1>2, <1>3, PTL DEF RecordsSpec
<1>5. focus # "staff" => focus = "screens" \/ focus \notin {"staff", "screens"}
  OBVIOUS
<1> QED BY <1>1, <1>4, <1>5, PTL

\* While others are in focus no request of the staff is answered that changes an
\* account, no shopper's account changes, and no screen is shown or pressed.
LEMMA StaffAtRest == RecordsSpec /\ focus # "staff" => ManagersRunTheirOwnStaff
<1> DEFINE OwnStaff ==
      \A r \in Requests, u \in Users :
         (/\ account'[u] # account[u]
          /\ pc[r] # "idle" /\ pc'[r] = "idle"
          /\ job[r].op \notin {"own", "signIn"}
          /\ caller[r].role # "SUPER_ADMIN")
         => /\ caller[r].role = "STORE_MANAGER"
            /\ account[u] # Nothing =>
                 \/ account[u].role = "STORE_STAFF" /\ account[u].store = caller[r].store
                 \/ u = caller[r].user
            /\ account'[u].store = caller[r].store
            /\ account'[u].role = "STORE_STAFF" \/ account'[u].role = account[u].role
<1>1. focus # "staff" /\ [RecordsNext]_vars => (focus # "staff")' /\ [OwnStaff]_staffVars
  <2> SUFFICES ASSUME focus # "staff", [RecordsNext]_vars
               PROVE  focus' = focus /\ OwnStaff
    OBVIOUS
  <2>1. account' = account \/ pc' = pc
    BY OthersStay DEF staffRows, request
  <2> QED BY <2>1, StepOfTheOneInFocus
<1> HIDE DEF OwnStaff
<1>2. RecordsSpec /\ focus # "staff" => [][OwnStaff]_staffVars
  BY <1>1, PTL DEF RecordsSpec
<1> QED BY <1>2 DEF OwnStaff, ManagersRunTheirOwnStaff

LEMMA AccountsAtRest == RecordsSpec /\ focus # "accounts" => AccountsKeepTheirOwner
<1> DEFINE OneOwner ==
      \A c \in Rows :
         HasPassword(c) =>
             /\ customer'[c] # Nothing
             /\ customer'[c].email = customer[c].email
             /\ customer'[c].password # customer[c].password =>
                  \E r \in Changing : /\ pc[r] = "cleared" /\ pc'[r] = "idle"
                                      /\ job[r].row = c
<1>1. focus # "accounts" /\ [RecordsNext]_vars => (focus # "accounts")' /\ [OneOwner]_accountVars
  <2> SUFFICES ASSUME focus # "accounts", [RecordsNext]_vars
               PROVE  focus' = focus /\ OneOwner
    OBVIOUS
  <2>1. customer' = customer
    BY OthersStay DEF accountRows
  <2> QED BY <2>1, StepOfTheOneInFocus DEF HasPassword, Known
<1> HIDE DEF OneOwner
<1>2. RecordsSpec /\ focus # "accounts" => [][OneOwner]_accountVars
  BY <1>1, PTL DEF RecordsSpec
<1> QED BY <1>2 DEF OneOwner, AccountsKeepTheirOwner

LEMMA ScreensAtRest == RecordsSpec /\ focus # "screens" => ScreensHold
<1> DEFINE true == /\ (screen = Nothing /\ screen' # Nothing) => ScreenIsTrue(screen')
                   /\ PressIsGranted
<1>1. focus # "screens" /\ [RecordsNext]_vars => (focus # "screens")' /\ [true]_screenVars
  <2> SUFFICES ASSUME focus # "screens", [RecordsNext]_vars
               PROVE  focus' = focus /\ true
    OBVIOUS
  <2>1. screen' = screen /\ order' = order
    BY OthersStay DEF screenRows
  <2> QED BY <2>1, StepOfTheOneInFocus DEF PressIsGranted
<1> HIDE DEF true
<1>2. RecordsSpec /\ focus # "screens" => [][true]_screenVars
  BY <1>1, PTL DEF RecordsSpec
<1> QED BY <1>2 DEF true, ScreensHold

-----------------------------------------------------------------------------
(* What the composition keeps *)

\* Whichever component is in focus keeps its invariant, whatever the constants:
\* the types of its rows, and that what a request relies on when it writes still
\* holds, by the lock, the condition or the key the code has for it.
THEOREM RecordsHold == RecordsSpec => []RecordsInv
<1>1. RecordsSpec => [](focus = "staff" => StaffInv)
  <2>1. focus # "staff" /\ [RecordsNext]_vars => (focus # "staff")'
    BY StepOfTheOneInFocus
  <2>2. focus # "staff" <=> ~(focus = "staff")
    OBVIOUS
  <2> QED BY <2>1, <2>2, StaffInFocus, CookiesCarryAuthority, PTL DEF RecordsSpec
<1>2. RecordsSpec => [](focus = "factor" => FactorInv)
  <2>1. focus # "factor" /\ [RecordsNext]_vars => (focus # "factor")'
    BY StepOfTheOneInFocus
  <2>2. focus # "factor" <=> ~(focus = "factor")
    OBVIOUS
  <2> QED BY <2>1, <2>2, FactorInFocus, CodesWorkOnce, PTL DEF RecordsSpec
<1>3. RecordsSpec => [](focus = "catalogue" => CatalogueInv)
  <2>1. focus # "catalogue" /\ [RecordsNext]_vars => (focus # "catalogue")'
    BY StepOfTheOneInFocus
  <2>2. focus # "catalogue" <=> ~(focus = "catalogue")
    OBVIOUS
  <2> QED BY <2>1, <2>2, CatalogueInFocus, CatalogueHolds, PTL DEF RecordsSpec
<1>4. RecordsSpec => [](focus = "listings" => ListingsInv)
  <2>1. focus # "listings" /\ [RecordsNext]_vars => (focus # "listings")'
    BY StepOfTheOneInFocus
  <2>2. focus # "listings" <=> ~(focus = "listings")
    OBVIOUS
  <2> QED BY <2>1, <2>2, ListingsInFocus, HistoryChains, PTL DEF RecordsSpec
<1>5. RecordsSpec => [](focus = "book" => BookInv)
  <2>1. focus # "book" /\ [RecordsNext]_vars => (focus # "book")'
    BY StepOfTheOneInFocus
  <2>2. focus # "book" <=> ~(focus = "book")
    OBVIOUS
  <2> QED BY <2>1, <2>2, BookInFocus, OneDefaultHolds, PTL DEF RecordsSpec
<1>6. RecordsSpec => [](focus = "accounts" => AccountsInv)
  <2>1. focus # "accounts" /\ [RecordsNext]_vars => (focus # "accounts")'
    BY StepOfTheOneInFocus
  <2>2. focus # "accounts" <=> ~(focus = "accounts")
    OBVIOUS
  <2> QED BY <2>1, <2>2, AccountsInFocus, AccountsHold, PTL DEF RecordsSpec
<1>7. RecordsSpec => [](focus = "intake" => IntakeInv)
  <2>1. focus # "intake" /\ [RecordsNext]_vars => (focus # "intake")'
    BY StepOfTheOneInFocus
  <2>2. focus # "intake" <=> ~(focus = "intake")
    OBVIOUS
  <2> QED BY <2>1, <2>2, IntakeInFocus, IntakeIsCapped, PTL DEF RecordsSpec
<1>8. RecordsSpec => [](focus = "map" => MapInv /\ RoutesToOneShop)
  <2>1. focus # "map" /\ [RecordsNext]_vars => (focus # "map")'
    BY StepOfTheOneInFocus
  <2>2. focus # "map" <=> ~(focus = "map")
    OBVIOUS
  <2> QED BY <2>1, <2>2, MapInFocus, TheMapHolds, PTL DEF RecordsSpec
<1>9. RecordsSpec => [](focus = "windows" => WindowsInv)
  <2>1. focus # "windows" /\ [RecordsNext]_vars => (focus # "windows")'
    BY StepOfTheOneInFocus
  <2>2. focus # "windows" <=> ~(focus = "windows")
    OBVIOUS
  <2> QED BY <2>1, <2>2, WindowsInFocus, WindowsStayApart, PTL DEF RecordsSpec
<1>10. RecordsSpec => [](focus = "visit" => VisitInv)
  <2>1. focus # "visit" /\ [RecordsNext]_vars => (focus # "visit")'
    BY StepOfTheOneInFocus
  <2>2. focus # "visit" <=> ~(focus = "visit")
    OBVIOUS
  <2> QED BY <2>1, <2>2, VisitInFocus, TheDeviceHolds, PTL DEF RecordsSpec
<1>11. RecordsSpec => []PoolInv
  BY TheRestGoesOn, OnlyBasketsWaitForever, PTL
<1> QED
  BY <1>1, <1>2, <1>3, <1>4, <1>5, <1>6, <1>7, <1>8, <1>9, <1>10, <1>11, PTL DEF RecordsInv

\* Every component keeps its promise, in focus or not: sessions match the authority
\* they were opened under and a code works once, the tree has no cycle, histories chain,
\* a book has one default, intake is capped, windows stay apart, pages and stock files are
\* true, nothing is seeded twice; and no step of anyone lets a manager reach other staff,
\* gives an account another owner or makes a screen lie.
THEOREM RecordsKeepTheirPromises ==
    RecordsSpec =>
        /\ []CookiesMatchAuthority /\ []CodeWorksOnce /\ []TreeHasNoCycle
        /\ []PriceHistoryChains /\ []OneDefault /\ []CapsHold /\ []WindowsAreApart
        /\ []ShopWindowIsTrue /\ []CsvReadAsWritten /\ []SeedMovesOnce
        /\ ManagersRunTheirOwnStaff /\ AccountsKeepTheirOwner /\ ScreensHold
<1>1. RecordsSpec => []CookiesMatchAuthority
  <2>1. focus = "staff" \/ focus # "staff"
    OBVIOUS
  <2> QED BY <2>1, StaffInFocus, CookiesCarryAuthority, CookiesAtRest, PTL
<1>2. RecordsSpec => []CodeWorksOnce
  <2>1. focus = "factor" \/ focus # "factor"
    OBVIOUS
  <2> QED BY <2>1, FactorInFocus, CodesWorkOnce, CodesAtRest, PTL
<1>3. RecordsSpec => []TreeHasNoCycle
  <2>1. focus = "catalogue" \/ focus # "catalogue"
    OBVIOUS
  <2> QED BY <2>1, CatalogueInFocus, TreeStaysATree, TreeAtRest, PTL
<1>4. RecordsSpec => []PriceHistoryChains
  <2>1. focus = "listings" \/ focus # "listings"
    OBVIOUS
  <2> QED BY <2>1, ListingsInFocus, HistoryChains, PricesAtRest, PTL
<1>5. RecordsSpec => []OneDefault
  <2>1. focus = "book" \/ focus # "book"
    OBVIOUS
  <2> QED BY <2>1, BookInFocus, OneDefaultHolds, BookAtRest, PTL
<1>6. RecordsSpec => []CapsHold
  <2>1. focus = "intake" \/ focus # "intake"
    OBVIOUS
  <2> QED BY <2>1, IntakeInFocus, IntakeIsCapped, CapsAtRest, PTL
<1>7. RecordsSpec => []WindowsAreApart
  <2>1. focus = "windows" \/ focus # "windows"
    OBVIOUS
  <2> QED BY <2>1, WindowsInFocus, WindowsStayApart, WindowsAtRest, PTL
<1>8. RecordsSpec => ManagersRunTheirOwnStaff
  <2>1. focus = "staff" \/ focus # "staff"
    OBVIOUS
  <2> QED BY <2>1, StaffInFocus, ManagersStayInTheirShop, StaffAtRest, PTL
<1>9. RecordsSpec => AccountsKeepTheirOwner
  <2>1. focus = "accounts" \/ focus # "accounts"
    OBVIOUS
  <2> QED BY <2>1, AccountsInFocus, OwnersKeepTheirAccounts, AccountsAtRest, PTL
<1>10. RecordsSpec => ScreensHold
  <2>1. focus = "screens" \/ focus # "screens"
    OBVIOUS
  <2> QED BY <2>1, ScreensInFocus, ScreensTellTheTruth, ScreensAtRest, PTL
<1>11. RecordsSpec => []ShopWindowIsTrue
  BY TheRestGoesOn, TheShopWindowHolds, PTL
<1>12. RecordsSpec => []CsvReadAsWritten
  BY TheRestGoesOn, StockFilesAreReadAsWritten, PTL
<1>13. RecordsSpec => []SeedMovesOnce
  BY TheRestGoesOn, TheSeedMovesOnce, PTL
<1> QED
  BY <1>1, <1>2, <1>3, <1>4, <1>5, <1>6, <1>7, <1>8, <1>9, <1>10, <1>11, <1>12, <1>13, PTL

-----------------------------------------------------------------------------
(* What the shop window assumes of the catalogue *)

\* A tree of aisles as the window reads it of the category rows.
DrawnFrom(cat, tree) ==
    \A a \in Aisles :
        /\ a \in Existing(cat)
        /\ tree[a].under = IF cat[a] = NoParent THEN Root ELSE cat[a]

\* However categories are moved, a tree of aisles that is drawn from them has no
\* loop: what ShopWindow assumes of the tree it starts from is what the moves
\* keep (catalog/domain descendantCategoryIds, service.ts assertNoCycle).
THEOREM WindowsAreDrawnFromATree ==
    CatalogueSpec =>
        [](\A tree \in [Aisles -> Placed] : DrawnFrom(parent, tree) => Loopless(tree))
<1>1. ASSUME TreeHasNoCycle, NEW tree \in [Aisles -> Placed], DrawnFrom(parent, tree)
      PROVE  Loopless(tree)
  <2> SUFFICES ASSUME NEW S \in (SUBSET Aisles) \ {{}}
               PROVE  \E a \in S : tree[a].under \notin S
    BY DEF Loopless
  <2>1. S \in SUBSET Existing(parent) /\ S # {}
    BY <1>1 DEF DrawnFrom
  <2>2. PICK a \in S : parent[a] \notin S
    BY <1>1, <2>1 DEF TreeHasNoCycle, Acyclic
  <2>3. tree[a].under = Root \/ tree[a].under = parent[a]
    BY <1>1 DEF DrawnFrom
  <2>4. Root \notin S
    BY ShopWindowConstants
  <2> QED BY <2>2, <2>3, <2>4
<1>2. TreeHasNoCycle =>
        \A tree \in [Aisles -> Placed] : DrawnFrom(parent, tree) => Loopless(tree)
  BY <1>1
<1> QED BY <1>2, TreeStaysATree, PTL
=============================================================================
