---------------------------- MODULE ShopAccounts ----------------------------
(***************************************************************************)
(* Who a shopper is: sign-up, checkout as a guest, the profile, the        *)
(* password and the sessions (customers/service.ts, customers/repo.ts).    *)
(*                                                                         *)
(* An order leaves a row with a phone number and nothing else.  A sign-up  *)
(* with that number claims the row.  The database keeps phones and emails  *)
(* unique; a write that breaks this is an error and changes nothing.  A    *)
(* change of password is a transaction of three steps, the row, the        *)
(* sessions, the commit, and shows nothing before its last; the others     *)
(* write once, so that their transactions are one step.                    *)
(***************************************************************************)
EXTENDS Requests

CONSTANTS
    Rows,     \* ids of Customer rows
    Phones,
    Emails,
    MaxAccountCalls   \* bound: requests served in one behaviour

VARIABLES
    customer,   \* the Customer rows, Nothing where there is none
    signedIn    \* sessions: the row; the password verified; whether a change of
                \* it had already passed the sessions by when this one was opened;
                \* and the request whose open transaction has deleted it

accountVars == <<request, customer, signedIn>>

Customers == [phone : Phones, email : Emails \cup {Nothing}, password : Nat]

ASSUME AccountConstants ==
    /\ MaxAccountCalls \in Nat
    /\ Nothing \notin Emails \cup Customers

SignUps == [op : {"signUp"}, phone : Phones, email : Emails]

Known == {c \in Rows : customer[c] # Nothing}
WithPhone(p) == {c \in Known : customer[c].phone = p}
WithEmail(e) == {c \in Known : customer[c].email = e}

\* An account has credentials; a contact row has neither email nor password.
IsContact(c) == customer[c].email = Nothing /\ customer[c].password = 0
HasPassword(c) == c \in Known /\ customer[c].password > 0

\* The row lock of a change of password, from its first write to its commit.
Changing == {r \in Requests : pc[r] \in {"changed", "cleared"}}
Locked(c) == \E r \in Changing : job[r].row = c

Insert(phone, email, password) ==
    \/ \E c \in Rows \ Known :
         customer' = [customer EXCEPT ![c] =
                        [phone |-> phone, email |-> email, password |-> password]]
    \/ Known = Rows /\ UNCHANGED customer

-----------------------------------------------------------------------------
(* Sign-up *)

AskAccount(r) ==
    /\ served < MaxAccountCalls
    /\ \E j \in SignUps : Starts(r, Nothing, j, "hashed", Nothing)
    /\ UNCHANGED <<customer, signedIn>>

\* An email that is known, or a phone that has an account, is answered with
\* the same words as a success.
ReadEmail(r) ==
    /\ pc[r] = "hashed"
    /\ IF WithEmail(job[r].email) # {}
       THEN Answered(r)
       ELSE GoesOn(r, "newEmail", Nothing)
    /\ UNCHANGED <<customer, signedIn>>

ReadPhone(r) ==
    /\ pc[r] = "newEmail"
    /\ \/ /\ WithPhone(job[r].phone) = {}
          /\ GoesOn(r, "newPhone", Nothing)
       \/ \E c \in WithPhone(job[r].phone) :
            IF IsContact(c) THEN GoesOn(r, "contact", Nothing) ELSE Answered(r)
    /\ UNCHANGED <<customer, signedIn>>

\* Bug: the claim trusts the row it read.
ClaimableAnyway(c) == TRUE

\* The claim repeats the condition, so that the database decides it.
StillContact(c) == IsContact(c)

\* claimContactRow
Claim(r) ==
    /\ pc[r] = "contact"
    /\ customer' =
         [c \in Rows |->
            IF c \in WithPhone(job[r].phone) /\ StillContact(c) /\ WithEmail(job[r].email) = {}
            THEN [customer[c] EXCEPT !.email = job[r].email, !.password = 1]
            ELSE customer[c]]
    /\ Answered(r)
    /\ UNCHANGED signedIn

\* insertCustomer
Register(r) ==
    /\ pc[r] = "newPhone"
    /\ IF WithPhone(job[r].phone) = {} /\ WithEmail(job[r].email) = {}
       THEN Insert(job[r].phone, job[r].email, 1)
       ELSE UNCHANGED customer
    /\ Answered(r)
    /\ UNCHANGED signedIn

-----------------------------------------------------------------------------
(* Orders and profiles *)

\* upsertCheckoutCustomer, in the transaction that places the order: the name
\* is refreshed, credentials are never disturbed.
OrderAsGuest(r) ==
    /\ served < MaxAccountCalls
    /\ pc[r] = "idle"
    /\ \E p \in Phones :
         /\ \A c \in WithPhone(p) : ~Locked(c)
         /\ IF WithPhone(p) = {} THEN Insert(p, Nothing, 0) ELSE UNCHANGED customer
    /\ served' = served + 1
    /\ UNCHANGED <<pc, job, caller, seen, signedIn>>

\* updateProfile asks whose the number is before its transaction.
AskProfile(r) ==
    /\ served < MaxAccountCalls
    /\ \E s \in signedIn, p \in Phones :
         /\ WithPhone(p) \subseteq {s.row}
         /\ Starts(r, Nothing, [op |-> "profile", row |-> s.row, phone |-> p], "checked", Nothing)
    /\ UNCHANGED <<customer, signedIn>>

SaveProfile(r) ==
    /\ pc[r] = "checked"
    /\ ~Locked(job[r].row)
    /\ customer' = IF WithPhone(job[r].phone) \subseteq {job[r].row}
                   THEN [customer EXCEPT ![job[r].row].phone = job[r].phone]
                   ELSE customer
    /\ Answered(r)
    /\ UNCHANGED signedIn

-----------------------------------------------------------------------------
(* Passwords and sessions *)

\* changePassword verifies the current password before its transaction.
AskPassword(r) ==
    /\ served < MaxAccountCalls
    /\ \E s \in signedIn :
         /\ HasPassword(s.row)
         /\ Starts(r, Nothing, [op |-> "password", row |-> s.row], "verified", Nothing)
    /\ UNCHANGED <<customer, signedIn>>

\* The transaction: the row is written and stays locked ...
ChangeRow(r) ==
    /\ pc[r] = "verified" /\ job[r].op = "password"
    /\ ~Locked(job[r].row)
    /\ GoesOn(r, "changed", Nothing)
    /\ UNCHANGED <<customer, signedIn>>

\* ... every session there is now is deleted, this one included ...
DeleteSessions(r) ==
    /\ pc[r] = "changed"
    /\ signedIn' = {IF s.row = job[r].row THEN [s EXCEPT !.deletedBy = r] ELSE s : s \in signedIn}
    /\ GoesOn(r, "cleared", Nothing)
    /\ UNCHANGED customer

\* Bug: the sessions stay.
CommitPasswordOnly(r) ==
    /\ pc[r] = "cleared"
    /\ customer' = [customer EXCEPT ![job[r].row].password = @ + 1]
    /\ signedIn' = {[s EXCEPT !.deletedBy = IF @ = r THEN Nothing ELSE @] : s \in signedIn}
    /\ Answered(r)

\* ... and both show at the commit.  A session that a sign-in has opened in
\* between was not there to be deleted, and stays.
CommitPassword(r) ==
    /\ pc[r] = "cleared"
    /\ customer' = [customer EXCEPT ![job[r].row].password = @ + 1]
    /\ signedIn' = {s \in signedIn : s.deletedBy # r}
    /\ Answered(r)

\* Or it times out or loses its connection, and nothing has happened.
LosePassword(r) ==
    /\ r \in Changing
    /\ signedIn' = {[s EXCEPT !.deletedBy = IF @ = r THEN Nothing ELSE @] : s \in signedIn}
    /\ Answered(r)
    /\ UNCHANGED customer

\* verifyCustomerCredentials
AskSignIn(r) ==
    /\ served < MaxAccountCalls
    /\ \E c \in Rows :
         /\ HasPassword(c)
         /\ Starts(r, Nothing, [op |-> "signIn", row |-> c], "verified", customer[c].password)
    /\ UNCHANGED <<customer, signedIn>>

\* A change of the row's password is committed, or past deleting the sessions.
Overtaken(c, password) ==
    \/ customer[c].password # password
    \/ \E r \in Changing : pc[r] = "cleared" /\ job[r].row = c

\* createSessionForCustomer.  The insert needs the row to be there, not free:
\* it does not wait for a change of password.
OpenShopSession(r) ==
    /\ pc[r] = "verified" /\ job[r].op = "signIn"
    /\ signedIn' = signedIn \cup
         {[row |-> job[r].row, password |-> seen[r],
           late |-> Overtaken(job[r].row, seen[r]), deletedBy |-> Nothing]}
    /\ Answered(r)
    /\ UNCHANGED customer

\* destroyCustomerSession, purgeExpiredCustomerSessions, an expired session read;
\* a session that is being deleted is waited for.
EndShopSession ==
    /\ served < MaxAccountCalls
    /\ \E s \in signedIn : s.deletedBy = Nothing /\ signedIn' = signedIn \ {s}
    /\ served' = served + 1
    /\ UNCHANGED <<pc, job, caller, seen, customer>>

-----------------------------------------------------------------------------
AccountsInit ==
    /\ RequestsInit
    /\ customer = [c \in Rows |-> Nothing]
    /\ signedIn = {}

AccountsNext ==
    \/ EndShopSession
    \/ \E r \in Requests :
         \/ AskAccount(r) \/ ReadEmail(r) \/ ReadPhone(r) \/ Claim(r) \/ Register(r)
         \/ OrderAsGuest(r) \/ AskProfile(r) \/ SaveProfile(r)
         \/ AskPassword(r) \/ ChangeRow(r) \/ DeleteSessions(r) \/ CommitPassword(r)
         \/ LosePassword(r) \/ AskSignIn(r) \/ OpenShopSession(r)

AccountsSpec == AccountsInit /\ [][AccountsNext]_accountVars

-----------------------------------------------------------------------------
(* Properties *)

\* No session outlives the password it was opened with, not one opened while the
\* change was being written either; except of a sign-in that verified the old
\* password and opened its session after the change had passed the sessions by:
\* "ends every session" (service.ts changePassword) is not true of that one.
SessionsMatchPassword ==
    \A s \in signedIn : s.late \/ customer[s.row].password = s.password

\* A change that has not deleted the sessions yet leaves none out, and one that
\* has is the only one of its row.
ChangesAreWhole ==
    /\ \A s \in signedIn :
         s.deletedBy # Nothing =>
             s.deletedBy \in Changing /\ pc[s.deletedBy] = "cleared" /\ job[s.deletedBy].row = s.row
    /\ \A r \in Changing, s \in signedIn :
         pc[r] = "cleared" /\ s.row = job[r].row => s.late \/ s.deletedBy = r
    /\ \A q, r \in Changing : job[q].row = job[r].row => q = r

\* Types; phones and emails name one row; a row has both credentials or none;
\* sessions match passwords, and changes of them are all or nothing.
AccountsInv ==
    /\ customer \in [Rows -> Customers \cup {Nothing}]
    /\ \A c, d \in Known :
         c # d => /\ customer[c].phone # customer[d].phone
                  /\ customer[c].email # customer[d].email \/ customer[c].email = Nothing
    /\ \A c \in Known : (customer[c].email = Nothing) = (customer[c].password = 0)
    /\ \A s \in signedIn : HasPassword(s.row)
    /\ SessionsMatchPassword
    /\ ChangesAreWhole

\* An account keeps its owner: once a row has credentials, no sign-up that
\* races another, no order and no change of phone gives it others; only its
\* own changePassword does, and the email stays (service.ts signUp, repo.ts
\* claimContactRow).
AccountsKeepTheirOwner ==
    [][\A c \in Rows :
         HasPassword(c) =>
             /\ customer'[c] # Nothing
             /\ customer'[c].email = customer[c].email
             /\ customer'[c].password # customer[c].password =>
                  \E r \in Changing : /\ pc[r] = "cleared" /\ pc'[r] = "idle"
                                      /\ job[r].row = c]_accountVars
=============================================================================
