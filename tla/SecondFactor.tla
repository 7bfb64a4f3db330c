---------------------------- MODULE SecondFactor ----------------------------
(***************************************************************************)
(* The optional second factor of one staff account: enrolling it, signing  *)
(* in with it and withdrawing it (identity/service.ts, identity/totp.ts,   *)
(* identity/repo.ts).                                                      *)
(*                                                                         *)
(* A code is of one factor and one time step.  Checking a code and writing *)
(* down that it was used are two statements; the second is conditional,    *)
(* and the database arbitrates.  Everyone here knows the password.         *)
(***************************************************************************)
EXTENDS Requests

CONSTANTS
    Factors,         \* secrets an authenticator may hold
    MaxStep,         \* bound: time steps of the clock
    MaxFactorCalls   \* bound: requests served in one behaviour

ASSUME FactorConstants ==
    /\ MaxStep \in Nat
    /\ MaxFactorCalls \in Nat
    /\ Nothing \notin Factors

VARIABLES
    now,       \* the current time step
    secret,    \* User.twoFactorSecret, or Nothing
    counter,   \* User.twoFactorLastCounter: the last accepted step
    uses       \* how often each code was accepted since its factor was enrolled

factorVars == <<request, now, secret, counter, uses>>

Steps == 0..(MaxStep + 1)
Codes == [factor : Factors, step : Steps]

FactorJobs == [op : {"signIn", "disable", "enrol"}, code : Codes, at : 0..MaxStep]

\* matchTotpCode: a code of the secret, one step either side of the time of call.
Matches(code, s, at) ==
    code.factor = s /\ code.step + 1 >= at /\ code.step <= at + 1

-----------------------------------------------------------------------------
(* The conditional writes *)

\* Bug: only the counter is compared, not the factor it counts for.
ClaimableByCounter(s, step) == step > counter

\* claimTotpCounter: the factor is still the one checked, the step a later one.
Claimable(s, step) == secret = s /\ step > counter

\* enrolTwoFactorSecret: only on an account that has none.
Enrollable == secret = Nothing

Accept(code) ==
    /\ counter' = code.step
    /\ uses' = [uses EXCEPT ![code] = uses[code] + 1]

-----------------------------------------------------------------------------
NextStep ==
    /\ now < MaxStep
    /\ now' = now + 1
    /\ UNCHANGED <<request, secret, counter, uses>>

\* The password is verified; the time of the call is what codes are checked at.
AskFactor(r) ==
    /\ served < MaxFactorCalls
    /\ \E j \in FactorJobs :
         /\ j.at = now
         /\ Starts(r, Nothing, j, "asked", Nothing)
    /\ UNCHANGED <<now, secret, counter, uses>>

\* verifyCredentials and disableTotp read the secret, then check the code.
\* Without a factor a sign-in is done and a withdrawal refused.
ReadFactor(r) ==
    /\ pc[r] = "asked" /\ job[r].op \in {"signIn", "disable"}
    /\ IF secret # Nothing /\ Matches(job[r].code, secret, job[r].at)
       THEN GoesOn(r, "matched", secret)
       ELSE Answered(r)
    /\ UNCHANGED <<now, secret, counter, uses>>

\* verifyCredentials: the code is claimed, and only then is the user signed in.
ClaimAndSignIn(r) ==
    /\ pc[r] = "matched" /\ job[r].op = "signIn"
    /\ IF Claimable(seen[r], job[r].code.step)
       THEN Accept(job[r].code)
       ELSE UNCHANGED <<counter, uses>>
    /\ Answered(r)
    /\ UNCHANGED <<now, secret>>

\* disableTotp: claim and clearTwoFactorSecret in one transaction.  The
\* counter stays, so that a code queued behind the withdrawal is refused.
ClaimAndWithdraw(r) ==
    /\ pc[r] = "matched" /\ job[r].op = "disable"
    /\ IF Claimable(seen[r], job[r].code.step) /\ secret = seen[r]
       THEN /\ Accept(job[r].code)
            /\ secret' = Nothing
       ELSE UNCHANGED <<counter, uses, secret>>
    /\ Answered(r)
    /\ UNCHANGED now

\* confirmTotpEnrolment: the code is one of the new secret, and the account
\* is read to have none.
CheckEnrolment(r) ==
    /\ pc[r] = "asked" /\ job[r].op = "enrol"
    /\ IF Matches(job[r].code, job[r].code.factor, job[r].at) /\ secret = Nothing
       THEN GoesOn(r, "matched", Nothing)
       ELSE Answered(r)
    /\ UNCHANGED <<now, secret, counter, uses>>

\* The write decides between two enrolments.  The factor's codes start anew.
Enrol(r) ==
    /\ pc[r] = "matched" /\ job[r].op = "enrol"
    /\ IF Enrollable
       THEN /\ secret' = job[r].code.factor
            /\ counter' = job[r].code.step
            /\ uses' = [c \in Codes |->
                 IF c = job[r].code THEN 1
                 ELSE IF c.factor = job[r].code.factor THEN 0 ELSE uses[c]]
       ELSE UNCHANGED <<secret, counter, uses>>
    /\ Answered(r)
    /\ UNCHANGED now

-----------------------------------------------------------------------------
FactorInit ==
    /\ RequestsInit
    /\ now = 0
    /\ secret = Nothing
    /\ counter = 0
    /\ uses = [c \in Codes |-> 0]

FactorNext ==
    \/ NextStep
    \/ \E r \in Requests :
         \/ AskFactor(r) \/ ReadFactor(r) \/ ClaimAndSignIn(r)
         \/ ClaimAndWithdraw(r) \/ CheckEnrolment(r) \/ Enrol(r)

FactorSpec == FactorInit /\ [][FactorNext]_factorVars

-----------------------------------------------------------------------------
(* Properties *)

\* Types; a request past its check holds a code of the factor it read, or, for
\* an enrolment, any code; the counter is ahead of every code that was used.
FactorInv ==
    /\ now \in 0..MaxStep
    /\ secret \in Factors \cup {Nothing}
    /\ counter \in Steps
    /\ uses \in [Codes -> Nat]
    /\ \A r \in Requests :
         /\ pc[r] \in {"idle", "asked", "matched"}
         /\ pc[r] # "idle" => job[r] \in FactorJobs
         /\ pc[r] = "matched" /\ job[r].op # "enrol" => job[r].code.factor = seen[r]
    /\ \A c \in Codes : c.factor = secret /\ c.step > counter => uses[c] = 0

\* A code is accepted once: by the enrolment it confirmed, by one sign-in or by
\* the withdrawal of its factor, however many requests hold it and whatever
\* becomes of the factor between a check and its claim (service.ts:167-175).
CodeWorksOnce == \A c \in Codes : uses[c] <= 1
=============================================================================
