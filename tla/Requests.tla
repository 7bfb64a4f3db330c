------------------------------ MODULE Requests ------------------------------
(***************************************************************************)
(* The requests a server works on at once.  Each server action builds its  *)
(* principal, calls one service and answers; between two database calls    *)
(* any other request may run.  The components' modules say what a request  *)
(* does; this one holds what every request has.                            *)
(***************************************************************************)
EXTENDS Authz, Naturals, FiniteSets

CONSTANTS
    Requests,
    Nothing     \* nothing read, nothing asked, no row, no holder

ASSUME RequestConstants == Nothing \notin Requests

VARIABLES
    pc,       \* where a request is
    job,      \* what it asks
    caller,   \* the principal it was given
    seen,     \* what it read and still relies on
    served    \* requests started; each component bounds them

request == <<pc, job, caller, seen, served>>

RequestsInit ==
    /\ pc = [r \in Requests |-> "idle"]
    /\ job = [r \in Requests |-> Nothing]
    /\ caller = [r \in Requests |-> Nothing]
    /\ seen = [r \in Requests |-> Nothing]
    /\ served = 0

\* Request r starts with principal p and asks j, having read s.
Starts(r, p, j, at, s) ==
    /\ pc[r] = "idle"
    /\ pc' = [pc EXCEPT ![r] = at]
    /\ job' = [job EXCEPT ![r] = j]
    /\ caller' = [caller EXCEPT ![r] = p]
    /\ seen' = [seen EXCEPT ![r] = s]
    /\ served' = served + 1

\* It goes on, having read s.
GoesOn(r, at, s) ==
    /\ pc' = [pc EXCEPT ![r] = at]
    /\ seen' = [seen EXCEPT ![r] = s]
    /\ UNCHANGED <<job, caller, served>>

\* It is answered, with success or an error.
Answered(r) ==
    /\ pc' = [pc EXCEPT ![r] = "idle"]
    /\ job' = [job EXCEPT ![r] = Nothing]
    /\ caller' = [caller EXCEPT ![r] = Nothing]
    /\ seen' = [seen EXCEPT ![r] = Nothing]
    /\ UNCHANGED served
=============================================================================
