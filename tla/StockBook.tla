------------------------------ MODULE StockBook ------------------------------
(***************************************************************************)
(* What the ways stock moves promise, as if there were no concurrency: a   *)
(* call moves every item it names in one indivisible step, from the        *)
(* balances of that moment, with its ledger rows and its history entry, or *)
(* it moves nothing; a file that does not fit is turned down, and has a    *)
(* history entry later or never.  applyMovement (inventory/service.ts) and *)
(* the header of inventory/import-service.ts claim exactly this.           *)
(* Inventory is shown to implement it.                                     *)
(***************************************************************************)
EXTENDS Integers, FiniteSets, Sequences

CONSTANTS NumProducts, Calls, OpeningStock

VARIABLES
    stock, ledger, runs, job,
    unfit      \* files found not to fit, of which there is no record yet

bookVars == <<stock, ledger, runs, job, unfit>>

Products == 1 .. NumProducts

\* Where a call takes an item: to what was counted, or by what it moves.
After(c, p) ==
    LET row == job[c].rows[p]
    IN  IF row.mode = "set" THEN row.n ELSE stock[p] + row.n

Moved(c) == {p \in Products : After(c, p) # stock[p]}

\* No balance below nothing, whatever the call does to the others.
Fits(c) == \A p \in Products : After(c, p) >= 0

\* What a call did is in the ledger or, of a file, in the history: it is done once.
Recorded(c) ==
    \/ \E p \in Products : \E n \in 1 .. Len(ledger[p]) : ledger[p][n].ref = c
    \/ \E run \in runs : run.call = c

ReasonOf ==
    [adjust |-> "MANUAL_ADJUST", reconcile |-> "RECONCILE", import |-> "CSV_IMPORT", order |-> "ORDER"]

Entry(c, p) ==
    [delta |-> After(c, p) - stock[p], balanceAfter |-> After(c, p),
     reason |-> ReasonOf[job[c].kind], ref |-> c]

\* The whole call.
Apply(c) ==
    /\ ~Recorded(c) /\ Fits(c) /\ c \notin unfit
    /\ job[c].kind = "adjust" => Moved(c) # {}
    /\ stock' = [p \in Products |-> After(c, p)]
    /\ ledger' = [p \in Products |->
          IF p \in Moved(c) THEN Append(ledger[p], Entry(c, p)) ELSE ledger[p]]
    /\ runs' = IF job[c].kind = "import"
               THEN runs \cup {[call |-> c, outcome |-> "applied",
                                applied |-> Cardinality(Moved(c))]}
               ELSE runs
    /\ UNCHANGED <<job, unfit>>

\* A file is turned down as a whole for a row that does not fit at that moment.
TurnDown(c) ==
    /\ job[c].kind = "import"
    /\ ~Recorded(c) /\ ~Fits(c)
    /\ unfit' = unfit \cup {c}
    /\ UNCHANGED <<stock, ledger, runs, job>>

\* That is recorded later, whatever the balances are by then ...
Reject(c) ==
    /\ c \in unfit
    /\ unfit' = unfit \ {c}
    /\ runs' = runs \cup {[call |-> c, outcome |-> "rejected", applied |-> 0]}
    /\ UNCHANGED <<stock, ledger, job>>

\* ... or never: the server may fail in between.
Forget ==
    /\ \E kept \in SUBSET unfit : unfit' = kept
    /\ UNCHANGED <<stock, ledger, runs, job>>

Init ==
    /\ stock = OpeningStock
    /\ ledger = [p \in Products |-> <<>>]
    /\ runs = {}
    /\ unfit = {}

Next == (\E c \in Calls : Apply(c) \/ TurnDown(c) \/ Reject(c)) \/ Forget

Spec == Init /\ [][Next]_bookVars
=============================================================================
