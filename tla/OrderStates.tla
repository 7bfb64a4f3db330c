----------------------------- MODULE OrderStates -----------------------------
(***************************************************************************)
(* The order state machine as data: orders/state-machine.ts.               *)
(*                                                                         *)
(* Pure operators, shared by every module in which an order's status       *)
(* moves.  A rule is one edge of the TRANSITIONS table; `guarded' marks    *)
(* the single edge that carries the price-variance guard.                  *)
(***************************************************************************)

\* The six states an order may still be cancelled from.
CancellableFrom ==
    {"PLACED", "ACCEPTED", "PICKING", "PICKED", "BILLED_IN_POS", "PACKED"}

\* The states in which a POS bill exists and a void must be recorded.
BilledStates == {"BILLED_IN_POS", "PACKED"}

TerminalStates == {"CLOSED", "CANCELLED_BY_STORE", "CLOSED_UNDELIVERED"}

Statuses ==
    CancellableFrom \cup TerminalStates
        \cup {"OUT_FOR_DELIVERY", "DELIVERED", "DELIVERY_FAILED"}

Rule(from, to, stamps, guarded) ==
    [from |-> from, to |-> to, stamps |-> stamps, guarded |-> guarded]

\* TRANSITIONS: the forward edges, then CANCEL_RULE from each cancellable state.
Transitions ==
    {Rule("PLACED",           "ACCEPTED",           "acceptedAt",       FALSE),
     Rule("ACCEPTED",         "PICKING",            "pickingStartedAt", FALSE),
     Rule("PICKING",          "PICKED",             "pickedAt",         FALSE),
     Rule("PICKED",           "BILLED_IN_POS",      "billedAt",         FALSE),
     Rule("BILLED_IN_POS",    "PACKED",             "packedAt",         FALSE),
     Rule("PACKED",           "OUT_FOR_DELIVERY",   "dispatchedAt",     TRUE),
     Rule("OUT_FOR_DELIVERY", "DELIVERED",          "deliveredAt",      FALSE),
     Rule("OUT_FOR_DELIVERY", "DELIVERY_FAILED",    "none",             FALSE),
     Rule("DELIVERED",        "CLOSED",             "closedAt",         FALSE),
     Rule("DELIVERY_FAILED",  "OUT_FOR_DELIVERY",   "dispatchedAt",     FALSE),
     Rule("DELIVERY_FAILED",  "CLOSED_UNDELIVERED", "closedAt",         FALSE)}
    \cup {Rule(from, "CANCELLED_BY_STORE", "correctedAt", FALSE) :
            from \in CancellableFrom}

\* varianceGuard: a flagged total nobody has confirmed keeps the order in.
VarianceHolds(flagged, confirmed) == flagged /\ ~confirmed

\* checkTransition: the rules that let an order in `from' go to `to' now.
AllowedRules(from, to, flagged, confirmed) ==
    {rule \in Transitions :
        /\ rule.from = from
        /\ rule.to = to
        /\ rule.guarded => ~VarianceHolds(flagged, confirmed)}
=============================================================================
