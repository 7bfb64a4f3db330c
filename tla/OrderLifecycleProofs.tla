------------------------- MODULE OrderLifecycleProofs -------------------------
(***************************************************************************)
(* Proofs about OrderLifecycle for every order and any number of staff     *)
(* requests.                                                               *)
(***************************************************************************)
EXTENDS OrderLifecycle, FiniteSetTheorems, SequenceTheorems, TLAPS

-----------------------------------------------------------------------------
(* The table *)

LEMMA RuleTypes ==
    ASSUME NEW rule \in Transitions
    PROVE  /\ rule.from \in Statuses /\ rule.to \in Statuses
           /\ rule.stamps \in StampFields \cup {"none"}
<1>1. rule.from \in Statuses /\ rule.to \in Statuses
  BY DEF Transitions, Rule, Statuses, CancellableFrom, TerminalStates
<1>2. rule.stamps \in StampFields \cup {"none"}
  BY DEF StampFields
<1> QED BY <1>1, <1>2

\* An edge is one rule: two rules between the same states stamp the same column.
LEMMA OneRulePerEdge ==
    \A r1, r2 \in Transitions :
        r1.from = r2.from /\ r1.to = r2.to => r1.stamps = r2.stamps
BY DEF Transitions, Rule, CancellableFrom

\* A cancelled order stays cancelled, and only the correction cancels.
LEMMA CancelledIsFinal ==
    \A rule \in Transitions : rule.from # "CANCELLED_BY_STORE"
BY DEF Transitions, Rule, CancellableFrom

\* The goods leave by the guarded edge only.
LEMMA OneWayOut ==
    \A rule \in Transitions :
        rule.to \in Dispatched => rule.from \in Dispatched \/ rule.guarded
BY DEF Transitions, Rule, Dispatched, CancellableFrom

-----------------------------------------------------------------------------
(* The invariant: reads are current, decisions stand *)

\* A call that is allowed to move the order does so along a rule of the table.
LEMMA MovesFollowRules ==
    ASSUME NEW c \in Calls, NEW to, MayMove(c, to)
    PROVE  \E rule \in Transitions :
               /\ rule.from = row[c].status /\ rule.to = to
               /\ rule.guarded => ~VarianceHolds(row[c].flagged, row[c].confirmed)
BY DEF MayMove, AllowedRules

\* When a call decided to move the order, the order is where the call found it.
LEMMA DecidedMoves ==
    ASSUME LifecycleInv, NEW c \in Calls, pc[c] = "decided"
    PROVE  /\ orderLock = c
           /\ row[c] = [status |-> status, flagged |-> flagged, confirmed |-> confirmed]
           /\ Target(c) \in Statuses
           /\ \E rule \in Transitions :
                  /\ rule.from = status /\ rule.to = Target(c)
                  /\ rule.guarded => ~VarianceHolds(flagged, confirmed)
<1>1. /\ orderLock = c /\ MayMove(c, Target(c))
      /\ row[c] = [status |-> status, flagged |-> flagged, confirmed |-> confirmed]
  BY DEF LifecycleInv, ReadsAreCurrent, DecisionsStand
<1>2. PICK rule \in Transitions :
               /\ rule.from = row[c].status /\ rule.to = Target(c)
               /\ rule.guarded => ~VarianceHolds(row[c].flagged, row[c].confirmed)
  BY <1>1, MovesFollowRules
<1> QED BY <1>1, <1>2, RuleTypes

\* While one call is in its transaction every other one is outside.
LEMMA OneAtATime ==
    ASSUME LifecycleInv, NEW c \in Calls, NEW d \in Calls, orderLock = c,
           pc[d] \in {"locked", "decided"}
    PROVE  d = c
BY DEF LifecycleInv, ReadsAreCurrent

LEMMA LeaveTypes ==
    ASSUME TypeOK, NEW c \in Calls, Leave(c)
    PROVE  /\ orderLock' \in Calls \cup {Free}
           /\ pc' \in [Calls -> {"idle", "locked", "decided", "committed"}]
           /\ job' \in [Calls -> Jobs \cup {NoJob}]
           /\ row' \in [Calls -> Rows]
           /\ owed' \in [Calls -> [Lines -> Nat]]
BY DEF TypeOK, Leave, NoRow, Rows, Nothing, Statuses, CancellableFrom

\* A call that leaves leaves the others as they were.
LEMMA LeavePreserves ==
    ASSUME LifecycleInv, NEW c \in Calls, pc[c] # "idle", Leave(c),
           UNCHANGED <<status, flagged, restored>>,
           confirmed' = confirmed \/ orderLock = c
    PROVE  ReadsAreCurrent' /\ DecisionsStand'
<1>. TypeOK /\ ReadsAreCurrent /\ DecisionsStand
  BY DEF LifecycleInv
<1>1. \A d \in Calls : pc'[d] \in {"locked", "decided"} =>
          /\ d # c /\ pc'[d] = pc[d] /\ job'[d] = job[d] /\ row'[d] = row[d]
          /\ owed'[d] = owed[d] /\ orderLock = d
  BY DEF TypeOK, Leave, ReadsAreCurrent
<1>2. ReadsAreCurrent'
  BY <1>1 DEF ReadsAreCurrent, Leave
<1>3. DecisionsStand'
  BY <1>1 DEF DecisionsStand, MayMove, Target, NotesTheVoid, Outstanding
<1> QED BY <1>2, <1>3

LEMMA LockOrderStep ==
    ASSUME LifecycleInv, NEW c \in Calls, LockOrder(c)
    PROVE  LifecycleInv'
<1>. TypeOK /\ ReadsAreCurrent /\ DecisionsStand
  BY DEF LifecycleInv
<1>1. PICK j \in Jobs : job' = [job EXCEPT ![c] = j]
  BY DEF LockOrder
<1>2. [status |-> status, flagged |-> flagged, confirmed |-> confirmed] \in Rows
  BY DEF TypeOK, Rows
<1>3. TypeOK'
  BY <1>1, <1>2 DEF TypeOK, LockOrder, order
<1>4. \A d \in Calls : pc'[d] \in {"locked", "decided"} => d = c /\ pc'[d] = "locked"
  BY LifecycleConstants DEF LockOrder, RowIsFree, ReadsAreCurrent, TypeOK
<1>5. ReadsAreCurrent'
  BY <1>1, <1>4 DEF ReadsAreCurrent, LockOrder, order, TypeOK
<1>6. DecisionsStand'
  BY <1>4 DEF DecisionsStand
<1> QED BY <1>3, <1>5, <1>6 DEF LifecycleInv

LEMMA DecideStep ==
    ASSUME LifecycleInv, GivenBackOnce, NEW c \in Calls, Decide(c)
    PROVE  LifecycleInv'
<1>. TypeOK /\ ReadsAreCurrent /\ DecisionsStand
  BY DEF LifecycleInv
<1>1. owed' \in [Calls -> [Lines -> Nat]]
  <2>1. [l \in Lines |-> Outstanding(l)] \in [Lines -> Nat]
    BY LifecycleConstants DEF GivenBackOnce, Outstanding, TypeOK
  <2>2. Nothing \in [Lines -> Nat]
    BY DEF Nothing
  <2> QED BY <2>1, <2>2 DEF Decide, TypeOK
<1>2. TypeOK'
  BY <1>1 DEF TypeOK, Decide, order
<1>3. \A d \in Calls : pc'[d] \in {"locked", "decided"} => pc[d] \in {"locked", "decided"}
  BY DEF Decide, TypeOK
<1>4. ReadsAreCurrent'
  BY <1>3 DEF ReadsAreCurrent, Decide, order
<1>5. ASSUME NEW d \in Calls, pc'[d] = "decided"
      PROVE  d = c
  BY <1>3, <1>5, OneAtATime DEF Decide, ReadsAreCurrent
<1>6. DecisionsStand'
  <2>1. SUFFICES ASSUME NEW d \in Calls, pc'[d] = "decided"
                 PROVE  /\ job'[d].kind \in {"transition", "correct"}
                        /\ MayMove(d, Target(d))'
                        /\ job'[d].kind = "correct" =>
                              /\ NotesTheVoid(d)'
                              /\ owed'[d] = [l \in Lines |-> Outstanding(l)']
                        /\ job'[d].kind = "transition" => Target(d)' # "CANCELLED_BY_STORE"
    BY DEF DecisionsStand
  <2>2. d = c
    BY <1>5, <2>1
  <2>3. job[c].kind = "transition" => job[c].to # "CANCELLED_BY_STORE"
    BY DEF Decide, ReadsAreCurrent, Jobs
  <2> QED BY <2>2, <2>3 DEF Decide, MayMove, Target, NotesTheVoid, Outstanding, order, TypeOK
<1> QED BY <1>2, <1>4, <1>6 DEF LifecycleInv

\* When a call commits, nobody is left who read the row as it was.
LEMMA CommitStep ==
    ASSUME LifecycleInv, NEW c \in Calls, CommitTransition(c) \/ CommitCorrection(c)
    PROVE  LifecycleInv'
<1>. TypeOK /\ ReadsAreCurrent /\ DecisionsStand
  BY DEF LifecycleInv
<1>1. /\ pc[c] = "decided" /\ orderLock = c
      /\ Target(c) \in Statuses /\ status \in Statuses
      /\ Arrive(status, Target(c))
      /\ orderLock' = Free
      /\ pc' = [pc EXCEPT ![c] = "committed"]
      /\ UNCHANGED <<flagged, confirmed, job, row, owed, heard>>
  <2>1. pc[c] = "decided" /\ job[c].kind \in {"transition", "correct"}
    BY DEF CommitTransition, CommitCorrection
  <2>2. /\ orderLock = c /\ row[c].status = status
        /\ Target(c) \in Statuses /\ status \in Statuses
    BY <2>1, DecidedMoves DEF TypeOK
  <2> QED BY <2>1, <2>2 DEF CommitTransition, CommitCorrection, Target
<1>2. stamps' \in [StampFields -> Nat]
  <2>1. Len(history) \in Nat
    BY DEF TypeOK
  <2> QED BY <1>1, <2>1 DEF Arrive, TypeOK
<1>3. history' \in Seq([from : Statuses \cup {"none"}, to : Statuses])
  <2>1. [from |-> status, to |-> Target(c)] \in [from : Statuses \cup {"none"}, to : Statuses]
    BY <1>1
  <2> QED BY <1>1, <2>1 DEF Arrive, TypeOK
<1>4. voided' \in BOOLEAN /\ restored' \in [Lines -> Nat] /\ returned' \in [Lines -> Nat]
  <2>1. CASE CommitTransition(c)
    BY <2>1 DEF CommitTransition, TypeOK
  <2>2. CASE CommitCorrection(c)
    <3>1. job[c] \in Jobs /\ job[c].kind = "correct"
      BY <1>1, <2>2 DEF CommitCorrection, ReadsAreCurrent
    <3>2. job[c].note \in BOOLEAN
      BY <3>1 DEF Jobs
    <3> QED BY <2>2, <3>2 DEF CommitCorrection, GiveBack, TypeOK
  <2> QED BY <2>1, <2>2
<1>5. TypeOK'
  BY <1>1, <1>2, <1>3, <1>4 DEF TypeOK, Arrive
<1>6. \A d \in Calls : pc'[d] \notin {"locked", "decided"}
  BY <1>1, OneAtATime DEF TypeOK
<1> QED BY <1>5, <1>6 DEF LifecycleInv, ReadsAreCurrent, DecisionsStand

\* The calls that leave: a confirmation, an announcement, a refusal.
LEMMA LeavingStep ==
    ASSUME LifecycleInv, NEW c \in Calls,
           ConfirmRevisedAmount(c) \/ Announce(c) \/ Stop(c)
    PROVE  LifecycleInv'
<1>. TypeOK /\ ReadsAreCurrent /\ DecisionsStand
  BY DEF LifecycleInv
<1>1. /\ pc[c] # "idle" /\ Leave(c)
      /\ UNCHANGED <<status, stamps, history, flagged, voided, restored, returned>>
  BY DEF ConfirmRevisedAmount, Announce, OwesAnEvent, Stop, order
<1>2. confirmed' = confirmed \/ (orderLock = c /\ confirmed' = TRUE)
  BY DEF ConfirmRevisedAmount, Announce, Stop, order, ReadsAreCurrent
<1>3. heard' \in Nat
  BY DEF ConfirmRevisedAmount, Announce, Stop, TypeOK
<1>4. TypeOK'
  BY <1>1, <1>2, <1>3, LeaveTypes DEF TypeOK
<1> QED BY <1>1, <1>2, <1>4, LeavePreserves DEF LifecycleInv

\* The later phase writes only while nobody holds the row.
LEMMA LaterPhaseStep ==
    ASSUME LifecycleInv, (\E l \in Lines : ShortPick(l)) \/ FlagVariance
    PROVE  LifecycleInv'
<1>. TypeOK /\ ReadsAreCurrent /\ DecisionsStand
  BY DEF LifecycleInv
<1>1. \A d \in Calls : pc[d] \notin {"locked", "decided"}
  BY LifecycleConstants DEF ShortPick, FlagVariance, ReadsAreCurrent
<1>2. UNCHANGED requests /\ UNCHANGED heard
  BY DEF ShortPick, FlagVariance
<1>3. TypeOK'
  <2>1. CASE FlagVariance
    BY <2>1 DEF FlagVariance, requests, TypeOK
  <2>2. ASSUME NEW l \in Lines, ShortPick(l) PROVE TypeOK'
    <3>1. PICK n \in 1..(Ordered[l] - restored[l]) :
             /\ restored' = [restored EXCEPT ![l] = @ + n]
             /\ returned' = [returned EXCEPT ![l] = @ + n]
      BY <2>2 DEF ShortPick
    <3>2. n \in Nat
      BY <3>1, LifecycleConstants DEF TypeOK
    <3>3. restored' \in [Lines -> Nat] /\ returned' \in [Lines -> Nat]
      BY <3>1, <3>2 DEF TypeOK
    <3> QED BY <2>2, <3>3 DEF ShortPick, requests, TypeOK
  <2> QED BY <2>1, <2>2
<1> QED BY <1>1, <1>2, <1>3 DEF LifecycleInv, ReadsAreCurrent, DecisionsStand, requests

-----------------------------------------------------------------------------
(* Units: with the invariant, what was given back *)

LEMMA UnitsStep ==
    ASSUME LifecycleInv, GivenBackOnce, [Next]_vars
    PROVE  GivenBackOnce'
<1>. TypeOK /\ ReadsAreCurrent /\ DecisionsStand
  BY DEF LifecycleInv
<1>1. ASSUME UNCHANGED <<status, restored, returned>>
      PROVE  GivenBackOnce'
  BY <1>1 DEF GivenBackOnce
<1>2. ASSUME NEW c \in Calls, CommitTransition(c)
      PROVE  GivenBackOnce'
  <2>1. job[c].to # "CANCELLED_BY_STORE"
    BY <1>2 DEF CommitTransition, DecisionsStand, Target
  <2>2. status' # "CANCELLED_BY_STORE"
    BY <1>2, <2>1 DEF CommitTransition, Arrive
  <2> QED BY <1>2, <2>2 DEF CommitTransition, GivenBackOnce
<1>3. ASSUME NEW c \in Calls, CommitCorrection(c)
      PROVE  GivenBackOnce'
  <2>1. owed[c] = [l \in Lines |-> Outstanding(l)]
    BY <1>3 DEF CommitCorrection, DecisionsStand
  <2>2. SUFFICES ASSUME NEW l \in Lines
                 PROVE  returned'[l] = Ordered[l] /\ restored'[l] = Ordered[l]
    BY LifecycleConstants DEF GivenBackOnce
  <2>3. owed[c][l] = Ordered[l] - restored[l] /\ returned[l] = restored[l]
    BY <2>1 DEF Outstanding, GivenBackOnce
  <2> QED BY <1>3, <2>3, LifecycleConstants DEF CommitCorrection, GiveBack, TypeOK
<1>4. ASSUME NEW l \in Lines, ShortPick(l)
      PROVE  GivenBackOnce'
  <2>1. PICK n \in 1..(Ordered[l] - restored[l]) :
           /\ restored' = [restored EXCEPT ![l] = @ + n]
           /\ returned' = [returned EXCEPT ![l] = @ + n]
    BY <1>4 DEF ShortPick
  <2>2. status' = "PICKING"
    BY <1>4 DEF ShortPick
  <2>3. SUFFICES ASSUME NEW m \in Lines
                 PROVE  returned'[m] = restored'[m] /\ returned'[m] <= Ordered[m]
    BY <2>2 DEF GivenBackOnce
  <2>4. /\ returned[m] = restored[m] /\ returned[m] <= Ordered[m]
        /\ restored[m] \in Nat /\ Ordered[m] \in Nat
    BY LifecycleConstants DEF GivenBackOnce, TypeOK
  <2>5. CASE m = l
    BY <2>1, <2>4, <2>5 DEF TypeOK
  <2>6. CASE m # l
    BY <2>1, <2>4, <2>6 DEF TypeOK
  <2> QED BY <2>5, <2>6
<1> QED
  BY <1>1, <1>2, <1>3, <1>4
  DEF Next, Serve, LockOrder, Decide, ConfirmRevisedAmount, Announce, Stop, FlagVariance,
      order, vars

LEMMA LifecycleStart ==
    ASSUME Init
    PROVE  LifecycleInv /\ GivenBackOnce
<1>1. TypeOK
  <2>1. history \in Seq([from : Statuses \cup {"none"}, to : Statuses])
    BY DEF Init, Statuses, CancellableFrom
  <2>2. NoRow \in Rows
    BY DEF NoRow, Rows, Statuses, CancellableFrom
  <2> QED BY <2>1, <2>2 DEF Init, TypeOK, Nothing, Statuses, CancellableFrom
<1>2. ReadsAreCurrent /\ DecisionsStand
  BY DEF Init, ReadsAreCurrent, DecisionsStand
<1>3. GivenBackOnce
  BY LifecycleConstants DEF Init, GivenBackOnce, Nothing
<1> QED BY <1>1, <1>2, <1>3 DEF LifecycleInv

LEMMA LifecycleStep ==
    ASSUME LifecycleInv, GivenBackOnce, [Next]_vars
    PROVE  LifecycleInv' /\ GivenBackOnce'
<1>1. ASSUME UNCHANGED vars
      PROVE  LifecycleInv'
  BY <1>1 DEF vars, LifecycleInv, TypeOK, ReadsAreCurrent, DecisionsStand, MayMove, Target,
              NotesTheVoid, Outstanding
<1>2. ASSUME NEW c \in Calls, Serve(c)
      PROVE  LifecycleInv'
  BY <1>2, LockOrderStep, DecideStep, CommitStep, LeavingStep DEF Serve
<1>3. GivenBackOnce'
  BY UnitsStep
<1> QED BY <1>1, <1>2, <1>3, LaterPhaseStep DEF Next

\* What a call has read of the order and decided about it stays true until it commits,
\* however many calls and writes of the later phase there are.
THEOREM DecisionsHold == Spec => []LifecycleInv
<1>1. Spec => [](LifecycleInv /\ GivenBackOnce)
  BY LifecycleStart, LifecycleStep, PTL DEF Spec
<1> QED BY <1>1, PTL

\* No unit of any order goes back on the shelf twice, and a cancelled order has given
\* back exactly what it took (cancelByStore after any number of short picks).
THEOREM UnitsComeBackOnce == Spec => []GivenBackOnce
<1>1. Spec => [](LifecycleInv /\ GivenBackOnce)
  BY LifecycleStart, LifecycleStep, PTL DEF Spec
<1> QED BY <1>1, PTL

-----------------------------------------------------------------------------
(* The history *)

\* Every commit of a call moves the order along an edge.
LEMMA CommitArrives ==
    ASSUME LifecycleInv, NEW c \in Calls, CommitTransition(c) \/ CommitCorrection(c)
    PROVE  \E rule \in Transitions :
               /\ rule.from = status /\ rule.to = Target(c)
               /\ rule.guarded => ~VarianceHolds(flagged, confirmed)
               /\ status' = rule.to
               /\ history' = Append(history, [from |-> rule.from, to |-> rule.to])
               /\ stamps' = [f \in StampFields |->
                                IF f = rule.stamps THEN Len(history) + 1 ELSE stamps[f]]
               /\ UNCHANGED <<flagged, confirmed>>
<1>1. pc[c] = "decided"
  BY DEF CommitTransition, CommitCorrection
<1>2. PICK rule \in Transitions :
           /\ rule.from = status /\ rule.to = Target(c)
           /\ rule.guarded => ~VarianceHolds(flagged, confirmed)
  BY <1>1, DecidedMoves
<1>3. Arrive(status, Target(c)) /\ UNCHANGED <<flagged, confirmed>>
  BY <1>1, DecidedMoves DEF CommitTransition, CommitCorrection, Target
<1>4. PICK r \in Transitions :
           /\ r.from = status /\ r.to = Target(c)
           /\ stamps' = [f \in StampFields |->
                            IF f = r.stamps THEN Len(history) + 1 ELSE stamps[f]]
  BY <1>3 DEF Arrive
<1>5. r.stamps = rule.stamps
  BY <1>2, <1>4, OneRulePerEdge
<1> QED BY <1>2, <1>3, <1>4, <1>5 DEF Arrive

\* A history has a beginning.
Begun == Len(history) > 0

\* A step either leaves status, stamps and history alone or is a commit.
LEMMA OnlyCommitsMove ==
    ASSUME [Next]_vars
    PROVE  \/ UNCHANGED <<status, stamps, history>>
           \/ \E c \in Calls : CommitTransition(c) \/ CommitCorrection(c)
BY DEF Next, Serve, LockOrder, Decide, ConfirmRevisedAmount, Announce, Stop, ShortPick,
       FlagVariance, order, vars

LEMMA HistoryStep ==
    ASSUME LifecycleInv, Begun, HistoryTellsStatus, [Next]_vars
    PROVE  Begun' /\ HistoryTellsStatus'
<1>1. CASE UNCHANGED <<status, stamps, history>>
  BY <1>1 DEF HistoryTellsStatus, LastArrival, Begun
<1>2. ASSUME NEW c \in Calls, CommitTransition(c) \/ CommitCorrection(c)
      PROVE  Begun' /\ HistoryTellsStatus'
  <2>1. PICK rule \in Transitions :
               /\ rule.from = status
               /\ status' = rule.to
               /\ history' = Append(history, [from |-> rule.from, to |-> rule.to])
               /\ stamps' = [f \in StampFields |->
                                IF f = rule.stamps THEN Len(history) + 1 ELSE stamps[f]]
    BY <1>2, CommitArrives
  <2>2. /\ Len(history) \in Nat
        /\ history \in Seq([from : Statuses \cup {"none"}, to : Statuses])
    BY DEF LifecycleInv, TypeOK
  <2>3. /\ Len(history') = Len(history) + 1
        /\ history'[Len(history) + 1] = [from |-> rule.from, to |-> rule.to]
        /\ \A i \in 1..Len(history) : history'[i] = history[i]
    <3>1. [from |-> rule.from, to |-> rule.to] \in [from : Statuses \cup {"none"}, to : Statuses]
      BY RuleTypes
    <3> QED BY <2>1, <2>2, <3>1
  <2>4. LastArrival' = [from |-> rule.from, to |-> rule.to]
    BY <2>3 DEF LastArrival
  <2>5. history'[1] = [from |-> "none", to |-> "PLACED"]
    BY <2>2, <2>3 DEF HistoryTellsStatus, Begun
  <2>6. ASSUME NEW i \in 2..Len(history')
        PROVE  /\ history'[i].from = history'[i - 1].to
               /\ \E r \in Transitions : r.from = history'[i].from /\ r.to = history'[i].to
    <3>1. CASE i = Len(history) + 1
      <4>1. history'[i] = [from |-> rule.from, to |-> rule.to]
        BY <2>3, <3>1
      <4>2. history'[i - 1].to = status
        BY <2>2, <2>3, <3>1 DEF HistoryTellsStatus, LastArrival, Begun
      <4> QED BY <2>1, <4>1, <4>2
    <3>2. CASE i # Len(history) + 1
      <4>1. i \in 2..Len(history) /\ i \in 1..Len(history) /\ i - 1 \in 1..Len(history)
        BY <2>2, <2>3, <3>2
      <4>2. history'[i] = history[i] /\ history'[i - 1] = history[i - 1]
        BY <2>3, <4>1
      <4> QED BY <4>1, <4>2 DEF HistoryTellsStatus
    <3> QED BY <3>1, <3>2
  <2>7. ASSUME NEW r \in Transitions,
               LastArrival'.to = r.to, LastArrival'.from = r.from, r.stamps # "none"
        PROVE  stamps'[r.stamps] = Len(history')
    <3>1. r.stamps = rule.stamps /\ r.stamps \in StampFields
      BY <2>4, <2>7, OneRulePerEdge, RuleTypes
    <3> QED BY <2>1, <2>3, <3>1
  <2> QED BY <2>1, <2>2, <2>3, <2>4, <2>5, <2>6, <2>7 DEF HistoryTellsStatus, Begun
<1> QED BY <1>1, <1>2, OnlyCommitsMove

\* The history of every order is a path through the table from its placing to where
\* it is, and every stamp dates the last arrival at its column.
THEOREM HistoryIsTrue == Spec => []HistoryTellsStatus
<1>1. Init => Begun /\ HistoryTellsStatus
  <2>1. ASSUME NEW rule \in Transitions
        PROVE  rule.from # "none"
    BY RuleTypes DEF Statuses, CancellableFrom, TerminalStates
  <2> QED BY <2>1 DEF Init, Begun, HistoryTellsStatus, LastArrival
<1>2. Spec => [](LifecycleInv /\ Begun /\ HistoryTellsStatus)
  <2>1. Begun /\ HistoryTellsStatus /\ LifecycleInv /\ [Next]_vars
            => Begun' /\ HistoryTellsStatus'
    BY HistoryStep
  <2> QED BY <1>1, <2>1, DecisionsHold, PTL DEF Spec
<1> QED BY <1>2, PTL

-----------------------------------------------------------------------------
(* The guards *)

\* An order over tolerance never leaves the shop unconfirmed (varianceGuard on the
\* edge to OUT_FOR_DELIVERY, against a bill or a confirmation at any moment).
THEOREM DispatchWaitsForConsent == Spec => []DispatchIsConfirmed
<1>1. Init => DispatchIsConfirmed
  BY DEF Init, DispatchIsConfirmed, Dispatched
<1>2. LifecycleInv /\ DispatchIsConfirmed /\ [Next]_vars => DispatchIsConfirmed'
  <2>. SUFFICES ASSUME LifecycleInv, DispatchIsConfirmed, [Next]_vars
                PROVE  DispatchIsConfirmed'
    OBVIOUS
  <2>1. ASSUME NEW c \in Calls, CommitTransition(c) \/ CommitCorrection(c)
        PROVE  DispatchIsConfirmed'
    <3>1. PICK rule \in Transitions :
               /\ rule.from = status
               /\ rule.guarded => ~VarianceHolds(flagged, confirmed)
               /\ status' = rule.to
               /\ UNCHANGED <<flagged, confirmed>>
      BY <2>1, CommitArrives
    <3> QED BY <3>1, OneWayOut DEF DispatchIsConfirmed, VarianceHolds
  <2>2. CASE FlagVariance
    BY <2>2 DEF FlagVariance, DispatchIsConfirmed, Dispatched, BilledStates
  <2>3. CASE UNCHANGED <<status, flagged>> /\ (confirmed' = confirmed \/ confirmed' = TRUE)
    BY <2>3 DEF DispatchIsConfirmed, VarianceHolds
  <2> QED BY <2>1, <2>2, <2>3
      DEF Next, Serve, LockOrder, Decide, ConfirmRevisedAmount, Announce, Stop, ShortPick,
          order, vars
<1> QED BY <1>1, <1>2, DecisionsHold, PTL DEF Spec

\* A cancelled order that had a POS bill has the void of that bill on record
\* (requiresDiscrepancyNote, decided on the locked row).
THEOREM NoBillIsLeftStanding == Spec => []BillIsVoided
<1>1. Init => BillIsVoided
  BY DEF Init, BillIsVoided
<1>2. LifecycleInv /\ BillIsVoided /\ [Next]_vars => BillIsVoided'
  <2>. SUFFICES ASSUME LifecycleInv, BillIsVoided, [Next]_vars
                PROVE  BillIsVoided'
    OBVIOUS
  <2>1. ASSUME NEW c \in Calls, CommitTransition(c)
        PROVE  BillIsVoided'
    <3>1. job[c].to # "CANCELLED_BY_STORE"
      BY <2>1 DEF CommitTransition, LifecycleInv, DecisionsStand, Target
    <3> QED BY <2>1, <3>1 DEF CommitTransition, Arrive, BillIsVoided
  <2>2. ASSUME NEW c \in Calls, CommitCorrection(c)
        PROVE  BillIsVoided'
    <3>1. /\ pc[c] = "decided" /\ row[c].status = status
          /\ NotesTheVoid(c)
      <4>1. pc[c] = "decided" /\ job[c].kind = "correct"
        BY <2>2 DEF CommitCorrection
      <4>2. row[c].status = status
        BY <4>1, DecidedMoves
      <4> QED BY <4>1, <4>2 DEF LifecycleInv, DecisionsStand
    <3>2. history' = Append(history, [from |-> status, to |-> "CANCELLED_BY_STORE"])
      BY <2>2, <3>1 DEF CommitCorrection, Arrive
    <3>3. LastArrival'.from = status
      <4>1. [from |-> status, to |-> "CANCELLED_BY_STORE"]
                \in [from : Statuses \cup {"none"}, to : Statuses]
        BY DEF LifecycleInv, TypeOK, Statuses, TerminalStates
      <4> QED BY <3>2, <4>1 DEF LastArrival, LifecycleInv, TypeOK
    <3> QED BY <2>2, <3>1, <3>3 DEF CommitCorrection, NotesTheVoid, BillIsVoided
  <2>3. CASE UNCHANGED <<status, history, voided>>
    BY <2>3 DEF BillIsVoided, LastArrival
  <2> QED BY <2>1, <2>2, <2>3
      DEF Next, Serve, LockOrder, Decide, ConfirmRevisedAmount, Announce, Stop, ShortPick,
          FlagVariance, order, vars
<1> QED BY <1>1, <1>2, DecisionsHold, PTL DEF Spec

-----------------------------------------------------------------------------
(* Events *)

\* The calls that committed and have not told the bus yet.
Untold == {c \in Calls : pc[c] = "committed"}

FewUntold == IsFiniteSet(Untold)

LEMMA UntoldStep ==
    ASSUME LifecycleInv, IsFiniteSet(Untold), HeardIsHistory, [Next]_vars
    PROVE  IsFiniteSet(Untold') /\ HeardIsHistory'
<1>. TypeOK
  BY DEF LifecycleInv
<1>1. /\ Cardinality(Untold) \in Nat /\ heard \in Nat /\ Len(history) \in Nat
      /\ heard + Cardinality(Untold) < Len(history)
  BY FS_CardinalityType DEF HeardIsHistory, Untold, TypeOK
<1>2. ASSUME NEW c \in Calls, CommitTransition(c) \/ CommitCorrection(c)
      PROVE  IsFiniteSet(Untold') /\ HeardIsHistory'
  <2>1. c \notin Untold /\ Untold' = Untold \cup {c}
    BY <1>2 DEF CommitTransition, CommitCorrection, Untold, TypeOK
  <2>2. IsFiniteSet(Untold') /\ Cardinality(Untold') = Cardinality(Untold) + 1
    BY <2>1, FS_AddElement
  <2>3. Len(history') = Len(history) + 1
    <3>1. PICK rule \in Transitions :
               history' = Append(history, [from |-> rule.from, to |-> rule.to])
      BY <1>2, CommitArrives
    <3> QED BY <3>1, RuleTypes DEF TypeOK
  <2>4. heard' = heard
    BY <1>2 DEF CommitTransition, CommitCorrection
  <2> QED BY <1>1, <2>2, <2>3, <2>4 DEF HeardIsHistory, Untold
<1>3. ASSUME NEW c \in Calls, Announce(c)
      PROVE  IsFiniteSet(Untold') /\ HeardIsHistory'
  <2>1. c \in Untold /\ Untold' = Untold \ {c}
    BY <1>3 DEF Announce, OwesAnEvent, Leave, Untold, TypeOK
  <2>2. IsFiniteSet(Untold') /\ Cardinality(Untold') = Cardinality(Untold) - 1
    BY <2>1, FS_RemoveElement
  <2>3. heard' = heard + 1 /\ history' = history
    BY <1>3 DEF Announce, order
  <2> QED BY <1>1, <2>2, <2>3 DEF HeardIsHistory, Untold
<1>4. CASE /\ UNCHANGED <<history, heard>>
           /\ Untold' \subseteq Untold
  <2>1. IsFiniteSet(Untold') /\ Cardinality(Untold') <= Cardinality(Untold)
    BY <1>4, FS_Subset
  <2>2. Cardinality(Untold') \in Nat
    BY <2>1, FS_CardinalityType
  <2> QED BY <1>1, <1>4, <2>1, <2>2 DEF HeardIsHistory, Untold
<1>5. ASSUME NEW c \in Calls,
             LockOrder(c) \/ Decide(c) \/ ConfirmRevisedAmount(c) \/ Stop(c)
      PROVE  UNCHANGED <<history, heard>> /\ Untold' \subseteq Untold
  BY <1>5 DEF LockOrder, Decide, ConfirmRevisedAmount, Stop, Leave, Untold, order, TypeOK
<1>6. ASSUME (\E l \in Lines : ShortPick(l)) \/ FlagVariance \/ UNCHANGED vars
      PROVE  UNCHANGED <<history, heard>> /\ Untold' \subseteq Untold
  BY <1>6 DEF ShortPick, FlagVariance, requests, vars, Untold
<1> QED BY <1>2, <1>3, <1>4, <1>5, <1>6 DEF Next, Serve

\* The bus never hears of an arrival that was not committed, nor of one twice
\* (announce and the emit of correctOrder come after their transactions).
THEOREM EventsFollowCommits == Spec => []HeardIsHistory
<1>1. Init => IsFiniteSet(Untold) /\ HeardIsHistory
  <2>1. SUFFICES ASSUME Init PROVE IsFiniteSet(Untold) /\ HeardIsHistory
    OBVIOUS
  <2>2. Untold = {}
    BY <2>1 DEF Init, Untold
  <2>3. IsFiniteSet({}) /\ Cardinality({}) = 0
    BY FS_EmptySet
  <2>4. heard = 0 /\ Len(history) = 1
    BY <2>1 DEF Init
  <2>5. HeardIsHistory <=> heard + Cardinality(Untold) < Len(history)
    BY DEF HeardIsHistory, Untold
  <2> QED BY <2>2, <2>3, <2>4, <2>5
<1>2. Spec => [](LifecycleInv /\ FewUntold /\ HeardIsHistory)
  <2>1. Init => FewUntold
    BY <1>1 DEF FewUntold
  <2>2. FewUntold /\ HeardIsHistory /\ LifecycleInv /\ [Next]_vars
            => FewUntold' /\ HeardIsHistory'
    BY UntoldStep DEF FewUntold
  <2> QED BY <1>1, <2>1, <2>2, DecisionsHold, PTL DEF Spec
<1> QED BY <1>2, PTL
=============================================================================
