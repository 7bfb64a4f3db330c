--------------------------- MODULE RecordsProofs ---------------------------
(***************************************************************************)
(* Proofs about the address book, the second factor, the listings, the     *)
(* product requests, the delivery windows, the connection pool, the        *)
(* accounts of the shoppers and of the staff and the screens the staff     *)
(* work with, for any number of requests, rows, users, orders and          *)
(* connections and any clock.  Each component has its own specification; a *)
(* theorem is about one of them.                                           *)
(***************************************************************************)
EXTENDS AddressBook, SecondFactor, Listings, ProductRequests, DeliveryWindows, ConnectionPool,
        ShopAccounts, BackOffice, FiniteSetTheorems, SequenceTheorems, TLAPS

-----------------------------------------------------------------------------
(* Least elements *)

\* The order of the naturals, as the relation induction is founded on.
Before == OpToRel(<, Nat)

LEMMA BeforeIsWellFounded ==
    /\ IsWellFoundedOn(Before, Nat)
    /\ \A a, b \in Nat : <<a, b>> \in Before <=> a < b
<1>1. IsWellFoundedOn(Before, Nat)
  BY NatLessThanWellFounded DEF Before
<1>2. \A a, b \in Nat : <<a, b>> \in Before <=> a < b
  BY DEF Before, OpToRel
<1> QED BY <1>1, <1>2

\* A nonempty set of naturals has a least element.
LEMMA HasLeast ==
    ASSUME NEW S, S \subseteq Nat, S # {}
    PROVE  \E a \in S : \A b \in S : a <= b
<1>1. IsWellFoundedOn(Before, Nat)
  BY BeforeIsWellFounded
<1>2. PICK a \in S : \A b \in S : ~(<<b, a>> \in Before)
  BY <1>1, WFMin, Zenon
<1>3. \A b \in S : ~(b < a)
  BY <1>2, BeforeIsWellFounded
<1> QED BY <1>3

\* What is kept for requests is kept for every request.
Tables == DOMAIN pc = Requests /\ DOMAIN job = Requests /\ DOMAIN seen = Requests

-----------------------------------------------------------------------------
(* The address book *)

\* What OneDefault says, of any rows.
OneDefaultIn(rows, marked) ==
    /\ rows # {} => \E a \in rows : marked = {a}
    /\ rows = {} => marked = {}

LiveAfter(plan) == (live \ plan.drop) \cup plan.put
DefaultsAfter(plan) == (defaults \ plan.unmark) \cup plan.mark

\* A decision fits the book as it is: committed, it leaves one default among
\* addresses numbered up to n.
FitsBelow(plan, n) ==
    /\ LiveAfter(plan) \subseteq 1..n
    /\ OneDefaultIn(LiveAfter(plan), DefaultsAfter(plan))

\* The inductive invariant: the rows are right, and what the holder of the
\* lock decided still fits them.
BookDecided(r) ==
    /\ pc[r] # "idle" => job[r] \in AddressJobs
    /\ pc[r] = "decided" => FitsBelow(seen[r], saved)

BookRight ==
    /\ Tables
    /\ BookInv
    /\ OneDefault
    /\ \A r \in Requests : BookDecided(r)

\* The oldest of some addresses is one address.
LEMMA OldestIsOne ==
    ASSUME NEW S, S \subseteq Nat, S # {}
    PROVE  \E a \in S : Oldest(S) = {a}
<1>1. PICK a \in S : \A b \in S : a <= b
  BY HasLeast
<1>2. \A b \in Oldest(S) : b = a
  BY <1>1 DEF Oldest
<1> QED BY <1>1, <1>2 DEF Oldest

\* The book a decision is taken on.
BookTrue ==
    /\ saved \in Nat
    /\ \A a \in live : a \in Nat /\ 1 <= a /\ a <= saved
    /\ defaults \subseteq live
    /\ OneDefault

\* A new address becomes the only default, or leaves the one there is.
LEMMA AddFits ==
    ASSUME BookTrue, NEW makeDefault
    PROVE  FitsBelow(PlanAdd(makeDefault), saved + 1)
<1> DEFINE a == saved + 1
<1>1. a \notin live /\ LiveAfter(PlanAdd(makeDefault)) = live \cup {a}
  BY DEF BookTrue, LiveAfter, PlanAdd, Plan
<1>2. live \cup {a} \subseteq 1..a
  BY DEF BookTrue
<1>3. CASE makeDefault \/ live = {}
  <2>1. DefaultsAfter(PlanAdd(makeDefault)) = (defaults \ (defaults \ {a})) \cup {a}
    BY <1>3 DEF DefaultsAfter, PlanAdd, Plan, OtherDefaults
  <2> QED BY <1>1, <1>2, <2>1 DEF FitsBelow, OneDefaultIn
<1>4. CASE ~(makeDefault \/ live = {})
  <2>1. DefaultsAfter(PlanAdd(makeDefault)) = defaults
    BY <1>4 DEF DefaultsAfter, PlanAdd, Plan
  <2> QED BY <1>1, <1>2, <1>4, <2>1 DEF FitsBelow, OneDefaultIn, BookTrue, OneDefault
<1> QED BY <1>3, <1>4

\* A promotion takes the mark from every other address.
LEMMA UpdateFits ==
    ASSUME BookTrue, NEW a \in live, NEW makeDefault
    PROVE  FitsBelow(PlanUpdate(a, makeDefault), saved)
<1>1. LiveAfter(PlanUpdate(a, makeDefault)) = live /\ live \subseteq 1..saved
  BY DEF LiveAfter, PlanUpdate, Plan, BookTrue
<1>2. CASE makeDefault
  <2>1. DefaultsAfter(PlanUpdate(a, makeDefault)) = {a}
    BY <1>2 DEF DefaultsAfter, PlanUpdate, Plan, OtherDefaults
  <2> QED BY <1>1, <2>1 DEF FitsBelow, OneDefaultIn
<1>3. CASE ~makeDefault
  <2>1. DefaultsAfter(PlanUpdate(a, makeDefault)) = defaults
    BY <1>3 DEF DefaultsAfter, PlanUpdate, Plan
  <2> QED BY <1>1, <2>1 DEF FitsBelow, OneDefaultIn, BookTrue, OneDefault
<1> QED BY <1>2, <1>3

\* A removal hands the mark on, to one address if any remains.
LEMMA RemoveFits ==
    ASSUME BookTrue, NEW a \in live
    PROVE  FitsBelow(PlanRemove(a), saved)
<1> DEFINE rest == live \ {a}
<1>1. LiveAfter(PlanRemove(a)) = rest /\ rest \subseteq 1..saved /\ rest \subseteq Nat
  BY DEF LiveAfter, PlanRemove, Plan, BookTrue
<1>2. PICK d \in live : defaults = {d}
  BY DEF BookTrue, OneDefault
<1>3. CASE a # d
  <2>1. DefaultsAfter(PlanRemove(a)) = {d}
    BY <1>2, <1>3 DEF DefaultsAfter, PlanRemove, Plan
  <2> QED BY <1>1, <1>3, <2>1 DEF FitsBelow, OneDefaultIn
<1>4. CASE a = d
  <2>1. DefaultsAfter(PlanRemove(a)) = Oldest(rest)
    BY <1>2, <1>4 DEF DefaultsAfter, PlanRemove, Plan
  <2>2. CASE rest = {}
    BY <1>1, <2>1, <2>2 DEF FitsBelow, OneDefaultIn, Oldest
  <2>3. CASE rest # {}
    BY <1>1, <2>1, <2>3, OldestIsOne DEF FitsBelow, OneDefaultIn
  <2> QED BY <2>2, <2>3
<1> QED BY <1>3, <1>4

\* Every decision taken fits the book it is taken on.
LEMMA DecisionFits ==
    ASSUME BookRight, NEW r \in Requests, pc[r] = "asked", CanDecide(r)
    PROVE  FitsBelow(Decision(r), Saved(r)) /\ Saved(r) \in Nat /\ Saved(r) >= saved
<1>1. BookTrue
  BY DEF BookRight, BookInv, BookTrue
<1>2. saved \in Nat /\ saved + 1 \in Nat
  BY <1>1 DEF BookTrue
<1>3. job[r].op \in {"add", "update", "remove"}
  BY DEF BookRight, BookDecided, AddressJobs
<1>4. CASE job[r].op = "add"
  <2>1. Decision(r) = PlanAdd(job[r].makeDefault) /\ Saved(r) = saved + 1
    BY <1>4 DEF Decision, Saved
  <2> QED BY <1>1, <1>2, <2>1, AddFits
<1>5. CASE job[r].op = "update"
  <2>1. /\ Decision(r) = PlanUpdate(job[r].address, job[r].makeDefault)
        /\ Saved(r) = saved /\ job[r].address \in live
    BY <1>5 DEF Decision, Saved, CanDecide
  <2> QED BY <1>1, <1>2, <2>1, UpdateFits
<1>6. CASE job[r].op = "remove"
  <2>1. /\ Decision(r) = PlanRemove(job[r].address)
        /\ Saved(r) = saved /\ job[r].address \in live
    BY <1>6 DEF Decision, Saved, CanDecide
  <2> QED BY <1>1, <1>2, <2>1, RemoveFits
<1> QED BY <1>3, <1>4, <1>5, <1>6

LEMMA BookStart == BookInit => BookRight
<1> SUFFICES ASSUME BookInit PROVE BookRight
  OBVIOUS
<1>1. \A r \in Requests : pc[r] = "idle"
  BY DEF BookInit, RequestsInit
<1>2. Tables
  BY DEF BookInit, RequestsInit, Tables
<1>3. BookInv /\ OneDefault
  BY <1>1 DEF BookInit, BookInv, OneDefault
<1> QED BY <1>1, <1>2, <1>3 DEF BookRight, BookDecided

LEMMA BookStep == BookRight /\ [BookNext]_bookVars => BookRight'
<1> SUFFICES ASSUME BookRight, [BookNext]_bookVars
             PROVE  BookRight'
  OBVIOUS
<1>1. ASSUME NEW r \in Requests, AskAddress(r)
      PROVE  BookRight'
  <2>1. PICK j \in AddressJobs : Starts(r, Nothing, j, "asked", Nothing)
    BY <1>1 DEF AskAddress
  <2>2. UNCHANGED <<live, defaults, saved, bookLock>>
    BY <1>1 DEF AskAddress
  <2>3. /\ pc' = [pc EXCEPT ![r] = "asked"] /\ job' = [job EXCEPT ![r] = j]
        /\ seen' = [seen EXCEPT ![r] = Nothing]
    BY <2>1 DEF Starts
  <2>4. \A q \in Requests : BookDecided(q)'
    BY <2>2, <2>3 DEF BookRight, Tables, BookDecided, FitsBelow, LiveAfter, DefaultsAfter
  <2>5. Tables' /\ BookInv' /\ OneDefault'
    BY <2>2, <2>3 DEF BookRight, Tables, BookInv, OneDefault
  <2> QED BY <2>4, <2>5 DEF BookRight
<1>2. ASSUME NEW r \in Requests, Decide(r), CanDecide(r)
      PROVE  BookRight'
  <2>1. /\ pc' = [pc EXCEPT ![r] = "decided"] /\ job' = job
        /\ seen' = [seen EXCEPT ![r] = Decision(r)]
        /\ saved' = Saved(r) /\ bookLock' = r
        /\ UNCHANGED <<live, defaults>> /\ pc[r] = "asked"
    BY <1>2 DEF Decide, GoesOn
  <2>2. \A q \in Requests : pc[q] # "decided"
    BY <1>2, RequestConstants DEF Decide, BookRight, BookInv
  <2>3. FitsBelow(Decision(r), saved') /\ saved' \in Nat /\ saved' >= saved
    BY <1>2, <2>1, DecisionFits
  <2>4. \A q \in Requests : BookDecided(q)'
    <3>1. FitsBelow(seen[r], saved)'
      BY <2>1, <2>3 DEF FitsBelow, LiveAfter, DefaultsAfter, BookRight, Tables
    <3> QED BY <2>1, <2>2, <3>1 DEF BookDecided, BookRight, Tables
  <2>5. live' \subseteq 1..saved' /\ defaults' \subseteq live'
    BY <2>1, <2>3 DEF BookRight, BookInv
  <2>6. BookInv'
    BY <2>1, <2>2, <2>3, <2>5 DEF BookInv, Tables, BookRight
  <2>7. Tables' /\ OneDefault'
    BY <2>1 DEF Tables, BookRight, OneDefault
  <2> QED BY <2>4, <2>6, <2>7 DEF BookRight
<1>3. ASSUME NEW r \in Requests, Decide(r), ~CanDecide(r)
      PROVE  BookRight'
  <2>1. /\ pc' = [pc EXCEPT ![r] = "idle"] /\ job' = [job EXCEPT ![r] = Nothing]
        /\ seen' = [seen EXCEPT ![r] = Nothing]
        /\ UNCHANGED <<live, defaults, saved, bookLock>>
    BY <1>3 DEF Decide, Answered
  <2>2. \A q \in Requests : BookDecided(q)'
    BY <2>1 DEF BookRight, Tables, BookDecided, FitsBelow, LiveAfter, DefaultsAfter
  <2>3. Tables' /\ BookInv' /\ OneDefault'
    BY <2>1 DEF BookRight, Tables, BookInv, OneDefault
  <2> QED BY <2>2, <2>3 DEF BookRight
<1>4. ASSUME NEW r \in Requests, CommitAddress(r)
      PROVE  BookRight'
  <2>1. /\ pc' = [pc EXCEPT ![r] = "idle"] /\ job' = [job EXCEPT ![r] = Nothing]
        /\ seen' = [seen EXCEPT ![r] = Nothing] /\ saved' = saved
        /\ live' = LiveAfter(seen[r]) /\ defaults' = DefaultsAfter(seen[r])
    BY <1>4 DEF CommitAddress, Answered, LiveAfter, DefaultsAfter
  <2>2. /\ FitsBelow(seen[r], saved) /\ pc[r] = "decided"
        /\ \A q \in Requests : pc[q] = "decided" => q = r
    BY <1>4 DEF CommitAddress, BookRight, BookDecided, BookInv
  <2>3. \A q \in Requests : pc'[q] # "decided" /\ pc'[q] \in {"idle", "asked"}
    BY <2>1, <2>2 DEF BookRight, Tables, BookInv
  <2>4. OneDefault' /\ live' \subseteq 1..saved' /\ defaults' \subseteq live'
    BY <2>1, <2>2 DEF FitsBelow, OneDefaultIn, OneDefault
  <2>5. \A q \in Requests : BookDecided(q)'
    BY <2>1, <2>3 DEF BookDecided, BookRight, Tables
  <2>6. BookInv' /\ Tables'
    BY <2>1, <2>3, <2>4 DEF BookInv, BookRight, Tables
  <2> QED BY <2>4, <2>5, <2>6 DEF BookRight
<1>5. CASE UNCHANGED bookVars
  BY <1>5 DEF bookVars, request, BookRight, Tables, BookInv, OneDefault, BookDecided,
              FitsBelow, LiveAfter, DefaultsAfter
<1> QED BY <1>1, <1>2, <1>3, <1>4, <1>5 DEF BookNext

\* A book with addresses has exactly one default, an empty book none, whatever
\* additions, promotions and removals cross each other, and whoever has decided
\* still holds the book (repo.ts lockAddressBook).
THEOREM OneDefaultHolds == BookSpec => [](BookInv /\ OneDefault)
<1>1. BookRight => BookInv /\ OneDefault
  BY DEF BookRight
<1> QED BY <1>1, BookStart, BookStep, PTL DEF BookSpec

-----------------------------------------------------------------------------
(* The second factor *)

FactorRight == Tables /\ FactorInv /\ CodeWorksOnce

\* What is left alone when a request only moves on.
FactorRows == <<secret, counter, uses>>

LEMMA FactorStart == FactorInit => FactorRight
<1> SUFFICES ASSUME FactorInit PROVE FactorRight
  OBVIOUS
<1>1. Tables /\ \A r \in Requests : pc[r] = "idle"
  BY DEF FactorInit, RequestsInit, Tables
<1>2. CodeWorksOnce
  BY DEF FactorInit, CodeWorksOnce
<1>3. 0 \in 0..MaxStep /\ 0 \in Steps
  BY FactorConstants DEF Steps
<1> QED BY <1>1, <1>2, <1>3 DEF FactorInit, FactorInv, FactorRight

\* Moving a request on keeps the invariant if the request is where it may be.
LEMMA FactorMoves ==
    ASSUME FactorRight, NEW r \in Requests, UNCHANGED FactorRows,
           now' \in 0..MaxStep,
           \A q \in Requests \ {r} : pc'[q] = pc[q] /\ job'[q] = job[q] /\ seen'[q] = seen[q],
           Tables', pc'[r] \in {"idle", "asked", "matched"},
           pc'[r] # "idle" => job'[r] \in FactorJobs,
           pc'[r] = "matched" /\ job'[r].op # "enrol" => job'[r].code.factor = seen'[r]
    PROVE  FactorRight'
BY DEF FactorRight, FactorInv, CodeWorksOnce, FactorRows

\* An answer ends what the request held.
LEMMA FactorAnswers ==
    ASSUME FactorRight, NEW r \in Requests, Answered(r)
    PROVE  /\ Tables' /\ pc'[r] = "idle"
           /\ \A q \in Requests \ {r} : pc'[q] = pc[q] /\ job'[q] = job[q] /\ seen'[q] = seen[q]
BY DEF Answered, FactorRight, Tables

\* Accepting a code ahead of the counter is the first time it is accepted.
LEMMA AcceptedOnce ==
    ASSUME FactorRight, NEW code \in Codes, code.factor = secret, code.step > counter,
           Accept(code)
    PROVE  /\ counter' \in Steps /\ uses' \in [Codes -> Nat]
           /\ CodeWorksOnce'
           /\ \A c \in Codes : c.factor = secret /\ c.step > counter' => uses'[c] = 0
<1>1. uses \in [Codes -> Nat] /\ uses[code] = 0 /\ counter \in Steps
  BY DEF FactorRight, FactorInv
<1>2. counter' = code.step /\ uses' = [uses EXCEPT ![code] = 1]
  BY <1>1 DEF Accept
<1>3. counter \in Int /\ \A c \in Codes : c.step \in Int /\ c.step \in Steps
  BY <1>1, FactorConstants DEF Steps, Codes
<1>4. \A c \in Codes : c.factor = secret /\ c.step > counter' => uses'[c] = 0
  <2> SUFFICES ASSUME NEW c \in Codes, c.factor = secret, c.step > counter'
               PROVE  uses'[c] = 0
    OBVIOUS
  <2>1. c # code /\ c.step > counter
    BY <1>1, <1>2, <1>3
  <2> QED BY <1>1, <1>2, <2>1 DEF FactorRight, FactorInv
<1> QED BY <1>1, <1>2, <1>3, <1>4 DEF FactorRight, CodeWorksOnce

LEMMA FactorStep == FactorRight /\ [FactorNext]_factorVars => FactorRight'
<1> SUFFICES ASSUME FactorRight, [FactorNext]_factorVars
             PROVE  FactorRight'
  OBVIOUS
<1>1. now \in 0..MaxStep /\ MaxStep \in Int
  BY FactorConstants DEF FactorRight, FactorInv
<1>2. ASSUME NextStep
      PROVE  FactorRight'
  <2>1. now' \in 0..MaxStep /\ UNCHANGED <<request, secret, counter, uses>>
    BY <1>1, <1>2 DEF NextStep
  <2> QED BY <2>1 DEF FactorRight, FactorInv, CodeWorksOnce, Tables, request
<1>3. ASSUME NEW r \in Requests, AskFactor(r)
      PROVE  FactorRight'
  <2>1. PICK j \in FactorJobs : Starts(r, Nothing, j, "asked", Nothing)
    BY <1>3 DEF AskFactor
  <2>2. now' = now /\ UNCHANGED FactorRows
    BY <1>3 DEF AskFactor, FactorRows
  <2>3. /\ Tables' /\ pc'[r] = "asked" /\ job'[r] = j
        /\ \A q \in Requests \ {r} : pc'[q] = pc[q] /\ job'[q] = job[q] /\ seen'[q] = seen[q]
    BY <2>1 DEF Starts, FactorRight, Tables
  <2> QED BY <1>1, <2>2, <2>3, FactorMoves
<1>4. ASSUME NEW r \in Requests, ReadFactor(r) \/ CheckEnrolment(r)
      PROVE  FactorRight'
  <2>1. now' = now /\ UNCHANGED FactorRows /\ pc[r] = "asked"
    BY <1>4 DEF ReadFactor, CheckEnrolment, FactorRows
  <2>2. CASE Answered(r)
    BY <1>1, <2>1, <2>2, FactorAnswers, FactorMoves
  <2>3. CASE ~Answered(r)
    <3>1. \/ /\ GoesOn(r, "matched", secret) /\ job[r].code.factor = secret
          \/ /\ GoesOn(r, "matched", Nothing) /\ job[r].op = "enrol"
      BY <1>4, <2>3 DEF ReadFactor, CheckEnrolment, Matches
    <3>2. /\ Tables' /\ pc'[r] = "matched" /\ job' = job
          /\ \A q \in Requests \ {r} : pc'[q] = pc[q] /\ seen'[q] = seen[q]
      BY <3>1 DEF GoesOn, FactorRight, Tables
    <3>3. job[r] \in FactorJobs
      BY <2>1 DEF FactorRight, FactorInv
    <3>4. job'[r].op # "enrol" => job'[r].code.factor = seen'[r]
      BY <3>1 DEF GoesOn, FactorRight, Tables
    <3> QED BY <1>1, <2>1, <3>2, <3>3, <3>4, FactorMoves
  <2> QED BY <2>2, <2>3
<1>5. ASSUME NEW r \in Requests, ClaimAndSignIn(r) \/ ClaimAndWithdraw(r) \/ Enrol(r)
      PROVE  FactorRight'
  <2> DEFINE code == job[r].code
  <2>1. /\ now' = now /\ Answered(r) /\ pc[r] = "matched" /\ code \in Codes
        /\ job[r].op # "enrol" => code.factor = seen[r]
    BY <1>5 DEF ClaimAndSignIn, ClaimAndWithdraw, Enrol, FactorRight, FactorInv, FactorJobs
  <2>2. CASE UNCHANGED FactorRows
    BY <1>1, <2>1, <2>2, FactorAnswers, FactorMoves
  <2>3. /\ Tables'
        /\ \A q \in Requests : /\ pc'[q] \in {"idle", "asked", "matched"}
                               /\ pc'[q] # "idle" => q # r /\ pc'[q] = pc[q]
                                    /\ job'[q] = job[q] /\ seen'[q] = seen[q]
    BY <2>1, FactorAnswers DEF FactorRight, FactorInv
  <2>4. \A q \in Requests :
          /\ pc'[q] \in {"idle", "asked", "matched"}
          /\ pc'[q] # "idle" => job'[q] \in FactorJobs
          /\ pc'[q] = "matched" /\ job'[q].op # "enrol" => job'[q].code.factor = seen'[q]
    BY <2>3 DEF FactorRight, FactorInv
  <2>5. CASE job[r].op # "enrol" /\ ~UNCHANGED FactorRows
    <3>1. /\ Claimable(seen[r], code.step) /\ Accept(code)
          /\ secret' = secret \/ secret' = Nothing
      BY <1>5, <2>5 DEF ClaimAndSignIn, ClaimAndWithdraw, Enrol, FactorRows
    <3>2. code.factor = secret /\ code.step > counter
      BY <2>1, <2>5, <3>1 DEF Claimable
    <3>3. /\ counter' \in Steps /\ uses' \in [Codes -> Nat] /\ CodeWorksOnce'
          /\ \A c \in Codes : c.factor = secret /\ c.step > counter' => uses'[c] = 0
      BY <2>1, <3>1, <3>2, AcceptedOnce
    <3>4. \A c \in Codes : c.factor # Nothing
      BY FactorConstants DEF Codes
    <3>5. \A c \in Codes : c.factor = secret' /\ c.step > counter' => uses'[c] = 0
      BY <3>1, <3>3, <3>4
    <3>6. secret' \in Factors \cup {Nothing}
      BY <3>1 DEF FactorRight, FactorInv
    <3> QED BY <1>1, <2>1, <2>3, <2>4, <3>3, <3>5, <3>6 DEF FactorRight, FactorInv
  <2>6. CASE job[r].op = "enrol" /\ ~UNCHANGED FactorRows
    <3>1. /\ secret' = code.factor /\ counter' = code.step
          /\ uses' = [c \in Codes |->
               IF c = code THEN 1 ELSE IF c.factor = code.factor THEN 0 ELSE uses[c]]
      BY <1>5, <2>6 DEF ClaimAndSignIn, ClaimAndWithdraw, Enrol, FactorRows
    <3>2. code.factor \in Factors /\ code.step \in Steps /\ code.step \in Int
      BY <2>1, FactorConstants DEF Codes, Steps
    <3>3. uses \in [Codes -> Nat] /\ CodeWorksOnce
      BY DEF FactorRight, FactorInv
    <3>4. uses' \in [Codes -> Nat] /\ CodeWorksOnce'
      BY <3>1, <3>3 DEF CodeWorksOnce
    <3>5. \A c \in Codes : c.factor = secret' /\ c.step > counter' => uses'[c] = 0
      BY <3>1, <3>2
    <3> QED BY <1>1, <2>1, <2>3, <2>4, <3>1, <3>2, <3>4, <3>5 DEF FactorRight, FactorInv
  <2> QED BY <2>2, <2>5, <2>6
<1>6. CASE UNCHANGED factorVars
  BY <1>6 DEF factorVars, request, FactorRight, FactorInv, CodeWorksOnce, Tables
<1> QED BY <1>2, <1>3, <1>4, <1>5, <1>6 DEF FactorNext

\* A code is accepted once, whatever becomes of the factor between a check and
\* its claim; and the counter is ahead of every code that was accepted
\* (repo.ts claimTotpCounter).
THEOREM CodesWorkOnce == FactorSpec => [](FactorInv /\ CodeWorksOnce)
<1>1. FactorRight => FactorInv /\ CodeWorksOnce
  BY DEF FactorRight
<1> QED BY <1>1, FactorStart, FactorStep, PTL DEF FactorSpec

-----------------------------------------------------------------------------
(* Listings *)

ListingsRight == Tables /\ ListingsInv /\ PriceHistoryChains

Price == [mrp : Nat, selling : Nat]
ChangeRows == [old : Price, new : Price]

\* What PriceHistoryChains says, of one history and one row.
Chain(h, row) ==
    /\ row = Nothing <=> h = <<>>
    /\ h # <<>> => h[1].old = NoPrice /\ h[Len(h)].new = PriceOf(row)
    /\ \A n \in 1..Len(h) : h[n].old # h[n].new
    /\ \A n \in 2..Len(h) : h[n].old = h[n - 1].new

LEMMA ChainsOfPairs == PriceHistoryChains <=> \A p \in Pairs : Chain(history[p], listing[p])
  BY DEF PriceHistoryChains, Chain

\* A price asked that moves the price makes the history one entry longer and
\* no less a chain.
LEMMA ChainGrows ==
    ASSUME NEW h \in Seq(ChangeRows), NEW row \in Listing \cup {Nothing}, Chain(h, row),
           NEW price \in Price, Allowed(price), Moved(row, price),
           NEW new \in Listing, PriceOf(new) = price
    PROVE  /\ Chain(Append(h, Change(row, price)), new)
           /\ Append(h, Change(row, price)) \in Seq(ChangeRows)
<1> DEFINE c == Change(row, price)
           g == Append(h, c)
<1>1. new # Nothing
  BY ListingConstants DEF Listing
<1>2. /\ c.old = IF row = Nothing THEN NoPrice ELSE PriceOf(row)
      /\ c.new = price /\ c \in ChangeRows
  BY DEF Change, ChangeRows, Price, NoPrice, PriceOf, Listing
<1>3. c.old # c.new
  BY <1>2 DEF Moved, NoPrice, Allowed
<1>4. /\ g \in Seq(ChangeRows) /\ g # <<>> /\ Len(g) = Len(h) + 1 /\ Len(h) \in Nat
      /\ \A n \in 1..Len(h) : g[n] = h[n]
      /\ g[Len(h) + 1] = c
  BY <1>2, AppendProperties, LenProperties
<1> HIDE DEF c, g
<1>5. g[1].old = NoPrice /\ g[Len(g)].new = PriceOf(new)
  <2>1. CASE h = <<>>
    <3>1. Len(h) = 0 /\ row = Nothing
      BY <2>1, EmptySeq DEF Chain
    <3> QED BY <1>2, <1>4, <3>1
  <2>2. CASE h # <<>>
    <3>1. Len(h) >= 1
      BY <2>2, <1>4, EmptySeq
    <3> QED BY <1>2, <1>4, <2>2, <3>1 DEF Chain
  <2> QED BY <2>1, <2>2
<1>6. \A n \in 1..Len(g) : g[n].old # g[n].new
  <2> SUFFICES ASSUME NEW n \in 1..Len(g) PROVE g[n].old # g[n].new
    OBVIOUS
  <2>1. n \in 1..Len(h) \/ n = Len(h) + 1
    BY <1>4
  <2> QED BY <1>3, <1>4, <2>1 DEF Chain
<1>7. \A n \in 2..Len(g) : g[n].old = g[n - 1].new
  <2> SUFFICES ASSUME NEW n \in 2..Len(g) PROVE g[n].old = g[n - 1].new
    OBVIOUS
  <2>1. CASE n \in 2..Len(h)
    <3>1. n \in 1..Len(h) /\ n - 1 \in 1..Len(h)
      BY <1>4, <2>1
    <3> QED BY <1>4, <2>1, <3>1 DEF Chain
  <2>2. CASE n = Len(h) + 1
    <3>1. Len(h) >= 1 /\ h # <<>> /\ row # Nothing
      BY <1>4, <2>2, EmptySeq DEF Chain
    <3>2. Len(h) \in 1..Len(h) /\ n - 1 = Len(h)
      BY <1>4, <2>2, <3>1
    <3>3. g[n] = c /\ g[n - 1] = h[Len(h)]
      BY <1>4, <2>2, <3>2
    <3> QED BY <1>2, <3>1, <3>3 DEF Chain
  <2> QED BY <1>4, <2>1, <2>2
<1> QED BY <1>1, <1>4, <1>5, <1>6, <1>7 DEF Chain, c, g

\* A row that changes but for its price leaves the chain as it is.
LEMMA ChainStays ==
    ASSUME NEW h, NEW row \in Listing, NEW new \in Listing, Chain(h, row),
           PriceOf(new) = PriceOf(row)
    PROVE  Chain(h, new)
BY ListingConstants DEF Chain, Listing

\* What is asked, and the pair it is about.
LEMMA JobTypes ==
    ASSUME NEW j \in ListingJobs
    PROVE  /\ j.pair \in Pairs /\ j.op \in {"setPrice", "setListed"}
           /\ j.op = "setPrice" => j.price \in Price /\ Allowed(j.price)
           /\ j.op = "setListed" => j.listed \in BOOLEAN
BY ListingConstants DEF ListingJobs, Prices, Price

LEMMA ListingsStart == ListingsInit => ListingsRight
<1> SUFFICES ASSUME ListingsInit PROVE ListingsRight
  OBVIOUS
<1>1. Tables /\ \A r \in Requests : pc[r] = "idle"
  BY DEF ListingsInit, RequestsInit, Tables
<1>2. \A p \in Pairs : listing[p] = Nothing /\ history[p] = <<>>
  BY DEF ListingsInit
<1>3. PriceHistoryChains
  BY <1>2, EmptySeq DEF PriceHistoryChains
<1>4. ListingsInv
  BY <1>1, EmptySeq DEF ListingsInit, ListingsInv, ListingRequest
<1> QED BY <1>1, <1>3, <1>4 DEF ListingsRight

OthersWait(r) ==
    \A q \in Requests \ {r} : pc'[q] = pc[q] /\ job'[q] = job[q] /\ seen'[q] = seen[q]

\* A commit gives back every lock of the request and no other.
LEMMA CommitUnlocks ==
    ASSUME ListingsRight, NEW r \in Requests, Commits(r)
    PROVE  /\ Tables' /\ pc'[r] = "idle" /\ OthersWait(r)
           /\ pairLock' \in [Pairs -> Requests \cup {Nothing}]
           /\ rowHeld' \in [Pairs -> Requests \cup {Nothing}]
           /\ \A p \in Pairs : rowHeld'[p] # Nothing => pairLock'[p] = rowHeld'[p]
           /\ \A p \in Pairs : \A q \in Requests \ {r} : pairLock[p] = q => pairLock'[p] = q
<1>1. /\ Tables' /\ pc'[r] = "idle" /\ OthersWait(r)
  BY DEF Commits, Answered, ListingsRight, Tables, OthersWait
<1>2. /\ pairLock' = [p \in Pairs |-> IF pairLock[p] = r THEN Nothing ELSE pairLock[p]]
      /\ rowHeld' = [p \in Pairs |-> IF rowHeld[p] = r THEN Nothing ELSE rowHeld[p]]
  BY DEF Commits
<1>3. /\ pairLock \in [Pairs -> Requests \cup {Nothing}]
      /\ rowHeld \in [Pairs -> Requests \cup {Nothing}]
      /\ \A p \in Pairs : rowHeld[p] # Nothing => pairLock[p] = rowHeld[p]
  BY DEF ListingsRight, ListingsInv
<1>4. \A p \in Pairs : rowHeld'[p] # Nothing => pairLock'[p] = rowHeld'[p]
  BY <1>2, <1>3
<1> QED BY <1>1, <1>2, <1>3, <1>4

\* The lock of its pair keeps what a request read from being changed.
LEMMA CommitKeepsReads ==
    ASSUME ListingsRight, NEW r \in Requests, pc[r] = "read", Commits(r),
           \A p \in Pairs : p # Pair(r) => listing'[p] = listing[p]
    PROVE  \A q \in Requests : ListingRequest(q)'
<1>1. /\ Tables' /\ pc'[r] = "idle" /\ OthersWait(r)
      /\ \A p \in Pairs : \A q \in Requests \ {r} : pairLock[p] = q => pairLock'[p] = q
  BY CommitUnlocks
<1>2. ListingRequest(r)'
  BY <1>1 DEF ListingRequest
<1>3. ASSUME NEW q \in Requests \ {r}
      PROVE  ListingRequest(q)'
  <2>1. pc'[q] = pc[q] /\ job'[q] = job[q] /\ seen'[q] = seen[q]
    BY <1>1 DEF OthersWait
  <2>2. ListingRequest(q) /\ pairLock[Pair(r)] = r
    BY DEF ListingsRight, ListingsInv, ListingRequest
  <2>3. pc[q] \in {"keyed", "read"} => Pair(q) \in Pairs /\ Pair(q) # Pair(r)
    BY <2>2, JobTypes DEF ListingRequest, Pair
  <2> QED BY <1>1, <2>1, <2>2, <2>3 DEF ListingRequest, Pair
<1> QED BY <1>2, <1>3

LEMMA ListingsStep == ListingsRight /\ [ListingsNext]_listingVars => ListingsRight'
<1> SUFFICES ASSUME ListingsRight, [ListingsNext]_listingVars
             PROVE  ListingsRight'
  OBVIOUS
<1>0. /\ Tables /\ PriceHistoryChains
      /\ listing \in [Pairs -> Listing \cup {Nothing}]
      /\ history \in [Pairs -> Seq(ChangeRows)]
      /\ pairLock \in [Pairs -> Requests \cup {Nothing}]
      /\ rowHeld \in [Pairs -> Requests \cup {Nothing}]
      /\ \A p \in Pairs : rowHeld[p] # Nothing => pairLock[p] = rowHeld[p]
      /\ \A q \in Requests : ListingRequest(q)
  BY DEF ListingsRight, ListingsInv, ChangeRows, Price
<1>1. ASSUME NEW r \in Requests, AskListing(r)
      PROVE  ListingsRight'
  <2>1. PICK j \in ListingJobs, p \in ShopStaff : Starts(r, Nothing, j, "asked", Nothing)
    BY <1>1 DEF AskListing
  <2>2. UNCHANGED <<listing, history, pairLock, rowHeld>>
    BY <1>1 DEF AskListing
  <2>3. Tables' /\ pc'[r] = "asked" /\ job'[r] = j /\ OthersWait(r)
    BY <1>0, <2>1 DEF Starts, Tables, OthersWait
  <2>4. \A q \in Requests : ListingRequest(q)'
    BY <1>0, <2>2, <2>3 DEF ListingRequest, OthersWait, Pair
  <2> QED BY <1>0, <2>2, <2>3, <2>4
           DEF ListingsRight, ListingsInv, PriceHistoryChains, ChangeRows, Price
<1>2. ASSUME NEW r \in Requests, LockPair(r)
      PROVE  ListingsRight'
  <2>1. /\ pc[r] = "asked" /\ pairLock[Pair(r)] = Nothing
        /\ pairLock' = [pairLock EXCEPT ![Pair(r)] = r]
        /\ UNCHANGED <<listing, history, rowHeld, job>>
    BY <1>2 DEF LockPair, GoesOn
  <2>2. Tables' /\ pc'[r] = "keyed" /\ OthersWait(r)
    BY <1>0, <1>2 DEF LockPair, GoesOn, Tables, OthersWait
  <2>3. job[r] \in ListingJobs /\ Pair(r) \in Pairs
    BY <1>0, <2>1, JobTypes DEF ListingRequest, Pair
  <2>4. \A q \in Requests : ListingRequest(q)'
    <3> SUFFICES ASSUME NEW q \in Requests PROVE ListingRequest(q)'
      OBVIOUS
    <3>1. CASE q = r
      BY <1>0, <2>1, <2>2, <2>3, <3>1 DEF ListingRequest, Pair
    <3>2. CASE q # r
      <4>1. ListingRequest(q) /\ pc'[q] = pc[q] /\ job'[q] = job[q] /\ seen'[q] = seen[q]
        BY <1>0, <2>2, <3>2 DEF OthersWait
      <4>2. pc[q] \in {"keyed", "read"} => Pair(q) \in Pairs /\ pairLock'[Pair(q)] = q
        BY <1>0, <2>1, <4>1, JobTypes, RequestConstants DEF ListingRequest, Pair
      <4> QED BY <2>1, <4>1, <4>2 DEF ListingRequest, Pair
    <3> QED BY <3>1, <3>2
  <2>5. \A p \in Pairs : rowHeld'[p] # Nothing => pairLock'[p] = rowHeld'[p]
    BY <1>0, <2>1, <2>3
  <2>6. pairLock' \in [Pairs -> Requests \cup {Nothing}]
    BY <1>0, <2>1
  <2> QED BY <1>0, <2>1, <2>2, <2>4, <2>5, <2>6
           DEF ListingsRight, ListingsInv, PriceHistoryChains, ChangeRows, Price
<1>3. ASSUME NEW r \in Requests, ReadListing(r)
      PROVE  ListingsRight'
  <2>1. /\ pc[r] = "keyed" /\ rowHeld[Pair(r)] = Nothing
        /\ rowHeld' = rowHeld \/ rowHeld' = [rowHeld EXCEPT ![Pair(r)] = r]
        /\ UNCHANGED <<listing, history, pairLock, job>>
    BY <1>3 DEF ReadListing, GoesOn
  <2>2. Tables' /\ pc'[r] = "read" /\ seen'[r] = listing[Pair(r)] /\ OthersWait(r)
    BY <1>0, <1>3 DEF ReadListing, GoesOn, Tables, OthersWait
  <2>3. job[r] \in ListingJobs /\ Pair(r) \in Pairs /\ pairLock[Pair(r)] = r
    BY <1>0, <2>1, JobTypes DEF ListingRequest, Pair
  <2>4. \A q \in Requests : ListingRequest(q)'
    BY <1>0, <2>1, <2>2, <2>3 DEF ListingRequest, Pair, OthersWait
  <2>5. /\ rowHeld' \in [Pairs -> Requests \cup {Nothing}]
        /\ \A p \in Pairs : rowHeld'[p] # Nothing => pairLock'[p] = rowHeld'[p]
    BY <1>0, <2>1, <2>3
  <2> QED BY <1>0, <2>1, <2>2, <2>4, <2>5
           DEF ListingsRight, ListingsInv, PriceHistoryChains, ChangeRows, Price
<1>4. ASSUME NEW r \in Requests, SetPrice(r)
      PROVE  ListingsRight'
  <2> DEFINE p == Pair(r)
             new == [mrp |-> job[r].price.mrp, selling |-> job[r].price.selling,
                     listed |-> seen[r] = Nothing \/ seen[r].listed]
  <2>1. /\ pc[r] = "read" /\ job[r].op = "setPrice" /\ Commits(r)
        /\ listing' = [listing EXCEPT ![p] = new]
        /\ history' = IF Moved(seen[r], job[r].price)
                      THEN [history EXCEPT ![p] = Append(@, Change(seen[r], job[r].price))]
                      ELSE history
    BY <1>4 DEF SetPrice
  <2>2. /\ p \in Pairs /\ job[r].price \in Price /\ Allowed(job[r].price)
        /\ seen[r] = listing[p] /\ seen[r] \in Listing \cup {Nothing}
        /\ Chain(history[p], seen[r]) /\ history[p] \in Seq(ChangeRows)
    BY <1>0, <2>1, JobTypes, ChainsOfPairs DEF ListingRequest, Pair
  <2>3. new \in Listing /\ PriceOf(new) = job[r].price
    BY <2>2 DEF Listing, Price, PriceOf
  <2> HIDE DEF p, new
  <2>4. /\ Chain(history'[p], new) /\ history'[p] \in Seq(ChangeRows)
        /\ \A o \in Pairs : o # p => history'[o] = history[o]
        /\ DOMAIN history' = Pairs
    <3>1. CASE Moved(seen[r], job[r].price)
      <4>1. history' = [history EXCEPT ![p] = Append(history[p], Change(seen[r], job[r].price))]
        BY <2>1, <3>1
      <4>2. /\ Chain(Append(history[p], Change(seen[r], job[r].price)), new)
            /\ Append(history[p], Change(seen[r], job[r].price)) \in Seq(ChangeRows)
        BY <2>2, <2>3, <3>1, ChainGrows
      <4> QED BY <1>0, <2>2, <4>1, <4>2
    <3>2. CASE ~Moved(seen[r], job[r].price)
      <4>1. history' = history /\ seen[r] \in Listing /\ PriceOf(new) = PriceOf(seen[r])
        BY <2>1, <2>2, <2>3, <3>2 DEF Moved
      <4>2. Chain(history[p], new)
        BY <2>2, <2>3, <4>1, ChainStays
      <4> QED BY <1>0, <2>2, <4>1, <4>2
    <3> QED BY <3>1, <3>2
  <2>5. /\ listing' \in [Pairs -> Listing \cup {Nothing}] /\ listing'[p] = new
        /\ \A o \in Pairs : o # p => listing'[o] = listing[o]
    BY <1>0, <2>1, <2>2, <2>3
  <2>6. history' \in [Pairs -> Seq(ChangeRows)]
    <3>1. \A o \in Pairs : history'[o] \in Seq(ChangeRows)
      BY <1>0, <2>4
    <3> QED BY <1>0, <2>1, <2>4, <3>1
  <2>7. ASSUME NEW o \in Pairs
        PROVE  Chain(history'[o], listing'[o])
    <3>1. CASE o = p
      BY <2>4, <2>5, <3>1
    <3>2. CASE o # p
      BY <1>0, <2>4, <2>5, <3>2, ChainsOfPairs
    <3> QED BY <3>1, <3>2
  <2>8. PriceHistoryChains'
    BY <2>7 DEF PriceHistoryChains, Chain
  <2>9. \A q \in Requests : ListingRequest(q)'
    BY <2>1, <2>5, CommitKeepsReads DEF p
  <2> QED BY <2>1, <2>5, <2>6, <2>8, <2>9, CommitUnlocks
           DEF ListingsRight, ListingsInv, ChangeRows, Price
<1>5. ASSUME NEW r \in Requests, SetListed(r)
      PROVE  ListingsRight'
  <2> DEFINE p == Pair(r)
  <2>1. /\ pc[r] = "read" /\ job[r].op = "setListed" /\ Commits(r) /\ history' = history
        /\ listing' = IF seen[r] = Nothing THEN listing
                      ELSE [listing EXCEPT ![p].listed = job[r].listed]
    BY <1>5 DEF SetListed
  <2>2. /\ p \in Pairs /\ job[r].listed \in BOOLEAN /\ seen[r] = listing[p]
        /\ seen[r] \in Listing \cup {Nothing}
    BY <1>0, <2>1, JobTypes DEF ListingRequest, Pair
  <2> HIDE DEF p
  <2>3. /\ listing' \in [Pairs -> Listing \cup {Nothing}]
        /\ \A o \in Pairs : o # p => listing'[o] = listing[o]
        /\ Chain(history[p], listing'[p])
    <3>1. CASE seen[r] = Nothing
      BY <1>0, <2>1, <2>2, <3>1, ChainsOfPairs
    <3>2. CASE seen[r] # Nothing
      <4> DEFINE new == [listing[p] EXCEPT !.listed = job[r].listed]
      <4>1. listing' = [listing EXCEPT ![p] = new] /\ listing[p] \in Listing
        BY <2>1, <2>2, <3>2
      <4>2. new \in Listing /\ PriceOf(new) = PriceOf(listing[p])
        BY <2>2, <4>1 DEF Listing, PriceOf
      <4> HIDE DEF new
      <4>3. Chain(history[p], new)
        BY <1>0, <2>2, <4>1, <4>2, ChainStays, ChainsOfPairs
      <4> QED BY <1>0, <2>2, <4>1, <4>2, <4>3
    <3> QED BY <3>1, <3>2
  <2>4. \A o \in Pairs : Chain(history[o], listing[o])'
    BY <1>0, <2>1, <2>3, ChainsOfPairs DEF Chain
  <2>5. PriceHistoryChains'
    BY <2>4 DEF PriceHistoryChains, Chain
  <2>6. \A q \in Requests : ListingRequest(q)'
    BY <2>1, <2>3, CommitKeepsReads DEF p
  <2> QED BY <1>0, <2>1, <2>3, <2>5, <2>6, CommitUnlocks
           DEF ListingsRight, ListingsInv, ChangeRows, Price
<1>6. CASE UNCHANGED listingVars
  BY <1>6 DEF listingVars, request, ListingsRight, ListingsInv, ListingRequest, Pair,
              PriceHistoryChains, Tables
<1> QED BY <1>1, <1>2, <1>3, <1>4, <1>5, <1>6 DEF ListingsNext

\* The history of a listing starts from nothing, joins up entry to entry, moves
\* the price each time and ends at the price asked now; and what a request read
\* of its pair stays true until it commits (repo.ts lockListingPair).
THEOREM HistoryChains == ListingsSpec => [](ListingsInv /\ PriceHistoryChains)
<1>1. ListingsRight => ListingsInv /\ PriceHistoryChains
  BY DEF ListingsRight
<1> QED BY <1>1, ListingsStart, ListingsStep, PTL DEF ListingsSpec

-----------------------------------------------------------------------------
(* Product requests: the caps *)

\* The rows of a shop, and of one submitter with it, in the window about t.
AskedOfShop(rows, t, s) ==
    {n \in DOMAIN rows : /\ rows[n].at <= t /\ rows[n].at + ShortWindow >= t
                         /\ rows[n].store = s}
OfOne(rows, t, s, who) ==
    {n \in DOMAIN rows : /\ rows[n].at <= t /\ rows[n].at + LongWindow >= t
                         /\ rows[n].store = s /\ rows[n].submitter = who}

Capped(rows) ==
    \A s \in Stores, t \in 0..MaxTime :
        /\ Cardinality(AskedOfShop(rows, t, s)) <= PerStore
        /\ \A who \in Submitters :
             /\ Cardinality(OfOne(rows, t, s, who)) <= PerSubmitter
             /\ \A m, n \in OfOne(rows, t, s, who) : rows[m].product = rows[n].product => m = n

LEMMA CapsAreCapped == CapsHold <=> Capped(asks)
<1> DEFINE shops(s, t) == {n \in Within(ShortWindow, t) : asks[n].store = s}
           mine(s, t, who) == {n \in Within(LongWindow, t) :
                                 asks[n].store = s /\ asks[n].submitter = who}
<1>1. CapsHold <=>
        \A s \in Stores, t \in 0..MaxTime :
            /\ Cardinality(shops(s, t)) <= PerStore
            /\ \A who \in Submitters :
                 /\ Cardinality(mine(s, t, who)) <= PerSubmitter
                 /\ \A m, n \in mine(s, t, who) : asks[m].product = asks[n].product => m = n
  BY DEF CapsHold
<1>2. \A s, t : shops(s, t) = AskedOfShop(asks, t, s)
  BY DEF Within, AskedOfShop
<1>3. \A s, t, who : mine(s, t, who) = OfOne(asks, t, s, who)
  BY DEF Within, OfOne
<1> HIDE DEF shops, mine
<1> QED BY <1>1, <1>2, <1>3 DEF Capped

\* What was counted for a new row: the rows not older than its windows.
ShopsBefore(rows, row) ==
    {n \in DOMAIN rows : rows[n].at + ShortWindow >= row.at /\ rows[n].store = row.store}
MineBefore(rows, row) ==
    {n \in DOMAIN rows : /\ rows[n].at + LongWindow >= row.at
                         /\ rows[n].store = row.store /\ rows[n].submitter = row.submitter}

Room(rows, row) ==
    /\ Cardinality(ShopsBefore(rows, row)) < PerStore
    /\ Cardinality(MineBefore(rows, row)) < PerSubmitter
    /\ \A n \in MineBefore(rows, row) : rows[n].product # row.product

\* One more member than a set with room for it.
LEMMA OneMore ==
    ASSUME NEW n \in Nat, NEW A \in SUBSET (1..n), NEW B \in SUBSET (A \cup {n + 1}),
           NEW k \in Nat, Cardinality(A) < k
    PROVE  Cardinality(B) <= k
<1>1. IsFiniteSet(A) /\ Cardinality(A) \in Nat
  <2>1. IsFiniteSet(1..n)
    BY FS_Interval
  <2> QED BY <2>1, FS_Subset, FS_CardinalityType
<1>2. /\ IsFiniteSet(A \cup {n + 1})
      /\ Cardinality(A \cup {n + 1}) = Cardinality(A) + 1
  <2>1. n + 1 \notin A
    OBVIOUS
  <2> DEFINE x == n + 1
  <2> HIDE DEF x
  <2>2. /\ IsFiniteSet(A \cup {x})
        /\ Cardinality(A \cup {x}) = IF x \in A THEN Cardinality(A) ELSE Cardinality(A) + 1
    BY <1>1, FS_AddElement, Zenon
  <2> QED BY <2>1, <2>2 DEF x
<1>3. Cardinality(B) <= Cardinality(A \cup {n + 1}) /\ Cardinality(B) \in Nat
  BY <1>2, FS_Subset, FS_CardinalityType
<1>4. Cardinality(A \cup {n + 1}) \in Nat
  BY <1>2, FS_CardinalityType
<1> QED BY <1>1, <1>2, <1>3, <1>4

\* A row there was room for, counted in its own windows, exceeds no cap in any.
LEMMA CapsAfterInsert ==
    ASSUME NEW rows \in Seq(Asks), NEW row \in Asks, Capped(rows), Room(rows, row)
    PROVE  Capped(Append(rows, row))
<1> DEFINE more == Append(rows, row)
           last == Len(rows) + 1
<1>1. /\ Len(rows) \in Nat /\ DOMAIN rows = 1..Len(rows) /\ DOMAIN more = 1..last
      /\ \A n \in 1..Len(rows) : more[n] = rows[n] /\ rows[n] \in Asks
      /\ more[last] = row
  BY AppendProperties, LenProperties, ElementOfSeq
<1>2. /\ row.at \in Nat /\ ShortWindow \in Nat /\ LongWindow \in Nat
      /\ PerStore \in Nat /\ PerSubmitter \in Nat /\ MaxTime \in Nat
      /\ \A n \in 1..Len(rows) : rows[n].at \in Nat
  BY <1>1, IntakeConstants DEF Asks
<1> HIDE DEF more
<1> SUFFICES ASSUME NEW s \in Stores, NEW t \in 0..MaxTime
             PROVE  /\ Cardinality(AskedOfShop(more, t, s)) <= PerStore
                    /\ \A who \in Submitters :
                         /\ Cardinality(OfOne(more, t, s, who)) <= PerSubmitter
                         /\ \A m, n \in OfOne(more, t, s, who) :
                              more[m].product = more[n].product => m = n
  BY DEF Capped, more
<1>3. Cardinality(AskedOfShop(more, t, s)) <= PerStore
  <2>1. CASE last \in AskedOfShop(more, t, s)
    <3>1. row.at <= t /\ row.store = s
      BY <1>1, <2>1 DEF AskedOfShop
    <3>2. AskedOfShop(more, t, s) \subseteq ShopsBefore(rows, row) \cup {last}
      BY <1>1, <1>2, <3>1 DEF AskedOfShop, ShopsBefore
    <3>3. ShopsBefore(rows, row) \subseteq 1..Len(rows)
      BY <1>1 DEF ShopsBefore
    <3> QED BY <1>1, <1>2, <3>2, <3>3, OneMore DEF Room
  <2>2. CASE last \notin AskedOfShop(more, t, s)
    <3>1. AskedOfShop(more, t, s) = AskedOfShop(rows, t, s)
      BY <1>1, <2>2 DEF AskedOfShop
    <3> QED BY <3>1 DEF Capped
  <2> QED BY <2>1, <2>2
<1>4. ASSUME NEW who \in Submitters
      PROVE  /\ Cardinality(OfOne(more, t, s, who)) <= PerSubmitter
             /\ \A m, n \in OfOne(more, t, s, who) :
                  more[m].product = more[n].product => m = n
  <2>1. CASE last \in OfOne(more, t, s, who)
    <3>1. row.at <= t /\ row.store = s /\ row.submitter = who
      BY <1>1, <2>1 DEF OfOne
    <3>2. OfOne(more, t, s, who) \subseteq MineBefore(rows, row) \cup {last}
      BY <1>1, <1>2, <3>1 DEF OfOne, MineBefore
    <3>3. MineBefore(rows, row) \subseteq 1..Len(rows)
      BY <1>1 DEF MineBefore
    <3>4. \A n \in OfOne(more, t, s, who) :
            n # last => more[n] = rows[n] /\ more[n].product # row.product
                        /\ n \in OfOne(rows, t, s, who)
      BY <1>1, <3>1, <3>2, <3>3 DEF Room, OfOne
    <3>5. \A m, n \in OfOne(more, t, s, who) : more[m].product = more[n].product => m = n
      BY <1>1, <3>4 DEF Capped
    <3> QED BY <1>1, <1>2, <3>2, <3>3, <3>5, OneMore DEF Room
  <2>2. CASE last \notin OfOne(more, t, s, who)
    <3>1. /\ OfOne(more, t, s, who) = OfOne(rows, t, s, who)
          /\ \A n \in OfOne(rows, t, s, who) : more[n] = rows[n]
      BY <1>1, <2>2 DEF OfOne
    <3> QED BY <3>1 DEF Capped
  <2> QED BY <2>1, <2>2
<1> QED BY <1>3, <1>4

\* What the caps are about is who asked whom for what and when.
LEMMA CapsIgnoreStatus ==
    ASSUME NEW rows, NEW others, Capped(rows), DOMAIN others = DOMAIN rows,
           \A n \in DOMAIN rows :
               /\ others[n].at = rows[n].at /\ others[n].store = rows[n].store
               /\ others[n].submitter = rows[n].submitter
               /\ others[n].product = rows[n].product
    PROVE  /\ Capped(others)
           /\ \A row : Room(rows, row) => Room(others, row)
<1>1. ASSUME NEW s, NEW t PROVE AskedOfShop(others, t, s) = AskedOfShop(rows, t, s)
  BY DEF AskedOfShop
<1>2. ASSUME NEW s, NEW t, NEW who
      PROVE  /\ OfOne(others, t, s, who) = OfOne(rows, t, s, who)
             /\ OfOne(rows, t, s, who) \subseteq DOMAIN rows
  BY DEF OfOne
<1>3. ASSUME NEW row
      PROVE  /\ ShopsBefore(others, row) = ShopsBefore(rows, row)
             /\ MineBefore(others, row) = MineBefore(rows, row)
             /\ MineBefore(rows, row) \subseteq DOMAIN rows
  BY DEF ShopsBefore, MineBefore
<1>4. Capped(others)
  BY <1>1, <1>2 DEF Capped
<1>5. \A row : Room(rows, row) => Room(others, row)
  BY <1>3 DEF Room
<1> QED BY <1>4, <1>5

-----------------------------------------------------------------------------
(* Product requests: the steps *)

TrailRows == [from : RequestStatuses \cup {"none"}, to : RequestStatuses]

\* What TrailIsOnePath says, of one history and one status.
Path(h, status) ==
    /\ h[1] = [from |-> "none", to |-> "NEW"]
    /\ h[Len(h)].to = status
    /\ \A k \in 2..Len(h) : h[k].from = h[k - 1].to /\ h[k].to \in RequestTransitions[h[k].from]

SubmitJobs == [op : {"submit"}, store : Stores, submitter : Submitters, product : Wishes]
TriageJobs == [op : {"triage"}, row : DOMAIN asks, to : RequestStatuses, noted : BOOLEAN]

\* The row a counted request is going to insert.
RowFor(r) ==
    [store |-> job[r].store, submitter |-> job[r].submitter, product |-> job[r].product,
     at |-> seen[r].at, status |-> "NEW"]

\* A counted request still has room for its row, a locked one its step.
IntakeRequest(r) ==
    /\ pc[r] = "asked" => job[r] \in SubmitJobs \cup TriageJobs
    /\ pc[r] = "counted" =>
         job[r] \in SubmitJobs /\ seen[r].at \in Nat /\ Room(asks, RowFor(r))
    /\ pc[r] = "locked" =>
         /\ job[r] \in TriageJobs /\ seen[r].status \in RequestStatuses
         /\ job[r].to \in RequestTransitions[seen[r].status]

\* A row is locked by one request.
TriageLocksApart == \A l, m \in triageLock : l[1] = m[1] => l = m

IntakeRight ==
    /\ Tables /\ IntakeInv /\ CapsHold
    /\ today \in Nat
    /\ trail \in Seq(Seq(TrailRows)) /\ \A n \in DOMAIN asks : trail[n] # <<>>
    /\ DOMAIN intakeLock = Stores
    /\ TriageLocksApart
    /\ \A r \in Requests : IntakeRequest(r)

LEMMA TrailsArePaths == TrailIsOnePath <=> \A n \in DOMAIN asks : Path(trail[n], asks[n].status)
  BY DEF TrailIsOnePath, Path

\* A step the table allows makes a path one longer.
LEMMA PathGrows ==
    ASSUME NEW h \in Seq(TrailRows), h # <<>>, NEW from \in RequestStatuses, Path(h, from),
           NEW to \in RequestTransitions[from]
    PROVE  LET row == [from |-> from, to |-> to] IN
           /\ to \in RequestStatuses
           /\ Append(h, row) \in Seq(TrailRows) /\ Append(h, row) # <<>>
           /\ Path(Append(h, row), to)
<1> DEFINE row == [from |-> from, to |-> to]
           g == Append(h, row)
<1>1. to \in RequestStatuses /\ row \in TrailRows
  BY DEF RequestTransitions, RequestStatuses, TrailRows
<1>2. /\ g \in Seq(TrailRows) /\ g # <<>> /\ Len(g) = Len(h) + 1
      /\ Len(h) \in Nat /\ Len(h) >= 1
      /\ \A n \in 1..Len(h) : g[n] = h[n]
      /\ g[Len(h) + 1] = row
  BY <1>1, AppendProperties, LenProperties, EmptySeq
<1>3. row.from = from /\ row.to = to
  OBVIOUS
<1> HIDE DEF g, row
<1>4. g[1] = [from |-> "none", to |-> "NEW"] /\ g[Len(g)].to = to
  BY <1>2, <1>3 DEF Path
<1>5. ASSUME NEW k \in 2..Len(g)
      PROVE  g[k].from = g[k - 1].to /\ g[k].to \in RequestTransitions[g[k].from]
  <2>1. CASE k \in 2..Len(h)
    <3>1. k \in 1..Len(h) /\ k - 1 \in 1..Len(h)
      BY <1>2, <2>1
    <3> QED BY <1>2, <2>1, <3>1 DEF Path
  <2>2. CASE k = Len(h) + 1
    <3>1. Len(h) \in 1..Len(h) /\ k - 1 = Len(h)
      BY <1>2, <2>2
    <3>2. g[k] = row /\ g[k - 1].to = from
      BY <1>2, <2>2, <3>1 DEF Path
    <3> QED BY <1>3, <3>2
  <2> QED BY <1>2, <2>1, <2>2
<1> QED BY <1>1, <1>2, <1>4, <1>5 DEF Path, g, row

\* What is not refused there is room for, at the time it is counted.
LEMMA CountedHasRoom ==
    ASSUME IntakeRight, NEW j \in SubmitJobs, ~Refused(j)
    PROVE  Room(asks, [store |-> j.store, submitter |-> j.submitter, product |-> j.product,
                       at |-> today, status |-> "NEW"])
<1> DEFINE row == [store |-> j.store, submitter |-> j.submitter, product |-> j.product,
                   at |-> today, status |-> "NEW"]
           mine == {n \in Since(LongWindow) :
                      asks[n].store = j.store /\ asks[n].submitter = j.submitter}
           shops == {n \in Since(ShortWindow) : asks[n].store = j.store}
<1>1. /\ ~\E n \in mine : asks[n].product = j.product
      /\ ~(Cardinality(mine) >= PerSubmitter) /\ ~(Cardinality(shops) >= PerStore)
  BY DEF Refused
<1>2. mine = MineBefore(asks, row) /\ shops = ShopsBefore(asks, row)
  BY DEF MineBefore, ShopsBefore, Since
<1>3. Cardinality(mine) \in Nat /\ Cardinality(shops) \in Nat
  <2>1. asks \in Seq(Asks)
    BY DEF IntakeRight, IntakeInv
  <2>2. Len(asks) \in Nat /\ DOMAIN asks = 1..Len(asks)
    BY <2>1, LenProperties
  <2>3. mine \subseteq 1..Len(asks) /\ shops \subseteq 1..Len(asks)
    BY <2>2 DEF Since
  <2>4. IsFiniteSet(1..Len(asks))
    BY <2>2, FS_Interval
  <2> HIDE DEF mine, shops
  <2> QED BY <2>3, <2>4, FS_Subset, FS_CardinalityType
<1>4. row.product = j.product /\ PerStore \in Nat /\ PerSubmitter \in Nat
  BY IntakeConstants
<1> HIDE DEF row, mine, shops
<1>5. Room(asks, row)
  BY <1>1, <1>2, <1>3, <1>4 DEF Room
<1> QED BY <1>5 DEF row

LEMMA IntakeStart == IntakeInit => IntakeRight
<1> SUFFICES ASSUME IntakeInit PROVE IntakeRight
  OBVIOUS
<1>1. Tables /\ \A r \in Requests : pc[r] = "idle"
  BY DEF IntakeInit, RequestsInit, Tables
<1>2. /\ asks = <<>> /\ trail = <<>> /\ triageLock = {} /\ today = 0
      /\ intakeLock = [s \in Stores |-> Nothing]
  BY DEF IntakeInit
<1>3. /\ asks \in Seq(Asks) /\ trail \in Seq(Seq(TrailRows))
      /\ Len(asks) = 0 /\ Len(trail) = 0 /\ DOMAIN asks = {}
  BY <1>2, EmptySeq, LenProperties
<1>4. IntakeInv
  BY <1>1, <1>2, <1>3 DEF IntakeInv, TrailIsOnePath
<1>5. CapsHold
  <2>1. \A s, t, who : AskedOfShop(asks, t, s) = {} /\ OfOne(asks, t, s, who) = {}
    BY <1>3 DEF AskedOfShop, OfOne
  <2>2. Capped(asks)
    BY <2>1, FS_EmptySet, IntakeConstants DEF Capped
  <2> QED BY <2>2, CapsAreCapped
<1> QED BY <1>1, <1>2, <1>3, <1>4, <1>5 DEF IntakeRight, IntakeRequest, TriageLocksApart

\* What IntakeInv says of one request.
HoldsIntake(r) ==
    /\ pc[r] \in {"idle", "asked", "counted", "locked"}
    /\ pc[r] = "counted" => intakeLock[job[r].store] = r
    /\ pc[r] = "locked" => <<job[r].row, r>> \in triageLock
                           /\ asks[job[r].row].status = seen[r].status

LEMMA IntakeInvParts ==
    IntakeInv <=> /\ asks \in Seq(Asks) /\ Len(trail) = Len(asks)
                  /\ \A r \in Requests : HoldsIntake(r)
                  /\ TrailIsOnePath
  BY DEF IntakeInv, HoldsIntake

\* A request that takes a lock or gives its own back disturbs no other.
LEMMA IntakeMoves ==
    ASSUME IntakeRight, NEW r \in Requests, UNCHANGED <<asks, trail>>, today' \in Nat,
           OthersWait(r), Tables', DOMAIN intakeLock' = Stores,
           \A s \in Stores : \A q \in Requests \ {r} : intakeLock[s] = q => intakeLock'[s] = q,
           \A l \in triageLock : l[2] # r => l \in triageLock',
           TriageLocksApart', HoldsIntake(r)', IntakeRequest(r)'
    PROVE  IntakeRight'
<1>1. IntakeInv /\ CapsHold /\ \A q \in Requests : HoldsIntake(q) /\ IntakeRequest(q)
  BY IntakeInvParts DEF IntakeRight
<1>2. CapsHold'
  BY <1>1 DEF CapsHold, Within
<1>3. ASSUME NEW q \in Requests \ {r}
      PROVE  HoldsIntake(q)' /\ IntakeRequest(q)'
  <2>1. pc'[q] = pc[q] /\ job'[q] = job[q] /\ seen'[q] = seen[q]
    BY DEF OthersWait
  <2>2. IntakeRequest(q)'
    <3>1. RowFor(q)' = RowFor(q) /\ TriageJobs' = TriageJobs
      BY <2>1 DEF RowFor, TriageJobs
    <3>2. Room(asks, RowFor(q)) => Room(asks, RowFor(q))'
      BY <3>1 DEF Room, ShopsBefore, MineBefore
    <3> QED BY <1>1, <2>1, <3>1, <3>2 DEF IntakeRequest
  <2>3. pc[q] = "counted" => job[q].store \in Stores
    BY <1>1 DEF IntakeRequest, SubmitJobs
  <2>4. <<job[q].row, q>> \in triageLock => <<job[q].row, q>> \in triageLock'
    OBVIOUS
  <2>5. HoldsIntake(q)'
    BY <1>1, <2>1, <2>3, <2>4 DEF HoldsIntake
  <2> QED BY <2>2, <2>5
<1>4. TrailIsOnePath' /\ Len(trail') = Len(asks')
  BY <1>1, IntakeInvParts DEF TrailIsOnePath
<1>5. \A q \in Requests : HoldsIntake(q)' /\ IntakeRequest(q)'
  BY <1>3
<1>6. asks \in Seq(Asks)
  BY <1>1 DEF IntakeInv
<1>7. IntakeInv'
  BY <1>4, <1>5, <1>6 DEF IntakeInv, HoldsIntake
<1> QED BY <1>2, <1>5, <1>7 DEF IntakeRight

\* A row of another shop takes no room.
LEMMA RoomElsewhere ==
    ASSUME NEW rows \in Seq(Asks), NEW row \in Asks, NEW other, Room(rows, other),
           row.store # other.store
    PROVE  Room(Append(rows, row), other)
<1> DEFINE more == Append(rows, row)
<1>1. /\ Len(rows) \in Nat /\ DOMAIN rows = 1..Len(rows) /\ DOMAIN more = 1..(Len(rows) + 1)
      /\ \A n \in 1..Len(rows) : more[n] = rows[n]
      /\ more[Len(rows) + 1] = row
  BY AppendProperties, LenProperties
<1> HIDE DEF more
<1>2. ShopsBefore(more, other) = ShopsBefore(rows, other)
  BY <1>1 DEF ShopsBefore
<1>3. MineBefore(more, other) = MineBefore(rows, other)
  BY <1>1 DEF MineBefore
<1>4. \A n \in MineBefore(rows, other) : more[n] = rows[n]
  BY <1>1 DEF MineBefore
<1>5. Room(more, other)
  BY <1>2, <1>3, <1>4 DEF Room
<1> QED BY <1>5 DEF more

LEMMA InsertStep ==
    ASSUME IntakeRight, NEW r \in Requests, InsertRequest(r)
    PROVE  IntakeRight'
<1> DEFINE row == RowFor(r)
<1>1. /\ pc[r] = "counted" /\ asks' = Append(asks, row)
      /\ trail' = Append(trail, <<[from |-> "none", to |-> "NEW"]>>)
      /\ intakeLock' = [s \in Stores |-> IF intakeLock[s] = r THEN Nothing ELSE intakeLock[s]]
      /\ Answered(r) /\ UNCHANGED <<today, triageLock>>
  BY DEF InsertRequest, RowFor
<1>2. /\ asks \in Seq(Asks) /\ Len(trail) = Len(asks) /\ TrailIsOnePath /\ CapsHold
      /\ \A q \in Requests : HoldsIntake(q) /\ IntakeRequest(q)
      /\ trail \in Seq(Seq(TrailRows)) /\ today \in Nat /\ DOMAIN intakeLock = Stores
      /\ TriageLocksApart
  BY IntakeInvParts DEF IntakeRight
<1>3. row \in Asks /\ Room(asks, row) /\ row.store = job[r].store /\ row.status = "NEW"
  BY <1>1, <1>2 DEF IntakeRequest, RowFor, SubmitJobs, Asks, RequestStatuses
<1> HIDE DEF row
<1>4. /\ asks' \in Seq(Asks) /\ DOMAIN asks = 1..Len(asks) /\ Len(asks) \in Nat
      /\ DOMAIN asks' = 1..(Len(asks) + 1) /\ Len(asks') = Len(asks) + 1
      /\ \A n \in 1..Len(asks) : asks'[n] = asks[n]
      /\ asks'[Len(asks) + 1] = row
  BY <1>1, <1>2, <1>3, AppendProperties, LenProperties
<1>5. CapsHold'
  <2>1. Capped(asks')
    BY <1>1, <1>2, <1>3, CapsAreCapped, CapsAfterInsert
  <2>2. Capped(asks)'
    BY <2>1 DEF Capped, AskedOfShop, OfOne
  <2> QED BY <2>2, CapsAreCapped, PTL
<1>6. /\ trail' \in Seq(Seq(TrailRows)) /\ Len(trail') = Len(trail) + 1
      /\ \A n \in 1..Len(trail) : trail'[n] = trail[n]
      /\ trail'[Len(trail) + 1] = <<[from |-> "none", to |-> "NEW"]>>
  <2>1. <<[from |-> "none", to |-> "NEW"]>> \in Seq(TrailRows)
    BY DEF TrailRows, RequestStatuses
  <2> DEFINE new == <<[from |-> "none", to |-> "NEW"]>>
  <2> HIDE DEF new
  <2>2. /\ Append(trail, new) \in Seq(Seq(TrailRows)) /\ Len(Append(trail, new)) = Len(trail) + 1
        /\ \A n \in 1..Len(trail) : Append(trail, new)[n] = trail[n]
        /\ Append(trail, new)[Len(trail) + 1] = new
    BY <1>2, <2>1, AppendProperties DEF new
  <2> QED BY <1>1, <2>2 DEF new
<1>7. ASSUME NEW n \in DOMAIN asks'
      PROVE  trail'[n] # <<>> /\ Path(trail'[n], asks'[n].status)
  <2>1. CASE n \in DOMAIN asks
    BY <1>2, <1>4, <1>6, <2>1, TrailsArePaths DEF IntakeRight
  <2>2. CASE n = Len(asks) + 1
    <3> DEFINE h == <<[from |-> "none", to |-> "NEW"]>>
    <3>1. Len(h) = 1 /\ h[1] = [from |-> "none", to |-> "NEW"] /\ h # <<>>
      OBVIOUS
    <3>2. trail'[n] = h /\ asks'[n].status = "NEW"
      BY <1>2, <1>3, <1>4, <1>6, <2>2
    <3> HIDE DEF h
    <3>3. 2..Len(h) = {} /\ h[Len(h)].to = "NEW"
      BY <3>1
    <3> QED BY <3>1, <3>2, <3>3 DEF Path
  <2> QED BY <1>4, <2>1, <2>2
<1>8. TrailIsOnePath'
  BY <1>7 DEF TrailIsOnePath, Path
<1>9. /\ Tables' /\ pc'[r] = "idle" /\ OthersWait(r)
  BY <1>1 DEF Answered, IntakeRight, Tables, OthersWait
<1>10. ASSUME NEW q \in Requests
       PROVE  HoldsIntake(q)' /\ IntakeRequest(q)'
  <2>1. CASE q = r
    BY <1>9, <2>1 DEF HoldsIntake, IntakeRequest
  <2>2. CASE q # r
    <3>1. /\ pc'[q] = pc[q] /\ job'[q] = job[q] /\ seen'[q] = seen[q]
          /\ HoldsIntake(q) /\ IntakeRequest(q) /\ HoldsIntake(r) /\ IntakeRequest(r)
      BY <1>2, <1>9, <2>2 DEF OthersWait
    <3>2. job[q] \in TriageJobs => job[q] \in TriageJobs' /\ asks'[job[q].row] = asks[job[q].row]
      BY <1>4 DEF TriageJobs
    <3>3. pc[q] = "counted" => /\ intakeLock'[job[q].store] = q
                               /\ job[q].store # row.store
      BY <1>1, <1>3, <2>2, <3>1 DEF HoldsIntake, IntakeRequest, SubmitJobs
    <3>4. RowFor(q)' = RowFor(q) /\ RowFor(q).store = job[q].store
      BY <3>1 DEF RowFor
    <3>5. pc[q] = "counted" => Room(asks', RowFor(q))
      BY <1>1, <1>2, <1>3, <3>1, <3>3, <3>4, RoomElsewhere DEF IntakeRequest
    <3>6. pc[q] = "counted" => Room(asks, RowFor(q))'
      BY <3>4, <3>5 DEF Room, ShopsBefore, MineBefore
    <3>7. IntakeRequest(q)'
      BY <3>1, <3>2, <3>6 DEF IntakeRequest
    <3>8. HoldsIntake(q)'
      BY <1>1, <3>1, <3>2, <3>3 DEF HoldsIntake, IntakeRequest
    <3> QED BY <3>7, <3>8
  <2> QED BY <2>1, <2>2
<1>11. IntakeInv'
  BY <1>2, <1>4, <1>6, <1>8, <1>10 DEF IntakeInv, HoldsIntake
<1> QED BY <1>1, <1>2, <1>5, <1>6, <1>7, <1>9, <1>10, <1>11 DEF IntakeRight, TriageLocksApart

LEMMA TriageStep ==
    ASSUME IntakeRight, NEW r \in Requests, Triage(r)
    PROVE  IntakeRight'
<1> DEFINE n == job[r].row
           to == job[r].to
           from == seen[r].status
<1>1. /\ pc[r] = "locked" /\ asks' = [asks EXCEPT ![n].status = to]
      /\ trail' = [trail EXCEPT ![n] = Append(@, [from |-> from, to |-> to])]
      /\ triageLock' = {l \in triageLock : l[2] # r}
      /\ Answered(r) /\ UNCHANGED <<today, intakeLock>>
  BY DEF Triage
<1>2. /\ asks \in Seq(Asks) /\ Len(trail) = Len(asks) /\ TrailIsOnePath /\ CapsHold
      /\ \A q \in Requests : HoldsIntake(q) /\ IntakeRequest(q)
      /\ trail \in Seq(Seq(TrailRows)) /\ today \in Nat /\ DOMAIN intakeLock = Stores
      /\ \A m \in DOMAIN asks : trail[m] # <<>>
      /\ TriageLocksApart
  BY IntakeInvParts DEF IntakeRight
<1>3. /\ n \in DOMAIN asks /\ from \in RequestStatuses /\ to \in RequestTransitions[from]
      /\ <<n, r>> \in triageLock /\ asks[n].status = from
  BY <1>1, <1>2 DEF IntakeRequest, HoldsIntake, TriageJobs
<1>4. /\ Len(asks) \in Nat /\ DOMAIN asks = 1..Len(asks) /\ DOMAIN trail = 1..Len(asks)
      /\ trail[n] \in Seq(TrailRows) /\ trail[n] # <<>> /\ Path(trail[n], from)
  BY <1>2, <1>3, LenProperties, ElementOfSeq, TrailsArePaths
<1> DEFINE row == [from |-> from, to |-> to]
           longer == Append(trail[n], row)
<1>5. /\ to \in RequestStatuses /\ longer \in Seq(TrailRows) /\ longer # <<>>
      /\ Path(longer, to)
  BY <1>3, <1>4, PathGrows
<1>6. trail' = [trail EXCEPT ![n] = longer]
  BY <1>1
<1> HIDE DEF longer, row
<1>7. /\ trail' \in Seq(Seq(TrailRows)) /\ Len(trail') = Len(trail) /\ trail'[n] = longer
      /\ \A m \in DOMAIN asks : m # n => trail'[m] = trail[m]
  BY <1>2, <1>3, <1>4, <1>5, <1>6, ExceptSeq
<1> DEFINE ask == [asks[n] EXCEPT !.status = to]
<1>8. asks' = [asks EXCEPT ![n] = ask] /\ asks[n] \in Asks
  BY <1>1, <1>2, <1>3, <1>4, ElementOfSeq
<1>9. /\ ask \in Asks /\ ask.status = to /\ ask.at = asks[n].at /\ ask.store = asks[n].store
      /\ ask.submitter = asks[n].submitter /\ ask.product = asks[n].product
  BY <1>5, <1>8 DEF Asks
<1> HIDE DEF ask, n, to, from
<1>10. /\ asks' \in Seq(Asks) /\ Len(asks') = Len(asks) /\ DOMAIN asks' = DOMAIN asks
       /\ asks'[n] = ask /\ \A m \in DOMAIN asks : m # n => asks'[m] = asks[m]
  BY <1>2, <1>3, <1>4, <1>8, <1>9, ExceptSeq
<1>11. \A m \in DOMAIN asks :
         /\ asks'[m].at = asks[m].at /\ asks'[m].store = asks[m].store
         /\ asks'[m].submitter = asks[m].submitter /\ asks'[m].product = asks[m].product
  BY <1>9, <1>10
<1>12. Capped(asks') /\ \A any : Room(asks, any) => Room(asks', any)
  <2>1. Capped(asks)
    BY <1>2, CapsAreCapped
  <2> QED BY <2>1, <1>10, <1>11, CapsIgnoreStatus
<1>13. CapsHold'
  <2>1. Capped(asks)'
    BY <1>12 DEF Capped, AskedOfShop, OfOne
  <2> QED BY <2>1, CapsAreCapped, PTL
<1>14. ASSUME NEW m \in DOMAIN asks'
       PROVE  trail'[m] # <<>> /\ Path(trail'[m], asks'[m].status)
  BY <1>2, <1>5, <1>7, <1>9, <1>10, TrailsArePaths
<1>15. TrailIsOnePath'
  BY <1>14 DEF TrailIsOnePath, Path
<1>16. /\ Tables' /\ pc'[r] = "idle" /\ OthersWait(r)
  BY <1>1 DEF Answered, IntakeRight, Tables, OthersWait
<1>17. ASSUME NEW q \in Requests
       PROVE  HoldsIntake(q)' /\ IntakeRequest(q)'
  <2>1. CASE q = r
    BY <1>16, <2>1 DEF HoldsIntake, IntakeRequest
  <2>2. CASE q # r
    <3>1. /\ pc'[q] = pc[q] /\ job'[q] = job[q] /\ seen'[q] = seen[q]
          /\ HoldsIntake(q) /\ IntakeRequest(q)
      BY <1>2, <1>16, <2>2 DEF OthersWait
    <3>2. pc[q] = "locked" =>
            /\ job[q].row \in DOMAIN asks /\ job[q].row # n
            /\ <<job[q].row, q>> \in triageLock'
      <4>1. SUFFICES ASSUME pc[q] = "locked"
                     PROVE  /\ job[q].row \in DOMAIN asks /\ job[q].row # n
                            /\ <<job[q].row, q>> \in triageLock'
        OBVIOUS
      <4> DEFINE mine == <<n, r>>
                 theirs == <<job[q].row, q>>
      <4>2. /\ mine \in triageLock /\ theirs \in triageLock /\ job[q].row \in DOMAIN asks
            /\ mine[1] = n /\ theirs[1] = job[q].row /\ mine[2] = r /\ theirs[2] = q
        BY <1>3, <3>1, <4>1 DEF HoldsIntake, IntakeRequest, TriageJobs
      <4> HIDE DEF mine, theirs
      <4>3. job[q].row # n
        BY <1>2, <2>2, <4>2 DEF TriageLocksApart
      <4>4. theirs \in triageLock'
        BY <1>1, <2>2, <4>2
      <4> QED BY <4>2, <4>3, <4>4 DEF theirs
    <3>3. RowFor(q)' = RowFor(q) /\ TriageJobs' = TriageJobs
      BY <1>10, <3>1 DEF RowFor, TriageJobs
    <3>4. Room(asks, RowFor(q)) => Room(asks, RowFor(q))'
      <4>1. Room(asks, RowFor(q)) => Room(asks', RowFor(q)')
        BY <1>12, <3>3
      <4>2. Room(asks', RowFor(q)') <=> Room(asks, RowFor(q))'
        BY DEF Room, ShopsBefore, MineBefore
      <4> QED BY <4>1, <4>2
    <3>5. IntakeRequest(q)'
      BY <3>1, <3>3, <3>4 DEF IntakeRequest
    <3>6. HoldsIntake(q)'
      BY <1>1, <1>10, <3>1, <3>2 DEF HoldsIntake
    <3> QED BY <3>5, <3>6
  <2> QED BY <2>1, <2>2
<1>18. IntakeInv'
  BY <1>2, <1>7, <1>10, <1>15, <1>17 DEF IntakeInv, HoldsIntake
<1>19. TriageLocksApart'
  BY <1>1, <1>2 DEF TriageLocksApart
<1> QED BY <1>1, <1>2, <1>7, <1>13, <1>14, <1>16, <1>17, <1>18, <1>19 DEF IntakeRight

\* The invariant is about the requests and the rows, whatever the time.
LEMMA IntakeStays ==
    ASSUME IntakeRight, today' \in Nat,
           UNCHANGED <<request, asks, trail, intakeLock, triageLock>>
    PROVE  IntakeRight'
<1>1. /\ Tables' /\ IntakeInv' /\ TriageLocksApart'
  BY DEF request, IntakeRight, Tables, IntakeInv, TrailIsOnePath, TriageLocksApart
<1>2. CapsHold'
  <2>1. CapsHold /\ asks' = asks
    BY DEF IntakeRight
  <2>2. ASSUME NEW s \in Stores, NEW t \in 0..MaxTime
        PROVE  Cardinality({n \in Within(ShortWindow, t)' : asks'[n].store = s}) <= PerStore
    <3>1. {n \in Within(ShortWindow, t)' : asks'[n].store = s} =
            {n \in Within(ShortWindow, t) : asks[n].store = s}
      BY <2>1 DEF Within
    <3> QED BY <2>1, <3>1 DEF CapsHold
  <2>3. ASSUME NEW s \in Stores, NEW t \in 0..MaxTime, NEW who \in Submitters
        PROVE  LET mine == {n \in Within(LongWindow, t)' :
                              asks'[n].store = s /\ asks'[n].submitter = who} IN
               /\ Cardinality(mine) <= PerSubmitter
               /\ \A m, n \in mine : asks'[m].product = asks'[n].product => m = n
    <3> DEFINE sent == {n \in Within(LongWindow, t) :
                          asks[n].store = s /\ asks[n].submitter = who}
               next == {n \in Within(LongWindow, t)' :
                          asks'[n].store = s /\ asks'[n].submitter = who}
    <3>1. next = sent
      BY <2>1 DEF Within
    <3>2. /\ Cardinality(sent) <= PerSubmitter
          /\ \A m, n \in sent : asks[m].product = asks[n].product => m = n
      BY <2>1 DEF CapsHold
    <3> HIDE DEF sent, next
    <3>3. /\ Cardinality(next) <= PerSubmitter
          /\ \A m, n \in next : asks'[m].product = asks'[n].product => m = n
      BY <2>1, <3>1, <3>2
    <3> QED BY <3>3 DEF next
  <2> QED BY <2>2, <2>3 DEF CapsHold
<1>3. ASSUME NEW q \in Requests
      PROVE  IntakeRequest(q)'
  <2>1. RowFor(q)' = RowFor(q) /\ TriageJobs' = TriageJobs
    BY DEF request, RowFor, TriageJobs
  <2>2. Room(asks, RowFor(q)) => Room(asks, RowFor(q))'
    BY <2>1 DEF Room, ShopsBefore, MineBefore
  <2> QED BY <2>1, <2>2 DEF request, IntakeRequest, IntakeRight
<1> QED BY <1>1, <1>2, <1>3 DEF IntakeRight

LEMMA IntakeStep == IntakeRight /\ [IntakeNext]_intakeVars => IntakeRight'
<1> SUFFICES ASSUME IntakeRight, [IntakeNext]_intakeVars
             PROVE  IntakeRight'
  OBVIOUS
<1>0. /\ Tables /\ today \in Nat /\ DOMAIN intakeLock = Stores /\ TriageLocksApart
      /\ \A q \in Requests : HoldsIntake(q) /\ IntakeRequest(q)
  BY IntakeInvParts DEF IntakeRight
<1>1. CASE PassTime
  BY <1>0, <1>1, IntakeStays DEF PassTime
<1>2. ASSUME NEW r \in Requests, AskForProduct(r) \/ AskTriage(r)
      PROVE  IntakeRight'
  <2>1. PICK j \in SubmitJobs \cup TriageJobs :
          /\ pc' = [pc EXCEPT ![r] = "asked"] /\ job' = [job EXCEPT ![r] = j]
          /\ seen' = [seen EXCEPT ![r] = Nothing]
    BY <1>2 DEF AskForProduct, AskTriage, Starts, SubmitJobs, TriageJobs
  <2>2. UNCHANGED <<today, asks, trail, intakeLock, triageLock>>
    BY <1>2 DEF AskForProduct, AskTriage
  <2>3. Tables' /\ OthersWait(r) /\ pc'[r] = "asked" /\ job'[r] = j
    BY <1>0, <2>1 DEF Tables, OthersWait
  <2>4. HoldsIntake(r)' /\ IntakeRequest(r)'
    BY <2>2, <2>3 DEF HoldsIntake, IntakeRequest, TriageJobs
  <2>5. TriageLocksApart'
    BY <1>0, <2>2 DEF TriageLocksApart
  <2> QED BY <1>0, <2>2, <2>3, <2>4, <2>5, IntakeMoves
<1>3. ASSUME NEW r \in Requests, CountIntake(r) \/ LockRequest(r), Answered(r),
             UNCHANGED <<today, asks, trail, intakeLock, triageLock>>
      PROVE  IntakeRight'
  <2>1. Tables' /\ OthersWait(r) /\ pc'[r] = "idle"
    BY <1>0, <1>3 DEF Answered, Tables, OthersWait
  <2>2. HoldsIntake(r)' /\ IntakeRequest(r)' /\ TriageLocksApart'
    BY <1>0, <1>3, <2>1 DEF HoldsIntake, IntakeRequest, TriageLocksApart
  <2> QED BY <1>0, <1>3, <2>1, <2>2, IntakeMoves
<1>4. ASSUME NEW r \in Requests, CountIntake(r), GoesOn(r, "counted", [at |-> today])
      PROVE  IntakeRight'
  <2>1. /\ pc[r] = "asked" /\ job[r].op = "submit" /\ job' = job
        /\ ~Refused(job[r]) /\ intakeLock[job[r].store] = Nothing
        /\ intakeLock' = [intakeLock EXCEPT ![job[r].store] = r]
        /\ UNCHANGED <<today, asks, trail, triageLock>>
    <3>1. ~Answered(r)
      BY <1>0, <1>4 DEF Answered, GoesOn, Tables
    <3> QED BY <1>4, <3>1 DEF CountIntake, GoesOn
  <2>2. job[r] \in SubmitJobs /\ job[r].store \in Stores
    BY <1>0, <2>1 DEF IntakeRequest, SubmitJobs, TriageJobs
  <2>3. /\ Tables' /\ OthersWait(r) /\ pc'[r] = "counted" /\ seen'[r] = [at |-> today]
    BY <1>0, <1>4 DEF GoesOn, Tables, OthersWait
  <2>4. /\ DOMAIN intakeLock' = Stores /\ intakeLock'[job[r].store] = r
        /\ \A s \in Stores : \A q \in Requests \ {r} : intakeLock[s] = q => intakeLock'[s] = q
    BY <1>0, <2>1, <2>2, RequestConstants
  <2>5. Room(asks, RowFor(r))'
    <3>1. RowFor(r)' = [store |-> job[r].store, submitter |-> job[r].submitter,
                        product |-> job[r].product, at |-> today, status |-> "NEW"]
      BY <2>1, <2>3 DEF RowFor
    <3>2. Room(asks, RowFor(r)')
      BY <2>1, <2>2, <3>1, CountedHasRoom
    <3> QED BY <2>1, <3>2 DEF Room, ShopsBefore, MineBefore
  <2>6. HoldsIntake(r)' /\ IntakeRequest(r)' /\ TriageLocksApart'
    BY <1>0, <2>1, <2>2, <2>3, <2>4, <2>5 DEF HoldsIntake, IntakeRequest, TriageLocksApart
  <2> QED BY <1>0, <2>1, <2>3, <2>4, <2>6, IntakeMoves
<1>5. ASSUME NEW r \in Requests, LockRequest(r),
             GoesOn(r, "locked", [status |-> asks[job[r].row].status])
      PROVE  IntakeRight'
  <2> DEFINE n == job[r].row
  <2>1. /\ pc[r] = "asked" /\ job[r].op = "triage" /\ job' = job
        /\ \A l \in triageLock : l[1] # n
        /\ MayMove(r, asks[n].status) /\ triageLock' = triageLock \cup {<<n, r>>}
        /\ UNCHANGED <<today, asks, trail, intakeLock>>
    <3>1. ~Answered(r)
      BY <1>0, <1>5 DEF Answered, GoesOn, Tables
    <3> QED BY <1>5, <3>1 DEF LockRequest, GoesOn
  <2>2. job[r] \in TriageJobs /\ n \in DOMAIN asks
    BY <1>0, <2>1 DEF IntakeRequest, SubmitJobs, TriageJobs
  <2>3. asks[n].status \in RequestStatuses /\ job[r].to \in RequestTransitions[asks[n].status]
    <3>1. asks \in Seq(Asks)
      BY DEF IntakeRight, IntakeInv
    <3>2. asks[n] \in Asks
      BY <2>2, <3>1, LenProperties, ElementOfSeq
    <3> QED BY <2>1, <3>2 DEF MayMove, MayTriage, Asks
  <2>4. /\ Tables' /\ OthersWait(r) /\ pc'[r] = "locked" /\ seen'[r].status = asks[n].status
    BY <1>0, <1>5 DEF GoesOn, Tables, OthersWait
  <2>5. TriageLocksApart'
    <3> DEFINE new == <<n, r>>
    <3>1. new[1] = n
      OBVIOUS
    <3> HIDE DEF new
    <3> QED BY <1>0, <2>1, <3>1 DEF TriageLocksApart, new
  <2>6. HoldsIntake(r)' /\ IntakeRequest(r)'
    BY <2>1, <2>2, <2>3, <2>4 DEF HoldsIntake, IntakeRequest, TriageJobs
  <2> QED BY <1>0, <2>1, <2>4, <2>5, <2>6, IntakeMoves
<1>6. CASE UNCHANGED intakeVars
  BY <1>0, <1>6, IntakeStays DEF intakeVars
<1>7. ASSUME NEW r \in Requests, CountIntake(r) \/ LockRequest(r)
      PROVE  IntakeRight'
  <2>1. \/ Answered(r) /\ UNCHANGED <<today, asks, trail, intakeLock, triageLock>>
        \/ CountIntake(r) /\ GoesOn(r, "counted", [at |-> today])
        \/ LockRequest(r) /\ GoesOn(r, "locked", [status |-> asks[job[r].row].status])
    BY <1>7 DEF CountIntake, LockRequest
  <2> QED BY <1>3, <1>4, <1>5, <1>7, <2>1
<1> QED BY <1>1, <1>2, <1>6, <1>7, InsertStep, TriageStep DEF IntakeNext

\* The caps hold in every window of time however many submissions arrive at
\* once, and the history of a request is one path through the triage table
\* (repo.ts tryLockIntake and lockRequest).
THEOREM IntakeIsCapped == IntakeSpec => [](IntakeInv /\ CapsHold)
<1>1. IntakeRight => IntakeInv /\ CapsHold
  BY DEF IntakeRight
<1> QED BY <1>1, IntakeStart, IntakeStep, PTL DEF IntakeSpec

-----------------------------------------------------------------------------
(* Delivery windows *)

\* What holds for the first and passes on holds for all.
LEMMA OneAfterAnother ==
    ASSUME NEW S, S \subseteq Nat, 0 \in S, \A n \in S : n + 1 \in S
    PROVE  S = Nat
<1>1. ASSUME Nat \ S # {}
      PROVE  FALSE
  <2>1. PICK m \in Nat \ S : \A k \in Nat \ S : m <= k
    BY <1>1, HasLeast
  <2>2. m # 0 /\ m - 1 \in Nat /\ m - 1 \in S
    BY <2>1
  <2> QED BY <2>1, <2>2
<1> QED BY <1>1

LEMMA Dividing ==
    ASSUME NEW x \in Int, NEW D \in Nat \ {0}
    PROVE  /\ x \div D \in Int /\ (x % D) \in 0..(D - 1)
           /\ x = ((x \div D) * D) + (x % D)
           /\ (x \div D) * D <= x /\ x < (x \div D) * D + D
OBVIOUS

LEMMA Dividend ==
    ASSUME NEW D \in Nat \ {0}, NEW q \in Int, NEW x \in Int,
           q * D <= x, x < q * D + D
    PROVE  x \div D = q
OBVIOUS

\* Two multiples of a length are a length apart, or one.
LEMMA MultiplesApart ==
    ASSUME NEW l \in Nat \ {0}, NEW a \in Int, NEW b \in Int, a * l < b * l
    PROVE  a < b /\ a * l + l <= b * l
OBVIOUS

ForwardZone(z) == z \in Zones /\ z.after >= z.before
GoodShape(s) == s.length \in Nat \ {0} /\ GoodLength(s.length)

LEMMA ZonesAre ==
    ASSUME NEW z, ForwardZone(z)
    PROVE  /\ z.at \in Int /\ z.before \in Int /\ z.after \in Int /\ z.before <= z.after
           /\ DayLength \in Nat \ {0} /\ Margin \in Nat /\ Margin < DayLength
           /\ \/ z.after - z.before + Margin < DayLength
              \/ (z.after - z.before) % DayLength = 0
BY WindowConstants DEF ForwardZone

\* The offset by which the windows of a date are laid out: that of its midnight,
\* as the clock before the shift has it if the shift comes later.
DayOffset(q, z) == IF q * DayLength - z.after < z.at THEN z.before ELSE z.after

IsMidnight(d, q, z) == d = q * DayLength - DayOffset(q, z)

\* localDayStart returns a midnight, and none that is more than a day ago.
LEMMA DayStartIsMidnight ==
    ASSUME NEW z, ForwardZone(z), NEW x \in Int
    PROVE  /\ DayStart(x, z) \in Int /\ DayStart(x, z) > x - DayLength
           /\ \E q \in Int : IsMidnight(DayStart(x, z), q, z)
<1> DEFINE q == (x + OffsetAt(x, z)) \div DayLength
           m == q * DayLength - OffsetAt(x, z)
           p == (x + z.before) \div DayLength
<1>1. /\ z.at \in Int /\ z.before \in Int /\ z.after \in Int /\ z.before <= z.after
      /\ DayLength \in Nat \ {0}
  BY ZonesAre
<1>2. /\ OffsetAt(x, z) \in Int /\ x + OffsetAt(x, z) \in Int /\ x + z.before \in Int
      /\ OffsetAt(x, z) = IF x < z.at THEN z.before ELSE z.after
  BY <1>1 DEF OffsetAt
<1>3. /\ q \in Int /\ q * DayLength <= x + OffsetAt(x, z)
      /\ x + OffsetAt(x, z) < q * DayLength + DayLength
  BY <1>1, <1>2, Dividing
<1>4. /\ p \in Int /\ p * DayLength <= x + z.before
      /\ x + z.before < p * DayLength + DayLength
  BY <1>1, <1>2, Dividing
<1>5. q * DayLength \in Int /\ p * DayLength \in Int
  BY <1>1, <1>3, <1>4
<1>6. DayStart(x, z) = Midnight(x, OffsetAt(m, z))
  BY DEF DayStart, Midnight
<1>7. OffsetAt(m, z) = IF m < z.at THEN z.before ELSE z.after
  BY DEF OffsetAt
<1>8. CASE x < z.at
  <2>1. p = q /\ m < z.at /\ DayStart(x, z) = p * DayLength - z.before
    BY <1>1, <1>2, <1>3, <1>5, <1>6, <1>7, <1>8 DEF Midnight
  <2> HIDE DEF p, q, m
  <2> QED BY <1>1, <1>4, <1>5, <1>8, <2>1 DEF IsMidnight, DayOffset
<1>9. CASE x >= z.at /\ m < z.at
  <2>1. DayStart(x, z) = p * DayLength - z.before
    BY <1>6, <1>7, <1>9 DEF Midnight
  <2>2. q * DayLength - z.after < z.at
    BY <1>1, <1>2, <1>5, <1>9
  <2>3. p <= q
    <3>1. p * DayLength < (q + 1) * DayLength
      <4> HIDE DEF p, q
      <4> QED BY <1>1, <1>2, <1>3, <1>4, <1>5, <1>9
    <3> HIDE DEF p, q
    <3> QED BY <1>1, <1>3, <1>4, <3>1, MultiplesApart
  <2> HIDE DEF p, q, m
  <2>4. p * DayLength <= q * DayLength
    BY <1>1, <1>3, <1>4, <2>3
  <2> QED BY <1>1, <1>4, <1>5, <2>1, <2>2, <2>4 DEF IsMidnight, DayOffset
<1>10. CASE x >= z.at /\ m >= z.at
  <2>1. m = q * DayLength - z.after /\ DayStart(x, z) = q * DayLength - z.after
    BY <1>1, <1>2, <1>5, <1>6, <1>7, <1>10 DEF Midnight
  <2> HIDE DEF p, q, m
  <2> QED BY <1>1, <1>2, <1>3, <1>5, <1>10, <2>1 DEF IsMidnight, DayOffset
<1> QED BY <1>1, <1>2, <1>5, <1>8, <1>9, <1>10

\* What comes before the next midnight is laid out as this one.
LEMMA DayIsLaidOutOnce ==
    ASSUME NEW z, ForwardZone(z), z.after - z.before + Margin < DayLength,
           NEW q \in Int, NEW d \in Int, IsMidnight(d, q, z),
           NEW t \in Int, d <= t, t < DayStart(d + DayLength + Margin, z)
    PROVE  DayOffset(DateOf(t, z), z) = DayOffset(q, z)
<1> DEFINE x == d + DayLength + Margin
           day == q * DayLength
           next == (q + 1) * DayLength
<1>1. /\ z.at \in Int /\ z.before \in Int /\ z.after \in Int /\ z.before <= z.after
      /\ DayLength \in Nat \ {0} /\ Margin \in Nat /\ Margin < DayLength
  BY ZonesAre
<1>2. /\ day \in Int /\ next \in Int /\ next = day + DayLength /\ x \in Int
      /\ (q + 2) * DayLength = next + DayLength
  BY <1>1
<1>3. DayOffset(q, z) = IF day - z.after < z.at THEN z.before ELSE z.after
  BY DEF DayOffset
<1>4. d = day - DayOffset(q, z)
  BY DEF IsMidnight
<1>5. /\ DateOf(t, z) = (t + OffsetAt(t, z)) \div DayLength
      /\ OffsetAt(t, z) = IF t < z.at THEN z.before ELSE z.after
  BY DEF DateOf, OffsetAt
<1>6. ASSUME NEW o \in Int, OffsetAt(t, z) = o, day <= t + o, t + o < next
      PROVE  DateOf(t, z) = q
  <2>1. t + o \in Int /\ q * DayLength <= t + o /\ t + o < q * DayLength + DayLength
    BY <1>2, <1>6
  <2>2. (t + o) \div DayLength = q
    <3> HIDE DEF day, next, x
    <3> QED BY <1>1, <2>1, Dividend
  <2> QED BY <1>5, <1>6, <2>2
<1>7. ASSUME NEW o \in Int, OffsetAt(x, z) = o, next <= x + o, x + o < next + DayLength
      PROVE  DayStart(x, z) =
               IF next - o < z.at THEN Midnight(x, z.before) ELSE Midnight(x, z.after)
  <2>1. (x + o) \div DayLength = q + 1
    <3>1. x + o \in Int /\ (q + 1) * DayLength <= x + o /\ x + o < (q + 1) * DayLength + DayLength
      BY <1>2, <1>7
    <3> HIDE DEF day, next, x
    <3> QED BY <1>1, <3>1, Dividend
  <2>2. Midnight(x, OffsetAt(x, z)) = next - o
    BY <1>7, <2>1 DEF Midnight
  <2> QED BY <2>2 DEF DayStart, OffsetAt
<1>8. ASSUME NEW o \in Int, next <= x + o, x + o < next + DayLength
      PROVE  Midnight(x, o) = next - o
  <2>1. (x + o) \div DayLength = q + 1
    <3>1. x + o \in Int /\ (q + 1) * DayLength <= x + o /\ x + o < (q + 1) * DayLength + DayLength
      BY <1>2, <1>8
    <3> HIDE DEF day, next, x
    <3> QED BY <1>1, <3>1, Dividend
  <2> QED BY <2>1 DEF Midnight
<1>9. OffsetAt(x, z) = IF x < z.at THEN z.before ELSE z.after
  BY DEF OffsetAt
<1>10. t < DayStart(x, z) /\ x = d + DayLength + Margin
  OBVIOUS
<1>11. DayOffset(q + 1, z) = IF next - z.after < z.at THEN z.before ELSE z.after
  BY DEF DayOffset
<1> HIDE DEF day, next, x
<1>12. CASE day - z.after >= z.at
  <2>1. DayOffset(q, z) = z.after /\ d = day - z.after
    BY <1>1, <1>2, <1>3, <1>4, <1>12
  <2>2. x + z.after = next + Margin /\ x >= z.at
    BY <1>1, <1>2, <1>10, <1>12, <2>1
  <2>3. DayStart(x, z) = next - z.after
    <3>1. DayStart(x, z) = Midnight(x, z.after)
      BY <1>1, <1>2, <1>7, <1>9, <1>12, <2>2
    <3> QED BY <1>1, <1>2, <1>8, <2>2, <3>1
  <2>4. DateOf(t, z) = q
    BY <1>1, <1>2, <1>5, <1>6, <1>10, <1>12, <2>1, <2>3
  <2> QED BY <2>4
<1>13. CASE day - z.after < z.at
  <2>1. DayOffset(q, z) = z.before /\ d = day - z.before
    BY <1>1, <1>2, <1>3, <1>4, <1>13
  <2>2. /\ x + z.before = next + Margin
        /\ next <= x + z.after /\ x + z.after < next + DayLength
    BY <1>1, <1>2, <1>10, <2>1
  <2>3. Midnight(x, z.before) = next - z.before /\ Midnight(x, z.after) = next - z.after
    BY <1>1, <1>2, <1>8, <2>2
  <2>4. DayStart(x, z) \in {next - z.before, next - z.after}
    BY <1>1, <1>2, <1>7, <1>9, <2>2, <2>3
  <2>5. CASE t < z.at
    <3>1. OffsetAt(t, z) = z.before /\ day <= t + z.before
      BY <1>1, <1>2, <1>5, <2>1, <2>5
    <3>2. t + z.before < next
      BY <1>1, <1>2, <1>10, <2>4
    <3>3. DateOf(t, z) = q
      BY <1>1, <1>6, <3>1, <3>2
    <3> QED BY <3>3
  <2>6. CASE t >= z.at /\ t + z.after < next
    <3>1. OffsetAt(t, z) = z.after /\ day <= t + z.after
      BY <1>1, <1>2, <1>5, <2>1, <2>6
    <3>2. DateOf(t, z) = q
      BY <1>1, <1>6, <2>6, <3>1
    <3> QED BY <3>2
  <2>7. CASE t >= z.at /\ t + z.after >= next
    <3>1. DayStart(x, z) = next - z.before
      BY <1>1, <1>2, <1>10, <2>4, <2>7
    <3>2. next - z.after < z.at
      BY <1>1, <1>2, <1>7, <1>9, <1>10, <2>2, <2>3, <2>7, <3>1
    <3>3. t + z.after < next + DayLength
      BY <1>1, <1>2, <1>10, <3>1
    <3>4. DateOf(t, z) = q + 1
      <4>1. /\ (q + 1) * DayLength <= t + z.after /\ t + z.after \in Int
            /\ t + z.after < (q + 1) * DayLength + DayLength /\ q + 1 \in Int
        BY <1>1, <1>2, <2>7, <3>3 DEF next
      <4>2. (t + z.after) \div DayLength = q + 1
        BY <1>1, <4>1, Dividend
      <4> QED BY <1>1, <1>5, <2>7, <4>2
    <3> QED BY <1>11, <2>1, <3>2, <3>4
  <2> QED BY <1>1, <1>2, <2>5, <2>6, <2>7
<1> QED BY <1>1, <1>2, <1>12, <1>13

\* The loop of slotGrid goes from midnight to midnight, and always on.
LEMMA DaysAreMidnights ==
    ASSUME NEW z, ForwardZone(z), NEW from \in Int, NEW k \in 0..(Horizon + 1)
    PROVE  \E x \in Int : Days(from, z)[k] = DayStart(x, z)
<1> DEFINE After(f, i) == IF i = 0 THEN DayStart(from, z) ELSE NextDay(f[i - 1], z)
           DayByDay(n, f) == f = [i \in 0..n |-> After(f, i)]
           Lengths == {n \in Nat : \E f : DayByDay(n, f)}
           days == Days(from, z)
<1>1. Lengths = Nat
  <2>1. 0 \in Lengths
    <3> DEFINE f == [i \in 0..0 |-> DayStart(from, z)]
    <3>1. f = [i \in 0..0 |-> After(f, i)]
      OBVIOUS
    <3>2. DayByDay(0, f)
      BY <3>1
    <3> QED BY <3>2
  <2>2. ASSUME NEW n \in Lengths
        PROVE  n + 1 \in Lengths
    <3>1. PICK f : DayByDay(n, f)
      OBVIOUS
    <3> DEFINE g == [i \in 0..(n + 1) |-> IF i <= n THEN f[i] ELSE NextDay(f[n], z)]
    <3>2. \A i \in 0..n : g[i] = f[i]
      OBVIOUS
    <3>3. \A i \in 0..n : f[i] = After(f, i)
      BY <3>1
    <3>4. \A i \in 0..(n + 1) : g[i] = After(g, i)
      BY <3>2, <3>3
    <3>5. DayByDay(n + 1, g)
      BY <3>4
    <3> HIDE DEF g, DayByDay
    <3>6. n + 1 \in Nat /\ \E h : DayByDay(n + 1, h)
      BY <3>5
    <3> QED BY <3>6
  <2> HIDE DEF Lengths
  <2>3. Lengths \subseteq Nat
    BY DEF Lengths
  <2> QED BY <2>1, <2>2, <2>3, OneAfterAnother
<1>2. Horizon \in Nat /\ DayLength \in Nat /\ Margin \in Nat
  BY WindowConstants
<1>3. \E f : DayByDay(Horizon + 1, f)
  <2>1. Horizon + 1 \in Lengths
    <3> HIDE DEF Lengths
    <3> QED BY <1>1, <1>2
  <2> QED BY <2>1
<1>4. days = [i \in 0..(Horizon + 1) |-> After(days, i)]
  BY <1>3, Zenon DEF Days
<1> DEFINE Reached == {i \in Nat : i <= Horizon + 1 =>
                         \E x \in Int : days[i] = DayStart(x, z)}
<1> HIDE DEF days
<1>5. days[0] = DayStart(from, z)
  BY <1>2, <1>4
<1>6. \A i \in 0..(Horizon + 1) : i # 0 => days[i] = NextDay(days[i - 1], z)
  BY <1>4
<1>7. 0 \in Reached
  BY <1>5
<1>8. ASSUME NEW i \in Reached, i + 1 <= Horizon + 1
      PROVE  \E x \in Int : days[i + 1] = DayStart(x, z)
  <2>1. PICK x \in Int : days[i] = DayStart(x, z)
    BY <1>2, <1>8
  <2>2. days[i] \in Int
    BY <2>1, DayStartIsMidnight
  <2>3. DayStart(days[i] + DayLength + Margin, z) > days[i]
    BY <1>2, <2>2, DayStartIsMidnight
  <2>4. days[i + 1] = NextDay(days[i], z)
    <3>1. i + 1 \in 0..(Horizon + 1) /\ i + 1 # 0 /\ (i + 1) - 1 = i
      BY <1>2, <1>8
    <3> QED BY <1>6, <3>1
  <2>5. days[i + 1] = DayStart(days[i] + DayLength + Margin, z)
    BY <2>3, <2>4 DEF NextDay
  <2> QED BY <1>2, <2>2, <2>5
<1>9. Reached = Nat
  <2>1. \A i \in Reached : i + 1 \in Reached
    BY <1>8
  <2>2. Reached \subseteq Nat
    OBVIOUS
  <2> HIDE DEF Reached
  <2> QED BY <1>7, <2>1, <2>2, OneAfterAnother
<1>10. k \in Reached /\ k <= Horizon + 1
  BY <1>2, <1>9
<1>11. \E x \in Int : days[k] = DayStart(x, z)
  BY <1>10
<1> QED BY <1>11 DEF days

\* A window starts whole lengths from its date's midnight.
LaidOut(t, s, z) ==
    \E m \in Int : t + DayOffset(DateOf(t, z), z) = m * s.length

LEMMA LengthFillsTheDay ==
    ASSUME NEW s, GoodShape(s)
    PROVE  \E n \in Int : DayLength = n * s.length
<1>1. s.length \in Nat \ {0} /\ DayLength \in Nat /\ (DayLength % s.length) = 0
  BY WindowConstants DEF GoodShape, GoodLength
<1> DEFINE l == s.length
<1>2. l \in Nat \ {0} /\ DayLength \in Int /\ (DayLength % l) = 0
  BY <1>1
<1> HIDE DEF l
<1>3. DayLength \div l \in Int /\ DayLength = ((DayLength \div l) * l) + (DayLength % l)
  BY <1>2, Dividing
<1>4. DayLength = (DayLength \div l) * l
  BY <1>2, <1>3
<1> QED BY <1>3, <1>4 DEF l

LEMMA ShiftOfDays ==
    ASSUME NEW z, ForwardZone(z), (z.after - z.before) % DayLength = 0
    PROVE  \E e \in Int : z.after - z.before = e * DayLength
<1> DEFINE shift == z.after - z.before
<1>1. shift \in Int /\ DayLength \in Nat \ {0} /\ (shift % DayLength) = 0
  BY ZonesAre
<1> HIDE DEF shift
<1>2. /\ shift \div DayLength \in Int
      /\ shift = ((shift \div DayLength) * DayLength) + (shift % DayLength)
  BY <1>1, Dividing
<1>3. shift = (shift \div DayLength) * DayLength
  BY <1>1, <1>2
<1> QED BY <1>2, <1>3 DEF shift

LEMMA StartIsLaidOut ==
    ASSUME NEW z, ForwardZone(z), NEW s, GoodShape(s),
           NEW q \in Int, NEW d \in Int, IsMidnight(d, q, z), NEW n \in Nat,
           d + n * s.length < DayStart(d + DayLength + Margin, z)
    PROVE  LaidOut(d + n * s.length, s, z)
<1> DEFINE t == d + n * s.length
           o == DayOffset(DateOf(t, z), z)
<1>1. /\ z.before \in Int /\ z.after \in Int /\ DayLength \in Nat \ {0}
      /\ s.length \in Nat \ {0}
  BY ZonesAre DEF GoodShape
<1>2. t \in Int /\ d <= t
  BY <1>1
<1>3. \E e \in Int : o - DayOffset(q, z) = e * DayLength
  <2>1. CASE z.after - z.before + Margin < DayLength
    <3>1. o = DayOffset(q, z)
      BY <1>2, <2>1, DayIsLaidOutOnce
    <3>2. o - DayOffset(q, z) = 0 * DayLength
      BY <1>1, <3>1 DEF DayOffset
    <3> QED BY <3>2
  <2>2. CASE (z.after - z.before) % DayLength = 0
    <3>1. PICK e \in Int : z.after - z.before = e * DayLength
      BY <2>2, ShiftOfDays
    <3>2. (-e) * DayLength = -(e * DayLength) /\ e * DayLength \in Int
      BY <1>1
    <3>3. z.before - z.after = (-e) * DayLength
      <4>1. z.before - z.after = -(z.after - z.before)
        BY <1>1
      <4> QED BY <3>1, <3>2, <4>1
    <3>4. o \in {z.before, z.after} /\ DayOffset(q, z) \in {z.before, z.after}
      BY DEF DayOffset
    <3> HIDE DEF o
    <3>5. o - DayOffset(q, z) \in {0 * DayLength, e * DayLength, (-e) * DayLength}
      BY <1>1, <3>1, <3>2, <3>3, <3>4
    <3> QED BY <3>5
  <2> QED BY <2>1, <2>2, ZonesAre
<1>4. PICK e \in Int : o - DayOffset(q, z) = e * DayLength
  BY <1>3
<1>5. PICK k \in Int : DayLength = k * s.length
  BY LengthFillsTheDay
<1>6. o \in Int /\ DayOffset(q, z) \in Int /\ d = q * DayLength - DayOffset(q, z)
  BY <1>1 DEF DayOffset, IsMidnight
<1> HIDE DEF o
<1>7. t + o = (q * DayLength) + (e * DayLength) + (n * s.length)
  <2>1. q * DayLength \in Int /\ e * DayLength \in Int /\ n * s.length \in Int
    BY <1>1
  <2> QED BY <1>2, <1>4, <1>6, <2>1
<1>8. t + o = ((q + e) * k + n) * s.length
  BY <1>1, <1>5, <1>7
<1>9. (q + e) * k + n \in Int
  OBVIOUS
<1>10. \E m \in Int : t + o = m * s.length
  BY <1>8, <1>9
<1> QED BY <1>10 DEF LaidOut, o

\* Every window of the grid is inside the hours and laid out from its own date.
Bookable(t, s, z) == t \in Int /\ InsideHours(t, s, z) /\ LaidOut(t, s, z)

LEMMA GridIsLaidOut ==
    ASSUME NEW z, ForwardZone(z), NEW s, GoodShape(s), NEW from \in Int,
           NEW t \in Grid(from, s, z)
    PROVE  Bookable(t, s, z)
<1>1. PICK k \in 0..(Horizon + 1) : t \in StartsOf(Days(from, z)[k], from, s, z)
  BY DEF Grid
<1>2. PICK x \in Int : Days(from, z)[k] = DayStart(x, z)
  BY DaysAreMidnights
<1> DEFINE d == DayStart(x, z)
<1>3. d \in Int /\ \E q \in Int : IsMidnight(d, q, z)
  BY DayStartIsMidnight
<1> HIDE DEF d
<1>4. /\ t \in {d + n * s.length : n \in 0..(DayLength + Margin)}
      /\ t < DayStart(d + DayLength + Margin, z) /\ InsideHours(t, s, z)
  BY <1>1, <1>2 DEF StartsOf, d
<1>5. PICK n \in 0..(DayLength + Margin) : t = d + n * s.length
  BY <1>4
<1>6. n \in Nat /\ s.length \in Nat
  BY WindowConstants DEF GoodShape
<1>7. PICK q \in Int : IsMidnight(d, q, z)
  BY <1>3
<1>8. LaidOut(t, s, z)
  BY <1>3, <1>4, <1>5, <1>6, <1>7, StartIsLaidOut
<1> QED BY <1>3, <1>4, <1>5, <1>6, <1>8 DEF Bookable

LEMMA OneLatticeApart ==
    ASSUME NEW l \in Nat \ {0}, NEW o \in Int, NEW t \in Int, NEW u \in Int,
           \E m \in Int : t + o = m * l, \E m \in Int : u + o = m * l,
           t <= u, u < t + l
    PROVE  t = u
<1>1. PICK m \in Int : t + o = m * l
  OBVIOUS
<1>2. PICK n \in Int : u + o = n * l
  OBVIOUS
<1>3. m * l \in Int /\ n * l \in Int
  OBVIOUS
<1>4. m * l < n * l => m * l + l <= n * l
  BY MultiplesApart
<1> QED BY <1>1, <1>2, <1>3, <1>4

\* No window begins inside another: not on one date, where both are laid out
\* alike; and not on two, as a window ends on its date or at the midnight after
\* it, which is one that closes its date since a length divides the day.
LEMMA WindowsApart ==
    ASSUME NEW z, ForwardZone(z), NEW s, GoodShape(s),
           NEW t, Bookable(t, s, z), NEW u, Bookable(u, s, z),
           t <= u, u < t + s.length
    PROVE  t = u
<1> DEFINE l == s.length
           end == t + l
           p == DateOf(t, z)
           q == DateOf(u, z)
           last == DateOf(end, z)
<1>1. /\ z.at \in Int /\ z.before \in Int /\ z.after \in Int /\ z.before <= z.after
      /\ DayLength \in Nat \ {0} /\ l \in Nat \ {0} /\ t \in Int /\ u \in Int /\ end \in Int
      /\ t <= u /\ u < end /\ end = t + l
  BY ZonesAre DEF GoodShape, Bookable
<1>2. \A e \in Int :
        /\ OffsetAt(e, z) = (IF e < z.at THEN z.before ELSE z.after)
        /\ OffsetAt(e, z) \in Int /\ e + OffsetAt(e, z) \in Int
  BY <1>1 DEF OffsetAt
<1>3. ASSUME NEW e \in Int
      PROVE  /\ DateOf(e, z) \in Int
             /\ DateOf(e, z) * DayLength <= e + OffsetAt(e, z)
             /\ e + OffsetAt(e, z) < DateOf(e, z) * DayLength + DayLength
             /\ ClockAt(e, z) = 0 => e + OffsetAt(e, z) = DateOf(e, z) * DayLength
  <2> DEFINE local == e + OffsetAt(e, z)
  <2>1. /\ local \in Int /\ local = e + OffsetAt(e, z)
        /\ DateOf(e, z) = local \div DayLength /\ ClockAt(e, z) = (local % DayLength)
    BY <1>2 DEF DateOf, ClockAt
  <2> HIDE DEF local
  <2>2. /\ local \div DayLength \in Int
        /\ (local \div DayLength) * DayLength <= local
        /\ local < (local \div DayLength) * DayLength + DayLength
        /\ local = ((local \div DayLength) * DayLength) + (local % DayLength)
    BY <1>1, <2>1, Dividing
  <2>3. (local % DayLength) = 0 => local = (local \div DayLength) * DayLength
    BY <1>1, <2>1, <2>2
  <2> QED BY <2>1, <2>2, <2>3
<1>4. /\ LaidOut(t, s, z) /\ LaidOut(u, s, z)
      /\ ClockAt(end, z) # 0 => last = p
  BY DEF Bookable, InsideHours
<1>5. p \in Int /\ q \in Int /\ last \in Int
  BY <1>1, <1>3
<1>6. PICK k \in Int : DayLength = k * l
  BY LengthFillsTheDay
<1>7. DayOffset(p, z) \in Int /\ DayOffset(q, z) \in Int
  BY <1>1 DEF DayOffset
<1>8. /\ \E m \in Int : t + DayOffset(p, z) = m * l
      /\ \E m \in Int : u + DayOffset(q, z) = m * l
  BY <1>4 DEF LaidOut
<1> HIDE DEF l, end, p, q, last
<1>9. CASE p = q
  BY <1>1, <1>7, <1>8, <1>9, OneLatticeApart
<1>10. CASE (z.after - z.before) % DayLength = 0
  <2>1. \E e \in Int : z.after - z.before = e * DayLength
    BY <1>10, ShiftOfDays
  <2> PICK e \in Int : z.after - z.before = e * DayLength
    BY <2>1
  <2> DEFINE jump == e * DayLength
  <2>2. jump \in Int /\ z.after = z.before + jump
    BY <1>1
  <2> HIDE DEF jump
  <2>3. ASSUME NEW x \in Int, NEW o \in {z.before, z.after}, NEW m \in Int, x + o = m * l
        PROVE  \E n \in Int : x + z.before = n * l
    <3>1. CASE o = z.before
      BY <2>3, <3>1
    <3>2. CASE o = z.after
      <4>1. e * DayLength = (e * k) * l /\ m * l \in Int /\ (e * k) * l \in Int
        BY <1>1, <1>6, <2>1
      <4>2. x + z.before = m * l - jump
        <5>1. x + z.after = m * l /\ m * l \in Int
          BY <2>3, <3>2, <4>1
        <5> QED BY <1>1, <2>2, <5>1
      <4>3. x + z.before = (m - e * k) * l /\ m - e * k \in Int
        BY <1>1, <2>1, <4>1, <4>2 DEF jump
      <4> QED BY <4>3
    <3> QED BY <3>1, <3>2
  <2>4. DayOffset(p, z) \in {z.before, z.after} /\ DayOffset(q, z) \in {z.before, z.after}
    BY DEF DayOffset
  <2>5. \E n \in Int : t + z.before = n * l
    BY <1>1, <1>8, <2>3, <2>4
  <2>6. \E n \in Int : u + z.before = n * l
    BY <1>1, <1>8, <2>3, <2>4
  <2> QED BY <1>1, <2>5, <2>6, OneLatticeApart
<1>11. CASE p # q /\ z.after - z.before + Margin < DayLength
  <2> DEFINE dayP == p * DayLength
             dayQ == q * DayLength
             dayL == last * DayLength
  <2>1. z.after - z.before < DayLength
    BY <1>1, <1>11, ZonesAre
  <2>2. dayP \in Int /\ dayQ \in Int /\ dayL \in Int
    BY <1>1, <1>5
  <2>3. /\ dayP <= t + OffsetAt(t, z) /\ t + OffsetAt(t, z) < dayP + DayLength
        /\ dayQ <= u + OffsetAt(u, z) /\ u + OffsetAt(u, z) < dayQ + DayLength
        /\ dayL <= end + OffsetAt(end, z)
        /\ ClockAt(end, z) = 0 => end + OffsetAt(end, z) = dayL
    BY <1>1, <1>3 DEF p, q, last
  <2> HIDE DEF dayP, dayQ, dayL
  <2>4. /\ t + OffsetAt(t, z) <= u + OffsetAt(u, z)
        /\ u + OffsetAt(u, z) < end + OffsetAt(end, z)
    BY <1>1, <1>2
  <2>5. end + OffsetAt(end, z) < dayL + DayLength
    BY <1>1, <1>3 DEF last, dayL
  \* The dates follow each other.
  <2>6. dayP + DayLength <= dayQ
    <3>1. dayP < dayQ + DayLength
      BY <1>1, <1>2, <2>2, <2>3, <2>4
    <3>2. dayQ + DayLength = (q + 1) * DayLength
      BY <1>1, <1>5 DEF dayQ
    <3>3. p < q + 1
      BY <1>1, <1>5, <3>1, <3>2, MultiplesApart DEF dayP
    <3>4. p < q
      BY <1>5, <1>11, <3>3
    <3>5. p * DayLength < q * DayLength
      BY <1>1, <1>5, <3>4
    <3> QED BY <1>1, <1>5, <3>5, MultiplesApart DEF dayP, dayQ
  <2>7. ClockAt(end, z) = 0
    <3>1. ASSUME last = p PROVE FALSE
      <4>1. dayL = dayP
        BY <3>1 DEF dayL, dayP
      <4> QED BY <1>1, <1>2, <2>2, <2>3, <2>4, <2>5, <2>6, <4>1
    <3> QED BY <1>4, <3>1 DEF end, last, p
  <2>8. dayQ + DayLength <= dayL
    <3>1. dayQ < dayL
      BY <1>1, <1>2, <2>2, <2>3, <2>4, <2>7
    <3> QED BY <1>1, <1>5, <3>1, MultiplesApart DEF dayQ, dayL
  <2>9. t < z.at /\ z.at <= end
    <3>1. l <= DayLength
      <4>1. 0 * l < k * l
        BY <1>1, <1>6
      <4> QED BY <1>1, <1>6, <4>1, MultiplesApart
    <3>2. OffsetAt(t, z) # OffsetAt(end, z)
      BY <1>1, <1>2, <2>2, <2>3, <2>6, <2>7, <2>8, <3>1
    <3> QED BY <1>1, <1>2, <3>2
  <2>10. DayOffset(p, z) = z.before
    BY <1>1, <1>2, <2>2, <2>3, <2>9 DEF DayOffset, dayP
  <2>11. PICK m \in Int : t + z.before = m * l
    BY <1>8, <2>10
  <2>12. m * l + l <= (q * k) * l
    <3>1. (q * k) * l = dayQ
      BY <1>1, <1>5, <1>6 DEF dayQ
    <3>2. m * l < (q * k) * l
      BY <1>1, <1>2, <2>2, <2>3, <2>6, <2>9, <2>11, <3>1
    <3> QED BY <1>1, <1>5, <3>2, MultiplesApart
  <2>13. t + z.before + l <= dayQ
    <3>1. (q * k) * l = dayQ
      BY <1>1, <1>5, <1>6 DEF dayQ
    <3> QED BY <1>1, <2>11, <2>12, <3>1
  <2>14. end + z.after = dayL
    BY <1>1, <1>2, <2>3, <2>7, <2>9
  <2> QED BY <1>1, <2>1, <2>2, <2>8, <2>13, <2>14
<1> QED BY <1>9, <1>10, <1>11, ZonesAre

\* A start was offered to the request that was quoted of; whoever it was quoted
\* to relies on that, and so does the order.
Quoted(start, of) ==
    /\ GoodShape(of.shape) /\ of.zone \in Zones
    /\ ForwardZone(of.zone) => Bookable(start, of.shape, of.zone)

BookedRight(b) == b.end = b.start + b.of.shape.length /\ Quoted(b.start, b.of)

WindowRequest(r) ==
    /\ pc[r] \in {"idle", "asked", "judged", "booking"}
    /\ pc[r] \in {"asked", "judged"} =>
         /\ job[r].op = "settings" /\ job[r].update \in Updates
         /\ job[r].update.length # Nothing => GoodLength(job[r].update.length)
    /\ pc[r] = "judged" => settingsLock = r /\ GoodHours(Updated(job[r].update))
    /\ pc[r] = "booking" => Quoted(job[r].start, seen[r])

\* The inductive invariant: the settings are good, and every window a request
\* relies on or an order holds was of the grid of the settings it was quoted of.
WindowsRight ==
    /\ Tables
    /\ clock \in 0..MaxClock /\ zone \in Zones
    /\ GoodShape(shape) /\ GoodHours(shape)
    /\ \A r \in Requests : WindowRequest(r)
    /\ \A b \in booked : BookedRight(b)

LEMMA WindowsStart == WindowsInit => WindowsRight
<1> SUFFICES ASSUME WindowsInit PROVE WindowsRight
  OBVIOUS
<1>1. Tables /\ \A r \in Requests : WindowRequest(r)
  BY DEF WindowsInit, RequestsInit, Tables, WindowRequest
<1>2. clock \in 0..MaxClock /\ zone \in Zones /\ booked = {}
  BY WindowConstants DEF WindowsInit
<1>3. GoodShape(shape) /\ GoodHours(shape)
  BY WindowConstants DEF WindowsInit, GoodShape, GoodLength
<1> QED BY <1>1, <1>2, <1>3 DEF WindowsRight

\* What others were told still holds when neither the settings nor their lock
\* change.
LEMMA WindowsWait ==
    ASSUME NEW q \in Requests, WindowRequest(q), UNCHANGED <<shape, settingsLock>>,
           pc'[q] = pc[q], job'[q] = job[q], seen'[q] = seen[q]
    PROVE  WindowRequest(q)'
<1>1. shape' = shape /\ settingsLock' = settingsLock
  OBVIOUS
<1>2. \A u : Updated(u)' = Updated(u)
  BY <1>1 DEF Updated, Given
<1> QED BY <1>1, <1>2 DEF WindowRequest

\* Settings that are written are of a length that fills the day, and were judged.
LEMMA UpdateIsGood ==
    ASSUME GoodShape(shape), NEW u \in Updates, u.length # Nothing => GoodLength(u.length)
    PROVE  GoodShape(Updated(u))
<1>1. Updated(u).length = Given(u, "length")
  BY DEF Updated
<1>2. CASE u.length = Nothing
  BY <1>1, <1>2 DEF Given, GoodShape
<1>3. CASE u.length # Nothing
  <2>1. u.length \in Int /\ GoodLength(u.length)
    BY <1>3, WindowConstants
  <2>2. Updated(u).length = u.length /\ u.length > 0
    BY <1>1, <1>3, <2>1 DEF Given, GoodLength
  <2> QED BY <2>1, <2>2 DEF GoodShape
<1> QED BY <1>2, <1>3

LEMMA WindowsStep == WindowsRight /\ [WindowsNext]_windowVars => WindowsRight'
<1> SUFFICES ASSUME WindowsRight, [WindowsNext]_windowVars
             PROVE  WindowsRight'
  OBVIOUS
<1> USE DEF WindowsRight
<1>1. CASE UNCHANGED windowVars
  <2>1. /\ pc' = pc /\ job' = job /\ seen' = seen /\ clock' = clock /\ zone' = zone
        /\ shape' = shape /\ settingsLock' = settingsLock /\ booked' = booked
    BY <1>1 DEF windowVars, request
  <2>2. \A r \in Requests : WindowRequest(r)'
    BY <2>1, WindowsWait
  <2> QED BY <2>1, <2>2 DEF Tables
<1>2. CASE ClockMoves
  <2>1. /\ pc' = pc /\ job' = job /\ seen' = seen /\ zone' = zone
        /\ shape' = shape /\ settingsLock' = settingsLock /\ booked' = booked
    BY <1>2 DEF ClockMoves, request
  <2>2. \A r \in Requests : WindowRequest(r)'
    BY <2>1, WindowsWait
  <2>3. clock' \in 0..MaxClock
    BY <1>2, WindowConstants DEF ClockMoves
  <2> QED BY <2>1, <2>2, <2>3 DEF Tables
<1>3. CASE MoveZone
  <2>1. /\ pc' = pc /\ job' = job /\ seen' = seen /\ clock' = clock /\ zone' \in Zones
        /\ shape' = shape /\ settingsLock' = settingsLock /\ booked' = booked
    BY <1>3 DEF MoveZone
  <2>2. \A r \in Requests : WindowRequest(r)'
    BY <2>1, WindowsWait
  <2> QED BY <2>1, <2>2 DEF Tables
<1>4. ASSUME NEW r \in Requests, AskSettings(r)
      PROVE  WindowsRight'
  <2>1. /\ clock' = clock /\ zone' = zone /\ shape' = shape
        /\ settingsLock' = settingsLock /\ booked' = booked
    BY <1>4 DEF AskSettings
  <2>2. PICK u \in Updates :
          /\ u.length # Nothing => GoodLength(u.length)
          /\ Starts(r, Manager, [op |-> "settings", update |-> u], "asked", Nothing)
    BY <1>4 DEF AskSettings
  <2>3. /\ Tables' /\ OthersWait(r) /\ pc'[r] = "asked"
        /\ job'[r] = [op |-> "settings", update |-> u]
    BY <2>2 DEF Starts, Tables, OthersWait
  <2>4. WindowRequest(r)'
    BY <2>2, <2>3 DEF WindowRequest
  <2>5. \A q \in Requests \ {r} : WindowRequest(q)'
    BY <2>1, <2>3, WindowsWait DEF OthersWait
  <2> QED BY <2>1, <2>3, <2>4, <2>5
<1>5. ASSUME NEW r \in Requests, JudgeHours(r)
      PROVE  WindowsRight'
  <2>1. /\ clock' = clock /\ zone' = zone /\ shape' = shape /\ booked' = booked
        /\ pc[r] = "asked" /\ settingsLock = Nothing
    BY <1>5 DEF JudgeHours
  <2>2. Tables' /\ OthersWait(r)
    BY <1>5 DEF JudgeHours, GoesOn, Answered, Tables, OthersWait
  <2>3. \A q \in Requests : pc[q] # "judged"
    BY <2>1, RequestConstants DEF WindowRequest
  <2>4. \A q \in Requests \ {r} : WindowRequest(q)'
    BY <2>2, <2>3 DEF OthersWait, WindowRequest
  <2>5. WindowRequest(r)'
    <3>1. CASE GoodHours(Updated(job[r].update))
      <4>1. /\ pc'[r] = "judged" /\ job'[r] = job[r] /\ settingsLock' = r
        BY <1>5, <3>1 DEF JudgeHours, GoesOn, Tables
      <4>2. Updated(job[r].update)' = Updated(job[r].update)
        BY <2>1, <4>1 DEF Updated, Given
      <4> QED BY <2>1, <3>1, <4>1, <4>2 DEF WindowRequest
    <3>2. CASE ~GoodHours(Updated(job[r].update))
      <4>1. pc'[r] = "idle"
        BY <1>5, <3>2 DEF JudgeHours, Answered, Tables
      <4> QED BY <4>1 DEF WindowRequest
    <3> QED BY <3>1, <3>2
  <2> QED BY <2>1, <2>2, <2>4, <2>5
<1>6. ASSUME NEW r \in Requests, WriteSettings(r)
      PROVE  WindowsRight'
  <2>1. /\ clock' = clock /\ zone' = zone /\ booked' = booked /\ pc[r] = "judged"
        /\ shape' = Updated(job[r].update) /\ settingsLock' = Nothing
    BY <1>6 DEF WriteSettings
  <2>2. Tables' /\ OthersWait(r) /\ pc'[r] = "idle"
    BY <1>6 DEF WriteSettings, Answered, Tables, OthersWait
  <2>3. GoodShape(shape)' /\ GoodHours(shape)'
    <3>1. GoodShape(Updated(job[r].update)) /\ GoodHours(Updated(job[r].update))
      BY <2>1, UpdateIsGood DEF WindowRequest
    <3> QED BY <2>1, <3>1
  <2>4. \A q \in Requests \ {r} : pc[q] # "judged"
    BY <2>1 DEF WindowRequest
  <2>5. \A q \in Requests \ {r} : WindowRequest(q)'
    BY <2>2, <2>4 DEF OthersWait, WindowRequest
  <2>6. WindowRequest(r)'
    BY <2>2 DEF WindowRequest
  <2> QED BY <2>1, <2>2, <2>3, <2>5, <2>6
<1>7. ASSUME NEW r \in Requests, AskWindow(r)
      PROVE  WindowsRight'
  <2>1. /\ clock' = clock /\ zone' = zone /\ shape' = shape
        /\ settingsLock' = settingsLock /\ booked' = booked
    BY <1>7 DEF AskWindow
  <2>2. PICK start \in Grid(clock, shape, zone) :
          Starts(r, Shopper(Manager.store), [op |-> "book", start |-> start], "booking",
                 [shape |-> shape, zone |-> zone])
    BY <1>7 DEF AskWindow
  <2>3. /\ Tables' /\ OthersWait(r) /\ pc'[r] = "booking"
        /\ job'[r] = [op |-> "book", start |-> start]
        /\ seen'[r] = [shape |-> shape, zone |-> zone]
    BY <2>2 DEF Starts, Tables, OthersWait
  <2>4. Quoted(start, [shape |-> shape, zone |-> zone])
    <3>1. clock \in Int
      OBVIOUS
    <3>2. ForwardZone(zone) => Bookable(start, shape, zone)
      BY <2>2, <3>1, GridIsLaidOut
    <3> QED BY <3>2 DEF Quoted
  <2>5. WindowRequest(r)'
    BY <2>3, <2>4 DEF WindowRequest
  <2>6. \A q \in Requests \ {r} : WindowRequest(q)'
    BY <2>1, <2>3, WindowsWait DEF OthersWait
  <2> QED BY <2>1, <2>3, <2>5, <2>6
<1>8. ASSUME NEW r \in Requests, Book(r)
      PROVE  WindowsRight'
  <2>1. /\ clock' = clock /\ zone' = zone /\ shape' = shape
        /\ settingsLock' = settingsLock /\ pc[r] = "booking"
        /\ booked' = booked \cup
             {[start |-> job[r].start, end |-> job[r].start + seen[r].shape.length,
               of |-> seen[r]]}
    BY <1>8 DEF Book
  <2>2. Tables' /\ OthersWait(r) /\ pc'[r] = "idle"
    BY <1>8 DEF Book, Answered, Tables, OthersWait
  <2>3. Quoted(job[r].start, seen[r])
    BY <2>1 DEF WindowRequest
  <2>4. \A b \in booked' : BookedRight(b)
    BY <2>1, <2>3 DEF BookedRight
  <2>5. WindowRequest(r)'
    BY <2>2 DEF WindowRequest
  <2>6. \A q \in Requests \ {r} : WindowRequest(q)'
    BY <2>1, <2>2, WindowsWait DEF OthersWait
  <2> QED BY <2>1, <2>2, <2>4, <2>5, <2>6
<1> QED BY <1>1, <1>2, <1>3, <1>4, <1>5, <1>6, <1>7, <1>8 DEF WindowsNext

\* Orders quoted of the same settings hold windows that are apart.
LEMMA BookedApart == WindowsRight => WindowsAreApart
<1> SUFFICES ASSUME WindowsRight,
                    NEW b \in booked, NEW c \in booked,
                    b.of = c.of, b.of.zone.after >= b.of.zone.before,
                    b.start < c.end, c.start < b.end
             PROVE  b.start = c.start
  BY DEF WindowsAreApart, Apart
<1> DEFINE z == b.of.zone
           s == b.of.shape
<1>1. /\ b.end = b.start + s.length /\ c.end = c.start + s.length
      /\ ForwardZone(z) /\ GoodShape(s) /\ Bookable(b.start, s, z) /\ Bookable(c.start, s, z)
  BY DEF WindowsRight, BookedRight, Quoted, ForwardZone
<1>2. b.start \in Int /\ c.start \in Int
  BY <1>1 DEF Bookable
<1>3. CASE b.start <= c.start
  BY <1>1, <1>3, WindowsApart
<1>4. CASE c.start <= b.start
  BY <1>1, <1>4, WindowsApart
<1> QED BY <1>2, <1>3, <1>4

\* Whatever the settings are and however the shop's clock is put forward, the
\* windows of orders placed under the same settings are the same or do not
\* overlap, and settings that would leave no window are never written
\* (insideHours, slotGrid and assertOpeningHours of slots.ts, updateSettings of
\* service.ts).
THEOREM WindowsStayApart == WindowsSpec => [](WindowsInv /\ WindowsAreApart)
<1>1. WindowsInit => WindowsRight
  BY WindowsStart
<1>2. WindowsRight /\ [WindowsNext]_windowVars => WindowsRight'
  BY WindowsStep
<1>3. WindowsRight => WindowsInv /\ WindowsAreApart
  BY BookedApart DEF WindowsRight, WindowsInv, WindowRequest, GoodShape
<1> QED BY <1>1, <1>2, <1>3, PTL DEF WindowsSpec

-----------------------------------------------------------------------------
(* The connection pool *)

\* What can stand in a script.
Statements == {OnTx, Begin, Commit, OnClient(1), OnClient(3), Waits("cart"), Waits("item"),
               Tries("slot")}

LEMMA Joined ==
    ASSUME NEW S, NEW a \in Seq(S), NEW b \in Seq(S)
    PROVE  /\ a \o b \in Seq(S)
           /\ Len(a \o b) = Len(a) + Len(b)
           /\ \A i \in 1..Len(a) : (a \o b)[i] = a[i]
           /\ \A i \in 1..Len(a) + Len(b) : i > Len(a) => (a \o b)[i] = b[i - Len(a)]
OBVIOUS

LEMMA RevalidationIs ==
    /\ Revalidation \in Seq(Statements)
    /\ Len(Revalidation) = 4
    /\ Revalidation[1] = OnTx /\ Revalidation[2] = OnClient(1)
    /\ Revalidation[3] = OnClient(3) /\ Revalidation[4] = OnTx
BY DEF Revalidation, Statements

\* What a script with a revalidation in it looks like.
LEMMA AroundRevalidation ==
    ASSUME NEW a \in Seq(Statements), NEW c \in Seq(Statements)
    PROVE  /\ Len((a \o Revalidation) \o c) = Len(a) + 4 + Len(c)
           /\ \A i \in 1..Len(a) : ((a \o Revalidation) \o c)[i] = a[i]
           /\ ((a \o Revalidation) \o c)[Len(a) + 1] = OnTx
           /\ ((a \o Revalidation) \o c)[Len(a) + 2] = OnClient(1)
           /\ ((a \o Revalidation) \o c)[Len(a) + 3] = OnClient(3)
           /\ ((a \o Revalidation) \o c)[Len(a) + 4] = OnTx
           /\ \A i \in 1..Len(c) : ((a \o Revalidation) \o c)[Len(a) + 4 + i] = c[i]
<1> DEFINE b == Revalidation
           ab == a \o b
           s == ab \o c
<1>1. b \in Seq(Statements)
  BY RevalidationIs
<1>6. Len(b) = 4 /\ b[1] = OnTx /\ b[2] = OnClient(1) /\ b[3] = OnClient(3) /\ b[4] = OnTx
  BY RevalidationIs DEF b
<1> HIDE DEF b
<1>2. ab \in Seq(Statements)
  BY <1>1, Joined, Zenon
<1>3. /\ Len(ab) = Len(a) + Len(b)
      /\ \A i \in 1..Len(a) : ab[i] = a[i]
      /\ \A i \in 1..Len(a) + Len(b) : i > Len(a) => ab[i] = b[i - Len(a)]
  BY <1>1, Joined, Zenon
<1> HIDE DEF ab
<1>5. /\ Len(s) = Len(ab) + Len(c)
      /\ \A i \in 1..Len(ab) : s[i] = ab[i]
      /\ \A i \in 1..Len(ab) + Len(c) : i > Len(ab) => s[i] = c[i - Len(ab)]
  BY <1>2, Joined, Zenon
<1> HIDE DEF s
<1>7. Len(a) \in Nat /\ Len(c) \in Nat
  OBVIOUS
<1> DEFINE la == Len(a)
           lc == Len(c)
<1>8. la \in Nat /\ lc \in Nat /\ Len(ab) = la + 4
  BY <1>3, <1>6, <1>7
<1>9. Len(s) = la + 4 + lc
  BY <1>5, <1>8
<1>10. \A i \in 1..la : s[i] = a[i]
  <2> HIDE DEF la
  <2>1. \A i \in 1..la : i \in 1..Len(ab)
    BY <1>8
  <2>2. \A i \in 1..la : ab[i] = a[i]
    BY <1>3 DEF la
  <2> QED
    BY <2>1, <2>2, <1>5
<1>11. \A i \in 1..4 : s[la + i] = b[i]
  <2>1. TAKE i \in 1..4
  <2> HIDE DEF la
  <2>2. la + i \in 1..Len(ab) /\ la + i > la /\ (la + i) - la = i
    BY <1>8
  <2>3. la + i \in 1..Len(a) + Len(b)
    BY <2>2, <1>6, <1>8 DEF la
  <2>4. s[la + i] = ab[la + i]
    BY <2>2, <1>5
  <2>5. ab[la + i] = b[(la + i) - la]
    BY <2>2, <2>3, <1>3, Zenon DEF la
  <2> QED
    BY <2>2, <2>4, <2>5
<1>12. \A i \in 1..lc : s[la + 4 + i] = c[i]
  <2>1. TAKE i \in 1..lc
  <2> DEFINE k == la + 4 + i
  <2>2. k \in 1..Len(ab) + Len(c) /\ k > Len(ab) /\ k - Len(ab) = i
    BY <1>8
  <2> HIDE DEF k
  <2>3. s[k] = c[k - Len(ab)]
    BY <2>2, <1>5, Zenon
  <2> QED
    BY <2>2, <2>3 DEF k
<1>13. s = (a \o Revalidation) \o c
  BY DEF s, ab, b
<1>14. s[la + 1] = OnTx /\ s[la + 2] = OnClient(1) /\ s[la + 3] = OnClient(3) /\ s[la + 4] = OnTx
  <2> HIDE DEF la
  <2> QED
    BY <1>6, <1>11
<1> QED
  BY <1>9, <1>10, <1>12, <1>13, <1>14, Zenon

LEMMA ViewIs ==
    /\ Len(Script("view")) = 8
    /\ Script("view")[1] = OnClient(1)
    /\ Script("view")[2] = Begin
    /\ Script("view")[3] = Waits("cart")
    /\ Script("view")[4] = OnTx
    /\ Script("view")[5] = OnClient(1)
    /\ Script("view")[6] = OnClient(3)
    /\ Script("view")[7] = OnTx
    /\ Script("view")[8] = Commit
<1> DEFINE a == <<OnClient(1), Begin, Waits("cart")>>
           c == <<Commit>>
           s == (a \o Revalidation) \o c
<1>1. a \in Seq(Statements)
  BY DEF Statements
<1>2. c \in Seq(Statements)
  BY DEF Statements
<1>3. Script("view") = s
  BY DEF Script, ViewSteps
<1>4. /\ Len(a) = 3 /\ a[1] = OnClient(1) /\ a[2] = Begin /\ a[3] = Waits("cart")
      /\ Len(c) = 1 /\ c[1] = Commit
  OBVIOUS
<1> HIDE DEF a, c
<1>5. /\ Len(s) = Len(a) + 4 + Len(c)
      /\ \A i \in 1..Len(a) : s[i] = a[i]
      /\ s[Len(a) + 1] = OnTx /\ s[Len(a) + 2] = OnClient(1)
      /\ s[Len(a) + 3] = OnClient(3) /\ s[Len(a) + 4] = OnTx
      /\ \A i \in 1..Len(c) : s[Len(a) + 4 + i] = c[i]
  BY <1>1, <1>2, AroundRevalidation, Zenon
<1> HIDE DEF s
<1>6. /\ Len(s) = 8 /\ s[1] = a[1] /\ s[2] = a[2] /\ s[3] = a[3]
      /\ s[4] = OnTx /\ s[5] = OnClient(1) /\ s[6] = OnClient(3) /\ s[7] = OnTx
      /\ s[8] = c[1]
  BY <1>4, <1>5
<1> QED
  BY <1>3, <1>4, <1>6

LEMMA AddIs ==
    /\ Len(Script("add")) = 9
    /\ Script("add")[1] = Begin
    /\ Script("add")[2] = Waits("cart")
    /\ Script("add")[3] = OnClient(1)
    /\ Script("add")[4] = OnTx
    /\ Script("add")[5] = OnTx
    /\ Script("add")[6] = OnClient(1)
    /\ Script("add")[7] = OnClient(3)
    /\ Script("add")[8] = OnTx
    /\ Script("add")[9] = Commit
<1> DEFINE a == <<Begin, Waits("cart"), OnClient(1), OnTx>>
           c == <<Commit>>
           s == (a \o Revalidation) \o c
<1>1. a \in Seq(Statements)
  BY DEF Statements
<1>2. c \in Seq(Statements)
  BY DEF Statements
<1>3. Script("add") = s
  BY DEF Script, AddSteps
<1>4. /\ Len(a) = 4 /\ a[1] = Begin /\ a[2] = Waits("cart") /\ a[3] = OnClient(1) /\ a[4] = OnTx
      /\ Len(c) = 1 /\ c[1] = Commit
  OBVIOUS
<1> HIDE DEF a, c
<1>5. /\ Len(s) = Len(a) + 4 + Len(c)
      /\ \A i \in 1..Len(a) : s[i] = a[i]
      /\ s[Len(a) + 1] = OnTx /\ s[Len(a) + 2] = OnClient(1)
      /\ s[Len(a) + 3] = OnClient(3) /\ s[Len(a) + 4] = OnTx
      /\ \A i \in 1..Len(c) : s[Len(a) + 4 + i] = c[i]
  BY <1>1, <1>2, AroundRevalidation, Zenon
<1> HIDE DEF s
<1>6. /\ Len(s) = 9 /\ s[1] = a[1] /\ s[2] = a[2] /\ s[3] = a[3] /\ s[4] = a[4]
      /\ s[5] = OnTx /\ s[6] = OnClient(1) /\ s[7] = OnClient(3) /\ s[8] = OnTx
      /\ s[9] = c[1]
  BY <1>4, <1>5
<1> QED
  BY <1>3, <1>4, <1>6

LEMMA PlaceIs ==
    /\ Len(Script("place")) = 12
    /\ Script("place")[1] = OnClient(1)
    /\ Script("place")[2] = Begin
    /\ Script("place")[3] = Tries("slot")
    /\ Script("place")[4] = OnTx
    /\ Script("place")[5] = Waits("cart")
    /\ Script("place")[6] = OnTx
    /\ Script("place")[7] = OnClient(1)
    /\ Script("place")[8] = OnClient(3)
    /\ Script("place")[9] = OnTx
    /\ Script("place")[10] = Waits("item")
    /\ Script("place")[11] = OnTx
    /\ Script("place")[12] = Commit
<1> DEFINE a == <<OnClient(1), Begin, Tries("slot"), OnTx, Waits("cart")>>
           c == <<Waits("item"), OnTx, Commit>>
           s == (a \o Revalidation) \o c
<1>1. a \in Seq(Statements)
  BY DEF Statements
<1>2. c \in Seq(Statements)
  BY DEF Statements
<1>3. Script("place") = s
  BY DEF Script, PlaceSteps
<1>4. /\ Len(a) = 5 /\ a[1] = OnClient(1) /\ a[2] = Begin /\ a[3] = Tries("slot") /\ a[4] = OnTx
      /\ a[5] = Waits("cart")
      /\ Len(c) = 3 /\ c[1] = Waits("item") /\ c[2] = OnTx /\ c[3] = Commit
  OBVIOUS
<1> HIDE DEF a, c
<1>5. /\ Len(s) = Len(a) + 4 + Len(c)
      /\ \A i \in 1..Len(a) : s[i] = a[i]
      /\ s[Len(a) + 1] = OnTx /\ s[Len(a) + 2] = OnClient(1)
      /\ s[Len(a) + 3] = OnClient(3) /\ s[Len(a) + 4] = OnTx
      /\ \A i \in 1..Len(c) : s[Len(a) + 4 + i] = c[i]
  BY <1>1, <1>2, AroundRevalidation, Zenon
<1> HIDE DEF s
<1>6. /\ Len(s) = 12 /\ s[1] = a[1] /\ s[2] = a[2] /\ s[3] = a[3] /\ s[4] = a[4] /\ s[5] = a[5]
      /\ s[6] = OnTx /\ s[7] = OnClient(1) /\ s[8] = OnClient(3) /\ s[9] = OnTx
      /\ s[10] = c[1] /\ s[11] = c[2] /\ s[12] = c[3]
  BY <1>4, <1>5
<1> QED
  BY <1>3, <1>4, <1>6

LEMMA AdjustIs ==
    /\ Len(Script("adjust")) = 5
    /\ Script("adjust")[1] = Begin
    /\ Script("adjust")[2] = Waits("item")
    /\ Script("adjust")[3] = OnTx
    /\ Script("adjust")[4] = OnTx
    /\ Script("adjust")[5] = Commit
BY DEF Script, AdjustSteps

\* After n steps of a call: whether it is in its transaction, and its locks.
Inside(c, n) == IF c \in {"view", "place"} THEN n >= 2 ELSE n >= 1

LocksOf(c, n) ==
    {k \in Keys :
        \/ k = "slot" /\ c = "place" /\ n >= 3
        \/ k = "cart" /\ ((c = "view" /\ n >= 3) \/ (c = "add" /\ n >= 2)
                            \/ (c = "place" /\ n >= 5))
        \/ k = "item" /\ ((c = "place" /\ n >= 10) \/ (c = "adjust" /\ n >= 2))}

\* What the next statement st of a call does to them, n of its last being done.
StepRight(c, n, last, st) ==
    /\ st.on \in {"begin", "tx", "client", "lock", "try", "commit"}
    /\ st.on # "commit" => n + 1 < last
    /\ st.on \in {"tx", "client", "lock", "try"} => (Inside(c, n + 1) <=> Inside(c, n))
    /\ st.on \in {"tx", "client", "begin"} => LocksOf(c, n + 1) = LocksOf(c, n)
    /\ st.on = "begin" => ~Inside(c, n) /\ Inside(c, n + 1)
    /\ st.on \in {"lock", "try"} =>
         /\ st.key \in Keys /\ Inside(c, n)
         /\ LocksOf(c, n + 1) = LocksOf(c, n) \cup {st.key}
    /\ st.on = "try" => n > 0 /\ ~Inside(c, n - 1) /\ LocksOf(c, n) = {} /\ LocksOf(c, n - 1) = {}
    /\ st.on = "lock" =>
         \/ st.key = "cart" /\ "cart" \notin LocksOf(c, n) /\ "item" \notin LocksOf(c, n)
         \/ st.key = "item" /\ "item" \notin LocksOf(c, n)
    /\ st.on = "client" => c # "adjust" /\ st.reads \in Nat \ {0}
    /\ LocksOf(c, n) # {} => Inside(c, n)

LEMMA ViewGoes ==
    ASSUME NEW n \in 0..7
    PROVE  StepRight("view", n, 8, Script("view")[n + 1])
<1>1. n = 0 \/ n = 1 \/ n = 2 \/ n = 3 \/ n = 4 \/ n = 5 \/ n = 6 \/ n = 7
  OBVIOUS
<1> QED
  BY <1>1, ViewIs
      DEF StepRight, Inside, LocksOf, Keys, OnClient, OnTx,
          Begin, Commit, Tries, Waits

LEMMA AddGoes ==
    ASSUME NEW n \in 0..8
    PROVE  StepRight("add", n, 9, Script("add")[n + 1])
<1>1. n = 0 \/ n = 1 \/ n = 2 \/ n = 3 \/ n = 4 \/ n = 5 \/ n = 6 \/ n = 7 \/ n = 8
  OBVIOUS
<1> QED
  BY <1>1, AddIs
      DEF StepRight, Inside, LocksOf, Keys, OnClient, OnTx,
          Begin, Commit, Tries, Waits

LEMMA PlaceGoes ==
    ASSUME NEW n \in 0..11
    PROVE  StepRight("place", n, 12, Script("place")[n + 1])
<1>1. \/ n = 0 \/ n = 1 \/ n = 2 \/ n = 3 \/ n = 4 \/ n = 5 \/ n = 6 \/ n = 7 \/ n = 8 \/ n = 9
      \/ n = 10 \/ n = 11
  OBVIOUS
<1> QED
  BY <1>1, PlaceIs
      DEF StepRight, Inside, LocksOf, Keys, OnClient, OnTx,
          Begin, Commit, Tries, Waits

LEMMA AdjustGoes ==
    ASSUME NEW n \in 0..4
    PROVE  StepRight("adjust", n, 5, Script("adjust")[n + 1])
<1>1. n = 0 \/ n = 1 \/ n = 2 \/ n = 3 \/ n = 4
  OBVIOUS
<1> QED
  BY <1>1, AdjustIs
      DEF StepRight, Inside, LocksOf, Keys, OnClient, OnTx,
          Begin, Commit, Tries, Waits

LEMMA StatementsAreRight ==
    ASSUME NEW c \in Calls, NEW n \in Nat, n < Len(Script(c))
    PROVE  StepRight(c, n, Len(Script(c)), Script(c)[n + 1])
<1>1. CASE c = "view"
  <2>1. Len(Script(c)) = 8
    BY <1>1, ViewIs, Zenon
  <2> n \in 0..7
    BY <2>1
  <2>2. StepRight("view", n, 8, Script("view")[n + 1])
    BY ViewGoes
  <2> QED
    BY <1>1, <2>1, <2>2
<1>2. CASE c = "add"
  <2>1. Len(Script(c)) = 9
    BY <1>2, AddIs, Zenon
  <2> n \in 0..8
    BY <2>1
  <2>2. StepRight("add", n, 9, Script("add")[n + 1])
    BY AddGoes
  <2> QED
    BY <1>2, <2>1, <2>2
<1>3. CASE c = "place"
  <2>1. Len(Script(c)) = 12
    BY <1>3, PlaceIs, Zenon
  <2> n \in 0..11
    BY <2>1
  <2>2. StepRight("place", n, 12, Script("place")[n + 1])
    BY PlaceGoes
  <2> QED
    BY <1>3, <2>1, <2>2
<1>4. CASE c = "adjust"
  <2>1. Len(Script(c)) = 5
    BY <1>4, AdjustIs, Zenon
  <2> n \in 0..4
    BY <2>1
  <2>2. StepRight("adjust", n, 5, Script("adjust")[n + 1])
    BY AdjustGoes
  <2> QED
    BY <1>4, <2>1, <2>2
<1> QED
  BY <1>1, <1>2, <1>3, <1>4 DEF Calls

LEMMA ScriptsBegin ==
    ASSUME NEW c \in Calls
    PROVE  0 < Len(Script(c)) /\ ~Inside(c, 0) /\ LocksOf(c, 0) = {}
BY ViewIs, AddIs, PlaceIs, AdjustIs DEF Calls, Inside, LocksOf, Keys

-----------------------------------------------------------------------------
(* Counting connections *)

LEMMA OneIn ==
    ASSUME NEW S, IsFiniteSet(S), NEW x, x \notin S
    PROVE  IsFiniteSet(S \cup {x}) /\ Cardinality(S \cup {x}) = Cardinality(S) + 1
BY FS_AddElement

LEMMA OneOut ==
    ASSUME NEW S, IsFiniteSet(S), NEW x \in S
    PROVE  IsFiniteSet(S \ {x}) /\ Cardinality(S \ {x}) = Cardinality(S) - 1
BY FS_RemoveElement

LEMMA NotMore ==
    ASSUME NEW S, IsFiniteSet(S), NEW x
    PROVE  IsFiniteSet(S \ {x}) /\ Cardinality(S \ {x}) <= Cardinality(S)
<1>1. CASE x \in S
  BY <1>1, OneOut, FS_CardinalityType
<1>2. CASE x \notin S
  <2>1. S \ {x} = S
    BY <1>2
  <2> QED
    BY <2>1, FS_CardinalityType
<1> QED
  BY <1>1, <1>2

\* A read more, or one less, is one pair more or less.
LEMMA ReadMore ==
    ASSUME reading \in [Requests -> Nat], NEW r \in Requests,
           reading' = [reading EXCEPT ![r] = @ + 1]
    PROVE  /\ <<r, reading[r] + 1>> \notin Underway
           /\ Underway' = Underway \cup {<<r, reading[r] + 1>>}
BY DEF Underway

LEMMA ReadLess ==
    ASSUME reading \in [Requests -> Nat], NEW r \in Requests, reading[r] > 0,
           reading' = [reading EXCEPT ![r] = @ - 1]
    PROVE  /\ <<r, reading[r]>> \in Underway
           /\ Underway' = Underway \ {<<r, reading[r]>>}
BY DEF Underway

-----------------------------------------------------------------------------
(* The inductive invariant *)

\* What a request holds follows from how far it is.
RequestRight(r) ==
    /\ ~Busy(r) => r \notin inTx /\ Quiet(r) /\ \A k \in Keys : keyHeld[k] # r
    /\ Busy(r) => work[r].done < Len(Script(work[r].call))
    /\ Busy(r) /\ work[r].failed => r \notin inTx /\ \A k \in Keys : keyHeld[k] # r
    /\ Busy(r) /\ ~work[r].failed =>
         /\ r \in inTx <=> Inside(work[r].call, work[r].done)
         /\ \A k \in Keys : keyHeld[k] = r <=> k \in LocksOf(work[r].call, work[r].done)
         /\ ~Quiet(r) => StepOf(r).on = "client"

PoolShape ==
    /\ work \in [Requests -> Work \cup {Nothing}]
    /\ awaited \in [Requests -> Nat] /\ reading \in [Requests -> Nat]
    /\ keyHeld \in [Keys -> Requests \cup {Nothing}]
    /\ inTx \subseteq Requests

\* Every connection is somebody's, and there are no more than the pool has.
ConnectionsFit ==
    /\ IsFiniteSet(inTx) /\ IsFiniteSet(Underway)
    /\ Cardinality(inTx) + Cardinality(Underway) <= PoolSize

PoolRight == PoolShape /\ ConnectionsFit /\ \A r \in Requests : RequestRight(r)

\* A request that goes on, in numbers.
LEMMA GoesOnRight ==
    ASSUME PoolRight, NEW r \in Requests, Busy(r), ~work[r].failed
    PROVE  /\ work[r] \in Work /\ work[r].call \in Calls /\ work[r].done \in Nat
           /\ work[r].done < Len(Script(work[r].call))
           /\ StepRight(work[r].call, work[r].done, Len(Script(work[r].call)), StepOf(r))
<1>1. work[r] \in Work
  BY DEF PoolRight, PoolShape, Busy
<1>2. work[r].call \in Calls /\ work[r].done \in Nat
  BY <1>1 DEF Work
<1>3. work[r].done < Len(Script(work[r].call))
  BY DEF PoolRight, RequestRight
<1>4. StepRight(work[r].call, work[r].done, Len(Script(work[r].call)), StepOf(r))
  BY <1>2, <1>3, StatementsAreRight, Zenon DEF StepOf
<1> QED
  BY <1>1, <1>2, <1>3, <1>4

LEMMA OthersAreLeft ==
    ASSUME NEW q \in Requests, RequestRight(q),
           work'[q] = work[q], q \in inTx' <=> q \in inTx,
           awaited'[q] = awaited[q], reading'[q] = reading[q],
           \A k \in Keys : keyHeld'[k] = q <=> keyHeld[k] = q
    PROVE  RequestRight(q)'
BY DEF RequestRight, Busy, Quiet, StepOf

LEMMA PoolStarts == PoolInit => PoolRight
<1> SUFFICES ASSUME PoolInit PROVE PoolRight
  OBVIOUS
<1>1. PoolShape
  BY DEF PoolInit, PoolShape
<1>2. Underway = {}
  BY DEF PoolInit, Underway
<1>3. ConnectionsFit
  BY <1>2, FS_EmptySet, PoolConstants DEF PoolInit, ConnectionsFit
<1>4. \A r \in Requests : RequestRight(r)
  BY RequestConstants DEF PoolInit, RequestRight, Busy, Quiet
<1> QED
  BY <1>1, <1>3, <1>4 DEF PoolRight

LEMMA CallKeepsPool ==
    ASSUME PoolRight, NEW r \in Requests, Call(r)
    PROVE  PoolRight'
<1> USE DEF PoolShape
<1>1. PICK c \in Calls : work' = [work EXCEPT ![r] = [call |-> c, done |-> 0, failed |-> FALSE]]
  BY DEF Call
<1>2. UNCHANGED inTx /\ UNCHANGED awaited /\ UNCHANGED reading /\ UNCHANGED keyHeld
  BY DEF Call
<1>3. [call |-> c, done |-> 0, failed |-> FALSE] \in Work
  BY DEF Work
<1>4. PoolShape'
  BY <1>1, <1>2, <1>3 DEF PoolRight
<1>5. ConnectionsFit'
  BY <1>2 DEF PoolRight, ConnectionsFit, Underway
<1>6. RequestRight(r)'
  <2>1. r \notin inTx /\ Quiet(r) /\ \A k \in Keys : keyHeld[k] # r
    BY DEF PoolRight, RequestRight, Call
  <2>2. work'[r] = [call |-> c, done |-> 0, failed |-> FALSE]
    BY <1>1 DEF PoolRight
  <2>3. 0 < Len(Script(c)) /\ ~Inside(c, 0) /\ LocksOf(c, 0) = {}
    BY ScriptsBegin
  <2> QED
    BY <1>2, <1>3, <2>1, <2>2, <2>3, PoolConstants DEF RequestRight, Busy, Quiet
<1>7. ASSUME NEW q \in Requests, q # r PROVE RequestRight(q)'
  BY <1>1, <1>2, <1>7, OthersAreLeft DEF PoolRight
<1> QED
  BY <1>4, <1>5, <1>6, <1>7 DEF PoolRight

\* One step further, and nothing else of the request's.
LEMMA OneStepOn ==
    ASSUME PoolShape, NEW r \in Requests, work[r] \in Work, StepDone(r)
    PROVE  /\ work' \in [Requests -> Work \cup {Nothing}]
           /\ work'[r] \in Work /\ Busy(r)'
           /\ work'[r].call = work[r].call /\ work'[r].failed = work[r].failed
           /\ work'[r].done = work[r].done + 1
           /\ \A q \in Requests : q # r => work'[q] = work[q]
<1>1. work[r] = [call |-> work[r].call, done |-> work[r].done, failed |-> work[r].failed]
  BY DEF Work
<1>2. work'[r] = [work[r] EXCEPT !.done = @ + 1]
  BY DEF StepDone, PoolShape
<1>3. work' = [work EXCEPT ![r] = [work[r] EXCEPT !.done = @ + 1]]
  BY DEF StepDone
<1>4. [work[r] EXCEPT !.done = @ + 1] \in Work
  BY DEF Work
<1> QED
  BY <1>2, <1>3, <1>4, PoolConstants DEF PoolShape, Work, Busy

LEMMA BeginTxKeepsPool ==
    ASSUME PoolRight, NEW r \in Requests, BeginTx(r)
    PROVE  PoolRight'
<1>1. StepDone(r) /\ inTx' = inTx \cup {r} /\ Free > 0
  BY DEF BeginTx
<1>2. UNCHANGED awaited /\ UNCHANGED reading /\ UNCHANGED keyHeld
  BY DEF BeginTx
<1>3. Busy(r) /\ ~work[r].failed /\ Quiet(r) /\ StepOf(r).on = "begin"
  BY DEF BeginTx, NextIs
<1> DEFINE c == work[r].call
           n == work[r].done
<1>4. /\ work[r] \in Work /\ c \in Calls /\ n \in Nat
      /\ StepRight(c, n, Len(Script(c)), StepOf(r))
  BY <1>3, GoesOnRight
<1>5. n + 1 < Len(Script(c)) /\ LocksOf(c, n + 1) = LocksOf(c, n)
      /\ ~Inside(c, n) /\ Inside(c, n + 1)
  BY <1>3, <1>4 DEF StepRight
<1>6. /\ work' \in [Requests -> Work \cup {Nothing}]
      /\ Busy(r)' /\ work'[r].call = c /\ ~work'[r].failed /\ work'[r].done = n + 1
      /\ \A q \in Requests : q # r => work'[q] = work[q]
  BY <1>1, <1>3, <1>4, OneStepOn DEF PoolRight
<1> HIDE DEF c, n
<1>7. PoolShape'
  BY <1>1, <1>2, <1>6 DEF PoolRight, PoolShape
<1>8. r \notin inTx /\ \A k \in Keys : keyHeld[k] = r <=> k \in LocksOf(c, n)
  BY <1>3, <1>5 DEF PoolRight, RequestRight, c, n
<1>9. ConnectionsFit'
  <2>1. IsFiniteSet(inTx') /\ Cardinality(inTx') = Cardinality(inTx) + 1
    BY <1>1, <1>8, OneIn DEF PoolRight, ConnectionsFit
  <2>2. Underway' = Underway
    BY <1>2 DEF Underway
  <2>3. Cardinality(inTx) \in Nat /\ Cardinality(Underway) \in Nat
    BY FS_CardinalityType DEF PoolRight, ConnectionsFit
  <2> QED
    BY <1>1, <2>1, <2>2, <2>3, PoolConstants DEF PoolRight, ConnectionsFit, Free
<1>10. RequestRight(r)'
  <2>1. r \in inTx' /\ Quiet(r)'
    BY <1>1, <1>2, <1>3 DEF Quiet
  <2> QED
    BY <1>2, <1>5, <1>6, <1>8, <2>1 DEF RequestRight
<1>11. ASSUME NEW q \in Requests, q # r PROVE RequestRight(q)'
  BY <1>1, <1>2, <1>6, <1>11, OthersAreLeft DEF PoolRight
<1> QED
  BY <1>7, <1>9, <1>10, <1>11 DEF PoolRight

LEMMA RunOnTxKeepsPool ==
    ASSUME PoolRight, NEW r \in Requests, RunOnTx(r)
    PROVE  PoolRight'
<1>1. StepDone(r)
  BY DEF RunOnTx
<1>2. UNCHANGED inTx /\ UNCHANGED awaited /\ UNCHANGED reading /\ UNCHANGED keyHeld
  BY DEF RunOnTx
<1>3. Busy(r) /\ ~work[r].failed /\ Quiet(r) /\ StepOf(r).on = "tx"
  BY DEF RunOnTx, NextIs
<1> DEFINE c == work[r].call
           n == work[r].done
<1>4. /\ work[r] \in Work /\ c \in Calls /\ n \in Nat
      /\ StepRight(c, n, Len(Script(c)), StepOf(r))
  BY <1>3, GoesOnRight
<1>5. n + 1 < Len(Script(c)) /\ LocksOf(c, n + 1) = LocksOf(c, n)
      /\ (Inside(c, n + 1) <=> Inside(c, n))
  BY <1>3, <1>4 DEF StepRight
<1>6. /\ work' \in [Requests -> Work \cup {Nothing}]
      /\ Busy(r)' /\ work'[r].call = c /\ ~work'[r].failed /\ work'[r].done = n + 1
      /\ \A q \in Requests : q # r => work'[q] = work[q]
  BY <1>1, <1>3, <1>4, OneStepOn DEF PoolRight
<1> HIDE DEF c, n
<1>7. PoolShape'
  BY <1>2, <1>6 DEF PoolRight, PoolShape
<1>8. (r \in inTx <=> Inside(c, n)) /\ \A k \in Keys : keyHeld[k] = r <=> k \in LocksOf(c, n)
  BY <1>3 DEF PoolRight, RequestRight, c, n
<1>9. ConnectionsFit'
  BY <1>2 DEF PoolRight, ConnectionsFit, Underway
<1>10. RequestRight(r)'
  <2>1. Quiet(r)'
    BY <1>2, <1>3 DEF Quiet
  <2> QED
    BY <1>2, <1>5, <1>6, <1>8, <2>1 DEF RequestRight
<1>11. ASSUME NEW q \in Requests, q # r PROVE RequestRight(q)'
  BY <1>2, <1>6, <1>11, OthersAreLeft DEF PoolRight
<1> QED
  BY <1>7, <1>9, <1>10, <1>11 DEF PoolRight

LEMMA AskClientKeepsPool ==
    ASSUME PoolRight, NEW r \in Requests, AskClient(r)
    PROVE  PoolRight'
<1>1. awaited' = [awaited EXCEPT ![r] = StepOf(r).reads]
  BY DEF AskClient
<1>2. UNCHANGED work /\ UNCHANGED inTx /\ UNCHANGED reading /\ UNCHANGED keyHeld
  BY DEF AskClient
<1>3. Busy(r) /\ ~work[r].failed /\ StepOf(r).on = "client"
  BY DEF AskClient, NextIs
<1>4. StepOf(r).reads \in Nat
  BY <1>3, GoesOnRight DEF StepRight
<1>5. PoolShape'
  BY <1>1, <1>2, <1>4 DEF PoolRight, PoolShape
<1>6. ConnectionsFit'
  BY <1>2 DEF PoolRight, ConnectionsFit, Underway
<1>7. RequestRight(r)'
  BY <1>2, <1>3 DEF PoolRight, RequestRight, Busy, StepOf
<1>8. ASSUME NEW q \in Requests, q # r PROVE RequestRight(q)'
  <2>1. awaited'[q] = awaited[q]
    BY <1>1, <1>8 DEF PoolRight, PoolShape
  <2> QED
    BY <1>2, <2>1, OthersAreLeft DEF PoolRight
<1> QED
  BY <1>5, <1>6, <1>7, <1>8 DEF PoolRight

LEMMA TakeConnectionKeepsPool ==
    ASSUME PoolRight, NEW r \in Requests, TakeConnection(r)
    PROVE  PoolRight'
<1>1. /\ awaited[r] > 0 /\ Free > 0
      /\ awaited' = [awaited EXCEPT ![r] = @ - 1] /\ reading' = [reading EXCEPT ![r] = @ + 1]
  BY DEF TakeConnection
<1>2. UNCHANGED work /\ UNCHANGED inTx /\ UNCHANGED keyHeld
  BY DEF TakeConnection
<1>3. awaited[r] \in Nat /\ reading[r] \in Nat
  BY DEF PoolRight, PoolShape
<1>4. PoolShape'
  BY <1>1, <1>2, <1>3 DEF PoolRight, PoolShape
<1>5. ConnectionsFit'
  <2>1. /\ <<r, reading[r] + 1>> \notin Underway
        /\ Underway' = Underway \cup {<<r, reading[r] + 1>>}
    BY <1>1, ReadMore DEF PoolRight, PoolShape
  <2>2. IsFiniteSet(Underway') /\ Cardinality(Underway') = Cardinality(Underway) + 1
    BY <2>1, OneIn DEF PoolRight, ConnectionsFit
  <2>3. Cardinality(inTx) \in Nat /\ Cardinality(Underway) \in Nat
    BY FS_CardinalityType DEF PoolRight, ConnectionsFit
  <2> QED
    BY <1>1, <1>2, <2>2, <2>3, PoolConstants DEF PoolRight, ConnectionsFit, Free
<1>6. RequestRight(r)'
  <2>1. ~Quiet(r)
    BY <1>1, <1>3 DEF Quiet
  <2> QED
    BY <1>2, <2>1 DEF PoolRight, RequestRight, Busy, StepOf
<1>7. ASSUME NEW q \in Requests, q # r PROVE RequestRight(q)'
  <2>1. awaited'[q] = awaited[q] /\ reading'[q] = reading[q]
    BY <1>1, <1>7 DEF PoolRight, PoolShape
  <2> QED
    BY <1>2, <2>1, OthersAreLeft DEF PoolRight
<1> QED
  BY <1>4, <1>5, <1>6, <1>7 DEF PoolRight

LEMMA FinishReadKeepsPool ==
    ASSUME PoolRight, NEW r \in Requests, FinishRead(r)
    PROVE  PoolRight'
<1>1. reading[r] > 0 /\ reading' = [reading EXCEPT ![r] = @ - 1]
  BY DEF FinishRead
<1>2. UNCHANGED inTx /\ UNCHANGED awaited /\ UNCHANGED keyHeld
  BY DEF FinishRead
<1>3. awaited[r] \in Nat /\ reading[r] \in Nat
  BY DEF PoolRight, PoolShape
<1>4. Busy(r)
  BY <1>1 DEF PoolRight, RequestRight, Quiet
<1>5. /\ awaited' \in [Requests -> Nat] /\ reading' \in [Requests -> Nat]
      /\ keyHeld' \in [Keys -> Requests \cup {Nothing}] /\ inTx' \subseteq Requests
  BY <1>1, <1>2, <1>3 DEF PoolRight, PoolShape
<1>6. ConnectionsFit'
  <2>1. /\ <<r, reading[r]>> \in Underway
        /\ Underway' = Underway \ {<<r, reading[r]>>}
    BY <1>1, ReadLess DEF PoolRight, PoolShape
  <2>2. IsFiniteSet(Underway') /\ Cardinality(Underway') = Cardinality(Underway) - 1
    BY <2>1, OneOut DEF PoolRight, ConnectionsFit
  <2>3. Cardinality(inTx) \in Nat /\ Cardinality(Underway) \in Nat
    BY FS_CardinalityType DEF PoolRight, ConnectionsFit
  <2> QED
    BY <1>2, <2>2, <2>3, PoolConstants DEF PoolRight, ConnectionsFit
<1>7. CASE awaited[r] = 0 /\ reading[r] = 1 /\ ~work[r].failed
  <2>1. StepDone(r)
    BY <1>7 DEF FinishRead
  <2>2. StepOf(r).on = "client"
    BY <1>1, <1>4, <1>7 DEF PoolRight, RequestRight, Quiet
  <2> DEFINE c == work[r].call
             n == work[r].done
  <2>3. /\ work[r] \in Work /\ c \in Calls /\ n \in Nat
        /\ StepRight(c, n, Len(Script(c)), StepOf(r))
    BY <1>4, <1>7, GoesOnRight
  <2>4. n + 1 < Len(Script(c)) /\ LocksOf(c, n + 1) = LocksOf(c, n)
        /\ (Inside(c, n + 1) <=> Inside(c, n))
    BY <2>2, <2>3 DEF StepRight
  <2>5. /\ work' \in [Requests -> Work \cup {Nothing}]
        /\ Busy(r)' /\ work'[r].call = c /\ ~work'[r].failed /\ work'[r].done = n + 1
        /\ \A q \in Requests : q # r => work'[q] = work[q]
    BY <1>7, <2>1, <2>3, OneStepOn DEF PoolRight
  <2> HIDE DEF c, n
  <2>6. (r \in inTx <=> Inside(c, n)) /\ \A k \in Keys : keyHeld[k] = r <=> k \in LocksOf(c, n)
    BY <1>4, <1>7 DEF PoolRight, RequestRight, c, n
  <2>7. reading'[r] = 0
    BY <1>1, <1>7 DEF PoolRight, PoolShape
  <2>8. RequestRight(r)'
    <3>1. Quiet(r)'
      BY <1>2, <1>7, <2>7 DEF Quiet
    <3> QED
      BY <1>2, <2>4, <2>5, <2>6, <3>1 DEF RequestRight
  <2>9. ASSUME NEW q \in Requests, q # r PROVE RequestRight(q)'
    <3>1. reading'[q] = reading[q]
      BY <1>1, <2>9 DEF PoolRight, PoolShape
    <3> QED
      BY <1>2, <2>5, <2>9, <3>1, OthersAreLeft DEF PoolRight
  <2> QED
    BY <1>5, <1>6, <2>5, <2>8, <2>9 DEF PoolRight, PoolShape
<1>8. CASE ~(awaited[r] = 0 /\ reading[r] = 1 /\ ~work[r].failed)
  <2>1. UNCHANGED work
    BY <1>8 DEF FinishRead
  <2>2. ~Quiet(r)
    BY <1>1, <1>3 DEF Quiet
  <2>3. RequestRight(r)'
    BY <1>2, <1>4, <2>1, <2>2 DEF PoolRight, RequestRight, Busy, StepOf
  <2>4. ASSUME NEW q \in Requests, q # r PROVE RequestRight(q)'
    <3>1. reading'[q] = reading[q]
      BY <1>1, <2>4 DEF PoolRight, PoolShape
    <3> QED
      BY <1>2, <2>1, <3>1, OthersAreLeft DEF PoolRight
  <2> QED
    BY <1>5, <1>6, <2>1, <2>3, <2>4 DEF PoolRight, PoolShape
<1> QED
  BY <1>7, <1>8

\* Taking a lock that is free, waited for or tried.
LEMMA LockTakenKeepsPool ==
    ASSUME PoolRight, NEW r \in Requests, Busy(r), ~work[r].failed, Quiet(r),
           StepOf(r).on \in {"lock", "try"}, keyHeld[StepOf(r).key] = Nothing,
           keyHeld' = [keyHeld EXCEPT ![StepOf(r).key] = r], StepDone(r),
           UNCHANGED inTx, UNCHANGED awaited, UNCHANGED reading
    PROVE  PoolRight'
<1> DEFINE c == work[r].call
           n == work[r].done
           key == StepOf(r).key
<1>1. /\ work[r] \in Work /\ c \in Calls /\ n \in Nat
      /\ StepRight(c, n, Len(Script(c)), StepOf(r))
  BY GoesOnRight
<1>2. /\ n + 1 < Len(Script(c)) /\ key \in Keys
      /\ LocksOf(c, n + 1) = LocksOf(c, n) \cup {key}
      /\ (Inside(c, n + 1) <=> Inside(c, n))
  BY <1>1 DEF StepRight
<1>3. /\ work' \in [Requests -> Work \cup {Nothing}]
      /\ Busy(r)' /\ work'[r].call = c /\ ~work'[r].failed /\ work'[r].done = n + 1
      /\ \A q \in Requests : q # r => work'[q] = work[q]
  BY <1>1, OneStepOn DEF PoolRight
<1>4. (r \in inTx <=> Inside(c, n)) /\ \A k \in Keys : keyHeld[k] = r <=> k \in LocksOf(c, n)
  BY DEF PoolRight, RequestRight
<1>5. keyHeld[key] = Nothing /\ keyHeld' = [keyHeld EXCEPT ![key] = r]
  OBVIOUS
<1> HIDE DEF c, n, key
<1>6. PoolShape'
  BY <1>2, <1>3, <1>5 DEF PoolRight, PoolShape
<1>7. ConnectionsFit'
  BY DEF PoolRight, ConnectionsFit, Underway
<1>8. \A k \in Keys : keyHeld'[k] = IF k = key THEN r ELSE keyHeld[k]
  BY <1>5 DEF PoolRight, PoolShape
<1>9. RequestRight(r)'
  <2>1. Quiet(r)'
    BY DEF Quiet
  <2>2. \A k \in Keys : keyHeld'[k] = r <=> k \in LocksOf(c, n + 1)
    BY <1>2, <1>4, <1>8
  <2> QED
    BY <1>2, <1>3, <1>4, <2>1, <2>2 DEF RequestRight
<1>10. ASSUME NEW q \in Requests, q # r PROVE RequestRight(q)'
  <2>1. \A k \in Keys : keyHeld'[k] = q <=> keyHeld[k] = q
    BY <1>5, <1>8, <1>10, RequestConstants
  <2> QED
    BY <1>3, <1>10, <2>1, OthersAreLeft DEF PoolRight
<1> QED
  BY <1>6, <1>7, <1>9, <1>10 DEF PoolRight

LEMMA TakeLockKeepsPool ==
    ASSUME PoolRight, NEW r \in Requests, TakeLock(r)
    PROVE  PoolRight'
BY LockTakenKeepsPool DEF TakeLock, NextIs

LEMMA OneFewerInTx ==
    ASSUME ConnectionsFit, NEW r, inTx' = inTx \ {r}, UNCHANGED reading
    PROVE  ConnectionsFit'
<1>1. IsFiniteSet(inTx') /\ Cardinality(inTx') <= Cardinality(inTx)
  BY NotMore DEF ConnectionsFit
<1>2. Underway' = Underway
  BY DEF Underway
<1>3. /\ Cardinality(inTx) \in Nat /\ Cardinality(inTx') \in Nat
      /\ Cardinality(Underway) \in Nat
  BY <1>1, FS_CardinalityType DEF ConnectionsFit
<1> QED
  BY <1>1, <1>2, <1>3, PoolConstants DEF ConnectionsFit

LEMMA TryLockKeepsPool ==
    ASSUME PoolRight, NEW r \in Requests, TryLock(r)
    PROVE  PoolRight'
<1>1. Busy(r) /\ ~work[r].failed /\ Quiet(r) /\ StepOf(r).on = "try"
  BY DEF TryLock, NextIs
<1>2. UNCHANGED awaited /\ UNCHANGED reading
  BY DEF TryLock
<1>3. CASE keyHeld[StepOf(r).key] = Nothing
  BY <1>1, <1>2, <1>3, LockTakenKeepsPool DEF TryLock
<1>4. CASE keyHeld[StepOf(r).key] # Nothing
  <2>1. /\ inTx' = inTx \ {r} /\ work' = [work EXCEPT ![r].done = @ - 1]
        /\ UNCHANGED keyHeld
    BY <1>4 DEF TryLock
  <2> DEFINE c == work[r].call
             n == work[r].done
  <2>2. /\ work[r] \in Work /\ c \in Calls /\ n \in Nat /\ n < Len(Script(c))
        /\ StepRight(c, n, Len(Script(c)), StepOf(r))
    BY <1>1, GoesOnRight
  <2>3. n > 0 /\ ~Inside(c, n - 1) /\ LocksOf(c, n) = {} /\ LocksOf(c, n - 1) = {}
    BY <1>1, <2>2 DEF StepRight
  <2>4. n - 1 \in Nat
    BY <2>2, <2>3
  <2>5. /\ work' = [work EXCEPT ![r] = [call |-> c, done |-> n - 1, failed |-> work[r].failed]]
        /\ [call |-> c, done |-> n - 1, failed |-> work[r].failed] \in Work
    <3>1. work[r] = [call |-> c, done |-> n, failed |-> work[r].failed]
      BY <2>2 DEF Work
    <3>2. [work[r] EXCEPT !.done = @ - 1] = [call |-> c, done |-> n - 1, failed |-> work[r].failed]
      BY <2>2 DEF Work
    <3>3. work' = [work EXCEPT ![r] = [work[r] EXCEPT !.done = @ - 1]]
      BY <2>1
    <3>4. [call |-> c, done |-> n - 1, failed |-> work[r].failed] \in Work
      BY <2>2, <2>4 DEF Work
    <3> QED
      BY <3>2, <3>3, <3>4
  <2>6. /\ work' \in [Requests -> Work \cup {Nothing}]
        /\ work'[r].call = c /\ ~work'[r].failed /\ work'[r].done = n - 1
        /\ work'[r] \in Work
        /\ \A q \in Requests : q # r => work'[q] = work[q]
    BY <1>1, <2>5 DEF PoolRight, PoolShape
  <2>7. \A k \in Keys : keyHeld[k] = r <=> k \in LocksOf(c, n)
    BY <1>1 DEF PoolRight, RequestRight
  <2>8. Len(Script(c)) > n - 1
    <3>1. Len(Script(c)) \in Nat
      BY <2>2, ViewIs, AddIs, PlaceIs, AdjustIs DEF Calls
    <3> QED
      BY <2>2, <3>1
  <2> HIDE DEF c, n
  <2>9. PoolShape'
    BY <1>2, <2>1, <2>6 DEF PoolRight, PoolShape
  <2>10. ConnectionsFit'
    BY <1>2, <2>1, OneFewerInTx DEF PoolRight
  <2>11. RequestRight(r)'
    <3>1. Quiet(r)' /\ r \notin inTx'
      BY <1>1, <1>2, <2>1 DEF Quiet
    <3>2. Busy(r)'
      BY <2>6, PoolConstants DEF Busy
    <3> QED
      BY <2>1, <2>3, <2>6, <2>7, <2>8, <3>1, <3>2 DEF RequestRight
  <2>12. ASSUME NEW q \in Requests, q # r PROVE RequestRight(q)'
    BY <1>2, <2>1, <2>6, <2>12, OthersAreLeft DEF PoolRight
  <2> QED
    BY <2>9, <2>10, <2>11, <2>12 DEF PoolRight
<1> QED
  BY <1>3, <1>4

\* What a transaction lets go of when it ends.
LEMMA LetGo ==
    ASSUME PoolShape, NEW r \in Requests, Lets(r)
    PROVE  /\ keyHeld' \in [Keys -> Requests \cup {Nothing}]
           /\ \A k \in Keys : keyHeld'[k] # r
           /\ \A q \in Requests, k \in Keys : q # r => (keyHeld'[k] = q <=> keyHeld[k] = q)
BY RequestConstants DEF Lets, PoolShape

LEMMA CommitTxKeepsPool ==
    ASSUME PoolRight, NEW r \in Requests, CommitTx(r)
    PROVE  PoolRight'
<1>1. Quiet(r) /\ inTx' = inTx \ {r} /\ Lets(r) /\ work' = [work EXCEPT ![r] = Nothing]
  BY DEF CommitTx, NextIs
<1>2. UNCHANGED awaited /\ UNCHANGED reading
  BY DEF CommitTx
<1>3. /\ keyHeld' \in [Keys -> Requests \cup {Nothing}]
      /\ \A k \in Keys : keyHeld'[k] # r
      /\ \A q \in Requests, k \in Keys : q # r => (keyHeld'[k] = q <=> keyHeld[k] = q)
  BY <1>1, LetGo DEF PoolRight
<1>4. PoolShape'
  BY <1>1, <1>2, <1>3 DEF PoolRight, PoolShape
<1>5. ConnectionsFit'
  BY <1>1, <1>2, OneFewerInTx DEF PoolRight
<1>6. RequestRight(r)'
  <2>1. work'[r] = Nothing /\ Quiet(r)' /\ r \notin inTx'
    BY <1>1, <1>2 DEF PoolRight, PoolShape, Quiet
  <2> QED
    BY <1>3, <2>1 DEF RequestRight, Busy
<1>7. ASSUME NEW q \in Requests, q # r PROVE RequestRight(q)'
  BY <1>1, <1>2, <1>3, <1>7, OthersAreLeft DEF PoolRight, PoolShape
<1> QED
  BY <1>4, <1>5, <1>6, <1>7 DEF PoolRight

LEMMA ExpireKeepsPool ==
    ASSUME PoolRight, NEW r \in Requests, Expire(r)
    PROVE  PoolRight'
<1>1. r \in inTx /\ inTx' = inTx \ {r} /\ Lets(r) /\ work' = [work EXCEPT ![r].failed = TRUE]
  BY DEF Expire
<1>2. UNCHANGED awaited /\ UNCHANGED reading
  BY DEF Expire
<1>3. /\ keyHeld' \in [Keys -> Requests \cup {Nothing}]
      /\ \A k \in Keys : keyHeld'[k] # r
      /\ \A q \in Requests, k \in Keys : q # r => (keyHeld'[k] = q <=> keyHeld[k] = q)
  BY <1>1, LetGo DEF PoolRight
<1>4. Busy(r) /\ work[r].done < Len(Script(work[r].call))
  BY <1>1 DEF PoolRight, RequestRight
<1> DEFINE w == [work[r] EXCEPT !.failed = TRUE]
<1>5. w \in Work /\ w.call = work[r].call /\ w.done = work[r].done /\ w.failed = TRUE
  <2>1. work[r] \in Work
    BY <1>4 DEF PoolRight, PoolShape, Busy
  <2> QED
    BY <2>1 DEF Work
<1>6. work' = [work EXCEPT ![r] = w]
  BY <1>1
<1> HIDE DEF w
<1>7. /\ work' \in [Requests -> Work \cup {Nothing}] /\ work'[r] = w
      /\ \A q \in Requests : q # r => work'[q] = work[q]
  BY <1>5, <1>6 DEF PoolRight, PoolShape
<1>8. PoolShape'
  BY <1>1, <1>2, <1>3, <1>7 DEF PoolRight, PoolShape
<1>9. ConnectionsFit'
  BY <1>1, <1>2, OneFewerInTx DEF PoolRight
<1>10. RequestRight(r)'
  <2>1. r \notin inTx' /\ Busy(r)'
    BY <1>1, <1>5, <1>7, PoolConstants DEF Busy
  <2> QED
    BY <1>3, <1>4, <1>5, <1>7, <2>1 DEF RequestRight
<1>11. ASSUME NEW q \in Requests, q # r PROVE RequestRight(q)'
  BY <1>1, <1>2, <1>3, <1>7, <1>11, OthersAreLeft DEF PoolRight
<1> QED
  BY <1>8, <1>9, <1>10, <1>11 DEF PoolRight

LEMMA FailKeepsPool ==
    ASSUME PoolRight, NEW r \in Requests, Fail(r)
    PROVE  PoolRight'
<1>1. Busy(r) /\ work[r].failed /\ Quiet(r) /\ work' = [work EXCEPT ![r] = Nothing]
  BY DEF Fail
<1>2. UNCHANGED inTx /\ UNCHANGED awaited /\ UNCHANGED reading /\ UNCHANGED keyHeld
  BY DEF Fail
<1>3. PoolShape'
  BY <1>1, <1>2 DEF PoolRight, PoolShape
<1>4. ConnectionsFit'
  BY <1>2 DEF PoolRight, ConnectionsFit, Underway
<1>5. RequestRight(r)'
  <2>1. work'[r] = Nothing /\ Quiet(r)'
    BY <1>1, <1>2 DEF PoolRight, PoolShape, Quiet
  <2> QED
    BY <1>1, <1>2, <2>1 DEF PoolRight, RequestRight, Busy
<1>6. ASSUME NEW q \in Requests, q # r PROVE RequestRight(q)'
  BY <1>1, <1>2, <1>6, OthersAreLeft DEF PoolRight, PoolShape
<1> QED
  BY <1>3, <1>4, <1>5, <1>6 DEF PoolRight

LEMMA PoolStaysRight == PoolRight /\ [PoolNext]_poolRows => PoolRight'
<1> SUFFICES ASSUME PoolRight, [PoolNext]_poolRows PROVE PoolRight'
  OBVIOUS
<1>1. ASSUME NEW r \in Requests, Call(r) PROVE PoolRight'
  BY <1>1, CallKeepsPool
<1>2. ASSUME NEW r \in Requests, BeginTx(r) PROVE PoolRight'
  BY <1>2, BeginTxKeepsPool
<1>3. ASSUME NEW r \in Requests, RunOnTx(r) PROVE PoolRight'
  BY <1>3, RunOnTxKeepsPool
<1>4. ASSUME NEW r \in Requests, AskClient(r) PROVE PoolRight'
  BY <1>4, AskClientKeepsPool
<1>5. ASSUME NEW r \in Requests, TakeConnection(r) PROVE PoolRight'
  BY <1>5, TakeConnectionKeepsPool
<1>6. ASSUME NEW r \in Requests, FinishRead(r) PROVE PoolRight'
  BY <1>6, FinishReadKeepsPool
<1>7. ASSUME NEW r \in Requests, TakeLock(r) PROVE PoolRight'
  BY <1>7, TakeLockKeepsPool
<1>8. ASSUME NEW r \in Requests, TryLock(r) PROVE PoolRight'
  BY <1>8, TryLockKeepsPool
<1>9. ASSUME NEW r \in Requests, CommitTx(r) PROVE PoolRight'
  BY <1>9, CommitTxKeepsPool
<1>10. ASSUME NEW r \in Requests, Expire(r) PROVE PoolRight'
  BY <1>10, ExpireKeepsPool
<1>11. ASSUME NEW r \in Requests, Fail(r) PROVE PoolRight'
  BY <1>11, FailKeepsPool
<1>12. ASSUME UNCHANGED poolRows PROVE PoolRight'
  <2>1. /\ UNCHANGED work /\ UNCHANGED inTx /\ UNCHANGED awaited /\ UNCHANGED reading
        /\ UNCHANGED keyHeld
    BY <1>12 DEF poolRows
  <2> QED
    BY <2>1 DEF PoolRight, PoolShape, ConnectionsFit, Underway, RequestRight, Busy, Quiet, StepOf
<1> QED
  BY <1>1, <1>2, <1>3, <1>4, <1>5, <1>6, <1>7, <1>8, <1>9, <1>10, <1>11, <1>12 DEF PoolNext

-----------------------------------------------------------------------------
(* Who starves *)

LEMMA ReadsUnderWay ==
    ASSUME reading \in [Requests -> Nat], \A r \in Requests : reading[r] = 0
    PROVE  Underway = {}
BY DEF Underway

\* Somebody in a transaction, when nobody can go on, waits for a read of a
\* basket, or for a lock of somebody else in a transaction.
LEMMA WaitsOnLocks ==
    ASSUME PoolRight, NEW r \in Requests, ~CanGoOn(r), Busy(r), ~work[r].failed, Quiet(r),
           r \in inTx \/ Free > 0
    PROVE  /\ StepOf(r).on = "lock" /\ StepOf(r).key \in Keys
           /\ keyHeld[StepOf(r).key] \in inTx
<1>1. \/ StepOf(r).on = "begin" /\ ~(Free > 0)
      \/ StepOf(r).on = "lock" /\ keyHeld[StepOf(r).key] # Nothing
  BY DEF CanGoOn
<1>2. StepRight(work[r].call, work[r].done, Len(Script(work[r].call)), StepOf(r))
  BY GoesOnRight
<1>3. r \in inTx <=> Inside(work[r].call, work[r].done)
  BY DEF PoolRight, RequestRight
<1>4. StepOf(r).on = "lock"
  BY <1>1, <1>2, <1>3 DEF StepRight
<1>5. StepOf(r).key \in Keys
  BY <1>2, <1>4 DEF StepRight
<1> DEFINE q == keyHeld[StepOf(r).key]
<1>6. q \in Requests
  BY <1>1, <1>4, <1>5 DEF PoolRight, PoolShape
<1>7. Busy(q) /\ ~work[q].failed
  BY <1>5, <1>6 DEF PoolRight, RequestRight
<1>8. /\ StepOf(r).key \in LocksOf(work[q].call, work[q].done)
      /\ q \in inTx <=> Inside(work[q].call, work[q].done)
  BY <1>5, <1>6, <1>7 DEF PoolRight, RequestRight
<1>9. Inside(work[q].call, work[q].done)
  BY <1>6, <1>7, <1>8, GoesOnRight DEF StepRight
<1> QED
  BY <1>4, <1>5, <1>8, <1>9

\* Waiting for reads inside a transaction is something only baskets do.
LEMMA ReadersAreBaskets ==
    ASSUME PoolRight, NEW r \in inTx, awaited[r] > 0
    PROVE  work[r].call # "adjust"
<1>1. r \in Requests /\ awaited[r] \in Nat
  BY DEF PoolRight, PoolShape
<1>2. Busy(r) /\ ~work[r].failed
  BY <1>1 DEF PoolRight, RequestRight
<1>3. StepOf(r).on = "client"
  BY <1>1, <1>2 DEF PoolRight, RequestRight, Quiet
<1> QED
  BY <1>1, <1>2, <1>3, GoesOnRight DEF StepRight

\* Whoever holds the items' lock waits for no lock; whoever holds the cart's waits
\* at most for the items'.
LEMMA ItemsAreLast ==
    ASSUME PoolRight, NEW r \in Requests, Busy(r), ~work[r].failed, StepOf(r).on = "lock"
    PROVE  /\ keyHeld["item"] # r
           /\ StepOf(r).key # "item" => StepOf(r).key = "cart" /\ keyHeld["cart"] # r
<1>1. \/ /\ StepOf(r).key = "cart"
         /\ "cart" \notin LocksOf(work[r].call, work[r].done)
         /\ "item" \notin LocksOf(work[r].call, work[r].done)
      \/ /\ StepOf(r).key = "item"
         /\ "item" \notin LocksOf(work[r].call, work[r].done)
  BY GoesOnRight DEF StepRight
<1>2. \A k \in {"cart", "item"} : keyHeld[k] = r <=> k \in LocksOf(work[r].call, work[r].done)
  BY DEF PoolRight, RequestRight, Keys
<1> QED
  BY <1>1, <1>2

LEMMA StarvedForReads ==
    ASSUME PoolRight, Starved
    PROVE  \E r \in inTx : awaited[r] > 0
<1> SUFFICES ASSUME \A r \in inTx : ~(awaited[r] > 0) PROVE FALSE
  OBVIOUS
<1>1. \A r \in Requests : awaited[r] \in Nat /\ reading[r] \in Nat
  BY DEF PoolRight, PoolShape
<1>2. \A r \in Requests : Busy(r) => ~(reading[r] > 0)
  BY DEF Starved, CanGoOn
<1>3. \A r \in inTx : r \in Requests /\ Busy(r) /\ ~work[r].failed
  BY DEF PoolRight, PoolShape, RequestRight
<1>4. \A r \in inTx : Quiet(r) /\ ~CanGoOn(r)
  BY <1>1, <1>2, <1>3 DEF Quiet, Starved
\* Everybody in a transaction waits for a lock of somebody in one...
<1>5. \A r \in inTx : /\ StepOf(r).on = "lock" /\ StepOf(r).key \in Keys
                      /\ keyHeld[StepOf(r).key] \in inTx
  BY <1>3, <1>4, WaitsOnLocks
<1>6. \A r \in inTx : /\ keyHeld["item"] # r
                      /\ StepOf(r).key # "item" =>
                           StepOf(r).key = "cart" /\ keyHeld["cart"] # r
  BY <1>3, <1>5, ItemsAreLast
\* ... which for the last lock is nobody, and so nobody is in a transaction
<1>7. inTx = {}
  <2>1. keyHeld["item"] \notin inTx
    BY <1>6
  <2>2. \A r \in inTx : StepOf(r).key = "cart" /\ keyHeld["cart"] # r /\ keyHeld["cart"] \in inTx
    BY <1>5, <1>6, <2>1
  <2> QED
    BY <2>2
\* Then every connection is free, and whoever is at work can go on.
<1>8. Underway = {}
  <2>1. \A r \in Requests : ~Busy(r) => reading[r] = 0
    BY DEF PoolRight, RequestRight, Quiet
  <2>2. \A r \in Requests : reading[r] = 0
    BY <1>1, <1>2, <2>1
  <2> QED
    BY <2>2, ReadsUnderWay DEF PoolRight, PoolShape
<1>9. Free > 0
  BY <1>7, <1>8, FS_EmptySet, PoolConstants DEF Free
<1>10. PICK r \in Requests : Busy(r)
  BY DEF Starved
<1>11. ~CanGoOn(r)
  BY DEF Starved
<1>12. Quiet(r) /\ ~work[r].failed
  BY <1>1, <1>9, <1>10, <1>11 DEF CanGoOn, Quiet
<1>13. keyHeld[StepOf(r).key] \in inTx
  BY <1>9, <1>10, <1>11, <1>12, WaitsOnLocks
<1> QED
  BY <1>7, <1>13

LEMMA RightPoolHolds == PoolRight => PoolInv
<1> SUFFICES ASSUME PoolRight PROVE PoolInv
  OBVIOUS
<1>1. Free \in 0..PoolSize
  <2>1. Cardinality(inTx) \in Nat /\ Cardinality(Underway) \in Nat
    BY FS_CardinalityType DEF PoolRight, ConnectionsFit
  <2> QED
    BY <2>1, PoolConstants DEF PoolRight, ConnectionsFit, Free
<1>2. ASSUME NEW k \in Keys, keyHeld[k] # Nothing PROVE keyHeld[k] \in inTx
  <2> DEFINE r == keyHeld[k]
  <2>1. r \in Requests
    BY <1>2 DEF PoolRight, PoolShape
  <2>2. Busy(r) /\ ~work[r].failed
    BY <2>1 DEF PoolRight, RequestRight
  <2>3. /\ k \in LocksOf(work[r].call, work[r].done)
        /\ r \in inTx <=> Inside(work[r].call, work[r].done)
    BY <2>1, <2>2 DEF PoolRight, RequestRight
  <2> QED
    BY <2>1, <2>2, <2>3, GoesOnRight DEF StepRight
<1>3. \A r \in Requests : Busy(r) => work[r].done < Len(Script(work[r].call))
  BY DEF PoolRight, RequestRight
<1>4. PoolTypes
  BY <1>1, <1>2, <1>3 DEF PoolTypes, PoolRight, PoolShape
<1>5. OnlyBasketsStarve
  BY StarvedForReads, ReadersAreBaskets DEF OnlyBasketsStarve
<1> QED
  BY <1>4, <1>5 DEF PoolInv

\* A connection is never given out twice, a lock is always somebody's whose
\* transaction is open, and when nobody can go on it is for the reads a basket asks
\* of the shared client inside its transaction (stores/service.ts:640-646).
THEOREM OnlyBasketsWaitForever == PoolSpec => []PoolInv
<1>1. PoolSpec => []PoolRight
  BY PoolStarts, PoolStaysRight, PTL DEF PoolSpec
<1> QED
  BY <1>1, RightPoolHolds, PTL

-----------------------------------------------------------------------------
\* What is kept for requests is kept for every request.
RequestTables ==
    /\ DOMAIN pc = Requests /\ DOMAIN job = Requests
    /\ DOMAIN caller = Requests /\ DOMAIN seen = Requests

OthersRest(r) ==
    \A q \in Requests \ {r} :
        /\ pc'[q] = pc[q] /\ job'[q] = job[q]
        /\ caller'[q] = caller[q] /\ seen'[q] = seen[q]

\* The three ways a request moves, each by itself.
LEMMA RequestStarts ==
    ASSUME RequestTables, NEW r \in Requests, NEW p, NEW j, NEW at, NEW s, Starts(r, p, j, at, s)
    PROVE  /\ RequestTables' /\ OthersRest(r) /\ pc[r] = "idle" /\ pc'[r] = at
           /\ job'[r] = j /\ caller'[r] = p /\ seen'[r] = s
BY DEF Starts, RequestTables, OthersRest

LEMMA RequestGoesOn ==
    ASSUME RequestTables, NEW r \in Requests, NEW at, NEW s, GoesOn(r, at, s)
    PROVE  /\ RequestTables' /\ OthersRest(r) /\ pc'[r] = at /\ seen'[r] = s
           /\ job'[r] = job[r] /\ caller'[r] = caller[r]
BY DEF GoesOn, RequestTables, OthersRest

LEMMA RequestAnswered ==
    ASSUME RequestTables, NEW r \in Requests, Answered(r)
    PROVE  /\ RequestTables' /\ OthersRest(r) /\ pc'[r] = "idle"
           /\ job'[r] = Nothing /\ caller'[r] = Nothing /\ seen'[r] = Nothing
BY DEF Answered, RequestTables, OthersRest

-----------------------------------------------------------------------------
(* Shoppers *)

\* What a request under way relies on: rows it signed up for or signed in to.
AccountRequest(r) ==
    /\ pc[r] \in {"idle", "hashed", "newEmail", "newPhone", "contact", "checked", "verified",
                  "changed", "cleared"}
    /\ pc[r] \in {"hashed", "newEmail", "newPhone", "contact"} => job[r] \in SignUps
    /\ pc[r] = "checked" => job[r].row \in Known /\ job[r].phone \in Phones
    /\ pc[r] \in {"verified", "changed", "cleared"} => HasPassword(job[r].row)

CustomerRows ==
    /\ customer \in [Rows -> Customers \cup {Nothing}]
    /\ \A c, d \in Known :
         c # d => /\ customer[c].phone # customer[d].phone
                  /\ customer[c].email # customer[d].email \/ customer[c].email = Nothing
    /\ \A c \in Known : customer[c].email = Nothing <=> customer[c].password = 0

\* A session has a row, a password, whether it was late and who has deleted it.
IsSession(s) ==
    s = [row |-> s.row, password |-> s.password, late |-> s.late, deletedBy |-> s.deletedBy]

AccountsRight ==
    /\ RequestTables /\ CustomerRows
    /\ \A s \in signedIn : IsSession(s) /\ HasPassword(s.row)
    /\ SessionsMatchPassword /\ ChangesAreWhole
    /\ \A r \in Requests : AccountRequest(r)

\* Rows and what a request or a session relies on last: a change of the rows
\* keeps every row, and with it its credentials if it has some.
Kept == \A c \in Known : c \in Known' /\ (HasPassword(c) => HasPassword(c)')

LEMMA AccountsInvHolds == AccountsRight => AccountsInv
  BY DEF AccountsRight, CustomerRows, AccountsInv

LEMMA AccountsStart == AccountsInit => AccountsRight
<1> SUFFICES ASSUME AccountsInit PROVE AccountsRight
  OBVIOUS
<1>1. RequestTables /\ \A r \in Requests : pc[r] = "idle"
  BY DEF AccountsInit, RequestsInit, RequestTables
<1>2. Known = {} /\ signedIn = {} /\ customer = [c \in Rows |-> Nothing]
  BY DEF AccountsInit, Known
<1>3. CustomerRows /\ SessionsMatchPassword /\ \A r \in Requests : AccountRequest(r)
  BY <1>1, <1>2 DEF CustomerRows, SessionsMatchPassword, AccountRequest
<1>4. ChangesAreWhole
  BY <1>1, <1>2 DEF ChangesAreWhole, Changing
<1> QED BY <1>1, <1>2, <1>3, <1>4 DEF AccountsRight

\* What a request relies on lasts while the rows do.
LEMMA RequestsKeep ==
    ASSUME AccountsRight, Kept, NEW q \in Requests,
           pc'[q] = pc[q], job'[q] = job[q], seen'[q] = seen[q]
    PROVE  AccountRequest(q)'
<1>1. AccountRequest(q)
  BY DEF AccountsRight
<1>2. pc[q] \in {"verified", "changed", "cleared"} => HasPassword(job[q].row)'
  BY <1>1 DEF AccountRequest, Kept, HasPassword
<1>3. pc[q] = "checked" => (job[q].row \in Known)'
  BY <1>1 DEF AccountRequest, Kept
<1> QED BY <1>1, <1>2, <1>3 DEF AccountRequest

\* Credentials stay where they are: what no step but a change of password breaks.
SameOwners ==
    \A c \in Rows :
        HasPassword(c) => /\ customer'[c] # Nothing
                          /\ customer'[c].email = customer[c].email
                          /\ customer'[c].password = customer[c].password

\* An insert takes a row nobody has, with a phone and an email nobody has.
LEMMA InsertKeeps ==
    ASSUME CustomerRows, NEW phone \in Phones, NEW email \in Emails \cup {Nothing},
           NEW password \in Nat, email = Nothing <=> password = 0,
           WithPhone(phone) = {}, email # Nothing => WithEmail(email) = {},
           Insert(phone, email, password)
    PROVE  CustomerRows' /\ SameOwners /\ Kept
<1>1. CASE UNCHANGED customer
  BY <1>1 DEF CustomerRows, SameOwners, Kept, Known, HasPassword
<1>2. CASE \E c \in Rows \ Known :
             customer' = [customer EXCEPT ![c] =
                            [phone |-> phone, email |-> email, password |-> password]]
  <2> DEFINE row == [phone |-> phone, email |-> email, password |-> password]
  <2>1. PICK c \in Rows \ Known : customer' = [customer EXCEPT ![c] = row]
    BY <1>2
  <2>2. /\ row \in Customers /\ row # Nothing
        /\ row.phone = phone /\ row.email = email /\ row.password = password
    BY AccountConstants DEF Customers
  <2> HIDE DEF row
  <2>3. /\ customer' \in [Rows -> Customers \cup {Nothing}] /\ customer'[c] = row
        /\ \A d \in Rows : d # c => customer'[d] = customer[d]
        /\ Known' = Known \cup {c}
    BY <2>1, <2>2 DEF CustomerRows, Known
  <2>4. \A d \in Known : customer[d].phone # phone
    BY DEF WithPhone
  <2>5. \A d \in Known : customer[d].email # email \/ email = Nothing
    BY DEF WithEmail
  <2>6. \A d, e \in Known' :
          d # e => /\ customer'[d].phone # customer'[e].phone
                   /\ customer'[d].email # customer'[e].email \/ customer'[d].email = Nothing
    BY <2>2, <2>3, <2>4, <2>5 DEF CustomerRows, Known
  <2>7. \A d \in Known' : customer'[d].email = Nothing <=> customer'[d].password = 0
    BY <2>2, <2>3 DEF CustomerRows, Known
  <2>8. SameOwners /\ Kept
    BY <2>1, <2>3 DEF SameOwners, Kept, HasPassword, Known
  <2> QED BY <2>3, <2>6, <2>7, <2>8 DEF CustomerRows
<1> QED BY <1>1, <1>2 DEF Insert

\* A claim is of contact rows, and of an email nobody has.
LEMMA ClaimKeeps ==
    ASSUME AccountsRight, NEW r \in Requests, Claim(r)
    PROVE  CustomerRows' /\ SameOwners /\ Kept
<1> DEFINE claimed == {c \in WithPhone(job[r].phone) :
                         StillContact(c) /\ WithEmail(job[r].email) = {}}
<1>1. /\ CustomerRows /\ job[r].email \in Emails /\ job[r].email # Nothing
  BY AccountConstants DEF Claim, AccountsRight, AccountRequest, SignUps
<1>2. customer' = [c \in Rows |-> IF c \in claimed
                                  THEN [customer[c] EXCEPT !.email = job[r].email, !.password = 1]
                                  ELSE customer[c]]
  BY DEF Claim
<1>3. \A c \in claimed : /\ c \in Known /\ customer[c].phone = job[r].phone
                         /\ customer[c].email = Nothing /\ customer[c].password = 0
                         /\ WithEmail(job[r].email) = {}
  BY DEF WithPhone, StillContact, IsContact
<1> HIDE DEF claimed
<1>4. \A c \in Known : customer[c] \in Customers /\ c \in Rows
  BY <1>1 DEF CustomerRows, Known
<1>5. ASSUME NEW c \in claimed
      PROVE  /\ customer'[c] \in Customers /\ customer'[c] # Nothing
             /\ customer'[c].phone = customer[c].phone
             /\ customer'[c].email = job[r].email /\ customer'[c].password = 1
  <2> DEFINE row == [customer[c] EXCEPT !.email = job[r].email, !.password = 1]
  <2>1. customer[c] \in Customers /\ customer'[c] = row
    BY <1>2, <1>3, <1>4
  <2>2. /\ row \in Customers /\ row.phone = customer[c].phone
        /\ row.email = job[r].email /\ row.password = 1
    BY <1>1, <2>1 DEF Customers
  <2>3. row # Nothing
    BY <2>2, AccountConstants
  <2> QED BY <2>1, <2>2, <2>3
<1>6. /\ DOMAIN customer' = Rows
      /\ \A c \in Rows : c \notin claimed => customer'[c] = customer[c]
  BY <1>2
<1>7. \A c \in Rows : customer'[c] \in Customers \cup {Nothing}
  BY <1>1, <1>5, <1>6 DEF CustomerRows
<1>8. customer' \in [Rows -> Customers \cup {Nothing}] /\ Known' = Known
  BY <1>1, <1>2, <1>3, <1>4, <1>5, <1>6, <1>7 DEF Known
<1>9. \A c, d \in claimed : c = d
  BY <1>1, <1>3 DEF CustomerRows
<1>10. \A c \in claimed : \A d \in Known : customer[d].email # job[r].email
  BY <1>3 DEF WithEmail
<1>11. \A c, d \in Known :
         c # d => /\ customer'[c].phone # customer'[d].phone
                  /\ customer'[c].email # customer'[d].email \/ customer'[c].email = Nothing
  BY <1>1, <1>3, <1>4, <1>5, <1>6, <1>9, <1>10 DEF CustomerRows
<1>12. \A c \in Known : customer'[c].email = Nothing <=> customer'[c].password = 0
  BY <1>1, <1>4, <1>5, <1>6 DEF CustomerRows
<1>13. SameOwners
  BY <1>3, <1>6 DEF SameOwners, HasPassword, Known
<1>14. Kept
  BY <1>4, <1>8, <1>13 DEF Kept, SameOwners, HasPassword
<1> QED BY <1>8, <1>11, <1>12, <1>13, <1>14 DEF CustomerRows

\* A number is saved while nobody else has it.
LEMMA ProfileKeeps ==
    ASSUME AccountsRight, NEW r \in Requests, SaveProfile(r)
    PROVE  CustomerRows' /\ SameOwners /\ Kept
<1> DEFINE c == job[r].row
           row == [customer[c] EXCEPT !.phone = job[r].phone]
<1>1. CustomerRows /\ c \in Known /\ job[r].phone \in Phones
  BY DEF SaveProfile, AccountsRight, AccountRequest
<1>2. CASE UNCHANGED customer
  BY <1>1, <1>2 DEF CustomerRows, SameOwners, Kept, Known, HasPassword
<1>3. CASE WithPhone(job[r].phone) \subseteq {c} /\ customer' = [customer EXCEPT ![c] = row]
  <2>1. c \in Rows /\ customer[c] \in Customers
    BY <1>1 DEF CustomerRows, Known
  <2>2. /\ row \in Customers /\ row # Nothing /\ row.phone = job[r].phone
        /\ row.email = customer[c].email /\ row.password = customer[c].password
    BY <1>1, <2>1, AccountConstants DEF Customers
  <2> HIDE DEF row, c
  <2>3. /\ customer' \in [Rows -> Customers \cup {Nothing}] /\ customer'[c] = row
        /\ \A d \in Rows : d # c => customer'[d] = customer[d]
        /\ Known' = Known
    BY <1>1, <1>3, <2>1, <2>2 DEF CustomerRows, Known
  <2>4. \A d \in Known : d # c => customer[d].phone # job[r].phone
    BY <1>3 DEF WithPhone
  <2>5. \A d, e \in Known :
          d # e => /\ customer'[d].phone # customer'[e].phone
                   /\ customer'[d].email # customer'[e].email \/ customer'[d].email = Nothing
    BY <1>1, <2>2, <2>3, <2>4 DEF CustomerRows, Known
  <2>6. \A d \in Known : customer'[d].email = Nothing <=> customer'[d].password = 0
    BY <1>1, <2>2, <2>3 DEF CustomerRows, Known
  <2>7. SameOwners /\ Kept
    BY <2>2, <2>3 DEF SameOwners, Kept, HasPassword, Known
  <2> QED BY <2>3, <2>5, <2>6, <2>7 DEF CustomerRows
<1> QED BY <1>2, <1>3 DEF SaveProfile

\* A password is changed on an account, and stays one.
LEMMA PasswordKeeps ==
    ASSUME AccountsRight, NEW r \in Requests, CommitPassword(r)
    PROVE  /\ CustomerRows' /\ Kept
           /\ \A d \in Rows : d # job[r].row => customer'[d] = customer[d]
           /\ customer'[job[r].row].email = customer[job[r].row].email
           /\ customer'[job[r].row] # Nothing
<1> DEFINE c == job[r].row
           row == [customer[c] EXCEPT !.password = customer[c].password + 1]
<1>1. CustomerRows /\ HasPassword(c) /\ customer' = [customer EXCEPT ![c] = row]
  BY DEF CommitPassword, AccountsRight, AccountRequest
<1>2. c \in Known /\ c \in Rows /\ customer[c] \in Customers /\ customer[c].password > 0
  BY <1>1 DEF CustomerRows, Known, HasPassword
<1>3. /\ row \in Customers /\ row # Nothing /\ row.phone = customer[c].phone
      /\ row.email = customer[c].email /\ row.password > 0 /\ row.password \in Nat
  BY <1>2, AccountConstants DEF Customers
<1> HIDE DEF row, c
<1>4. /\ customer' \in [Rows -> Customers \cup {Nothing}] /\ customer'[c] = row
      /\ \A d \in Rows : d # c => customer'[d] = customer[d]
      /\ Known' = Known
  BY <1>1, <1>2, <1>3 DEF CustomerRows, Known
<1>5. \A d, e \in Known :
        d # e => /\ customer'[d].phone # customer'[e].phone
                 /\ customer'[d].email # customer'[e].email \/ customer'[d].email = Nothing
  BY <1>1, <1>3, <1>4 DEF CustomerRows, Known
<1>6. \A d \in Known : customer'[d].email = Nothing <=> customer'[d].password = 0
  <2>1. ~(customer[c].email = Nothing) /\ ~(row.password = 0)
    BY <1>1, <1>2, <1>3 DEF CustomerRows, Customers
  <2> QED BY <1>1, <1>3, <1>4, <2>1 DEF CustomerRows, Known
<1>7. Kept
  BY <1>3, <1>4 DEF Kept, HasPassword, Known
<1> QED BY <1>3, <1>4, <1>5, <1>6, <1>7 DEF CustomerRows, c

\* Who has deleted a session is written next to what it is.
LEMMA SessionIsMarked ==
    ASSUME NEW s, IsSession(s), NEW who, NEW t, t = [s EXCEPT !.deletedBy = who]
    PROVE  /\ IsSession(t) /\ t.row = s.row /\ t.password = s.password
           /\ t.late = s.late /\ t.deletedBy = who
<1> DEFINE u == [row |-> s.row, password |-> s.password, late |-> s.late,
                 deletedBy |-> s.deletedBy]
<1>1. s = u
  BY DEF IsSession
<1>2. t = [u EXCEPT !.deletedBy = who]
  BY <1>1
<1>3. t = [row |-> s.row, password |-> s.password, late |-> s.late, deletedBy |-> who]
  BY <1>2
<1> QED BY <1>3 DEF IsSession

\* No change of password is begun or ended by a step that opens no session but a
\* late one under it.
LEMMA ChangesStay ==
    ASSUME AccountsRight,
           \A q \in Requests : \/ pc'[q] = pc[q] /\ job'[q] = job[q]
                              \/ {pc[q], pc'[q]} \cap {"changed", "cleared"} = {},
           \A s \in signedIn' :
               \/ s \in signedIn
               \/ /\ s.deletedBy = Nothing
                  /\ \A q \in Changing : pc[q] = "cleared" /\ s.row = job[q].row => s.late
    PROVE  ChangesAreWhole'
<1>1. Changing' = Changing /\ \A q \in Changing : pc'[q] = pc[q] /\ job'[q] = job[q]
  BY DEF Changing
<1>2. ChangesAreWhole
  BY DEF AccountsRight
<1>3. ASSUME NEW s \in signedIn', s.deletedBy # Nothing
      PROVE  /\ s.deletedBy \in Changing' /\ pc'[s.deletedBy] = "cleared"
             /\ job'[s.deletedBy].row = s.row
  BY <1>1, <1>2, <1>3 DEF ChangesAreWhole
<1>4. ASSUME NEW q \in Changing', NEW s \in signedIn', pc'[q] = "cleared", s.row = job'[q].row
      PROVE  s.late \/ s.deletedBy = q
  BY <1>1, <1>2, <1>4 DEF ChangesAreWhole
<1>5. \A p, q \in Changing' : job'[p].row = job'[q].row => p = q
  BY <1>1, <1>2 DEF ChangesAreWhole
<1> QED BY <1>3, <1>4, <1>5 DEF ChangesAreWhole

\* A step that leaves the rows or keeps every owner, and opens no session but
\* of an account, keeps the invariant.
LEMMA AccountsMove ==
    ASSUME AccountsRight, NEW r \in Requests, OthersRest(r), RequestTables', CustomerRows', Kept,
           SameOwners, signedIn' = signedIn, AccountRequest(r)',
           ChangesAreWhole' \/ {pc[r], pc'[r]} \cap {"changed", "cleared"} = {}
    PROVE  AccountsRight'
<1>0. ChangesAreWhole'
  BY ChangesStay DEF OthersRest
<1>1. \A q \in Requests : AccountRequest(q)'
  BY RequestsKeep DEF OthersRest
<1>2. ASSUME NEW s \in signedIn'
      PROVE  /\ IsSession(s) /\ HasPassword(s.row)'
             /\ s.late \/ customer'[s.row].password = s.password
  <2>1. s \in signedIn /\ HasPassword(s.row) /\ s.row \in Known /\ s.row \in Rows
    BY DEF AccountsRight, HasPassword, Known
  <2>2. HasPassword(s.row)'
    BY <2>1 DEF Kept
  <2> QED BY <2>1, <2>2 DEF AccountsRight, SessionsMatchPassword, SameOwners
<1> QED BY <1>0, <1>1, <1>2 DEF AccountsRight, SessionsMatchPassword

\* Nothing is asked of the rows by a step that leaves them alone.
LEMMA RowsLeftAlone ==
    ASSUME AccountsRight, UNCHANGED customer
    PROVE  CustomerRows' /\ Kept /\ SameOwners
BY DEF AccountsRight, CustomerRows, Kept, SameOwners, HasPassword, Known

\* A change begins when no other holds the row.
LEMMA RowIsChanged ==
    ASSUME AccountsRight, NEW r \in Requests, ChangeRow(r)
    PROVE  AccountsRight'
<1>1. /\ GoesOn(r, "changed", Nothing) /\ UNCHANGED <<customer, signedIn>>
      /\ pc[r] = "verified" /\ \A q \in Changing : job[q].row # job[r].row
  BY DEF ChangeRow, Locked
<1>2. /\ RequestTables' /\ OthersRest(r) /\ pc'[r] = "changed" /\ job'[r] = job[r]
  BY <1>1, RequestGoesOn DEF AccountsRight
<1>3. CustomerRows' /\ Kept /\ SameOwners
  BY <1>1, RowsLeftAlone
<1>4. AccountRequest(r)'
  BY <1>1, <1>2, <1>3 DEF AccountRequest, AccountsRight, Kept, HasPassword
<1>5. /\ r \notin Changing /\ Changing' = Changing \cup {r}
      /\ \A q \in Changing : pc'[q] = pc[q] /\ job'[q] = job[q]
  BY <1>1, <1>2 DEF Changing, OthersRest
<1>6. ChangesAreWhole'
  <2>1. ChangesAreWhole
    BY DEF AccountsRight
  <2>2. ASSUME NEW s \in signedIn', s.deletedBy # Nothing
        PROVE  /\ s.deletedBy \in Changing' /\ pc'[s.deletedBy] = "cleared"
               /\ job'[s.deletedBy].row = s.row
    BY <1>1, <1>5, <2>1, <2>2 DEF ChangesAreWhole
  <2>3. ASSUME NEW q \in Changing', NEW s \in signedIn', pc'[q] = "cleared", s.row = job'[q].row
        PROVE  s.late \/ s.deletedBy = q
    BY <1>1, <1>2, <1>5, <2>1, <2>3 DEF ChangesAreWhole
  <2>4. \A p, q \in Changing' : job'[p].row = job'[q].row => p = q
    BY <1>1, <1>2, <1>5, <2>1 DEF ChangesAreWhole
  <2> QED BY <2>2, <2>3, <2>4 DEF ChangesAreWhole
<1> QED BY <1>1, <1>2, <1>3, <1>4, <1>6, AccountsMove

\* It deletes every session of the row, and of no other.
LEMMA SessionsAreDeleted ==
    ASSUME AccountsRight, NEW r \in Requests, DeleteSessions(r)
    PROVE  AccountsRight'
<1>1. /\ GoesOn(r, "cleared", Nothing) /\ UNCHANGED customer /\ pc[r] = "changed"
      /\ signedIn' = {IF s.row = job[r].row THEN [s EXCEPT !.deletedBy = r] ELSE s :
                         s \in signedIn}
  BY DEF DeleteSessions
<1>2. /\ RequestTables' /\ OthersRest(r) /\ pc'[r] = "cleared" /\ job'[r] = job[r]
  BY <1>1, RequestGoesOn DEF AccountsRight
<1>3. CustomerRows' /\ Kept /\ SameOwners
  BY <1>1, RowsLeftAlone
<1>4. /\ Changing' = Changing /\ r \in Changing
      /\ \A q \in Changing : job'[q] = job[q] /\ (q # r => pc'[q] = pc[q])
  BY <1>1, <1>2 DEF Changing, OthersRest
<1>5. \A q \in Requests : AccountRequest(q)'
  <2>1. AccountRequest(r)'
    BY <1>1, <1>2, <1>3 DEF AccountRequest, AccountsRight, Kept, HasPassword
  <2> QED BY <1>2, <1>3, <2>1, RequestsKeep DEF OthersRest
<1>6. \A t \in signedIn' : \E s \in signedIn :
         /\ IsSession(t) /\ t.row = s.row /\ t.password = s.password /\ t.late = s.late
         /\ t.row = job[r].row => t.deletedBy = r
         /\ t.row # job[r].row => t.deletedBy = s.deletedBy
  <2> SUFFICES ASSUME NEW t \in signedIn'
               PROVE  \E s \in signedIn :
                        /\ IsSession(t) /\ t.row = s.row /\ t.password = s.password
                        /\ t.late = s.late
                        /\ t.row = job[r].row => t.deletedBy = r
                        /\ t.row # job[r].row => t.deletedBy = s.deletedBy
    OBVIOUS
  <2>1. PICK s \in signedIn : t = IF s.row = job[r].row THEN [s EXCEPT !.deletedBy = r] ELSE s
    BY <1>1
  <2>2. IsSession(s)
    BY DEF AccountsRight
  <2> QED BY <2>1, <2>2, SessionIsMarked
<1>7. ASSUME NEW t \in signedIn'
      PROVE  /\ IsSession(t) /\ HasPassword(t.row)'
             /\ t.late \/ customer'[t.row].password = t.password
  BY <1>1, <1>6 DEF AccountsRight, SessionsMatchPassword, HasPassword, Known
<1>8. ChangesAreWhole'
  <2>1. ChangesAreWhole
    BY DEF AccountsRight
  <2>2. ASSUME NEW t \in signedIn', t.deletedBy # Nothing
        PROVE  /\ t.deletedBy \in Changing' /\ pc'[t.deletedBy] = "cleared"
               /\ job'[t.deletedBy].row = t.row
    BY <1>1, <1>2, <1>4, <1>6, <2>1, <2>2 DEF ChangesAreWhole
  <2>3. ASSUME NEW q \in Changing', NEW t \in signedIn', pc'[q] = "cleared", t.row = job'[q].row
        PROVE  t.late \/ t.deletedBy = q
    <3>1. CASE q = r
      BY <1>4, <1>6, <2>3, <3>1
    <3>2. CASE q # r
      <4>1. pc[q] = "cleared" /\ job'[q] = job[q] /\ job[q].row # job[r].row
        BY <1>4, <2>1, <2>3, <3>2 DEF ChangesAreWhole
      <4> QED BY <1>4, <1>6, <2>1, <2>3, <4>1 DEF ChangesAreWhole
    <3> QED BY <3>1, <3>2
  <2>4. \A p, q \in Changing' : job'[p].row = job'[q].row => p = q
    BY <1>4, <2>1 DEF ChangesAreWhole
  <2> QED BY <2>2, <2>3, <2>4 DEF ChangesAreWhole
<1> QED BY <1>2, <1>3, <1>5, <1>7, <1>8 DEF AccountsRight, SessionsMatchPassword

\* The change that ends leaves the others as they are.
LEMMA OneChangeLess ==
    ASSUME AccountsRight, NEW r \in Changing, Answered(r)
    PROVE  /\ RequestTables' /\ OthersRest(r) /\ AccountRequest(r)'
           /\ Changing' = Changing \ {r}
           /\ \A q \in Changing \ {r} : pc'[q] = pc[q] /\ job'[q] = job[q]
<1>1. r \in Requests /\ RequestTables' /\ OthersRest(r) /\ pc'[r] = "idle"
  BY RequestAnswered DEF AccountsRight, Changing
<1> QED BY <1>1 DEF Changing, OthersRest, AccountRequest

\* At the commit no session of the old password is left but late ones.
LEMMA PasswordCommits ==
    ASSUME AccountsRight, NEW r \in Requests, CommitPassword(r)
    PROVE  AccountsRight'
<1>1. /\ Answered(r) /\ signedIn' = {s \in signedIn : s.deletedBy # r}
      /\ CustomerRows' /\ Kept /\ pc[r] = "cleared" /\ r \in Changing
      /\ \A d \in Rows : d # job[r].row => customer'[d] = customer[d]
  BY PasswordKeeps DEF CommitPassword, Changing
<1>2. /\ RequestTables' /\ OthersRest(r) /\ AccountRequest(r)' /\ Changing' = Changing \ {r}
      /\ \A q \in Changing \ {r} : pc'[q] = pc[q] /\ job'[q] = job[q]
  BY <1>1, OneChangeLess
<1>3. \A q \in Requests : AccountRequest(q)'
  BY <1>1, <1>2, RequestsKeep DEF OthersRest
<1>4. ASSUME NEW s \in signedIn'
      PROVE  /\ IsSession(s) /\ HasPassword(s.row)'
             /\ s.late \/ customer'[s.row].password = s.password
  <2>1. /\ s \in signedIn /\ IsSession(s) /\ HasPassword(s.row)
        /\ s.row \in Known /\ s.row \in Rows
    BY <1>1 DEF AccountsRight, HasPassword, Known
  <2>2. HasPassword(s.row)'
    BY <1>1, <2>1 DEF Kept
  <2>3. s.row = job[r].row => s.late
    BY <1>1, <2>1 DEF AccountsRight, ChangesAreWhole
  <2>4. s.row # job[r].row => s.late \/ customer'[s.row].password = s.password
    BY <1>1, <2>1 DEF AccountsRight, SessionsMatchPassword
  <2> QED BY <2>1, <2>2, <2>3, <2>4
<1>5. ChangesAreWhole'
  <2>1. ChangesAreWhole
    BY DEF AccountsRight
  <2>2. ASSUME NEW s \in signedIn', s.deletedBy # Nothing
        PROVE  /\ s.deletedBy \in Changing' /\ pc'[s.deletedBy] = "cleared"
               /\ job'[s.deletedBy].row = s.row
    BY <1>1, <1>2, <2>1, <2>2 DEF ChangesAreWhole
  <2>3. ASSUME NEW q \in Changing', NEW s \in signedIn', pc'[q] = "cleared", s.row = job'[q].row
        PROVE  s.late \/ s.deletedBy = q
    BY <1>1, <1>2, <2>1, <2>3 DEF ChangesAreWhole
  <2>4. \A p, q \in Changing' : job'[p].row = job'[q].row => p = q
    BY <1>2, <2>1 DEF ChangesAreWhole
  <2> QED BY <2>2, <2>3, <2>4 DEF ChangesAreWhole
<1> QED BY <1>1, <1>2, <1>3, <1>4, <1>5 DEF AccountsRight, SessionsMatchPassword

\* A change that is lost gives back the sessions it has deleted.
LEMMA PasswordIsLost ==
    ASSUME AccountsRight, NEW r \in Requests, LosePassword(r)
    PROVE  AccountsRight'
<1>1. /\ Answered(r) /\ UNCHANGED customer /\ r \in Changing
      /\ signedIn' = {[s EXCEPT !.deletedBy = IF s.deletedBy = r THEN Nothing ELSE s.deletedBy] :
                         s \in signedIn}
  BY DEF LosePassword
<1>2. /\ RequestTables' /\ OthersRest(r) /\ AccountRequest(r)' /\ Changing' = Changing \ {r}
      /\ \A q \in Changing \ {r} : pc'[q] = pc[q] /\ job'[q] = job[q]
  BY <1>1, OneChangeLess
<1>3. CustomerRows' /\ Kept /\ SameOwners
  BY <1>1, RowsLeftAlone
<1>4. \A q \in Requests : AccountRequest(q)'
  BY <1>2, <1>3, RequestsKeep DEF OthersRest
<1>5. \A t \in signedIn' : \E s \in signedIn :
         /\ IsSession(t) /\ t.row = s.row /\ t.password = s.password /\ t.late = s.late
         /\ t.deletedBy = IF s.deletedBy = r THEN Nothing ELSE s.deletedBy
  <2> SUFFICES ASSUME NEW t \in signedIn'
               PROVE  \E s \in signedIn :
                        /\ IsSession(t) /\ t.row = s.row /\ t.password = s.password
                        /\ t.late = s.late
                        /\ t.deletedBy = IF s.deletedBy = r THEN Nothing ELSE s.deletedBy
    OBVIOUS
  <2>1. PICK s \in signedIn :
          t = [s EXCEPT !.deletedBy = IF s.deletedBy = r THEN Nothing ELSE s.deletedBy]
    BY <1>1
  <2>2. IsSession(s)
    BY DEF AccountsRight
  <2> QED BY <2>1, <2>2, SessionIsMarked
<1>6. ASSUME NEW t \in signedIn'
      PROVE  /\ IsSession(t) /\ HasPassword(t.row)'
             /\ t.late \/ customer'[t.row].password = t.password
  BY <1>1, <1>5 DEF AccountsRight, SessionsMatchPassword, HasPassword, Known
<1>7. ChangesAreWhole'
  <2>1. ChangesAreWhole
    BY DEF AccountsRight
  <2>2. ASSUME NEW t \in signedIn', t.deletedBy # Nothing
        PROVE  /\ t.deletedBy \in Changing' /\ pc'[t.deletedBy] = "cleared"
               /\ job'[t.deletedBy].row = t.row
    BY <1>2, <1>5, <2>1, <2>2 DEF ChangesAreWhole
  <2>3. ASSUME NEW q \in Changing', NEW t \in signedIn', pc'[q] = "cleared", t.row = job'[q].row
        PROVE  t.late \/ t.deletedBy = q
    BY <1>2, <1>5, <2>1, <2>3 DEF ChangesAreWhole
  <2>4. \A p, q \in Changing' : job'[p].row = job'[q].row => p = q
    BY <1>2, <2>1 DEF ChangesAreWhole
  <2> QED BY <2>2, <2>3, <2>4 DEF ChangesAreWhole
<1> QED BY <1>2, <1>3, <1>4, <1>6, <1>7 DEF AccountsRight, SessionsMatchPassword

LEMMA AccountsStep == AccountsRight /\ [AccountsNext]_accountVars => AccountsRight'
<1> SUFFICES ASSUME AccountsRight, [AccountsNext]_accountVars
             PROVE  AccountsRight'
  OBVIOUS
<1>0. RequestTables /\ \A q \in Requests : AccountRequest(q)
  BY DEF AccountsRight
<1>1. CASE EndShopSession \/ UNCHANGED accountVars
  <2>1. UNCHANGED <<pc, job, caller, seen, customer>> /\ signedIn' \subseteq signedIn
    BY <1>1 DEF EndShopSession, accountVars, request
  <2>2. CustomerRows' /\ Kept /\ SameOwners
    BY <2>1, RowsLeftAlone
  <2>3. \A q \in Requests : AccountRequest(q)'
    BY <2>1, <2>2, RequestsKeep
  <2>4. \A c \in Known : HasPassword(c) => HasPassword(c)'
    BY <2>2 DEF Kept
  <2>5. \A s \in signedIn' : IsSession(s) /\ HasPassword(s.row)'
    BY <2>1, <2>4 DEF AccountsRight, HasPassword
  <2>6. RequestTables' /\ SessionsMatchPassword' /\ ChangesAreWhole'
    <3>1. ChangesAreWhole'
      BY <2>1, ChangesStay
    <3> QED BY <2>1, <3>1 DEF AccountsRight, RequestTables, SessionsMatchPassword
  <2> QED BY <2>2, <2>3, <2>5, <2>6 DEF AccountsRight
<1>2. ASSUME NEW r \in Requests, AskAccount(r)
      PROVE  AccountsRight'
  <2>1. PICK j \in SignUps : Starts(r, Nothing, j, "hashed", Nothing)
    BY <1>2 DEF AskAccount
  <2>2. UNCHANGED <<customer, signedIn>>
    BY <1>2 DEF AskAccount
  <2>3. /\ RequestTables' /\ OthersRest(r) /\ AccountRequest(r)'
        /\ pc[r] = "idle" /\ pc'[r] = "hashed"
    BY <1>0, <2>1, RequestStarts DEF AccountRequest
  <2> QED BY <2>2, <2>3, RowsLeftAlone, AccountsMove
<1>3. ASSUME NEW r \in Requests, ReadEmail(r) \/ ReadPhone(r)
      PROVE  AccountsRight'
  <2>1. /\ UNCHANGED <<customer, signedIn>> /\ pc[r] \in {"hashed", "newEmail"}
        /\ \/ Answered(r)
           \/ \E at \in {"newEmail", "newPhone", "contact"} : GoesOn(r, at, Nothing)
    BY <1>3 DEF ReadEmail, ReadPhone
  <2>2. /\ RequestTables' /\ OthersRest(r)
        /\ \/ pc'[r] = "idle"
           \/ pc'[r] \in {"newEmail", "newPhone", "contact"} /\ job'[r] = job[r]
    BY <1>0, <2>1, RequestGoesOn, RequestAnswered
  <2>3. AccountRequest(r)'
    BY <1>0, <2>1, <2>2 DEF AccountRequest
  <2> QED BY <2>1, <2>2, <2>3, RowsLeftAlone, AccountsMove
<1>4. ASSUME NEW r \in Requests, Claim(r) \/ Register(r) \/ SaveProfile(r)
      PROVE  AccountsRight'
  <2>1. Answered(r) /\ UNCHANGED signedIn /\ pc[r] \in {"contact", "newPhone", "checked"}
    BY <1>4 DEF Claim, Register, SaveProfile
  <2>2. RequestTables' /\ OthersRest(r) /\ AccountRequest(r)' /\ pc'[r] = "idle"
    BY <1>0, <2>1, RequestAnswered DEF AccountRequest
  <2>3. CustomerRows' /\ SameOwners /\ Kept
    <3>1. CASE Register(r)
      <4>1. pc[r] = "newPhone" /\ job[r] \in SignUps
        BY <1>0, <3>1 DEF Register, AccountRequest
      <4>2. CASE UNCHANGED customer
        BY <4>2, RowsLeftAlone
      <4>3. CASE ~UNCHANGED customer
        <5>1. /\ WithPhone(job[r].phone) = {} /\ WithEmail(job[r].email) = {}
              /\ Insert(job[r].phone, job[r].email, 1)
          BY <3>1, <4>3 DEF Register
        <5>2. /\ job[r].phone \in Phones /\ job[r].email \in Emails
              /\ job[r].email # Nothing
          BY <4>1, AccountConstants DEF SignUps
        <5> QED BY <5>1, <5>2, InsertKeeps DEF AccountsRight
      <4> QED BY <4>2, <4>3
    <3> QED BY <1>4, <3>1, ClaimKeeps, ProfileKeeps
  <2> QED BY <2>1, <2>2, <2>3, AccountsMove
<1>5. ASSUME NEW r \in Requests, OrderAsGuest(r)
      PROVE  AccountsRight'
  <2>1. /\ UNCHANGED <<pc, job, caller, seen, signedIn>> /\ pc[r] = "idle"
        /\ \/ UNCHANGED customer
           \/ \E p \in Phones : WithPhone(p) = {} /\ Insert(p, Nothing, 0)
    BY <1>5 DEF OrderAsGuest
  <2>2. CustomerRows' /\ SameOwners /\ Kept
    BY <2>1, InsertKeeps, RowsLeftAlone DEF AccountsRight
  <2>3. RequestTables' /\ OthersRest(r) /\ AccountRequest(r)'
    BY <1>0, <2>1, <2>2, RequestsKeep DEF RequestTables, OthersRest
  <2> QED BY <2>1, <2>2, <2>3, AccountsMove
<1>6. ASSUME NEW r \in Requests, AskProfile(r) \/ AskPassword(r) \/ AskSignIn(r)
      PROVE  AccountsRight'
  <2>1. UNCHANGED <<customer, signedIn>>
    BY <1>6 DEF AskProfile, AskPassword, AskSignIn
  <2>2. PICK at, j, s :
          /\ Starts(r, Nothing, j, at, s) /\ at \in {"checked", "verified"}
          /\ at = "checked" => j.row \in Known /\ j.phone \in Phones
          /\ at = "verified" => HasPassword(j.row)
    <3>1. \A s \in signedIn : s.row \in Known
      BY DEF AccountsRight, HasPassword
    <3>2. CASE AskProfile(r)
      BY <3>1, <3>2 DEF AskProfile
    <3>3. CASE AskPassword(r)
      BY <3>3 DEF AskPassword
    <3>4. CASE AskSignIn(r)
      BY <3>4 DEF AskSignIn
    <3> QED BY <1>6, <3>2, <3>3, <3>4
  <2>3. RequestTables' /\ OthersRest(r) /\ pc'[r] = at /\ job'[r] = j /\ pc[r] = "idle"
    BY <1>0, <2>2, RequestStarts
  <2>4. AccountRequest(r)'
    BY <2>1, <2>2, <2>3 DEF AccountRequest, HasPassword, Known
  <2>5. pc'[r] \in {"checked", "verified"}
    BY <2>2, <2>3
  <2> QED BY <2>1, <2>3, <2>4, <2>5, RowsLeftAlone, AccountsMove
<1>7. ASSUME NEW r \in Requests, CommitPassword(r)
      PROVE  AccountsRight'
  BY <1>7, PasswordCommits
<1>8. ASSUME NEW r \in Requests, ChangeRow(r)
      PROVE  AccountsRight'
  BY <1>8, RowIsChanged
<1>9. ASSUME NEW r \in Requests, DeleteSessions(r)
      PROVE  AccountsRight'
  BY <1>9, SessionsAreDeleted
<1>10. ASSUME NEW r \in Requests, LosePassword(r)
       PROVE  AccountsRight'
  BY <1>10, PasswordIsLost
<1>11. ASSUME NEW r \in Requests, OpenShopSession(r)
       PROVE  AccountsRight'
  <2> DEFINE new == [row |-> job[r].row, password |-> seen[r],
                     late |-> Overtaken(job[r].row, seen[r]), deletedBy |-> Nothing]
  <2>1. /\ signedIn' = signedIn \cup {new} /\ Answered(r) /\ UNCHANGED customer
        /\ HasPassword(job[r].row) /\ pc[r] = "verified"
    BY <1>0, <1>11 DEF OpenShopSession, AccountRequest
  <2>2. /\ IsSession(new) /\ new.row = job[r].row /\ new.deletedBy = Nothing
        /\ new.late \/ customer[new.row].password = new.password
    BY DEF IsSession, Overtaken
  <2>9. \A q \in Changing : pc[q] = "cleared" /\ new.row = job[q].row => new.late
    BY DEF Overtaken
  <2> HIDE DEF new
  <2>3. RequestTables' /\ OthersRest(r) /\ AccountRequest(r)' /\ pc'[r] = "idle"
    BY <1>0, <2>1, RequestAnswered DEF AccountRequest
  <2>10. ChangesAreWhole'
    BY <2>1, <2>2, <2>3, <2>9, ChangesStay DEF OthersRest
  <2>4. CustomerRows' /\ Kept
    BY <2>1, RowsLeftAlone
  <2>5. \A q \in Requests : AccountRequest(q)'
    BY <2>3, <2>4, RequestsKeep DEF OthersRest
  <2>6. \A s \in signedIn' : IsSession(s) /\ HasPassword(s.row)
    BY <2>1, <2>2 DEF AccountsRight
  <2>7. \A s \in signedIn' : s.late \/ customer'[s.row].password = s.password
    BY <2>1, <2>2 DEF AccountsRight, SessionsMatchPassword
  <2>8. \A s \in signedIn' : HasPassword(s.row)'
    BY <2>1, <2>6 DEF HasPassword, Known
  <2> QED BY <2>3, <2>4, <2>5, <2>6, <2>7, <2>8, <2>10 DEF AccountsRight, SessionsMatchPassword
<1> QED BY <1>1, <1>2, <1>3, <1>4, <1>5, <1>6, <1>7, <1>8, <1>9, <1>10, <1>11 DEF AccountsNext

\* The types, unique phones and emails, credentials that come in pairs, and no
\* session older than its password unless it was opened after the change had
\* deleted the sessions there were (customers/service.ts signUp and changePassword,
\* repo.ts claimContactRow).
THEOREM AccountsHold == AccountsSpec => []AccountsInv
<1>1. AccountsInit => AccountsRight
  BY AccountsStart
<1>2. AccountsRight /\ [AccountsNext]_accountVars => AccountsRight'
  BY AccountsStep
<1>3. AccountsRight => AccountsInv
  BY AccountsInvHolds
<1> QED BY <1>1, <1>2, <1>3, PTL DEF AccountsSpec

\* Every step but a change of password leaves the owner of every account.
LEMMA OwnersStay ==
    ASSUME AccountsRight, [AccountsNext]_accountVars
    PROVE  SameOwners \/ \E r \in Requests : CommitPassword(r)
<1>1. CASE EndShopSession \/ UNCHANGED accountVars
  BY <1>1, RowsLeftAlone DEF EndShopSession, accountVars
<1>2. ASSUME NEW r \in Requests,
             \/ AskAccount(r) \/ ReadEmail(r) \/ ReadPhone(r) \/ AskProfile(r)
             \/ AskPassword(r) \/ AskSignIn(r) \/ OpenShopSession(r)
             \/ ChangeRow(r) \/ DeleteSessions(r) \/ LosePassword(r)
      PROVE  SameOwners
  <2>1. UNCHANGED customer
    BY <1>2 DEF AskAccount, ReadEmail, ReadPhone, AskProfile, AskPassword, AskSignIn,
                OpenShopSession, ChangeRow, DeleteSessions, LosePassword
  <2> QED BY <2>1, RowsLeftAlone
<1>3. ASSUME NEW r \in Requests, Register(r)
      PROVE  SameOwners
  <2>1. job[r].phone \in Phones /\ job[r].email \in Emails /\ job[r].email # Nothing
    BY <1>3, AccountConstants DEF Register, AccountsRight, AccountRequest, SignUps
  <2>2. CASE UNCHANGED customer
    BY <2>2, RowsLeftAlone
  <2>3. CASE ~UNCHANGED customer
    <3>1. /\ WithPhone(job[r].phone) = {} /\ WithEmail(job[r].email) = {}
          /\ Insert(job[r].phone, job[r].email, 1)
      BY <1>3, <2>3 DEF Register
    <3> QED BY <2>1, <3>1, InsertKeeps DEF AccountsRight
  <2> QED BY <2>2, <2>3
<1>4. ASSUME NEW r \in Requests, OrderAsGuest(r)
      PROVE  SameOwners
  <2>1. UNCHANGED customer \/ \E p \in Phones : WithPhone(p) = {} /\ Insert(p, Nothing, 0)
    BY <1>4 DEF OrderAsGuest
  <2> QED BY <2>1, InsertKeeps, RowsLeftAlone DEF AccountsRight
<1> QED BY <1>1, <1>2, <1>3, <1>4, ClaimKeeps, ProfileKeeps DEF AccountsNext

\* Once a row has credentials, no sign-up that races another, no order and no
\* change of phone gives it others; only its own change of password does
\* (customers/service.ts signUp, repo.ts claimContactRow).
THEOREM OwnersKeepTheirAccounts == AccountsSpec => AccountsKeepTheirOwner
<1> DEFINE OneOwner ==
      \A c \in Rows :
        HasPassword(c) =>
          /\ customer'[c] # Nothing
          /\ customer'[c].email = customer[c].email
          /\ customer'[c].password # customer[c].password =>
               \E r \in Changing : /\ pc[r] = "cleared" /\ pc'[r] = "idle"
                                   /\ job[r].row = c
<1>1. AccountsInit => AccountsRight
  BY AccountsStart
<1>2. AccountsRight /\ [AccountsNext]_accountVars => AccountsRight'
  BY AccountsStep
<1>3. AccountsRight /\ [AccountsNext]_accountVars => [OneOwner]_accountVars
  <2> SUFFICES ASSUME AccountsRight, [AccountsNext]_accountVars
               PROVE  OneOwner
    OBVIOUS
  <2>1. CASE SameOwners
    BY <2>1 DEF SameOwners
  <2>2. ASSUME NEW r \in Requests, CommitPassword(r)
        PROVE  OneOwner
    <3>1. /\ \A d \in Rows : d # job[r].row => customer'[d] = customer[d]
          /\ customer'[job[r].row].email = customer[job[r].row].email
          /\ customer'[job[r].row] # Nothing
      BY <2>2, PasswordKeeps
    <3>2. r \in Changing /\ pc[r] = "cleared" /\ pc'[r] = "idle"
      BY <2>2, RequestAnswered DEF CommitPassword, AccountsRight, Changing
    <3> QED BY <3>1, <3>2 DEF HasPassword, Known
  <2> QED BY <2>1, <2>2, OwnersStay
<1> QED BY <1>1, <1>2, <1>3, PTL DEF AccountsSpec, AccountsKeepTheirOwner

-----------------------------------------------------------------------------
(* Staff *)

Principals ==
    [kind : {"user"}, user : Users, role : Roles, store : Stores \cup {NoStore}]

Managing == {"create", "update", "enable", "disable", "reset"}

\* A manager is granted the management of accounts in the manager's own shop,
\* and the staff of a shop is granted none.
LEMMA NeedsOf ==
    /\ Needs("create") = "user:create" /\ Needs("update") = "user:update"
    /\ Needs("enable") = "user:update" /\ Needs("disable") = "user:disable"
    /\ Needs("reset") = "user:reset-password"
  BY DEF Needs

LEMMA WhatManagersMayReach ==
    ASSUME NEW p \in Principals, p.role # "SUPER_ADMIN", NEW op \in Managing,
           NEW store, Authorized(p, Needs(op), store)
    PROVE  p.role = "STORE_MANAGER" /\ store = p.store
<1>1. /\ p.kind = "user" /\ p.role \in {"STORE_MANAGER", "STORE_STAFF"}
  BY DEF Principals, Roles
<1>2. Needs(op) \in {"user:create", "user:update", "user:disable", "user:reset-password"}
  BY NeedsOf DEF Managing
<1>3. p.kind # "system" /\ p.kind # "customer"
  BY <1>1
<1>4. GrantedEverywhere(p) = SharedReads
  BY <1>3 DEF GrantedEverywhere
<1>5. p.role = "STORE_STAFF" => GrantedInStore(p) = StaffGrants
  BY <1>3 DEF GrantedInStore
<1>6. Needs(op) \notin SharedReads /\ Needs(op) \notin StaffGrants
  BY <1>2 DEF SharedReads, StaffGrants
<1>7. p.role = "STORE_MANAGER" /\ CanAccessStore(p, store)
  BY <1>1, <1>4, <1>5, <1>6 DEF Authorized
<1> QED BY <1>1, <1>7 DEF CanAccessStore, Unscoped

LEMMA RolesUnderManagers ==
    ASSUME NEW p, p.role = "STORE_MANAGER"
    PROVE  RolesUnder(p) = {"STORE_STAFF"}
BY DEF RolesUnder

LEMMA WrittenRows ==
    ASSUME NEW j, NEW row
    PROVE  /\ j.op = "update" =>
                Written(j, row) = [row EXCEPT !.role = j.post.role, !.store = j.post.store]
           /\ j.op = "enable" => Written(j, row) = [row EXCEPT !.active = TRUE]
           /\ j.op = "disable" => Written(j, row) = [row EXCEPT !.active = FALSE]
           /\ j.op \in {"reset", "own"} =>
                Written(j, row) = [row EXCEPT !.password = row.password + 1]
BY DEF Written

\* What a row is after each operation that writes one.
LEMMA RowsStayAccounts ==
    ASSUME NEW j, NEW row \in Accounts, j.op \in {"update", "enable", "disable", "reset", "own"},
           j.op = "update" => j.post \in Posts /\ Paired(j.post.role, j.post.store),
           Paired(row.role, row.store)
    PROVE  /\ Written(j, row) \in Accounts
           /\ Paired(Written(j, row).role, Written(j, row).store)
           /\ Written(j, row).role = IF j.op = "update" THEN j.post.role ELSE row.role
           /\ Written(j, row).store = IF j.op = "update" THEN j.post.store ELSE row.store
           /\ Written(j, row).active =
                IF j.op \in {"enable", "disable"} THEN j.op = "enable" ELSE row.active
           /\ Written(j, row).password =
                IF j.op \in {"reset", "own"} THEN row.password + 1 ELSE row.password
<1>1. CASE j.op = "update"
  <2>1. Written(j, row) = [row EXCEPT !.role = j.post.role, !.store = j.post.store]
    BY <1>1, WrittenRows
  <2>2. j.post.role \in Roles /\ j.post.store \in Stores \cup {NoStore}
    BY <1>1 DEF Posts
  <2> QED BY <1>1, <2>1, <2>2 DEF Accounts
<1>2. CASE j.op = "enable"
  <2>1. Written(j, row) = [row EXCEPT !.active = TRUE]
    BY <1>2, WrittenRows
  <2> QED BY <1>2, <2>1 DEF Accounts
<1>3. CASE j.op = "disable"
  <2>1. Written(j, row) = [row EXCEPT !.active = FALSE]
    BY <1>3, WrittenRows
  <2> QED BY <1>3, <2>1 DEF Accounts
<1>4. CASE j.op \in {"reset", "own"}
  <2>1. Written(j, row) = [row EXCEPT !.password = row.password + 1]
    BY <1>4, WrittenRows
  <2> QED BY <1>4, <2>1 DEF Accounts
<1> QED BY <1>1, <1>2, <1>3, <1>4

-----------------------------------------------------------------------------
(* What the requests of the staff rely on *)

\* Operations a principal may ask, and those the row it read allows.
AskedOps == {a \in Principals \X StaffJobs : MayAsk(a[1], a[2])}

Granted ==
    {g \in Principals \X StaffJobs \X Accounts :
        g[2].op # "create" /\ Eligible(g[1], g[2], g[3])}

OwnJobs == [op : {"own", "signIn"}, target : Users]

StaffRequest(r) ==
    /\ pc[r] \in {"idle", "asked", "checked", "counted", "verified"}
    /\ pc[r] = "idle" => seen[r] = Nothing /\ job[r] = Nothing
    /\ pc[r] = "asked" => <<caller[r], job[r]>> \in AskedOps
    /\ pc[r] \in {"checked", "counted"} =>
         /\ <<caller[r], job[r], seen[r]>> \in Granted
         /\ rowLock[job[r].target] = r
         /\ account[job[r].target] = seen[r]
    /\ pc[r] = "verified" =>
         /\ job[r] \in OwnJobs
         /\ account[job[r].target] # Nothing
         /\ seen[r] \in Accounts /\ seen[r].active

AccountRows ==
    /\ account \in [Users -> Accounts \cup {Nothing}]
    /\ \A u \in Users : account[u] # Nothing => Paired(account[u].role, account[u].store)
    /\ resetTo \in [Users -> Nat]
    /\ \A u \in Users :
         IF account[u] = Nothing THEN resetTo[u] = 0 ELSE account[u].password >= resetTo[u]

CookiesOfTheActive == cookies \subseteq Cookies /\ \A c \in cookies : c.row.active

StaffRight ==
    /\ RequestTables /\ AccountRows /\ CookiesOfTheActive /\ CookiesMatchAuthority
    /\ rowLock \in [Users -> Requests \cup {Nothing}]
    /\ \A r \in Requests : StaffRequest(r)

LEMMA StaffRequestIsRight == ASSUME NEW r \in Requests, StaffRequest(r) PROVE SeenRight(r)
<1>1. CASE pc[r] \in {"idle", "asked"}
  BY <1>1 DEF StaffRequest, SeenRight, AskedOps
<1>2. CASE pc[r] \in {"checked", "counted"}
  <2>1. job[r] \in StaffJobs /\ job[r].op # "create" /\ Eligible(caller[r], job[r], seen[r])
    BY <1>2 DEF StaffRequest, Granted
  <2> QED BY <1>2, <2>1 DEF StaffRequest, SeenRight
<1>3. CASE pc[r] = "verified"
  BY <1>3 DEF StaffRequest, SeenRight, OwnJobs
<1> QED BY <1>1, <1>2, <1>3 DEF StaffRequest

LEMMA StaffInvHolds == StaffRight => StaffInv
  BY StaffRequestIsRight DEF StaffRight, AccountRows, CookiesOfTheActive, StaffInv

LEMMA StaffStarts == StaffInit => StaffRight
<1> SUFFICES ASSUME StaffInit PROVE StaffRight
  OBVIOUS
<1>1. RequestTables /\ \A r \in Requests : StaffRequest(r)
  BY DEF StaffInit, RequestsInit, RequestTables, StaffRequest
<1>2. /\ account \in [Users -> Accounts \cup {Nothing}]
      /\ \A u \in Users : account[u] # Nothing => Paired(account[u].role, account[u].store)
      /\ resetTo \in [Users -> Nat] /\ \A u \in Users : resetTo[u] = 0
      /\ rowLock \in [Users -> Requests \cup {Nothing}]
  BY StaffConstants DEF StaffInit
<1>3. AccountRows
  BY <1>2 DEF AccountRows, Accounts
<1>4. ASSUME NEW c \in cookies
      PROVE  /\ c \in Cookies /\ c.row.active
             /\ account[c.user] # Nothing /\ c.row = account[c.user]
             /\ c.row.password >= resetTo[c.user]
  <2>1. PICK u \in Users : IsActive(u) /\ c = [user |-> u, row |-> account[u], late |-> FALSE]
    BY DEF StaffInit
  <2>2. account[u] \in Accounts /\ account[u].active
    BY <1>2, <2>1 DEF IsActive
  <2>3. c.user = u /\ c.row = account[u] /\ c.late = FALSE /\ c \in Cookies
    BY <2>1, <2>2 DEF Cookies
  <2>4. account[u] # Nothing /\ account[u].password >= resetTo[u]
    BY <1>2, <2>1, <2>2 DEF IsActive, Accounts
  <2> QED BY <2>2, <2>3, <2>4
<1>5. CookiesOfTheActive /\ CookiesMatchAuthority
  BY <1>4 DEF CookiesOfTheActive, CookiesMatchAuthority
<1> QED BY <1>1, <1>2, <1>3, <1>5 DEF StaffRight

\* A row under a lock is the holder's, and no account is ever taken away.
LocksHold ==
    /\ \A q \in Requests, u \in Users :
         /\ pc'[q] = pc[q] /\ rowLock[u] = q /\ account[u] # Nothing
         => rowLock'[u] = q /\ account'[u] = account[u]
    /\ \A u \in Users : account[u] # Nothing => account'[u] # Nothing

LEMMA OthersRely ==
    ASSUME StaffRight, LocksHold, NEW q \in Requests,
           pc'[q] = pc[q], job'[q] = job[q], caller'[q] = caller[q], seen'[q] = seen[q]
    PROVE  StaffRequest(q)'
<1>1. StaffRequest(q)
  BY DEF StaffRight
<1>2. pc[q] \in {"checked", "counted"} => /\ rowLock'[job[q].target] = q
                                           /\ account'[job[q].target] = seen[q]
  <2> SUFFICES ASSUME pc[q] \in {"checked", "counted"}
               PROVE  /\ rowLock'[job[q].target] = q
                      /\ account'[job[q].target] = seen[q]
    OBVIOUS
  <2>1. /\ seen[q] \in Accounts /\ job[q].target \in Users
        /\ rowLock[job[q].target] = q /\ account[job[q].target] = seen[q]
    BY <1>1 DEF StaffRequest, Granted, StaffJobs
  <2> QED BY <2>1, StaffConstants DEF LocksHold
<1>3. pc[q] = "verified" => account'[job[q].target] # Nothing
  BY <1>1 DEF StaffRequest, LocksHold, OwnJobs
<1> QED BY <1>1, <1>2, <1>3 DEF StaffRequest

\* What a step of one request has to show.
LEMMA StaffMove ==
    ASSUME StaffRight, NEW r \in Requests, OthersRest(r), RequestTables', AccountRows',
           CookiesOfTheActive', CookiesMatchAuthority', LocksHold,
           rowLock' \in [Users -> Requests \cup {Nothing}], StaffRequest(r)'
    PROVE  StaffRight'
<1>1. \A q \in Requests : StaffRequest(q)'
  BY OthersRely DEF OthersRest
<1> QED BY <1>1 DEF StaffRight

\* A step that writes no account and opens no session.
LEMMA AccountsLeftAlone ==
    ASSUME StaffRight, UNCHANGED <<account, resetTo>>, cookies' \subseteq cookies
    PROVE  /\ AccountRows' /\ CookiesOfTheActive' /\ CookiesMatchAuthority'
           /\ UNCHANGED rowLock => LocksHold
<1>1. account' = account /\ resetTo' = resetTo
  OBVIOUS
<1>2. AccountRows'
  BY <1>1 DEF StaffRight, AccountRows
<1>3. CookiesOfTheActive'
  BY DEF StaffRight, CookiesOfTheActive
<1>4. CookiesMatchAuthority'
  BY <1>1 DEF StaffRight, CookiesMatchAuthority
<1>5. UNCHANGED rowLock => LocksHold
  BY <1>1 DEF LocksHold
<1> QED BY <1>2, <1>3, <1>4, <1>5

\* A principal is read from an account that is there.
LEMMA PrincipalsAreRead ==
    ASSUME StaffRight, NEW c \in cookies, IsActive(c.user)
    PROVE  /\ c.user \in Users /\ Principal(c.user) \in Principals
           /\ account[c.user] # Nothing /\ account[c.user] \in Accounts
           /\ account[c.user].active
<1>1. c.user \in Users
  BY DEF StaffRight, CookiesOfTheActive, Cookies
<1>2. account[c.user] # Nothing /\ account[c.user] \in Accounts /\ account[c.user].active
  BY <1>1 DEF StaffRight, AccountRows, IsActive
<1> QED BY <1>1, <1>2 DEF Principal, Principals, Accounts

LEMMA StaffAsk ==
    ASSUME StaffRight, NEW r \in Requests, AskStaff(r) \/ VerifyOwn(r) \/ SignIn(r)
    PROVE  StaffRight'
<1>1. UNCHANGED <<account, rowLock, cookies, resetTo>>
  BY DEF AskStaff, VerifyOwn, SignIn
<1>2. PICK p, j, at, s :
        /\ Starts(r, p, j, at, s)
        /\ \/ at = "asked" /\ <<p, j>> \in AskedOps
           \/ /\ at = "verified" /\ j \in OwnJobs /\ account[j.target] # Nothing
              /\ s \in Accounts /\ s.active
  <2>1. CASE AskStaff(r)
    <3>1. PICK c \in cookies, j \in StaffJobs :
            /\ IsActive(c.user) /\ MayAsk(Principal(c.user), j)
            /\ Starts(r, Principal(c.user), j, "asked", Nothing)
      BY <2>1 DEF AskStaff
    <3>2. <<Principal(c.user), j>> \in AskedOps
      BY <3>1, PrincipalsAreRead DEF AskedOps
    <3> QED BY <3>1, <3>2
  <2>2. CASE VerifyOwn(r)
    <3>1. PICK c \in cookies :
            /\ IsActive(c.user)
            /\ Starts(r, Principal(c.user), [op |-> "own", target |-> c.user],
                      "verified", account[c.user])
      BY <2>2 DEF VerifyOwn
    <3>2. [op |-> "own", target |-> c.user] \in OwnJobs
      BY <3>1, PrincipalsAreRead DEF OwnJobs
    <3> QED BY <3>1, <3>2, PrincipalsAreRead
  <2>3. CASE SignIn(r)
    <3>1. PICK u \in Users :
            IsActive(u) /\ Starts(r, Nothing, [op |-> "signIn", target |-> u], "verified", account[u])
      BY <2>3 DEF SignIn
    <3>2. /\ [op |-> "signIn", target |-> u] \in OwnJobs
          /\ account[u] \in Accounts /\ account[u].active /\ account[u] # Nothing
      BY <3>1 DEF OwnJobs, IsActive, StaffRight, AccountRows
    <3> QED BY <3>1, <3>2
  <2> QED BY <2>1, <2>2, <2>3
<1>3. /\ RequestTables' /\ OthersRest(r) /\ pc'[r] = at /\ job'[r] = j /\ caller'[r] = p /\ seen'[r] = s
  BY <1>2, RequestStarts DEF StaffRight
<1>4. StaffRequest(r)'
  BY <1>1, <1>2, <1>3 DEF StaffRequest
<1> QED BY <1>1, <1>3, <1>4, AccountsLeftAlone, StaffMove DEF StaffRight

\* An account is made where none was.
LEMMA StaffCreate ==
    ASSUME StaffRight, NEW r \in Requests, Create(r)
    PROVE  StaffRight'
<1> DEFINE t == job[r].target
           row == [role |-> job[r].post.role, store |-> job[r].post.store,
                   active |-> TRUE, password |-> 0]
<1>1. /\ UNCHANGED <<rowLock, cookies, resetTo>> /\ Answered(r)
      /\ account' = IF account[t] = Nothing THEN [account EXCEPT ![t] = row] ELSE account
  BY DEF Create
<1>2. /\ job[r] \in StaffJobs /\ MayAsk(caller[r], job[r]) /\ job[r].op = "create"
  BY DEF Create, StaffRight, StaffRequest, AskedOps
<1>3. t \in Users /\ job[r].post \in Posts /\ Paired(job[r].post.role, job[r].post.store)
  BY <1>2 DEF StaffJobs, MayAsk
<1>4. /\ row \in Accounts /\ row # Nothing /\ row.password = 0
      /\ Paired(row.role, row.store)
  <2>1. job[r].post.role \in Roles /\ job[r].post.store \in Stores \cup {NoStore}
    BY <1>3 DEF Posts
  <2>2. row \in Accounts
    BY <2>1 DEF Accounts
  <2> QED BY <1>3, <2>2, StaffConstants
<1> HIDE DEF row, t
<1>5. /\ RequestTables' /\ OthersRest(r) /\ StaffRequest(r)'
  BY <1>1, RequestAnswered DEF StaffRight, StaffRequest
<1>6. CASE account[t] # Nothing
  BY <1>1, <1>5, <1>6, AccountsLeftAlone, StaffMove DEF StaffRight
<1>7. CASE account[t] = Nothing
  <2>1. /\ account' \in [Users -> Accounts \cup {Nothing}] /\ account'[t] = row
        /\ \A u \in Users : u # t => account'[u] = account[u]
    BY <1>1, <1>3, <1>4, <1>7 DEF StaffRight, AccountRows
  <2>2. AccountRows'
    BY <1>1, <1>3, <1>4, <1>7, <2>1 DEF StaffRight, AccountRows
  <2>3. LocksHold
    BY <1>1, <1>4, <1>7, <2>1 DEF LocksHold
  <2>4. CookiesOfTheActive'
    BY <1>1 DEF StaffRight, CookiesOfTheActive
  <2>5. \A c \in cookies : c.user \in Users
    BY DEF StaffRight, CookiesOfTheActive, Cookies
  <2>6. CookiesMatchAuthority'
    BY <1>1, <1>7, <2>1, <2>5 DEF StaffRight, CookiesMatchAuthority
  <2> QED BY <1>1, <1>5, <2>2, <2>3, <2>4, <2>6, StaffMove DEF StaffRight
<1> QED BY <1>6, <1>7

\* The lock of a row is taken with the row as it is.
LEMMA StaffLock ==
    ASSUME StaffRight, NEW r \in Requests, LockTarget(r)
    PROVE  StaffRight'
<1> DEFINE t == job[r].target
<1>1. /\ UNCHANGED <<account, cookies, resetTo>> /\ rowLock[t] = Nothing
      /\ \/ /\ account[t] # Nothing /\ Eligible(caller[r], job[r], account[t])
            /\ GoesOn(r, "checked", account[t]) /\ rowLock' = [rowLock EXCEPT ![t] = r]
         \/ Answered(r) /\ UNCHANGED rowLock
  BY DEF LockTarget
<1>2. <<caller[r], job[r]>> \in AskedOps /\ job[r].op # "create"
  BY DEF LockTarget, StaffRight, StaffRequest
<1>3. caller[r] \in Principals /\ job[r] \in StaffJobs /\ t \in Users
  BY <1>2 DEF AskedOps, StaffJobs
<1>4. CASE Answered(r) /\ UNCHANGED rowLock
  <2>1. RequestTables' /\ OthersRest(r) /\ StaffRequest(r)'
    BY <1>4, RequestAnswered DEF StaffRight, StaffRequest
  <2> QED BY <1>1, <1>4, <2>1, AccountsLeftAlone, StaffMove DEF StaffRight
<1>5. CASE /\ account[t] # Nothing /\ Eligible(caller[r], job[r], account[t])
           /\ GoesOn(r, "checked", account[t]) /\ rowLock' = [rowLock EXCEPT ![t] = r]
  <2>1. /\ RequestTables' /\ OthersRest(r) /\ pc'[r] = "checked" /\ job'[r] = job[r]
        /\ caller'[r] = caller[r] /\ seen'[r] = account[t]
    BY <1>5, RequestGoesOn DEF StaffRight
  <2>2. account[t] \in Accounts
    BY <1>3, <1>5 DEF StaffRight, AccountRows
  <2>3. <<caller[r], job[r], account[t]>> \in Granted
    BY <1>2, <1>3, <1>5, <2>2 DEF Granted
  <2>4. /\ rowLock' \in [Users -> Requests \cup {Nothing}] /\ rowLock'[t] = r
        /\ \A u \in Users : rowLock[u] # Nothing => rowLock'[u] = rowLock[u]
    BY <1>1, <1>3, <1>5 DEF StaffRight
  <2>5. StaffRequest(r)'
    BY <1>1, <2>1, <2>3, <2>4 DEF StaffRequest
  <2>6. LocksHold
    BY <1>1, <2>4, RequestConstants DEF LocksHold
  <2> QED BY <1>1, <2>1, <2>4, <2>5, <2>6, AccountsLeftAlone, StaffMove
<1> QED BY <1>1, <1>4, <1>5

\* A request lets go of its own locks only.
LEMMA UnlocksItsOwn ==
    ASSUME StaffRight, NEW r \in Requests, Unlock(r)
    PROVE  /\ rowLock' \in [Users -> Requests \cup {Nothing}]
           /\ \A u \in Users : rowLock[u] # r => rowLock'[u] = rowLock[u]
BY DEF Unlock, StaffRight

LEMMA StaffCount ==
    ASSUME StaffRight, NEW r \in Requests, CountAdmins(r)
    PROVE  StaffRight'
<1>1. UNCHANGED <<account, cookies, resetTo>> /\ pc[r] = "checked"
  BY DEF CountAdmins
<1>2. CASE GoesOn(r, "counted", seen[r]) /\ UNCHANGED rowLock
  <2>1. /\ RequestTables' /\ OthersRest(r) /\ pc'[r] = "counted" /\ job'[r] = job[r]
        /\ caller'[r] = caller[r] /\ seen'[r] = seen[r]
    BY <1>2, RequestGoesOn DEF StaffRight
  <2>2. StaffRequest(r)'
    BY <1>1, <1>2, <2>1 DEF StaffRight, StaffRequest
  <2> QED BY <1>1, <1>2, <2>1, <2>2, AccountsLeftAlone, StaffMove DEF StaffRight
<1>3. CASE Answered(r) /\ Unlock(r)
  <2>1. RequestTables' /\ OthersRest(r) /\ StaffRequest(r)' /\ pc'[r] = "idle"
    BY <1>3, RequestAnswered DEF StaffRight, StaffRequest
  <2>2. /\ rowLock' \in [Users -> Requests \cup {Nothing}]
        /\ \A u \in Users : rowLock[u] # r => rowLock'[u] = rowLock[u]
    BY <1>3, UnlocksItsOwn
  <2>3. LocksHold
    BY <1>1, <2>1, <2>2 DEF LocksHold
  <2> QED BY <1>1, <2>1, <2>2, <2>3, AccountsLeftAlone, StaffMove
<1> QED BY <1>2, <1>3 DEF CountAdmins

\* The write of a checked row is of the row as it was checked.
LEMMA WriteOfTheCheckedRow ==
    ASSUME StaffRight, NEW r \in Requests, Write(r)
    PROVE  LET t == job[r].target IN
           /\ t \in Users /\ rowLock[t] = r /\ account[t] \in Accounts /\ account[t] = seen[r]
           /\ account[t] # Nothing /\ account \in [Users -> Accounts \cup {Nothing}]
           /\ pc[r] \in {"checked", "counted"}
           /\ caller[r] \in Principals /\ job[r] \in StaffJobs
           /\ job[r].op \in {"update", "enable", "disable", "reset"}
           /\ Eligible(caller[r], job[r], account[t])
           /\ job[r].op = "update" => /\ job[r].post \in Posts
                                      /\ Paired(job[r].post.role, job[r].post.store)
           /\ Paired(account[t].role, account[t].store)
           /\ account'[t] = Written(job[r], account[t])
           /\ \A u \in Users : u # t => account'[u] = account[u]
           /\ account' = [account EXCEPT ![t] = Written(job[r], account[t])]
           /\ cookies' = IF EndsSessions(job[r], account[t])
                         THEN cookies \ SessionsOf(t) ELSE cookies
           /\ resetTo' = IF job[r].op = "reset"
                         THEN [resetTo EXCEPT ![t] = account[t].password + 1] ELSE resetTo
           /\ Answered(r) /\ Unlock(r)
<1> DEFINE t == job[r].target
<1>1. pc[r] \in {"checked", "counted"} /\ Answered(r) /\ Unlock(r)
  BY DEF Write
<1>2. /\ <<caller[r], job[r], seen[r]>> \in Granted /\ rowLock[t] = r /\ account[t] = seen[r]
  BY <1>1 DEF StaffRight, StaffRequest
<1>3. /\ caller[r] \in Principals /\ job[r] \in StaffJobs /\ seen[r] \in Accounts
      /\ job[r].op # "create" /\ Eligible(caller[r], job[r], seen[r])
  BY <1>2 DEF Granted
<1>4. /\ t \in Users /\ job[r].op \in {"update", "enable", "disable", "reset"}
      /\ job[r].op = "update" => job[r].post \in Posts
  BY <1>3 DEF StaffJobs
<1>5. job[r].op = "update" => Paired(job[r].post.role, job[r].post.store)
  BY <1>3 DEF Eligible
<1>6. account[t] # Nothing /\ Paired(account[t].role, account[t].store)
      /\ account \in [Users -> Accounts \cup {Nothing}]
  BY <1>2, <1>3, <1>4, StaffConstants DEF StaffRight, AccountRows
<1>7. /\ account' = [account EXCEPT ![t] = Written(job[r], account[t])]
      /\ cookies' = IF EndsSessions(job[r], seen[r])
                    THEN cookies \ SessionsOf(t) ELSE cookies
      /\ resetTo' = IF job[r].op = "reset"
                    THEN [resetTo EXCEPT ![t] = account[t].password + 1] ELSE resetTo
  BY DEF Write
<1>8. /\ account'[t] = Written(job[r], account[t])
      /\ \A u \in Users : u # t => account'[u] = account[u]
  BY <1>4, <1>6, <1>7
<1> QED BY <1>1, <1>2, <1>3, <1>4, <1>5, <1>6, <1>7, <1>8

\* One row written, by an operation on that row.
RowWritten(t, j) ==
    /\ j.op \in {"update", "enable", "disable", "reset", "own"}
    /\ j.op = "update" => j.post \in Posts /\ Paired(j.post.role, j.post.store)
    /\ account' = [account EXCEPT ![t] = Written(j, account[t])]
    /\ resetTo' = IF j.op = "reset"
                  THEN [resetTo EXCEPT ![t] = account[t].password + 1] ELSE resetTo

LEMMA OneRowWritten ==
    ASSUME StaffRight, NEW t \in Users, account[t] # Nothing, NEW j, RowWritten(t, j)
    PROVE  /\ AccountRows' /\ account'[t] \in Accounts /\ account'[t] # Nothing
           /\ \A u \in Users : u # t => resetTo'[u] = resetTo[u]
<1> USE DEF RowWritten
<1> DEFINE old == account[t]
           row == Written(j, account[t])
<1>1. old \in Accounts /\ Paired(old.role, old.store) /\ old.password >= resetTo[t]
  BY DEF StaffRight, AccountRows
<1>2. /\ row \in Accounts /\ Paired(row.role, row.store)
      /\ row.password = IF j.op \in {"reset", "own"} THEN old.password + 1 ELSE old.password
  BY <1>1, RowsStayAccounts
<1> HIDE DEF old, row
<1>3. /\ row # Nothing /\ account'[t] = row
      /\ \A u \in Users : u # t => account'[u] = account[u]
      /\ account' = [account EXCEPT ![t] = row]
  BY <1>2, StaffConstants DEF row, StaffRight, AccountRows
<1>4. /\ resetTo' \in [Users -> Nat]
      /\ \A u \in Users : u # t => resetTo'[u] = resetTo[u]
      /\ resetTo'[t] = IF j.op = "reset" THEN old.password + 1 ELSE resetTo[t]
  BY <1>1 DEF StaffRight, AccountRows, Accounts, old
<1>5. old.password \in Nat /\ resetTo[t] \in Nat
  BY <1>1 DEF StaffRight, AccountRows, Accounts
<1>6. account'[t].password >= resetTo'[t]
  BY <1>1, <1>2, <1>3, <1>4, <1>5
<1>7. account' \in [Users -> Accounts \cup {Nothing}]
  BY <1>2, <1>3 DEF StaffRight, AccountRows
<1>8. \A u \in Users :
        IF account'[u] = Nothing THEN resetTo'[u] = 0 ELSE account'[u].password >= resetTo'[u]
  BY <1>3, <1>4, <1>6 DEF StaffRight, AccountRows
<1>9. \A u \in Users : account'[u] # Nothing => Paired(account'[u].role, account'[u].store)
  BY <1>2, <1>3 DEF StaffRight, AccountRows
<1> QED BY <1>2, <1>3, <1>4, <1>7, <1>8, <1>9 DEF AccountRows

LEMMA StaffWrite ==
    ASSUME StaffRight, NEW r \in Requests, Write(r)
    PROVE  StaffRight'
<1> DEFINE t == job[r].target
<1>1. /\ t \in Users /\ rowLock[t] = r /\ account[t] \in Accounts
      /\ account[t] # Nothing
      /\ pc[r] \in {"checked", "counted"}
      /\ job[r].op \in {"update", "enable", "disable", "reset"}
      /\ job[r].op = "update" => job[r].post \in Posts /\ Paired(job[r].post.role, job[r].post.store)
      /\ Paired(account[t].role, account[t].store)
      /\ account'[t] = Written(job[r], account[t])
      /\ \A u \in Users : u # t => account'[u] = account[u]
      /\ account' = [account EXCEPT ![t] = Written(job[r], account[t])]
      /\ cookies' = IF EndsSessions(job[r], account[t])
                    THEN cookies \ SessionsOf(t) ELSE cookies
      /\ resetTo' = IF job[r].op = "reset"
                    THEN [resetTo EXCEPT ![t] = account[t].password + 1] ELSE resetTo
      /\ Answered(r) /\ Unlock(r)
  BY WriteOfTheCheckedRow
<1>2. /\ AccountRows' /\ account'[t] \in Accounts /\ account'[t] # Nothing
      /\ \A u \in Users : u # t => resetTo'[u] = resetTo[u]
  <2> HIDE DEF t
  <2>1. RowWritten(t, job[r])
    BY <1>1 DEF RowWritten
  <2> QED BY <1>1, <2>1, OneRowWritten
<1>3. RequestTables' /\ OthersRest(r) /\ StaffRequest(r)' /\ pc'[r] = "idle"
  BY <1>1, RequestAnswered DEF StaffRight, StaffRequest
<1>4. /\ rowLock' \in [Users -> Requests \cup {Nothing}]
      /\ \A u \in Users : rowLock[u] # r => rowLock'[u] = rowLock[u]
  BY <1>1, UnlocksItsOwn
<1>5. LocksHold
  BY <1>1, <1>2, <1>3, <1>4 DEF LocksHold
<1>6. cookies' \subseteq cookies /\ CookiesOfTheActive'
  BY <1>1 DEF StaffRight, CookiesOfTheActive
<1>7. ASSUME NEW c \in cookies', c.user = t
      PROVE  \/ c.late
             \/ /\ account'[t].role = c.row.role /\ account'[t].store = c.row.store
                /\ account'[t].active = c.row.active
                /\ c.row.password >= resetTo'[t]
  <2>1. c \in cookies /\ ~EndsSessions(job[r], account[t])
    BY <1>1, <1>7 DEF SessionsOf
  <2>2. /\ job[r].op \in {"update", "enable"} /\ resetTo' = resetTo
        /\ job[r].op = "update" => /\ job[r].post.role = account[t].role
                                   /\ job[r].post.store = account[t].store
    BY <1>1, <2>1 DEF EndsSessions
  <2>3. /\ account'[t].role = account[t].role /\ account'[t].store = account[t].store
        /\ account'[t].active = IF job[r].op = "enable" THEN TRUE ELSE account[t].active
    <3>1. /\ account'[t].role =
               IF job[r].op = "update" THEN job[r].post.role ELSE account[t].role
          /\ account'[t].store =
               IF job[r].op = "update" THEN job[r].post.store ELSE account[t].store
          /\ account'[t].active =
               IF job[r].op \in {"enable", "disable"} THEN job[r].op = "enable"
               ELSE account[t].active
      <4> HIDE DEF t
      <4> QED BY <1>1, RowsStayAccounts
    <3> QED BY <2>2, <3>1
  <2>4. \/ c.late
        \/ /\ account[t].role = c.row.role /\ account[t].store = c.row.store
           /\ account[t].active = c.row.active /\ c.row.password >= resetTo[t]
    BY <1>7, <2>1 DEF StaffRight, CookiesMatchAuthority
  <2>5. c.row.active = TRUE
    BY <2>1 DEF StaffRight, CookiesOfTheActive, Cookies, Accounts
  <2> QED BY <2>2, <2>3, <2>4, <2>5
<1>8. \A c \in cookies : c.user \in Users
  BY DEF StaffRight, CookiesOfTheActive, Cookies
<1>9. CookiesMatchAuthority'
  <2> SUFFICES ASSUME NEW c \in cookies'
               PROVE  \/ c.late
                      \/ /\ account'[c.user] # Nothing
                         /\ account'[c.user].role = c.row.role
                         /\ account'[c.user].store = c.row.store
                         /\ account'[c.user].active = c.row.active
                         /\ c.row.password >= resetTo'[c.user]
    BY DEF CookiesMatchAuthority
  <2>1. CASE c.user = t
    BY <1>2, <1>7, <2>1
  <2>2. CASE c.user # t
    <3>1. c \in cookies /\ account'[c.user] = account[c.user] /\ resetTo'[c.user] = resetTo[c.user]
      BY <1>1, <1>2, <1>6, <1>8, <2>2
    <3> QED BY <3>1 DEF StaffRight, CookiesMatchAuthority
  <2> QED BY <2>1, <2>2
<1> QED BY <1>2, <1>3, <1>4, <1>5, <1>6, <1>9, StaffMove

\* One's own password is written while nobody holds the row.
LEMMA StaffWriteOwn ==
    ASSUME StaffRight, NEW r \in Requests, WriteOwn(r)
    PROVE  StaffRight'
<1> DEFINE t == job[r].target
<1>1. /\ pc[r] = "verified" /\ job[r].op = "own" /\ rowLock[t] = Nothing /\ Answered(r)
      /\ account' = [account EXCEPT ![t] = Written(job[r], account[t])]
      /\ rowLock' = rowLock /\ cookies' = cookies /\ resetTo' = resetTo
  BY DEF WriteOwn
<1>2. t \in Users /\ account[t] # Nothing /\ account \in [Users -> Accounts \cup {Nothing}]
  BY <1>1 DEF StaffRight, StaffRequest, OwnJobs, AccountRows
<1>3. account[t] \in Accounts /\ Paired(account[t].role, account[t].store)
  BY <1>2 DEF StaffRight, AccountRows
<1> HIDE DEF t
<1>4. /\ account'[t] = Written(job[r], account[t])
      /\ \A u \in Users : u # t => account'[u] = account[u]
  BY <1>1, <1>2
<1>5. AccountRows' /\ account'[t] \in Accounts /\ account'[t] # Nothing
  <2>1. RowWritten(t, job[r])
    BY <1>1 DEF RowWritten
  <2> QED BY <1>2, <2>1, OneRowWritten
<1>6. /\ account'[t].role = account[t].role /\ account'[t].store = account[t].store
      /\ account'[t].active = account[t].active
  BY <1>1, <1>3, <1>4, RowsStayAccounts
<1>7. RequestTables' /\ OthersRest(r) /\ StaffRequest(r)'
  BY <1>1, RequestAnswered DEF StaffRight, StaffRequest
<1>8. LocksHold
  BY <1>1, <1>4, <1>5, RequestConstants DEF LocksHold
<1>9. CookiesOfTheActive' /\ \A c \in cookies : c.user \in Users
  BY <1>1 DEF StaffRight, CookiesOfTheActive, Cookies
<1>10. CookiesMatchAuthority'
  BY <1>1, <1>4, <1>5, <1>6, <1>9 DEF StaffRight, CookiesMatchAuthority
<1> QED BY <1>1, <1>5, <1>7, <1>8, <1>9, <1>10, StaffMove DEF StaffRight

\* A session is opened on the row its sign-in read, or it is late.
LEMMA StaffOpen ==
    ASSUME StaffRight, NEW r \in Requests, OpenSession(r)
    PROVE  StaffRight'
<1> DEFINE t == job[r].target
           new == [user |-> t, row |-> seen[r], late |-> account[t] # seen[r]]
<1>1. /\ pc[r] = "verified" /\ Answered(r) /\ cookies' = cookies \cup {new}
      /\ account' = account /\ rowLock' = rowLock /\ resetTo' = resetTo
  BY DEF OpenSession
<1>2. t \in Users /\ account[t] # Nothing /\ seen[r] \in Accounts /\ seen[r].active
  BY <1>1 DEF StaffRight, StaffRequest, OwnJobs
<1>3. /\ new \in Cookies /\ new.row.active /\ new.user = t
      /\ new.late \/ new.row = account[t]
  BY <1>2 DEF Cookies
<1> HIDE DEF new, t
<1>4. account[t].password >= resetTo[t]
  BY <1>2 DEF StaffRight, AccountRows
<1>5. AccountRows' /\ LocksHold
  BY <1>1 DEF StaffRight, AccountRows, LocksHold
<1>6. CookiesOfTheActive'
  BY <1>1, <1>3 DEF StaffRight, CookiesOfTheActive
<1>7. CookiesMatchAuthority'
  BY <1>1, <1>2, <1>3, <1>4 DEF StaffRight, CookiesMatchAuthority
<1>8. RequestTables' /\ OthersRest(r) /\ StaffRequest(r)'
  BY <1>1, RequestAnswered DEF StaffRight, StaffRequest
<1> QED BY <1>1, <1>5, <1>6, <1>7, <1>8, StaffMove DEF StaffRight

LEMMA StaffStep == StaffRight /\ [StaffNext]_staffVars => StaffRight'
<1> SUFFICES ASSUME StaffRight, [StaffNext]_staffVars
             PROVE  StaffRight'
  OBVIOUS
<1>1. CASE EndSession \/ UNCHANGED staffVars
  <2>1. /\ pc' = pc /\ job' = job /\ caller' = caller /\ seen' = seen
        /\ account' = account /\ rowLock' = rowLock /\ resetTo' = resetTo
        /\ cookies' \subseteq cookies
    BY <1>1 DEF EndSession, staffVars, request
  <2>2. /\ AccountRows' /\ CookiesOfTheActive' /\ CookiesMatchAuthority' /\ LocksHold
    BY <2>1, AccountsLeftAlone
  <2>3. \A q \in Requests : StaffRequest(q)'
    BY <2>1, <2>2, OthersRely
  <2> QED BY <2>1, <2>2, <2>3 DEF StaffRight, RequestTables
<1> QED BY <1>1, StaffAsk, StaffCreate, StaffLock, StaffCount, StaffWrite, StaffWriteOwn,
           StaffOpen DEF StaffNext

\* Types, role and store that belong together, rows written as they were
\* checked; and no session outlives the authority it was opened under, unless
\* its sign-in was under way at the change (identity/service.ts
\* withManagedTarget, repo.ts deleteSessionsForUser).
THEOREM CookiesCarryAuthority == StaffSpec => [](StaffInv /\ CookiesMatchAuthority)
<1>1. StaffInit => StaffRight
  BY StaffStarts
<1>2. StaffRight /\ [StaffNext]_staffVars => StaffRight'
  BY StaffStep
<1>3. StaffRight => StaffInv /\ CookiesMatchAuthority
  BY StaffInvHolds DEF StaffRight
<1> QED BY <1>1, <1>2, <1>3, PTL DEF StaffSpec

\* Only the write of a request that is answered changes an account.
LEMMA WhoWritesAccounts ==
    ASSUME StaffRight, [StaffNext]_staffVars, NEW r \in Requests, account' # account,
           pc[r] # "idle", pc'[r] = "idle", job[r].op \notin {"own", "signIn"}
    PROVE  Create(r) \/ Write(r)
<1>1. RequestTables
  BY DEF StaffRight
<1>2. PICK q \in Requests : Create(q) \/ Write(q) \/ WriteOwn(q)
  BY DEF StaffNext, staffVars, EndSession, AskStaff, LockTarget, CountAdmins, VerifyOwn, SignIn,
         OpenSession
<1>3. Answered(q)
  BY <1>2 DEF Create, Write, WriteOwn
<1>4. q = r
  BY <1>1, <1>3, RequestAnswered DEF OthersRest
<1> QED BY <1>2, <1>4 DEF WriteOwn

\* What a manager makes is staff of the manager's own shop.
LEMMA ManagersMakeStaff ==
    ASSUME StaffRight, NEW r \in Requests, Create(r), caller[r].role # "SUPER_ADMIN",
           NEW u \in Users, account'[u] # account[u]
    PROVE  /\ caller[r].role = "STORE_MANAGER" /\ account[u] = Nothing
           /\ account'[u].store = caller[r].store /\ account'[u].role = "STORE_STAFF"
<1> DEFINE t == job[r].target
           row == [role |-> job[r].post.role, store |-> job[r].post.store,
                   active |-> TRUE, password |-> 0]
<1>1. /\ job[r].op = "create" /\ <<caller[r], job[r]>> \in AskedOps
      /\ account' = IF account[t] = Nothing THEN [account EXCEPT ![t] = row] ELSE account
  BY DEF Create, StaffRight, StaffRequest
<1>2. row.role = job[r].post.role /\ row.store = job[r].post.store
  OBVIOUS
<1> HIDE DEF t, row
<1>3. u = t /\ account[u] = Nothing /\ account'[u] = row
  BY <1>1 DEF StaffRight, AccountRows
<1>4. /\ caller[r] \in Principals /\ CanAssign(caller[r], "create", job[r].post)
  BY <1>1 DEF AskedOps, MayAsk
<1>5. /\ job[r].post.role \in RolesUnder(caller[r])
      /\ Authorized(caller[r], Needs("create"), job[r].post.store)
  BY <1>4 DEF CanAssign
<1>6. caller[r].role = "STORE_MANAGER" /\ job[r].post.store = caller[r].store
  BY <1>4, <1>5, WhatManagersMayReach DEF Managing
<1>7. job[r].post.role = "STORE_STAFF"
  BY <1>5, <1>6, RolesUnderManagers
<1> QED BY <1>2, <1>3, <1>6, <1>7

\* Whom a manager writes is staff of that shop or the manager, and stays there.
LEMMA ManagersWriteStaff ==
    ASSUME StaffRight, NEW r \in Requests, Write(r), caller[r].role # "SUPER_ADMIN",
           NEW u \in Users, account'[u] # account[u]
    PROVE  /\ caller[r].role = "STORE_MANAGER"
           /\ \/ account[u].role = "STORE_STAFF" /\ account[u].store = caller[r].store
              \/ u = caller[r].user
           /\ account'[u].store = caller[r].store
           /\ account'[u].role = "STORE_STAFF" \/ account'[u].role = account[u].role
<1> DEFINE t == job[r].target
<1>1. /\ t \in Users /\ account[t] \in Accounts
      /\ caller[r] \in Principals
      /\ job[r].op \in {"update", "enable", "disable", "reset"}
      /\ Eligible(caller[r], job[r], account[t])
      /\ job[r].op = "update" => job[r].post \in Posts /\ Paired(job[r].post.role, job[r].post.store)
      /\ Paired(account[t].role, account[t].store)
      /\ account'[t] = Written(job[r], account[t])
      /\ \A v \in Users : v # t => account'[v] = account[v]
  BY WriteOfTheCheckedRow
<1>2. u = t
  BY <1>1
<1>3. /\ Authorized(caller[r], Needs(job[r].op), account[t].store)
      /\ CanManage(caller[r], t, account[t])
      /\ /\ job[r].op = "update"
         /\ job[r].post.role # account[t].role \/ job[r].post.store # account[t].store
         => CanAssign(caller[r], "update", job[r].post)
  BY <1>1 DEF Eligible
<1>4. caller[r].role = "STORE_MANAGER" /\ account[t].store = caller[r].store
  <2>1. job[r].op \in Managing
    BY <1>1 DEF Managing
  <2> QED BY <1>1, <1>3, <2>1, WhatManagersMayReach
<1>5. caller[r].user = t \/ account[t].role = "STORE_STAFF"
  BY <1>3, <1>4, RolesUnderManagers DEF CanManage
<1>6. /\ account'[t].role = IF job[r].op = "update" THEN job[r].post.role ELSE account[t].role
      /\ account'[t].store = IF job[r].op = "update" THEN job[r].post.store ELSE account[t].store
  <2> HIDE DEF t
  <2> QED BY <1>1, RowsStayAccounts
<1>7. ASSUME CanAssign(caller[r], "update", job[r].post)
      PROVE  job[r].post.role = "STORE_STAFF" /\ job[r].post.store = caller[r].store
  <2>1. /\ job[r].post.role \in RolesUnder(caller[r])
        /\ Authorized(caller[r], Needs("update"), job[r].post.store)
    BY <1>7 DEF CanAssign
  <2>2. job[r].post.store = caller[r].store
    BY <1>1, <1>4, <2>1, WhatManagersMayReach DEF Managing
  <2> QED BY <1>4, <2>1, <2>2, RolesUnderManagers
<1> QED BY <1>2, <1>3, <1>4, <1>5, <1>6, <1>7

\* However requests interleave, a manager reaches the staff of the manager's
\* shop or the manager's own account and nothing else, as they are when they
\* are written, and moves nobody (identity/service.ts withManagedTarget).
THEOREM ManagersStayInTheirShop == StaffSpec => ManagersRunTheirOwnStaff
<1> DEFINE OwnStaff ==
      \A r \in Requests, u \in Users :
         (/\ account'[u] # account[u]
          /\ pc[r] # "idle" /\ pc'[r] = "idle"
          /\ job[r].op \notin {"own", "signIn"}
          /\ caller[r].role # "SUPER_ADMIN")
         => /\ caller[r].role = "STORE_MANAGER"
            /\ account[u] # Nothing =>
                 \/ account[u].role = "STORE_STAFF" /\ account[u].store = caller[r].store
                 \/ u = caller[r].user
            /\ account'[u].store = caller[r].store
            /\ account'[u].role = "STORE_STAFF" \/ account'[u].role = account[u].role
<1>1. StaffInit => StaffRight
  BY StaffStarts
<1>2. StaffRight /\ [StaffNext]_staffVars => StaffRight'
  BY StaffStep
<1>3. StaffRight /\ [StaffNext]_staffVars => [OwnStaff]_staffVars
  <2> SUFFICES ASSUME StaffRight, [StaffNext]_staffVars,
                      NEW r \in Requests, NEW u \in Users,
                      account'[u] # account[u], pc[r] # "idle", pc'[r] = "idle",
                      job[r].op \notin {"own", "signIn"}, caller[r].role # "SUPER_ADMIN"
               PROVE  /\ caller[r].role = "STORE_MANAGER"
                      /\ account[u] # Nothing =>
                           \/ account[u].role = "STORE_STAFF" /\ account[u].store = caller[r].store
                           \/ u = caller[r].user
                      /\ account'[u].store = caller[r].store
                      /\ account'[u].role = "STORE_STAFF" \/ account'[u].role = account[u].role
    OBVIOUS
  <2>1. Create(r) \/ Write(r)
    BY WhoWritesAccounts
  <2> QED BY <2>1, ManagersMakeStaff, ManagersWriteStaff
<1> QED BY <1>1, <1>2, <1>3, PTL DEF StaffSpec, ManagersRunTheirOwnStaff

-----------------------------------------------------------------------------
(* The screens of the back office *)

Viewers == {p \in Principals : Paired(p.role, p.store)}

\* A screen is of a principal as it was read, and of no shop but its own.
ViewRight(v) ==
    /\ v.name \in Screens /\ v.as \in Viewers
    /\ v.name = "order" => v.order \in Orders
    /\ v.name # "order" /\ v.as.role # "SUPER_ADMIN" => v.store = v.as.store

\* A button is pressed on an order's screen, by an account as it is then.
PressRight ==
    press # Nothing =>
        /\ press.by \in Viewers /\ press.order \in Orders
        /\ press.signedIn /\ press.row.active
        /\ press.by.role = press.row.role /\ press.by.store = press.row.store
        /\ screen # Nothing /\ screen.of.name = "order"

PairedAccounts ==
    /\ account \in [Users -> Accounts \cup {Nothing}]
    /\ \A u \in Users : account[u] # Nothing => Paired(account[u].role, account[u].store)
    /\ \A c \in cookies : c.user \in Users

ScreensRight ==
    /\ PairedAccounts
    /\ order \in [Orders -> Order]
    /\ viewing # Nothing => ViewRight(viewing) /\ screen = Nothing
    /\ screen # Nothing => ViewRight(screen.of)
    /\ PressRight

LEMMA ViewersAre ==
    ASSUME NEW p \in Viewers
    PROVE  /\ p.kind = "user" /\ p.role \in Roles /\ p.store \in Stores \cup {NoStore}
           /\ p.role = "SUPER_ADMIN" <=> p.store = NoStore
           /\ Unscoped(p) <=> p.role = "SUPER_ADMIN"
           /\ HasGrants(p)
BY DEF Viewers, Principals, Paired, Unscoped, HasGrants

\* What each role is granted, in so many words.
LEMMA ViewersMay ==
    ASSUME NEW p \in Viewers, NEW action, NEW store
    PROVE  /\ p.role = "SUPER_ADMIN" => (Authorized(p, action, store) <=> action \in AdminGrants)
           /\ p.role = "STORE_MANAGER" =>
                (Authorized(p, action, store) <=>
                    action \in SharedReads \/ (action \in ManagerGrants /\ store = p.store))
           /\ p.role = "STORE_STAFF" =>
                (Authorized(p, action, store) <=>
                    action \in SharedReads \/ (action \in StaffGrants /\ store = p.store))
<1>1. p.kind # "system" /\ p.kind # "customer"
  BY ViewersAre
<1>2. GrantedEverywhere(p) = IF p.role = "SUPER_ADMIN" THEN AdminGrants ELSE SharedReads
  BY <1>1 DEF GrantedEverywhere
<1>3. /\ p.role = "SUPER_ADMIN" => GrantedInStore(p) = {}
      /\ p.role = "STORE_MANAGER" => GrantedInStore(p) = ManagerGrants
      /\ p.role = "STORE_STAFF" => GrantedInStore(p) = StaffGrants
  BY <1>1 DEF GrantedInStore
<1>4. p.role # "SUPER_ADMIN" =>
        (store # NoStore /\ CanAccessStore(p, store) <=> store = p.store)
  BY ViewersAre DEF CanAccessStore
<1> HIDE DEF AdminGrants, SharedReads, ManagerGrants, StaffGrants
<1> QED BY <1>2, <1>3, <1>4, ViewersAre DEF Authorized

\* The pages, one by one.
LEMMA PagesAre ==
    ASSUME NEW p
    PROVE  /\ PageOf(p, "overview") = OverviewPage(p)
           /\ PageOf(p, "orders") = OrdersPage(p)
           /\ PageOf(p, "order") = OrderPage(p)
           /\ PageOf(p, "inventory") = InventoryPage(p)
           /\ PageOf(p, "listings") = ListingsPage(p)
           /\ PageOf(p, "products") = ProductsPage(p)
           /\ PageOf(p, "zones") = ZonesPage(p)
           /\ PageOf(p, "stores") = StoresPage(p)
           /\ PageOf(p, "users") = UsersPage(p)
           /\ PageOf(p, "audit") = AuditPage(p)
           /\ PageOf(p, "reports") = ReportsPage(p)
           /\ PageOf(p, "requests") = RequestsPage(p)
           /\ PageOf(p, "categories") = CategoriesPage(p)
           /\ \A name \in {"two-factor", "fulfillment", "pos"} : PageOf(p, name) = PlainPage(p)
BY DEF PageOf

StaffReads ==
    {"store:read", "product:read", "category:read", "store-product:read", "inventory:read",
     "stock-ledger:read", "order:read", "store-settings:read", "delivery-zone:read",
     "delivery-area:read", "price-change:read"}

ManagerReads == StaffReads \cup {"user:read", "audit-log:read", "product-request:read"}

\* No page reads more than a manager may, and none of a staff's more than
\* staff may.
LEMMA PagesRead ==
    ASSUME NEW p, NEW name \in Screens, NEW read \in PageOf(p, name).reads
    PROVE  /\ read.action \in ManagerReads
           /\ name \in StaffLinks => read.action \in StaffReads
<1> USE DEF Page, Own, OfShop, StoreList, ProductList, CategoryList, ListingList,
            LowStockList, StaffReads, ManagerReads
<1>1. \A r \in Overview : r.action \in StaffReads
  BY DEF Overview
<1>2. \A r \in ListingRows \cup StockRows : r.action \in StaffReads
  BY DEF ListingRows, StockRows, StockList
<1>3. CASE name \in {"overview", "reports"}
  BY <1>1, <1>3, PagesAre DEF OverviewPage, ReportsPage, OrderCounts
<1>4. CASE name = "orders"
  BY <1>4, PagesAre DEF OrdersPage, OrderQueue
<1>5. CASE name \in {"order", "two-factor", "fulfillment", "pos"}
  BY <1>5, PagesAre DEF OrderPage, PlainPage
<1>6. CASE name = "inventory"
  BY <1>2, <1>6, PagesAre DEF InventoryPage, Ledger, ImportList
<1>7. CASE name = "listings"
  BY <1>2, <1>7, PagesAre DEF ListingsPage, PriceHistory
<1>8. CASE name \in {"products", "categories"}
  BY <1>8, PagesAre DEF ProductsPage, CategoriesPage
<1>9. CASE name = "zones"
  BY <1>9, PagesAre DEF ZonesPage, ZoneList, AreaList
<1>10. CASE name = "stores"
  BY <1>10, PagesAre DEF StoresPage, Settings
<1>11. CASE name = "users"
  BY <1>11, PagesAre DEF UsersPage, UserList, StaffLinks
<1>12. CASE name = "audit"
  BY <1>12, PagesAre DEF AuditPage, AuditList, StaffLinks
<1>13. CASE name = "requests"
  BY <1>13, PagesAre DEF RequestsPage, RequestList, RequestCounts, StaffLinks
<1> QED
  BY <1>3, <1>4, <1>5, <1>6, <1>7, <1>8, <1>9, <1>10, <1>11, <1>12, <1>13
     DEF Screens, ManagerLinks, StaffLinks

\* A link leads somewhere: whatever a screen of one's own navigation reads is
\* granted.
LEMMA LinksLead ==
    ASSUME NEW v, ViewRight(v), v.name \in Navigation(v.as.role)
    PROVE  v.name # "order" /\ MayShow(v)
<1>1. v.as \in Viewers /\ v.as.role \in Roles /\ v.name \in Screens
  BY ViewersAre DEF ViewRight
<1>2. v.as.role = "STORE_STAFF" => v.name \in StaffLinks
  BY DEF Navigation
<1>3. v.name # "order"
  BY <1>1 DEF Navigation, ManagerLinks, StaffLinks, Roles
<1>4. ASSUME NEW read \in PageOf(v.as, v.name).reads
      PROVE  Authorized(v.as, read.action, IF read.on = "own" THEN v.as.store ELSE v.store)
  <2> DEFINE store == IF read.on = "own" THEN v.as.store ELSE v.store
  <2>1. v.as.role # "SUPER_ADMIN" => store = v.as.store
    BY <1>3 DEF ViewRight
  <2>2. read.action \in ManagerReads /\ (v.as.role = "STORE_STAFF" => read.action \in StaffReads)
    BY <1>1, <1>2, PagesRead
  <2>3. /\ read.action \in AdminGrants
        /\ read.action \in SharedReads \cup ManagerGrants
        /\ v.as.role = "STORE_STAFF" => read.action \in SharedReads \cup StaffGrants
    BY <2>2 DEF ManagerReads, StaffReads, AdminGrants, SharedReads, ManagerGrants, StaffGrants
  <2> HIDE DEF store
  <2>4. Authorized(v.as, read.action, store)
    BY <1>1, <2>1, <2>3, ViewersMay DEF Roles
  <2> QED BY <2>4 DEF store
<1> QED BY <1>3, <1>4 DEF MayShow

\* A form on a page of one's own is one that is granted in the shop shown.
LEMMA FormsAreGranted ==
    ASSUME ScreensRight, NEW v, ViewRight(v), v.as.role # "STORE_STAFF",
           v.name \in Navigation(v.as.role) \cup {"order"},
           v.name = "order" => Finds(v),
           NEW action \in Offered(v),
           NEW shop, shop = IF v.name = "order" THEN order[v.order].shop ELSE v.store
    PROVE  Authorized(v.as, action, shop)
<1>1. v.as \in Viewers /\ v.as.role \in {"SUPER_ADMIN", "STORE_MANAGER"} /\ v.name \in Screens
  BY ViewersAre DEF ViewRight, Roles
<1>2. v.as.role = "STORE_MANAGER" => v.name \in ManagerLinks \cup {"order"}
  BY DEF Navigation
<1>3. v.as.role = "STORE_MANAGER" => shop = v.as.store
  BY <1>1, ViewersAre DEF ViewRight, Finds, InScope
<1>4. action \in PageOf(v.as, v.name).offers
  BY PagesAre DEF Offered
<1>5. /\ action \in AdminGrants
      /\ v.as.role = "STORE_MANAGER" => action \in ManagerGrants
  <2> USE DEF Page, ForAdmins, AdminGrants, ManagerGrants, SharedReads
  <2>1. CASE v.name \in {"overview", "orders", "audit", "reports", "two-factor", "fulfillment", "pos"}
    BY <1>4, <2>1, PagesAre DEF OverviewPage, OrdersPage, AuditPage, ReportsPage, PlainPage
  <2>2. CASE v.name = "order"
    BY <1>4, <2>2, PagesAre DEF OrderPage
  <2>3. CASE v.name = "inventory"
    BY <1>4, <2>3, PagesAre DEF InventoryPage
  <2>4. CASE v.name = "listings"
    BY <1>4, <2>4, PagesAre DEF ListingsPage
  <2>5. CASE v.name = "products"
    BY <1>4, <2>5, PagesAre DEF ProductsPage
  <2>6. CASE v.name = "zones"
    BY <1>4, <2>6, PagesAre DEF ZonesPage
  <2>7. CASE v.name = "stores"
    BY <1>4, <2>7, PagesAre DEF StoresPage
  <2>8. CASE v.name = "users"
    BY <1>4, <2>8, PagesAre DEF UsersPage
  <2>9. CASE v.name = "requests"
    BY <1>4, <2>9, PagesAre DEF RequestsPage
  <2>10. CASE v.name = "categories"
    BY <1>2, <1>4, <2>10, PagesAre DEF CategoriesPage, ManagerLinks, StaffLinks
  <2> QED
    BY <1>1, <2>1, <2>2, <2>3, <2>4, <2>5, <2>6, <2>7, <2>8, <2>9, <2>10
       DEF Screens, ManagerLinks, StaffLinks
<1> HIDE DEF AdminGrants, ManagerGrants
<1> QED BY <1>1, <1>3, <1>5, ViewersMay

\* Work is left with an order where its shop may act on it.
LEMMA WorkIsActionable ==
    ASSUME ScreensRight, NEW o \in Orders
    PROVE  WorkLeft(o) <=> order[o].status \in Actionable
<1>1. order[o].status \in Statuses
  BY DEF ScreensRight, Order
<1>2. \A rule \in Transitions :
        rule.from \in CancellableFrom \cup {"OUT_FOR_DELIVERY", "DELIVERED", "DELIVERY_FAILED"}
  BY DEF Transitions, Rule, CancellableFrom
<1>3. ASSUME NEW from \in CancellableFrom \cup {"OUT_FOR_DELIVERY", "DELIVERY_FAILED"}
      PROVE  \E rule \in Transitions : rule.from = from
  <2>1. CASE from \in CancellableFrom
    <3>1. Rule(from, "CANCELLED_BY_STORE", "correctedAt", FALSE) \in Transitions
      BY <2>1 DEF Transitions
    <3> QED BY <3>1 DEF Rule
  <2>2. CASE from = "OUT_FOR_DELIVERY"
    <3>1. Rule("OUT_FOR_DELIVERY", "DELIVERED", "deliveredAt", FALSE) \in Transitions
      BY DEF Transitions
    <3> QED BY <2>2, <3>1 DEF Rule
  <2>3. CASE from = "DELIVERY_FAILED"
    <3>1. Rule("DELIVERY_FAILED", "OUT_FOR_DELIVERY", "dispatchedAt", FALSE) \in Transitions
      BY DEF Transitions
    <3> QED BY <2>3, <3>1 DEF Rule
  <2> QED BY <2>1, <2>2, <2>3
<1>4. "DELIVERED" \notin Actionable
  BY DEF Actionable, CancellableFrom
<1> HIDE DEF CancellableFrom
<1> QED BY <1>1, <1>2, <1>3, <1>4 DEF WorkLeft, Actionable

LEMMA WhatIsRendered ==
    ASSUME NEW v
    PROVE  /\ Rendered(v).of = v /\ Rendered(v).offers = Offered(v)
           /\ Rendered(v).refused <=> ~(MayShow(v) /\ (v.name = "order" => Finds(v)))
           /\ v.name = "orders" => Rendered(v).orders = Queue(v.as, v.store, v.all)
           /\ v.name = "order" => Rendered(v).orders = {v.order}
           /\ v.name \notin {"order", "orders"} => Rendered(v).orders = {}
           /\ v.name \in {"overview", "reports"} =>
                Rendered(v).count = ActionableCount(v.as, v.store)
           /\ v.name = "users" => Rendered(v).users = VisibleUsers(v.as)
           /\ v.name = "audit" => Rendered(v).entries = AuditEntries(v.as)
BY DEF Rendered

\* The orders of the shop one looks at are within one's scope, and those with
\* work left are the ones asked for.
LEMMA QueuesAreTrue ==
    ASSUME ScreensRight, NEW v, ViewRight(v)
    PROVE  QueueIsTrue(Rendered(v))
<1> DEFINE shopWork == {o \in Orders : order[o].shop = v.store /\ WorkLeft(o)}
           asked == {o \in Orders : /\ InScope(v.as, order[o].shop) /\ order[o].shop = v.store
                                    /\ order[o].status \in Actionable}
<1>1. v.name # "order" => shopWork = asked
  BY WorkIsActionable, ViewersAre DEF ViewRight, InScope
<1>2. \A o \in Rendered(v).orders : order[o].shop = v.store \/ v.name = "order"
  <2>1. CASE v.name = "orders"
    <3>1. Rendered(v).orders = Queue(v.as, v.store, v.all)
      BY <2>1, WhatIsRendered
    <3>2. \A o \in Queue(v.as, v.store, v.all) : order[o].shop = v.store
      BY DEF Queue, FirstOf
    <3> QED BY <3>1, <3>2
  <2>2. CASE v.name \notin {"order", "orders"}
    BY <2>2, WhatIsRendered
  <2> QED BY <2>1, <2>2
<1>3. ASSUME v.name = "orders", ~v.all, NEW o \in Orders
      PROVE  o \in Rendered(v).orders <=>
                 o \in shopWork /\ Cardinality({x \in shopWork : x < o}) < ListLimit
  <2>1. {x \in Orders : /\ InScope(v.as, order[x].shop) /\ order[x].shop = v.store
                        /\ v.all \/ order[x].status \in Actionable} = asked
    BY <1>3
  <2>2. Rendered(v).orders = FirstOf(asked)
    BY <1>3, <2>1, WhatIsRendered DEF Queue
  <2> QED BY <1>1, <1>3, <2>2 DEF FirstOf
<1>4. v.name \in {"overview", "reports"} => Rendered(v).count = Cardinality(shopWork)
  BY <1>1, WhatIsRendered DEF ActionableCount
<1>5. Rendered(v).of = v
  BY WhatIsRendered
<1> QED BY <1>2, <1>3, <1>4, <1>5 DEF QueueIsTrue

LEMMA UsersAreTrue ==
    ASSUME ScreensRight, NEW v, ViewRight(v)
    PROVE  UsersAreManaged(Rendered(v))
<1>1. v.as \in Viewers /\ v.as.role \in Roles
  BY ViewersAre DEF ViewRight
<1>2. ASSUME NEW u \in Users, account[u] # Nothing
      PROVE  InScope(v.as, account[u].store) /\ account[u].role \in RolesUnder(v.as) <=>
                 /\ account[u].role \in RolesUnder(v.as)
                 /\ Authorized(v.as, "user:reset-password", account[u].store)
  <2>1. /\ "user:reset-password" \in AdminGrants /\ "user:reset-password" \in ManagerGrants
        /\ "user:reset-password" \notin SharedReads
    BY DEF AdminGrants, ManagerGrants, SharedReads
  <2>2. v.as.role = "STORE_STAFF" => RolesUnder(v.as) = {}
    BY DEF RolesUnder
  <2>3. InScope(v.as, account[u].store) <=>
          v.as.role = "SUPER_ADMIN" \/ v.as.store = account[u].store
    BY <1>1, ViewersAre DEF InScope
  <2> QED BY <1>1, <2>1, <2>2, <2>3, ViewersMay DEF Roles
<1> QED BY <1>2, WhatIsRendered DEF UsersAreManaged, VisibleUsers

LEMMA LogsAreTrue ==
    ASSUME NEW v, ViewRight(v)
    PROVE  LogIsTheShops(Rendered(v))
<1> DEFINE mine == {i \in DOMAIN trace : InScope(v.as, trace[i].store)}
<1> SUFFICES ASSUME v.name = "audit", NEW i \in DOMAIN trace
             PROVE  i \in AuditEntries(v.as) <=>
                      /\ v.as.role = "SUPER_ADMIN" \/ trace[i].store = v.as.store
                      /\ Cardinality({j \in DOMAIN trace :
                           j > i /\ (v.as.role = "SUPER_ADMIN" \/ trace[j].store = v.as.store)})
                           < ListLimit
  <2>1. Rendered(v).of = v /\ (v.name = "audit" => Rendered(v).entries = AuditEntries(v.as))
    BY WhatIsRendered
  <2> QED BY <2>1 DEF LogIsTheShops
<1>1. \A j \in DOMAIN trace :
        InScope(v.as, trace[j].store) <=> v.as.role = "SUPER_ADMIN" \/ trace[j].store = v.as.store
  BY ViewersAre DEF ViewRight, InScope
<1>2. {j \in mine : j > i} =
        {j \in DOMAIN trace :
           j > i /\ (v.as.role = "SUPER_ADMIN" \/ trace[j].store = v.as.store)}
  BY <1>1
<1> QED BY <1>1, <1>2 DEF AuditEntries

LEMMA ScreensAreTrue ==
    ASSUME ScreensRight, NEW v, ViewRight(v)
    PROVE  ScreenIsTrue(Rendered(v))
<1> DEFINE s == Rendered(v)
<1>1. s.refused => v.name \notin Navigation(v.as.role)
  BY LinksLead, WhatIsRendered
<1>2. ASSUME ~s.refused, NEW o \in s.orders
      PROVE  CanAccessStore(v.as, order[o].shop)
  <2>1. o \in Orders /\ InScope(v.as, order[o].shop)
    <3>1. CASE v.name = "orders"
      BY <1>2, <3>1, WhatIsRendered DEF Queue, FirstOf
    <3>2. CASE v.name = "order"
      BY <1>2, <3>2, WhatIsRendered DEF Finds, ViewRight
    <3> QED BY <1>2, <3>1, <3>2, WhatIsRendered
  <2>2. order[o].shop # NoStore
    BY <2>1, AuthzConstants DEF ScreensRight, Order
  <2> QED BY <2>1, <2>2 DEF InScope, CanAccessStore
<1>3. ASSUME ~s.refused, v.as.role # "STORE_STAFF",
             v.name \in Navigation(v.as.role) \cup {"order"}, NEW action \in s.offers
      PROVE  Authorized(v.as, action, ShopShown(s))
  <2>1. /\ ShopShown(s) = IF v.name = "order" THEN order[v.order].shop ELSE v.store
        /\ v.name = "order" => Finds(v)
        /\ action \in Offered(v)
    BY <1>3, WhatIsRendered DEF ShopShown
  <2> QED BY <1>3, <2>1, FormsAreGranted
<1>4. s.of = v /\ QueueIsTrue(s) /\ UsersAreManaged(s) /\ LogIsTheShops(s)
  BY WhatIsRendered, QueuesAreTrue, UsersAreTrue, LogsAreTrue
<1> HIDE DEF s
<1>5. ScreenIsTrue(s)
  BY <1>1, <1>2, <1>3, <1>4 DEF ScreenIsTrue
<1> QED BY <1>5 DEF s

LEMMA ScreensStart == ScreensInit => ScreensRight
<1> SUFFICES ASSUME ScreensInit PROVE ScreensRight
  OBVIOUS
<1>1. PairedAccounts
  BY StaffConstants DEF ScreensInit, StaffInit, PairedAccounts
<1>2. order \in [Orders -> Order]
  BY BackOfficeConstants DEF ScreensInit
<1> QED BY <1>1, <1>2 DEF ScreensInit, ScreensRight, PressRight

\* Whoever is signed in has a principal of a role and a shop that fit.
LEMMA ViewersAreRead ==
    ASSUME PairedAccounts, NEW u \in SignedIn
    PROVE  /\ u \in Users /\ account[u] # Nothing /\ account[u].active
           /\ account[u] \in Accounts
           /\ Principal(u) \in Viewers /\ Principal(u).user = u
           /\ Principal(u).role = account[u].role /\ Principal(u).store = account[u].store
<1>1. u \in Users /\ account[u] # Nothing /\ account[u].active
  BY DEF SignedIn, IsActive, PairedAccounts
<1>2. account[u] \in Accounts /\ Paired(account[u].role, account[u].store)
  BY <1>1 DEF PairedAccounts
<1> QED BY <1>1, <1>2 DEF Principal, Viewers, Principals, Accounts

LEMMA ScreenOpens == ScreensRight /\ OpenScreen => ScreensRight'
<1> SUFFICES ASSUME ScreensRight, OpenScreen PROVE ScreensRight'
  OBVIOUS
<1>1. /\ account' = account /\ cookies' = cookies /\ order' = order
      /\ press = Nothing /\ press' = Nothing /\ screen' = Nothing
  BY DEF OpenScreen, staffRows
<1>2. PICK u \in SignedIn, name \in Screens :
      \E store \in {Resolved(Principal(u), asked) : asked \in Stores \cup {Nothing}},
         o \in IF name = "order" THEN Orders ELSE {1},
         all \in IF name = "orders" THEN BOOLEAN ELSE {FALSE} :
        viewing' = [name |-> name, as |-> Principal(u), store |-> store,
                    order |-> o, all |-> all]
  BY DEF OpenScreen
<1>3. PICK store \in {Resolved(Principal(u), asked) : asked \in Stores \cup {Nothing}},
           o \in IF name = "order" THEN Orders ELSE {1},
           all \in IF name = "orders" THEN BOOLEAN ELSE {FALSE} :
        viewing' = [name |-> name, as |-> Principal(u), store |-> store,
                    order |-> o, all |-> all]
  BY <1>2
<1>4. Principal(u) \in Viewers
  BY ViewersAreRead DEF ScreensRight
<1>5. Principal(u).role # "SUPER_ADMIN" => store = Principal(u).store
  BY <1>3 DEF Resolved
<1>6. ViewRight(viewing')
  BY <1>3, <1>4, <1>5 DEF ViewRight
<1> QED BY <1>1, <1>6 DEF ScreensRight, PairedAccounts, PressRight, ViewRight

LEMMA ScreenShows ==
    ASSUME ScreensRight, ShowScreen
    PROVE  ScreensRight' /\ ScreenIsTrue(screen') /\ press' = press
<1>1. /\ account' = account /\ cookies' = cookies /\ order' = order /\ press' = press
      /\ viewing # Nothing /\ viewing' = Nothing /\ screen' = Rendered(viewing)
  BY DEF ShowScreen, staffRows
<1>2. ViewRight(viewing) /\ screen = Nothing /\ press = Nothing
  BY <1>1 DEF ScreensRight, PressRight
<1>3. screen'.of = viewing /\ ScreenIsTrue(screen')
  BY <1>1, <1>2, ScreensAreTrue, WhatIsRendered
<1>4. ViewRight(screen'.of)
  BY <1>2, <1>3
<1> QED BY <1>1, <1>2, <1>3, <1>4 DEF ScreensRight, PairedAccounts, PressRight, ViewRight

LEMMA ButtonIsPressed == ScreensRight /\ Press => ScreensRight'
<1> SUFFICES ASSUME ScreensRight, Press PROVE ScreensRight'
  OBVIOUS
<1>1. /\ account' = account /\ cookies' = cookies /\ order' = order
      /\ viewing' = viewing /\ screen' = screen
      /\ screen # Nothing /\ screen.of.name = "order" /\ screen.of.as.user \in SignedIn
  BY DEF Press, staffRows
<1> DEFINE u == screen.of.as.user
<1>2. PICK action \in screen.offers : press' = Pressed(Principal(u), action)
  BY DEF Press
<1>3. /\ press'.by = Principal(u) /\ press'.order = screen.of.order
      /\ press'.row = account[Principal(u).user]
      /\ press'.signedIn = (Principal(u).user \in SignedIn)
  BY <1>2 DEF Pressed
<1>4. /\ Principal(u) \in Viewers /\ Principal(u).user = u /\ account[u].active
      /\ Principal(u).role = account[u].role /\ Principal(u).store = account[u].store
  BY <1>1, ViewersAreRead DEF ScreensRight
<1>5. ViewRight(screen.of) /\ screen.of.order \in Orders /\ viewing = Nothing
  BY <1>1 DEF ScreensRight, ViewRight
<1>6. PressRight'
  BY <1>1, <1>3, <1>4, <1>5 DEF PressRight
<1> QED BY <1>1, <1>5, <1>6 DEF ScreensRight, PairedAccounts, ViewRight

\* A button changes its order as it is then, for one who may change it then.
LEMMA ButtonIsServed ==
    ASSUME ScreensRight, Serve
    PROVE  ScreensRight' /\ PressIsGranted /\ screen' \in {screen, Nothing}
<1>1. /\ account' = account /\ cookies' = cookies /\ press # Nothing /\ press' = Nothing
  BY DEF Serve, staffRows
<1>2. /\ press.by \in Viewers /\ press.order \in Orders
      /\ press.signedIn /\ press.row.active
      /\ press.by.role = press.row.role /\ press.by.store = press.row.store
      /\ screen # Nothing /\ screen.of.name = "order" /\ ViewRight(screen.of)
      /\ viewing = Nothing
  BY <1>1 DEF ScreensRight, PressRight
<1>3. order[press.order] \in Order
  BY <1>2 DEF ScreensRight
<1>4. CASE UNCHANGED <<order, screen, viewing>>
  <2>1. order' = order /\ screen' = screen /\ viewing' = viewing
    BY <1>4
  <2> QED
    BY <1>1, <2>1 DEF ScreensRight, PairedAccounts, PressRight, PressIsGranted, ViewRight
<1>5. CASE /\ MayServe(press, order[press.order])
           /\ order' = [order EXCEPT ![press.order] =
                IF press.action = "order:cancel"
                THEN [order[press.order] EXCEPT !.status = "CANCELLED_BY_STORE"]
                ELSE [order[press.order] EXCEPT !.confirmed = TRUE]]
           /\ screen' = Nothing
           /\ viewing' = [screen.of EXCEPT !.as = press.by]
  <2>1. order' \in [Orders -> Order]
    <3>1. "CANCELLED_BY_STORE" \in Statuses
      BY DEF Statuses, TerminalStates
    <3>2. /\ [order[press.order] EXCEPT !.status = "CANCELLED_BY_STORE"] \in Order
          /\ [order[press.order] EXCEPT !.confirmed = TRUE] \in Order
      BY <1>3, <3>1 DEF Order
    <3> QED BY <1>2, <1>5, <3>2 DEF ScreensRight
  <2>2. ViewRight(viewing')
    BY <1>2, <1>5 DEF ViewRight
  <2>3. Authorized(User(press.row.role, press.row.store), press.action, order[press.order].shop)
    <3>1. Authorized(press.by, press.action, order[press.order].shop)
      BY <1>5 DEF MayServe
    <3> DEFINE as == User(press.row.role, press.row.store)
    <3>2. as.kind = press.by.kind /\ as.role = press.by.role /\ as.store = press.by.store
      BY <1>2, ViewersAre DEF User
    <3> HIDE DEF as
    <3>3. /\ HasGrants(as) <=> HasGrants(press.by)
          /\ GrantedEverywhere(as) = GrantedEverywhere(press.by)
          /\ GrantedInStore(as) = GrantedInStore(press.by)
          /\ CanAccessStore(as, order[press.order].shop) <=>
                CanAccessStore(press.by, order[press.order].shop)
      BY <3>2 DEF HasGrants, GrantedEverywhere, GrantedInStore, CanAccessStore, Unscoped
    <3>4. Authorized(as, press.action, order[press.order].shop)
      BY <3>1, <3>3 DEF Authorized
    <3> QED BY <3>4 DEF as
  <2>4. PressIsGranted
    BY <1>2, <1>5, <2>3 DEF PressIsGranted, MayServe
  <2>5. ScreensRight'
    BY <1>1, <1>5, <2>1, <2>2 DEF ScreensRight, PairedAccounts, PressRight, ViewRight
  <2> QED BY <1>5, <2>4, <2>5
<1> QED BY <1>4, <1>5 DEF Serve

\* The colleagues touch no screen: they move orders along and write accounts
\* whose role and shop fit.
LEMMA ColleaguesGoOn ==
    ASSUME ScreensRight, UNCHANGED <<viewing, screen, press>>,
           PairedAccounts', order' \in [Orders -> Order]
    PROVE  ScreensRight' /\ PressIsGranted /\ screen' = screen
BY DEF ScreensRight, PressRight, PressIsGranted, ViewRight

LEMMA OrdersMoveOn == ScreensRight /\ OrderMoves => order' \in [Orders -> Order]
<1> SUFFICES ASSUME ScreensRight, OrderMoves PROVE order' \in [Orders -> Order]
  OBVIOUS
<1>1. PICK o \in Orders, to \in Statuses :
      \E rule \in AllowedRules(order[o].status, to, order[o].flagged, order[o].confirmed) :
        order' = [order EXCEPT ![o].status = rule.to]
  BY DEF OrderMoves
<1>2. order' = [order EXCEPT ![o].status = to]
  BY <1>1 DEF AllowedRules
<1>3. [order[o] EXCEPT !.status = to] \in Order
  BY DEF ScreensRight, Order
<1> QED BY <1>2, <1>3 DEF ScreensRight

LEMMA AccountsMoveOn == ScreensRight /\ AccountMoves => PairedAccounts'
<1> SUFFICES ASSUME ScreensRight, AccountMoves PROVE PairedAccounts'
  OBVIOUS
<1>1. PICK a \in SignedIn, u \in Users, j \in StaffJobs :
        /\ account[u] # Nothing
        /\ j.op \in {"update", "disable"} /\ j.target = u
        /\ Eligible(Principal(a), j, account[u])
        /\ account' = [account EXCEPT ![u] = Written(j, account[u])]
        /\ cookies' = IF EndsSessions(j, account[u]) THEN cookies \ SessionsOf(u) ELSE cookies
  BY DEF AccountMoves
<1>2. account[u] \in Accounts /\ Paired(account[u].role, account[u].store)
  BY <1>1 DEF ScreensRight, PairedAccounts
<1>3. j.op = "update" => j.post \in Posts /\ Paired(j.post.role, j.post.store)
  BY <1>1 DEF StaffJobs, Eligible
<1>4. /\ Written(j, account[u]) \in Accounts
      /\ Paired(Written(j, account[u]).role, Written(j, account[u]).store)
  BY <1>1, <1>2, <1>3, RowsStayAccounts
<1> DEFINE row == Written(j, account[u])
<1>5. account' = [account EXCEPT ![u] = row] /\ row \in Accounts /\ Paired(row.role, row.store)
  BY <1>1, <1>4
<1> HIDE DEF row
<1>6. /\ account' \in [Users -> Accounts \cup {Nothing}] /\ account'[u] = row
      /\ \A q \in Users : q # u => account'[q] = account[q]
  BY <1>5 DEF ScreensRight, PairedAccounts
<1>7. cookies' \subseteq cookies
  BY <1>1
<1> QED BY <1>5, <1>6, <1>7 DEF ScreensRight, PairedAccounts

LEMMA SignedInAgain == ScreensRight /\ SignInAgain => PairedAccounts'
  BY DEF ScreensRight, PairedAccounts, SignInAgain

LEMMA ScreensStep ==
    ASSUME ScreensRight, [ScreensNext]_screenVars
    PROVE  /\ ScreensRight' /\ PressIsGranted
           /\ (screen = Nothing /\ screen' # Nothing) => ScreenIsTrue(screen')
<1>1. CASE OpenScreen
  BY <1>1, ScreenOpens DEF OpenScreen, PressIsGranted
<1>2. CASE ShowScreen
  BY <1>2, ScreenShows DEF PressIsGranted
<1>3. CASE Press
  <2>1. press = Nothing /\ screen' = screen
    BY <1>3 DEF Press
  <2> QED BY <1>3, <2>1, ButtonIsPressed DEF PressIsGranted
<1>4. CASE Serve
  BY <1>4, ButtonIsServed
<1>5. CASE OrderMoves
  <2>1. UNCHANGED <<viewing, screen, press>> /\ account' = account /\ cookies' = cookies
    BY <1>5 DEF OrderMoves, staffRows
  <2>2. PairedAccounts'
    BY <2>1 DEF ScreensRight, PairedAccounts
  <2> QED BY <1>5, <2>1, <2>2, OrdersMoveOn, ColleaguesGoOn
<1>6. CASE AccountMoves
  <2>1. UNCHANGED <<viewing, screen, press, order>>
    BY <1>6 DEF AccountMoves
  <2>2. order' \in [Orders -> Order]
    BY <2>1 DEF ScreensRight
  <2> QED BY <1>6, <2>1, <2>2, AccountsMoveOn, ColleaguesGoOn
<1>7. CASE SignInAgain
  <2>1. UNCHANGED <<viewing, screen, press, order>>
    BY <1>7 DEF SignInAgain, screenRows
  <2>2. order' \in [Orders -> Order]
    BY <2>1 DEF ScreensRight
  <2> QED BY <1>7, <2>1, <2>2, SignedInAgain, ColleaguesGoOn
<1>8. CASE OtherEntry \/ UNCHANGED screenVars
  <2>1. /\ UNCHANGED <<viewing, screen, press>>
        /\ order' = order /\ account' = account /\ cookies' = cookies
    BY <1>8 DEF OtherEntry, screenVars, screenRows, staffRows
  <2>2. PairedAccounts' /\ order' \in [Orders -> Order]
    BY <2>1 DEF ScreensRight, PairedAccounts
  <2> QED BY <2>1, <2>2, ColleaguesGoOn
<1> QED BY <1>1, <1>2, <1>3, <1>4, <1>5, <1>6, <1>7, <1>8 DEF ScreensNext

\* A screen of the back office shows its viewer's shops and nothing else, all
\* the work of them, and no form that would be refused; a button on one that
\* has been open for long does no more than its viewer may by then
\* (admin/service.ts, the pages and actions under app/(admin)/admin).
THEOREM ScreensTellTheTruth == ScreensSpec => ScreensHold
<1> DEFINE true == /\ (screen = Nothing /\ screen' # Nothing) => ScreenIsTrue(screen')
                   /\ PressIsGranted
<1>1. ScreensInit => ScreensRight
  BY ScreensStart
<1>2. ScreensRight /\ [ScreensNext]_screenVars => ScreensRight' /\ [true]_screenVars
  BY ScreensStep
<1> HIDE DEF true
<1>3. ScreensSpec => [][true]_screenVars
  BY <1>1, <1>2, PTL DEF ScreensSpec
<1> QED BY <1>3 DEF true, ScreensHold
=============================================================================
