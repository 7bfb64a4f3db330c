--------------------------- MODULE DeliveryWindows ---------------------------
(***************************************************************************)
(* The delivery windows of one shop: the grid a shopper chooses from, the  *)
(* settings that shape it and the windows that orders hold                 *)
(* (stores/domain/slots.ts, stores/service.ts).                            *)
(*                                                                         *)
(* An order is counted against the start of its window.  The grid must     *)
(* therefore be the same whoever asks and whenever, on every day, the days *)
(* on which the shop's clock is put forward or back included.              *)
(*                                                                         *)
(* Time is in units of which DayLength make a day; an instant is a number. *)
(***************************************************************************)
EXTENDS Requests, Integers

CONSTANTS
    DayLength,       \* MINUTES_PER_DAY
    Lead,            \* SLOT_LEAD_MINUTES
    Horizon,         \* SLOT_HORIZON_DAYS
    Margin,          \* what is added to a day to be sure to be in the next one
    Zones,           \* time zones: an offset that changes once
    Shapes,          \* slot length and opening hours there may be at the start
    Updates,         \* settings somebody may send; Nothing for a field left out
    MaxClock,        \* bound: instants that pass
    MaxWindowCalls   \* bound: requests served in one behaviour

VARIABLES
    clock,
    zone,          \* Store.timezone
    shape,         \* StoreSettings: slotLengthMinutes, open- and closeMinuteOfDay
    settingsLock,  \* the request holding the settings row, or Nothing
    booked         \* windows orders hold, with the shape and zone they were of

windowVars == <<request, clock, zone, shape, settingsLock, booked>>

\* assertSlotLength: the windows of a day fill it.
GoodLength(length) == length > 0 /\ DayLength % length = 0

\* assertOpeningHours
GoodHours(s) ==
    /\ 0 <= s.open /\ s.open < s.close /\ s.close <= DayLength
    /\ s.close - s.open >= s.length

\* No clock is put forward by so much that the margin misses the next day; one
\* that skips dates skips whole ones.
ASSUME WindowConstants ==
    /\ {DayLength, Lead, Horizon, Margin, MaxClock, MaxWindowCalls} \subseteq Nat
    /\ DayLength > 0 /\ Margin < DayLength
    /\ Zones \subseteq [at : Int, before : Int, after : Int]
    /\ \A z \in Zones : \/ z.after - z.before + Margin < DayLength
                        \/ (z.after - z.before) % DayLength = 0
    /\ Shapes \subseteq [length : Nat, open : Nat, close : Nat]
    /\ \A s \in Shapes : GoodLength(s.length) /\ GoodHours(s)
    /\ Nothing \notin Int
    /\ Updates \subseteq [length : Int \cup {Nothing}, open : Int \cup {Nothing},
                         close : Int \cup {Nothing}]

-----------------------------------------------------------------------------
(* The shop's clock *)

\* zoneOffsetMs
OffsetAt(t, z) == IF t < z.at THEN z.before ELSE z.after

\* wallClockMinute and localDate
ClockAt(t, z) == (t + OffsetAt(t, z)) % DayLength
DateOf(t, z) == (t + OffsetAt(t, z)) \div DayLength

\* localDayStart, resolved twice.
Midnight(t, offset) == ((t + offset) \div DayLength) * DayLength - offset
DayStart(t, z) == Midnight(t, OffsetAt(Midnight(t, OffsetAt(t, z)), z))

-----------------------------------------------------------------------------
(* The grid *)

\* Bug: only the minutes of the day are compared.
InsideHoursByMinute(start, s, z) ==
    LET opens == ClockAt(start, z)
        ends == ClockAt(start + s.length, z)
    IN opens >= s.open /\ (IF ends = 0 THEN DayLength ELSE ends) <= s.close

\* insideHours: both ends are read off the clock, and are of one date.
InsideHours(start, s, z) ==
    LET end == start + s.length
        opens == ClockAt(start, z)
        ends == ClockAt(end, z)
    IN /\ opens >= s.open
       /\ IF ends = 0
          THEN DayLength <= s.close
          ELSE DateOf(end, z) = DateOf(start, z) /\ ends > opens /\ ends <= s.close

\* Every day is laid out from its own midnight.
NextDay(day, z) ==
    LET next == DayStart(day + DayLength + Margin, z)
    IN IF next > day THEN next ELSE day + DayLength

\* The midnights the grid is laid out from, one after the other.
Days(from, z) ==
    LET day[k \in 0..(Horizon + 1)] ==
            IF k = 0 THEN DayStart(from, z) ELSE NextDay(day[k - 1], z)
    IN day

\* The windows of the day that begins at d: the hours only filter them.
StartsOf(d, from, s, z) ==
    {t \in {d + n * s.length : n \in 0..(DayLength + Margin)} :
        /\ t < DayStart(d + DayLength + Margin, z)
        /\ t <= from + Horizon * DayLength
        /\ t >= from + Lead
        /\ InsideHours(t, s, z)}

\* slotGrid
Grid(from, s, z) ==
    LET day == Days(from, z)
    IN UNION {StartsOf(day[k], from, s, z) : k \in 0..(Horizon + 1)}

-----------------------------------------------------------------------------
(* Settings *)

Given(update, field) == IF update[field] = Nothing THEN shape[field] ELSE update[field]

\* An update may carry any of the fields; the others stay.
Updated(update) == [f \in {"length", "open", "close"} |-> Given(update, f)]

Manager == User("STORE_MANAGER", CHOOSE s \in Stores : TRUE)

\* assertEditableSettings looks at each field by itself.
AskSettings(r) ==
    /\ served < MaxWindowCalls
    /\ \E u \in Updates :
         /\ Authorized(Manager, "store-settings:update", Manager.store)
         /\ u.length # Nothing => GoodLength(u.length)
         /\ Starts(r, Manager, [op |-> "settings", update |-> u], "asked", Nothing)
    /\ UNCHANGED <<clock, zone, shape, settingsLock, booked>>

\* Bug: the hours are judged before the row is locked.
JudgeHoursUnlocked(r) ==
    /\ pc[r] = "asked" /\ job[r].op = "settings"
    /\ IF GoodHours(Updated(job[r].update)) THEN GoesOn(r, "judged", Nothing) ELSE Answered(r)
    /\ UNCHANGED <<clock, zone, shape, settingsLock, booked>>

\* lockSettings, then the rule on the row as it will be.
JudgeHours(r) ==
    /\ pc[r] = "asked" /\ job[r].op = "settings"
    /\ settingsLock = Nothing
    /\ IF GoodHours(Updated(job[r].update))
       THEN GoesOn(r, "judged", Nothing) /\ settingsLock' = r
       ELSE Answered(r) /\ UNCHANGED settingsLock
    /\ UNCHANGED <<clock, zone, shape, booked>>

\* updateSettingsRow
WriteSettings(r) ==
    /\ pc[r] = "judged"
    /\ shape' = Updated(job[r].update)
    /\ settingsLock' = Nothing
    /\ Answered(r)
    /\ UNCHANGED <<clock, zone, booked>>

\* updateStore may name another time zone.
MoveZone ==
    /\ served < MaxWindowCalls
    /\ zone' \in Zones
    /\ served' = served + 1
    /\ UNCHANGED <<pc, job, caller, seen, clock, shape, settingsLock, booked>>

-----------------------------------------------------------------------------
(* Orders *)

\* slotGridFor and isBookableSlot, before the order's transaction.
AskWindow(r) ==
    /\ served < MaxWindowCalls
    /\ \E start \in Grid(clock, shape, zone) :
         Starts(r, Shopper(Manager.store), [op |-> "book", start |-> start], "booking",
                [shape |-> shape, zone |-> zone])
    /\ UNCHANGED <<clock, zone, shape, settingsLock, booked>>

\* createOrder: the end is the start and the length the order was quoted.
Book(r) ==
    /\ pc[r] = "booking"
    /\ booked' = booked \cup
         {[start |-> job[r].start, end |-> job[r].start + seen[r].shape.length,
           of |-> seen[r]]}
    /\ Answered(r)
    /\ UNCHANGED <<clock, zone, shape, settingsLock>>

ClockMoves ==
    /\ clock < MaxClock
    /\ clock' = clock + 1
    /\ UNCHANGED <<request, zone, shape, settingsLock, booked>>

-----------------------------------------------------------------------------
WindowsInit ==
    /\ RequestsInit
    /\ clock = 0
    /\ zone \in Zones
    /\ shape \in Shapes
    /\ settingsLock = Nothing
    /\ booked = {}

WindowsNext ==
    \/ ClockMoves \/ MoveZone
    \/ \E r \in Requests :
         AskSettings(r) \/ JudgeHours(r) \/ WriteSettings(r) \/ AskWindow(r) \/ Book(r)

WindowsSpec == WindowsInit /\ [][WindowsNext]_windowVars

-----------------------------------------------------------------------------
(* Properties *)

\* Types; the settings always make windows that fit the day and the hours.
WindowsInv ==
    /\ clock \in 0..MaxClock
    /\ zone \in Zones
    /\ GoodLength(shape.length) /\ GoodHours(shape)
    /\ \A r \in Requests :
         pc[r] = "judged" => settingsLock = r /\ GoodHours(Updated(job[r].update))

Apart(b, c) == b.start < c.end /\ c.start < b.end => b.start = c.start

\* Orders placed under the same settings never hold windows that overlap and
\* start differently, whenever they were placed and though the clock is put
\* forward: all that is to count is counted under one start (insideHours).
WindowsAreApart ==
    \A b, c \in booked :
        b.of = c.of /\ b.of.zone.after >= b.of.zone.before => Apart(b, c)
=============================================================================
