----------------------------- MODULE CycleLock -----------------------------
(***************************************************************************)
(* The bags of one delivery cycle, from the order writers to the bill:     *)
(* saveInboxOrder and writeGroceryOrder on one side, the lock engine       *)
(* (migration 002) and the bill engine (migration 003) on the other.       *)
(*                                                                         *)
(* An order writer is one transaction, in two steps here: resolveCycle     *)
(* reads the cycle's status without a lock (Resolve), the rest of it holds *)
(* the household's lock, and the foreign key of its rows waits for an open *)
(* asb_lock_cycle or asb_unlock_cycle of the cycle (WriteBag, WriteFails). *)
(* Every SQL function is one step: it locks the row it is about first, and *)
(* what runs beside it does what it could do right before or after it.     *)
(*                                                                         *)
(* Prices and weights are small numbers, 0 for NULL.  The cached totals of *)
(* an order are left out: they are recomputed before they are used; so is  *)
(* what a bill's snapshot says, which nothing changes once it is issued.   *)
(* Operators named Faulty... are mistakes the properties must notice.      *)
(***************************************************************************)
EXTENDS Naturals, FiniteSets, Schedule

CONSTANTS
  Households, Products, Writers,
  Times,        \* the instants at which the model's customers order
  Orders,       \* ids of orders rows: a bound of the model
  Bills,        \* ids of bills rows, and of their messages: a bound of the model
  HouseholdOf,  \* the household an orders row is for
  Prices,       \* final prices, 0 is NULL
  Weights,      \* packed weights, 0 is NULL
  NoLine, NoBill, NoCycle, Unavailable

ASSUME CycleLockAssumption ==
  /\ HouseholdOf \in [Orders -> Households]
  /\ 0 \in Prices /\ Prices \subseteq Nat /\ Unavailable \notin Nat
  /\ 0 \in Weights /\ Weights \subseteq Nat
  /\ Times \subseteq Nat \ 0..(4 * DayTicks)

Cycles == {DeliveryFor(t).date : t \in Times} \cup {NextAfter(DeliveryFor(t)).date : t \in Times}

VARIABLES
  cycle,    \* cycles.status; "past" is packing, delivered or closed
  book,     \* cycle_prices as the lock of the cycle read them: the final_price of
            \* each product, or Unavailable; 0 is NULL, no row, or not locked
  order,    \* orders.status; "out" is out_for_delivery or delivered
  cycleOf,  \* orders.cycle_id
  line,     \* order_items
  bill,     \* bills: the order and the status
  message,  \* whatsapp_messages of each bill: its key and its status
  writer,   \* the order writers
  late      \* history: the lines that came in after the cycle or the bag was locked,
            \* and those whose weight the station took back from a packed bag

rowVars == <<cycle, book, order, cycleOf, line>>
billVars == <<bill, message>>
vars == <<rowVars, billVars, writer, late>>

CycleStatuses == {"none", "open", "locked", "past"}
OrderStatuses == {"none", "confirmed", "locked", "packed", "out", "cancelled"}
BillStatuses == {"draft", "sent", "paid", "void"}
Frozen == {"locked", "packed", "out"}
Billable == {"packed", "out"}

PriceBook == [Products -> Prices \cup {Unavailable}]
Line == [final : Prices, weight : Weights, unavailable : BOOLEAN]
NewLine == [final |-> 0, weight |-> 0, unavailable |-> FALSE]
Bill == [order : Orders, status : BillStatuses]
Message == [key : {"none", "order", "void"}, status : {"none", "queued", "sent"}]
NoMessage == [key |-> "none", status |-> "none"]
Idle == [at |-> NoCycle, household |-> NoCycle]

ASSUME NullAssumption == NoLine \notin Line /\ NoBill \notin Bill

TypeOK ==
  /\ cycle \in [Cycles -> CycleStatuses]
  /\ book \in [Cycles -> PriceBook]
  /\ order \in [Orders -> OrderStatuses]
  /\ cycleOf \in [Orders -> Cycles \cup {NoCycle}]
  /\ line \in [Orders -> [Products -> Line \cup {NoLine}]]
  /\ bill \in [Bills -> Bill \cup {NoBill}]
  /\ message \in [Bills -> Message]
  /\ writer \in [Writers -> [at : Cycles, household : Households] \cup {Idle}]
  /\ late \subseteq Orders \X Products

Init ==
  /\ \E closed \in SUBSET {DeliveryFor(t).date : t \in Times} :
       cycle = [c \in Cycles |-> IF c \in closed THEN "past" ELSE "none"]
  /\ book = [c \in Cycles |-> [p \in Products |-> 0]]
  /\ order = [o \in Orders |-> "none"]
  /\ cycleOf = [o \in Orders |-> NoCycle]
  /\ line = [o \in Orders |-> [p \in Products |-> NoLine]]
  /\ bill = [b \in Bills |-> NoBill]
  /\ message = [b \in Bills |-> NoMessage]
  /\ writer = [w \in Writers |-> Idle]
  /\ late = {}

Live(o) == order[o] \notin {"none", "cancelled"}
LiveLines(o) == {p \in Products : line[o][p] # NoLine /\ ~line[o][p].unavailable}
BagsOf(c, statuses) == {o \in Orders : cycleOf[o] = c /\ order[o] \in statuses}
BillsOf(o) == {b \in Bills : bill[b] # NoBill /\ bill[b].order = o}
BillsIn(o, statuses) == {b \in BillsOf(o) : bill[b].status \in statuses}
MessagesOf(o) == {b \in BillsOf(o) : message[b] # NoMessage}

------------------------------------------------------------------------------
(* The order writers.                                                      *)

Accepts(c) == cycle[c] \in {"none", "open"}

\* The cycle of an order placed at t: the next delivery if the first one was
\* closed by hand, no delivery (the transaction fails) if both were.
CycleFor(t) ==
  LET first == DeliveryFor(t)
      second == NextAfter(first)
  IN IF Accepts(first.date) THEN first.date
     ELSE IF Accepts(second.date) THEN second.date ELSE NoCycle

Resolve(w, t, h) ==
  /\ writer[w] = Idle
  /\ CycleFor(t) # NoCycle
  /\ writer' = [writer EXCEPT ![w] = [at |-> CycleFor(t), household |-> h]]
  /\ UNCHANGED <<rowVars, billVars, late>>

\* findOpenOrder: any bag that is not cancelled, a locked or packed one too.
OpenBag(h, c) == {o \in Orders : HouseholdOf[o] = h /\ cycleOf[o] = c /\ Live(o)}

\* The trigger: on a frozen bag a line that exists may not change its quantity,
\* and the merge would.  It does not see an INSERT.
MergeRefused(o, products) == order[o] \in Frozen /\ \E p \in products : line[o][p] # NoLine

\* The rows the transaction writes into bag o of cycle c: none, if no line of a
\* Shopify order has a price.
PutLines(o, c, products) ==
  LET new == {p \in products : line[o][p] = NoLine}
  IN /\ line' = [line EXCEPT ![o] = [p \in Products |-> IF p \in new THEN NewLine ELSE @[p]]]
     /\ late' = IF order[o] \in Frozen \/ ~Accepts(c) THEN late \cup ({o} \X new) ELSE late

WriteBag(w, products) ==
  LET c == writer[w].at
      bag == OpenBag(writer[w].household, c)
  IN /\ writer[w] # Idle
     /\ \E o \in Orders :
          /\ IF bag # {} THEN o \in bag /\ ~MergeRefused(o, products)
             ELSE order[o] = "none" /\ HouseholdOf[o] = writer[w].household
          /\ order' = IF bag = {} THEN [order EXCEPT ![o] = "confirmed"] ELSE order
          /\ cycleOf' = [cycleOf EXCEPT ![o] = c]
          /\ PutLines(o, c, products)
     /\ cycle' = IF cycle[c] = "none" THEN [cycle EXCEPT ![c] = "open"] ELSE cycle
     /\ writer' = [writer EXCEPT ![w] = Idle]
     /\ UNCHANGED <<book, billVars>>

\* The transaction rolls back: the trigger raised, a deadlock, a lost connection.
WriteFails(w) ==
  /\ writer[w] # Idle
  /\ writer' = [writer EXCEPT ![w] = Idle]
  /\ UNCHANGED <<rowVars, billVars, late>>

------------------------------------------------------------------------------
(* The lock engine.  People set prices and availability by hand, at any    *)
(* time (nothing enforces cycle_prices.locked_at), and only a lock reads   *)
(* them: a lock finds any price book.  The price of what nobody ordered is *)
(* taken as NULL.                                                          *)

Ordered(c) == {p \in Products : \E o \in BagsOf(c, {"confirmed"}) : line[o][p] # NoLine}

Blocked(c, prices) ==
  \E o \in BagsOf(c, {"confirmed"}) : \E p \in LiveLines(o) : prices[p] = 0

\* Steps 1 and 2 of the lock, on one line: void what the mandi did not have,
\* stamp the rest; a price that is not set leaves the line's price alone.
LockedLine(l, price) ==
  CASE l = NoLine \/ price = 0 -> l
    [] l # NoLine /\ price = Unavailable -> [l EXCEPT !.unavailable = TRUE]
    [] OTHER -> IF l.unavailable THEN l ELSE [l EXCEPT !.final = price]

LockCycle(c, prices, allowMissing) ==
  /\ cycle[c] = "open"
  /\ \A p \in Products \ Ordered(c) : prices[p] = 0
  /\ allowMissing \/ ~Blocked(c, prices)
  /\ line' = [o \in Orders |->
                IF o \in BagsOf(c, {"confirmed"})
                THEN [p \in Products |-> LockedLine(line[o][p], prices[p])] ELSE line[o]]
  /\ order' = [o \in Orders |-> IF o \in BagsOf(c, {"confirmed"}) THEN "locked" ELSE order[o]]
  /\ cycle' = [cycle EXCEPT ![c] = "locked"]
  /\ book' = [book EXCEPT ![c] = prices]
  /\ UNCHANGED <<cycleOf, billVars, writer, late>>

FaultySettled == {"sent"}
Settled == {"sent", "paid"}

\* Demote the locked bags, then clear the prices of every confirmed one.  The
\* cycle's own status is not looked at.
FaultyUnlockedLine(o, l) == IF l = NoLine \/ order[o] # "confirmed" THEN l ELSE [l EXCEPT !.final = 0]
UnlockedLine(o, l) == IF l = NoLine THEN l ELSE [l EXCEPT !.final = 0]

UnlockCycle(c) ==
  LET reopened == BagsOf(c, {"locked", "confirmed"})
  IN /\ cycle[c] # "none"
     /\ \A o \in Orders : cycleOf[o] = c => BillsIn(o, Settled) = {}
     /\ order' = [o \in Orders |-> IF o \in reopened THEN "confirmed" ELSE order[o]]
     /\ line' = [o \in Orders |-> IF o \in reopened
                                  THEN [p \in Products |-> UnlockedLine(o, line[o][p])] ELSE line[o]]
     /\ cycle' = [cycle EXCEPT ![c] = "open"]
     /\ book' = [book EXCEPT ![c] = [p \in Products |-> 0]]
     /\ late' = late \ (reopened \X Products)
     /\ UNCHANGED <<cycleOf, billVars, writer>>

\* The weigh station, and a line the packer strikes out by hand: both meet the trigger,
\* which lets nothing through once a bill of the bag has been sent.  The station
\* refuses a negative weight alone: NULL un-weighs a line, of a packed bag too.
WeightFrozen(o) == BillsIn(o, Settled) # {}

SetPackedQty(o, p, weight) ==
  /\ line[o][p] # NoLine
  /\ weight # line[o][p].weight
  /\ ~WeightFrozen(o)
  /\ line' = [line EXCEPT ![o][p].weight = weight]
  /\ late' = IF weight = 0 /\ order[o] \in Billable THEN late \cup {<<o, p>>} ELSE late
  /\ UNCHANGED <<cycle, book, order, cycleOf, billVars, writer>>

StrikeOut(o, p) ==
  /\ p \in LiveLines(o)
  /\ order[o] \in Frozen
  /\ ~WeightFrozen(o)
  /\ line' = [line EXCEPT ![o][p].unavailable = TRUE]
  /\ UNCHANGED <<cycle, book, order, cycleOf, billVars, writer, late>>

\* People move these on by hand: the cycle, after its delivery or to close it
\* early, and the bag when it leaves.
CloseCycle(c) ==
  /\ cycle[c] \in {"open", "locked"}
  /\ cycle' = [cycle EXCEPT ![c] = "past"]
  /\ UNCHANGED <<book, order, cycleOf, line, billVars, writer, late>>

BagLeaves(o) ==
  /\ order[o] = "packed"
  /\ order' = [order EXCEPT ![o] = "out"]
  /\ UNCHANGED <<cycle, book, cycleOf, line, billVars, writer, late>>

------------------------------------------------------------------------------
(* The bill engine.                                                        *)

FaultyPackBlockers(o) == IF order[o] = "packed" THEN {p \in LiveLines(o) : line[o][p].weight = 0} ELSE {}
PackBlockers(o) == {p \in LiveLines(o) : line[o][p].weight = 0}

MarkOrderPacked(o) ==
  /\ order[o] \in {"locked", "packed"}
  /\ PackBlockers(o) = {}
  /\ order' = [order EXCEPT ![o] = IF LiveLines(o) = {} THEN "cancelled" ELSE "packed"]
  /\ UNCHANGED <<cycle, book, cycleOf, line, billVars, writer, late>>

\* The unique index on the bills that are not void.
LiveIndex(o, b) == BillsIn(o, BillStatuses \ {"void"}) \subseteq {b}

\* One bill per bag of toBill (assigned by fresh), each with its message,
\* unless a message already holds the bag's key.
KeyFree(o) == \A b \in MessagesOf(o) : message[b].key # "order"

Issue(toBill, fresh) ==
  LET of(b) == CHOOSE o \in toBill : fresh[o] = b
      issued == {fresh[o] : o \in toBill}
  IN /\ bill' = [b \in Bills |-> IF b \in issued
                                 THEN [order |-> of(b), status |-> "draft"] ELSE bill[b]]
     /\ message' = [b \in Bills |-> IF b \in issued /\ KeyFree(of(b))
                                    THEN [key |-> "order", status |-> "queued"] ELSE message[b]]
     /\ UNCHANGED <<rowVars, writer, late>>

\* An existing live bill is handed back: nothing changes.
GenerateBill(o) ==
  /\ order[o] \in Billable
  /\ BillsIn(o, BillStatuses \ {"void"}) = {}
  /\ \E b \in Bills : bill[b] = NoBill /\ LiveIndex(o, b) /\ Issue({o}, [x \in {o} |-> b])

\* Only bags that never had a bill: one whose bill was voided is passed over.
GenerateBillsForCycle(c) ==
  LET toBill == {o \in BagsOf(c, Billable) : BillsOf(o) = {}}
  IN /\ toBill # {}
     /\ \E fresh \in [toBill -> {b \in Bills : bill[b] = NoBill}] :
          /\ \A o, q \in toBill : fresh[o] = fresh[q] => o = q
          /\ Issue(toBill, fresh)

\* The statement marks every final_bill message of the order, whichever bill it
\* is about, and gives each the wamid, if there is one.  A wamid is unique: with
\* two such messages the statement raises and nothing changes.
MarkBillSent(b, hasWamid) ==
  /\ bill[b] # NoBill
  /\ hasWamid => Cardinality(MessagesOf(bill[b].order)) <= 1
  /\ bill' = [bill EXCEPT ![b].status = IF @ = "draft" THEN "sent" ELSE @]
  /\ message' = [m \in Bills |-> IF m \in MessagesOf(bill[b].order)
                                 THEN [message[m] EXCEPT !.status = "sent"] ELSE message[m]]
  /\ UNCHANGED <<rowVars, writer, late>>

\* Whatever its status was, a void bill included; the index may refuse it.
MarkBillPaid(b) ==
  /\ bill[b] # NoBill
  /\ LiveIndex(bill[b].order, b)
  /\ bill' = [bill EXCEPT ![b].status = "paid"]
  /\ UNCHANGED <<rowVars, message, writer, late>>

\* The void frees the order's key: its holder is renamed.
FaultyFreedKey(m) == m
FreedKey(m) == IF m.key = "order" THEN [m EXCEPT !.key = "void"] ELSE m

VoidBill(b) ==
  /\ bill[b] # NoBill
  /\ bill[b].status # "void"
  /\ bill' = [bill EXCEPT ![b].status = "void"]
  /\ message' = [m \in Bills |-> IF m \in MessagesOf(bill[b].order) THEN FreedKey(message[m]) ELSE message[m]]
  /\ UNCHANGED <<rowVars, writer, late>>

------------------------------------------------------------------------------
WriterStep(w) ==
  \/ \E t \in Times, h \in Households : Resolve(w, t, h)
  \/ \E products \in SUBSET Products : WriteBag(w, products)
  \/ WriteFails(w)

CycleStep(c) ==
  \/ \E prices \in PriceBook, allowMissing \in BOOLEAN : LockCycle(c, prices, allowMissing)
  \/ UnlockCycle(c)
  \/ CloseCycle(c)
  \/ GenerateBillsForCycle(c)

BagStep(o) ==
  \/ \E p \in Products, weight \in Weights : SetPackedQty(o, p, weight)
  \/ \E p \in Products : StrikeOut(o, p)
  \/ MarkOrderPacked(o)
  \/ BagLeaves(o)
  \/ GenerateBill(o)

BillStep(b) == (\E hasWamid \in BOOLEAN : MarkBillSent(b, hasWamid)) \/ MarkBillPaid(b) \/ VoidBill(b)

Next ==
  \/ \E w \in Writers : WriterStep(w)
  \/ \E c \in Cycles : CycleStep(c)
  \/ \E o \in Orders : BagStep(o)
  \/ \E b \in Bills : BillStep(b)

Spec == Init /\ [][Next]_vars

------------------------------------------------------------------------------
(* Properties.                                                             *)

\* An order is booked for the delivery that the owner's calendar names at its
\* instant (FollowsCalendar: at every instant of two weeks), and rolls to the
\* very next one only past a cycle that exists and was closed
\* (schedule.js:7-13, 51-91, orders.js:27-50).
BookingCalendar ==
  /\ FollowsCalendar
  /\ \A w \in Writers : writer[w] # Idle =>
       \E t \in Times :
         LET first == DeliveryFor(t)
         IN \/ writer[w].at = first.date
            \/ writer[w].at = NextAfter(first).date /\ cycle[first.date] # "none"

\* Every live line of a locked bag carries the price its cycle's last lock
\* found in the price book, whatever was locked, unlocked and re-priced before,
\* unless the line came in after the lock (002: unlock clears, lock stamps).  A
\* bag that was packed is never locked again.
StampedAtLock ==
  \A o \in Orders, p \in Products :
    order[o] = "locked" /\ p \in LiveLines(o) /\ <<o, p>> \notin late
      => line[o][p].final = book[cycleOf[o]][p]

\* Once a bag's bill is sent or paid, no line it has changes: not its weight,
\* not its price, not its availability, by the weigh station, by an unlock, by
\* a lock or by another order (002:287-290, 003:383-387).
SentLinesAreFrozen ==
  [][\A o \in Orders, p \in Products :
        BillsIn(o, {"sent", "paid"}) # {} /\ line[o][p] # NoLine => line'[o][p] = line[o][p]]_vars

\* A bill that is a draft or sent has a message of its own, with its own numbers,
\* and that message alone holds the order's key: every older one of the bag gave
\* it away, after any voids, corrections and late confirmations (003:219-261,
\* 299-325, 448-454).  Of an older message's status it says nothing.
BillHasItsMessage ==
  \A b \in Bills : bill[b] # NoBill /\ bill[b].status \in {"draft", "sent"} =>
    /\ message[b].key = "order"
    /\ \A d \in MessagesOf(bill[b].order) \ {b} : message[d].key = "void"

\* When a bill is issued, the live lines of its bag are weighed, but for a line
\* that joined the bag after it was locked, or whose weight the station took back
\* after it was packed (003:31-50, 195-203; 002:402-408).
BilledWasWeighed ==
  [][\A b \in Bills :
        bill[b] = NoBill /\ bill'[b] # NoBill =>
          LET o == bill'[b].order
          IN \A p \in LiveLines(o) : line[o][p].weight = 0 => <<o, p>> \in late]_vars

\* What the lock engine says of a locked bag: it is immutable but for weights
\* and availability, so no line joins it and no price moves (002:13-14).
LockedBagIsImmutable ==
  [][\A o \in Orders, p \in Products :
        order[o] \in Frozen /\ order'[o] \in Frozen
          => \/ line[o][p] = NoLine /\ line'[o][p] = NoLine
             \/ /\ line[o][p] # NoLine /\ line'[o][p] # NoLine
                /\ line'[o][p].final = line[o][p].final]_vars
=============================================================================
