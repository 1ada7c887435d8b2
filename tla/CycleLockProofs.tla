--------------------------- MODULE CycleLockProofs ---------------------------
(***************************************************************************)
(* Theorems about CycleLock, for every set of households, products, orders *)
(* and bills, every price and weight, and any number of order writers; and *)
(* about the calendar at every hour, the numbers a customer reads and the  *)
(* price list (Schedule, BillText, ProductSync).                           *)
(***************************************************************************)
EXTENDS CycleLock, BillText, ProductSync, TLAPS

\* What is known of one bag, whatever its cycle went through: it is in a cycle,
\* and has no line before there is an order;
\* locked, its cycle was not reopened; confirmed, no price is on its lines;
\* locked, its lines carry the prices of the lock; packed, they are weighed;
\* the last two but for the lines that came late, or lost their weight once packed.
BagOK(o) ==
  /\ order[o] # "none" => cycleOf[o] \in Cycles
  /\ order[o] = "none" => \A p \in Products : line[o][p] = NoLine
  /\ order[o] = "locked" => cycle[cycleOf[o]] \in {"locked", "past"}
  /\ order[o] = "confirmed" => \A p \in Products : line[o][p] # NoLine => line[o][p].final = 0
  /\ order[o] = "locked" =>
       \A p \in LiveLines(o) : <<o, p>> \notin late => line[o][p].final = book[cycleOf[o]][p]
  /\ order[o] \in Billable =>
       \A p \in LiveLines(o) : <<o, p>> \notin late => line[o][p].weight # 0

\* A bag that has a bill was packed, and is never confirmed or locked again.
Closed == {"packed", "out", "cancelled"}
BilledBags == \A b \in Bills : bill[b] # NoBill => order[bill[b].order] \in Closed

\* The unique index; the order's key is held by the message of a bill that is
\* not void; every message has a key; a draft or sent bill has its own message,
\* and the bag's other messages gave the key away.
LiveBill(b) == bill[b] # NoBill /\ bill[b].status # "void"
OneLive == \A a, b \in Bills : LiveBill(a) /\ LiveBill(b) /\ bill[a].order = bill[b].order => a = b
KeyIsLive == \A b \in Bills : bill[b] # NoBill /\ message[b].key = "order" => bill[b].status # "void"
Keyed == \A b \in Bills : message[b] # NoMessage => message[b].key # "none"
Owing(b) == bill[b] # NoBill /\ bill[b].status \in {"draft", "sent"}
OwnMessage == \A b \in Bills : Owing(b) => message[b].key = "order"
OthersVoid ==
  \A b, d \in Bills :
    Owing(b) /\ d # b /\ bill[d] # NoBill /\ bill[d].order = bill[b].order /\ message[d] # NoMessage
      => message[d].key = "void"
KeysOK == OneLive /\ KeyIsLive /\ Keyed /\ OwnMessage /\ OthersVoid

IInv ==
  /\ TypeOK
  /\ \A o \in Orders : BagOK(o)
  /\ BilledBags
  /\ KeysOK

LEMMA LineTypes ==
  ASSUME CycleLockAssumption
  PROVE  /\ NewLine \in Line
         /\ Prices \subseteq Nat /\ 0 \in Prices /\ Unavailable \notin Prices
BY DEF CycleLockAssumption, Line, NewLine

LEMMA IInvInit == ASSUME CycleLockAssumption, Init PROVE IInv
<1>1. TypeOK
  <2>1. \A c \in Cycles : cycle[c] \in CycleStatuses
    BY DEF Init, CycleStatuses
  <2>2. cycle \in [Cycles -> CycleStatuses]
    BY <2>1 DEF Init
  <2>3. book \in [Cycles -> PriceBook]
    BY LineTypes DEF Init, PriceBook
  <2>4. message \in [Bills -> Message]
    BY DEF Init, Message, NoMessage
  <2> QED BY <2>2, <2>3, <2>4 DEF Init, TypeOK, OrderStatuses
<1>2. \A o \in Orders : BagOK(o)
  BY DEF Init, BagOK, Billable
<1>3. BilledBags /\ KeysOK
  <2>1. \A b \in Bills : bill[b] = NoBill /\ message[b] = NoMessage
    BY DEF Init
  <2> QED BY <2>1 DEF BilledBags, KeysOK, OneLive, LiveBill, KeyIsLive, Keyed,
             Owing, OwnMessage, OthersVoid
<1> QED BY <1>1, <1>2, <1>3 DEF IInv

(***************************************************************************)
(* What the steps on bags have in common.                                  *)
(***************************************************************************)

\* A step on the rows leaves bills and messages alone: it is enough that each
\* bag is right after it, and that a closed bag stays closed.
LEMMA RowStep ==
  ASSUME IInv, TypeOK', UNCHANGED billVars,
         \A o \in Orders : BagOK(o)',
         \A o \in Orders : order[o] \in Closed => order'[o] \in Closed
  PROVE  IInv'
<1>1. BilledBags'
  BY DEF IInv, TypeOK, BilledBags, billVars, Bill
<1>2. KeysOK'
  BY DEF IInv, KeysOK, OneLive, LiveBill, KeyIsLive, Keyed, Owing, OwnMessage, OthersVoid, billVars
<1> QED BY <1>1, <1>2 DEF IInv

\* A bag that a step does not write stays right, if its cycle's lock stands.
LEMMA SameBag ==
  ASSUME NEW o \in Orders, BagOK(o), order'[o] = order[o], cycleOf'[o] = cycleOf[o], line'[o] = line[o],
         \A p \in Products : <<o, p>> \in late => <<o, p>> \in late',
         order[o] = "locked" => /\ cycle'[cycleOf[o]] \in {"locked", "past"}
                                /\ book'[cycleOf[o]] = book[cycleOf[o]]
  PROVE  BagOK(o)'
<1>1. LiveLines(o)' = LiveLines(o) /\ LiveLines(o) \subseteq Products
  BY DEF LiveLines
<1> QED BY <1>1 DEF BagOK

\* A step that writes neither cycles nor bags.
LEMMA SameRows ==
  ASSUME IInv, TypeOK', UNCHANGED <<rowVars, billVars, late>> PROVE IInv'
<1>1. \A o \in Orders : BagOK(o)'
  BY SameBag DEF IInv, BagOK, rowVars
<1> QED BY <1>1, RowStep DEF rowVars

(***************************************************************************)
(* The order writers.                                                      *)
(***************************************************************************)

LEMMA CycleForInCycles ==
  ASSUME NEW t \in Times, CycleFor(t) # NoCycle PROVE CycleFor(t) \in Cycles
BY DEF CycleFor, Cycles

LEMMA ResolveKeeps ==
  ASSUME CycleLockAssumption, IInv, NEW w \in Writers, NEW t \in Times, NEW h \in Households, Resolve(w, t, h)
  PROVE  IInv'
<1>1. [at |-> CycleFor(t), household |-> h] \in [at : Cycles, household : Households]
  BY CycleForInCycles DEF Resolve
<1>2. TypeOK'
  BY <1>1 DEF Resolve, IInv, TypeOK, rowVars, billVars
<1> QED BY <1>2, SameRows DEF Resolve

LEMMA WriteFailsKeeps ==
  ASSUME IInv, NEW w \in Writers, WriteFails(w) PROVE IInv'
<1>1. TypeOK'
  BY DEF WriteFails, IInv, TypeOK, rowVars, billVars
<1> QED BY <1>1, SameRows DEF WriteFails

LEMMA WriteBagKeeps ==
  ASSUME CycleLockAssumption, IInv, NEW w \in Writers, NEW products \in SUBSET Products, WriteBag(w, products)
  PROVE  IInv'
<1> DEFINE c == writer[w].at
           bag == OpenBag(writer[w].household, c)
<1>1. PICK o \in Orders :
        /\ IF bag # {} THEN o \in bag /\ ~MergeRefused(o, products)
           ELSE order[o] = "none" /\ HouseholdOf[o] = writer[w].household
        /\ order' = IF bag = {} THEN [order EXCEPT ![o] = "confirmed"] ELSE order
        /\ cycleOf' = [cycleOf EXCEPT ![o] = c]
        /\ PutLines(o, c, products)
  BY DEF WriteBag
<1> DEFINE new == {p \in products : line[o][p] = NoLine}
<1>2. c \in Cycles
  BY DEF WriteBag, IInv, TypeOK
<1>3. line[o] \in [Products -> Line \cup {NoLine}]
  BY DEF IInv, TypeOK
<1>4. /\ line' = [line EXCEPT ![o] = [p \in Products |-> IF p \in new THEN NewLine ELSE line[o][p]]]
      /\ late' = IF order[o] \in Frozen \/ ~Accepts(c) THEN late \cup ({o} \X new) ELSE late
  BY <1>1 DEF PutLines
<1>5. /\ cycle' = IF cycle[c] = "none" THEN [cycle EXCEPT ![c] = "open"] ELSE cycle
      /\ writer' = [writer EXCEPT ![w] = Idle]
      /\ UNCHANGED <<book, billVars>>
  BY DEF WriteBag
<1>6. \/ order[o] = "none" /\ order'[o] = "confirmed"
      \/ order[o] \notin {"none", "cancelled"} /\ order'[o] = order[o] /\ cycleOf[o] = c
  BY <1>1 DEF OpenBag, Live, IInv, TypeOK
<1>7. TypeOK'
  <2>1. order' \in [Orders -> OrderStatuses] /\ cycleOf' \in [Orders -> Cycles \cup {NoCycle}]
    BY <1>1, <1>2 DEF IInv, TypeOK, OrderStatuses
  <2>2. line' \in [Orders -> [Products -> Line \cup {NoLine}]]
    <3>1. [p \in Products |-> IF p \in new THEN NewLine ELSE line[o][p]] \in [Products -> Line \cup {NoLine}]
      BY <1>3, LineTypes
    <3> QED BY <1>4, <3>1 DEF IInv, TypeOK
  <2>3. cycle' \in [Cycles -> CycleStatuses]
    BY <1>5 DEF IInv, TypeOK, CycleStatuses
  <2>4. late' \subseteq Orders \X Products
    BY <1>4 DEF IInv, TypeOK
  <2> QED BY <1>5, <2>1, <2>2, <2>3, <2>4 DEF IInv, TypeOK, billVars
<1>8. \A q \in Orders, p \in Products : <<q, p>> \in late => <<q, p>> \in late'
  BY <1>4
<1>9. \A q \in Orders : order[q] = "locked" => cycle'[cycleOf[q]] \in {"locked", "past"}
  <2> SUFFICES ASSUME NEW q \in Orders, order[q] = "locked" PROVE cycle'[cycleOf[q]] \in {"locked", "past"}
    OBVIOUS
  <2>1. cycleOf[q] \in Cycles /\ cycle[cycleOf[q]] \in {"locked", "past"}
    BY DEF IInv, BagOK
  <2> QED BY <2>1, <1>5 DEF IInv, TypeOK
<1>10. ASSUME NEW q \in Orders, q # o PROVE BagOK(q)'
  <2>1. order'[q] = order[q] /\ cycleOf'[q] = cycleOf[q] /\ line'[q] = line[q]
    BY <1>1, <1>4, <1>10 DEF IInv, TypeOK
  <2> QED BY <1>5, <1>8, <1>9, <2>1, SameBag DEF IInv
<1>11. BagOK(o)'
  <2>1. cycleOf'[o] = c
    BY <1>1 DEF IInv, TypeOK
  <2>2. \A p \in Products : line'[o][p] = IF p \in new THEN NewLine ELSE line[o][p]
    BY <1>4 DEF IInv, TypeOK
  <2>3. CASE order[o] = "none" /\ order'[o] = "confirmed"
    <3>1. \A p \in Products : line'[o][p] # NoLine => line'[o][p].final = 0
      BY <2>2, <2>3 DEF NewLine, IInv, BagOK
    <3> QED BY <1>2, <2>1, <2>3, <3>1 DEF BagOK, Billable
  <2>4. CASE order[o] \notin {"none", "cancelled"} /\ order'[o] = order[o] /\ cycleOf[o] = c
    <3>0. BagOK(o)
      BY DEF IInv
    <3>1. ASSUME order'[o] = "confirmed"
          PROVE \A p \in Products : line'[o][p] # NoLine => line'[o][p].final = 0
      BY <2>2, <2>4, <3>0, <3>1 DEF NewLine, BagOK
    <3>2. ASSUME order[o] \in Frozen, NEW p \in LiveLines(o)', <<o, p>> \notin late'
          PROVE  p \in LiveLines(o) /\ line'[o][p] = line[o][p] /\ <<o, p>> \notin late
      <4>1. p \in Products
        BY DEF LiveLines
      <4>2. p \notin new
        BY <1>4, <3>2
      <4> QED BY <1>8, <2>2, <3>2, <4>1, <4>2 DEF LiveLines
    <3>3. order'[o] = "locked" => cycle'[c] \in {"locked", "past"}
      BY <1>9, <2>4
    <3>4. order'[o] = "locked" =>
            \A p \in LiveLines(o)' : <<o, p>> \notin late' => line'[o][p].final = book'[c][p]
      BY <1>5, <2>4, <3>0, <3>2 DEF BagOK, Frozen
    <3>5. order'[o] \in Billable =>
            \A p \in LiveLines(o)' : <<o, p>> \notin late' => line'[o][p].weight # 0
      BY <2>4, <3>0, <3>2 DEF BagOK, Frozen, Billable
    <3> QED BY <1>2, <2>1, <2>4, <3>1, <3>3, <3>4, <3>5 DEF BagOK
  <2> QED BY <1>6, <2>3, <2>4
<1>12. \A q \in Orders : order[q] \in Closed => order'[q] \in Closed
  <2>1. order' = order \/ (order' = [order EXCEPT ![o] = "confirmed"] /\ order[o] = "none")
    BY <1>1
  <2> QED BY <2>1 DEF IInv, TypeOK, Closed
<1> QED BY <1>5, <1>7, <1>8, <1>10, <1>11, <1>12, RowStep

(***************************************************************************)
(* The lock engine.                                                        *)
(***************************************************************************)

\* A line that is there and that the mandi had.
Sells(l) == l # NoLine /\ ~l.unavailable

\* What a lock makes of a line: it is there or not as it was, with the weight it
\* had, and if it is still live it carries the price, or its own for a NULL.
LEMMA LockedLineIs ==
  ASSUME CycleLockAssumption, NullAssumption,
         NEW l \in Line \cup {NoLine}, NEW price \in Prices \cup {Unavailable}
  PROVE  /\ LockedLine(l, price) \in Line \cup {NoLine}
         /\ Sells(LockedLine(l, price)) =>
              l # NoLine /\ LockedLine(l, price).final = IF price = 0 THEN l.final ELSE price
<1>1. CASE l = NoLine \/ price = 0
  BY <1>1 DEF LockedLine, Sells
<1>2. CASE l # NoLine /\ price = Unavailable
  <2>1. price # 0 /\ l \in Line
    BY <1>2, LineTypes DEF CycleLockAssumption
  <2>2. LockedLine(l, price) = [l EXCEPT !.unavailable = TRUE]
    BY <1>2, <2>1 DEF LockedLine
  <2> QED BY <2>1, <2>2 DEF NullAssumption, Line, Sells
<1>3. CASE l # NoLine /\ price # 0 /\ price # Unavailable
  <2>1. l \in Line /\ price \in Prices
    BY <1>3
  <2>2. LockedLine(l, price) = IF l.unavailable THEN l ELSE [l EXCEPT !.final = price]
    BY <1>3 DEF LockedLine
  <2> QED BY <1>3, <2>1, <2>2 DEF NullAssumption, Line, Sells
<1> QED BY <1>1, <1>2, <1>3

LEMMA LockCycleKeeps ==
  ASSUME CycleLockAssumption, NullAssumption, IInv, NEW c \in Cycles,
         NEW prices \in PriceBook, NEW allowMissing \in BOOLEAN, LockCycle(c, prices, allowMissing)
  PROVE  IInv'
<1> DEFINE bags == BagsOf(c, {"confirmed"})
<1>1. /\ cycle[c] = "open"
      /\ line' = [o \in Orders |->
                   IF o \in bags THEN [p \in Products |-> LockedLine(line[o][p], prices[p])] ELSE line[o]]
      /\ order' = [o \in Orders |-> IF o \in bags THEN "locked" ELSE order[o]]
      /\ cycle' = [cycle EXCEPT ![c] = "locked"]
      /\ book' = [book EXCEPT ![c] = prices]
      /\ UNCHANGED <<cycleOf, billVars, writer, late>>
  BY DEF LockCycle
<1>2. \A o \in Orders : o \in bags <=> cycleOf[o] = c /\ order[o] = "confirmed"
  BY DEF BagsOf
<1>3. \A o \in Orders, p \in Products :
        line[o][p] \in Line \cup {NoLine} /\ prices[p] \in Prices \cup {Unavailable}
  BY DEF IInv, TypeOK, PriceBook
<1>4. TypeOK'
  <2>1. line' \in [Orders -> [Products -> Line \cup {NoLine}]]
    <3>1. \A o \in Orders : [p \in Products |-> LockedLine(line[o][p], prices[p])]
                              \in [Products -> Line \cup {NoLine}]
      BY <1>3, LockedLineIs
    <3> QED BY <1>1, <3>1 DEF IInv, TypeOK
  <2>2. order' \in [Orders -> OrderStatuses]
    BY <1>1 DEF IInv, TypeOK, OrderStatuses
  <2>3. cycle' \in [Cycles -> CycleStatuses] /\ book' \in [Cycles -> PriceBook]
    BY <1>1 DEF IInv, TypeOK, CycleStatuses
  <2> QED BY <1>1, <2>1, <2>2, <2>3 DEF IInv, TypeOK, billVars
<1>5. ASSUME NEW o \in Orders, o \notin bags PROVE BagOK(o)'
  <2>1. order[o] = "locked" => cycleOf[o] \in Cycles /\ cycleOf[o] # c
    BY <1>1 DEF IInv, BagOK
  <2>2. order[o] = "locked" => /\ cycle'[cycleOf[o]] \in {"locked", "past"}
                               /\ book'[cycleOf[o]] = book[cycleOf[o]]
    BY <1>1, <2>1 DEF IInv, TypeOK, BagOK
  <2>3. order'[o] = order[o] /\ cycleOf'[o] = cycleOf[o] /\ line'[o] = line[o] /\ late' = late
    BY <1>1, <1>5
  <2> QED BY <2>2, <2>3, SameBag DEF IInv
<1>6. ASSUME NEW o \in Orders, o \in bags PROVE BagOK(o)'
  <2>1. BagOK(o) /\ order[o] = "confirmed" /\ cycleOf'[o] = c /\ order'[o] = "locked"
    BY <1>1, <1>2, <1>6 DEF IInv
  <2>2. cycle'[c] = "locked" /\ book'[c] = prices
    BY <1>1 DEF IInv, TypeOK
  <2>3. ASSUME NEW p \in LiveLines(o)' PROVE line'[o][p].final = prices[p]
    <3>1. p \in Products /\ line'[o][p] = LockedLine(line[o][p], prices[p])
      BY <1>1, <1>6 DEF LiveLines
    <3>2. Sells(LockedLine(line[o][p], prices[p]))
      BY <3>1 DEF LiveLines, Sells
    <3>3. /\ line[o][p] # NoLine
          /\ LockedLine(line[o][p], prices[p]).final = IF prices[p] = 0 THEN line[o][p].final ELSE prices[p]
      BY <1>3, <3>1, <3>2, LockedLineIs
    <3> QED BY <2>1, <3>1, <3>3 DEF BagOK
  <2> QED BY <2>1, <2>2, <2>3 DEF BagOK, Billable
<1>7. \A o \in Orders : order[o] \in Closed => order'[o] \in Closed
  BY <1>1, <1>2 DEF Closed
<1> QED BY <1>1, <1>4, <1>5, <1>6, <1>7, RowStep

LEMMA UnlockCycleKeeps ==
  ASSUME CycleLockAssumption, NullAssumption, IInv, NEW c \in Cycles, UnlockCycle(c)
  PROVE  IInv'
<1> DEFINE reopened == BagsOf(c, {"locked", "confirmed"})
<1>1. /\ order' = [o \in Orders |-> IF o \in reopened THEN "confirmed" ELSE order[o]]
      /\ line' = [o \in Orders |-> IF o \in reopened
                                    THEN [p \in Products |-> UnlockedLine(o, line[o][p])] ELSE line[o]]
      /\ cycle' = [cycle EXCEPT ![c] = "open"]
      /\ book' = [book EXCEPT ![c] = [p \in Products |-> 0]]
      /\ late' = late \ (reopened \X Products)
      /\ UNCHANGED <<cycleOf, billVars, writer>>
  BY DEF UnlockCycle
<1>2. \A o \in Orders : o \in reopened <=> cycleOf[o] = c /\ order[o] \in {"locked", "confirmed"}
  BY DEF BagsOf
<1>3. ASSUME NEW o \in Orders, NEW p \in Products
      PROVE  /\ UnlockedLine(o, line[o][p]) \in Line \cup {NoLine}
             /\ UnlockedLine(o, line[o][p]) # NoLine => UnlockedLine(o, line[o][p]).final = 0
  <2>1. CASE line[o][p] = NoLine
    BY <2>1 DEF UnlockedLine
  <2>2. CASE line[o][p] \in Line
    BY <2>2, LineTypes DEF UnlockedLine, NullAssumption, Line
  <2> QED BY <2>1, <2>2 DEF IInv, TypeOK
<1>4. TypeOK'
  <2>1. line' \in [Orders -> [Products -> Line \cup {NoLine}]]
    <3>1. \A o \in Orders : [p \in Products |-> UnlockedLine(o, line[o][p])] \in [Products -> Line \cup {NoLine}]
      BY <1>3
    <3> QED BY <1>1, <3>1 DEF IInv, TypeOK
  <2>2. order' \in [Orders -> OrderStatuses]
    BY <1>1 DEF IInv, TypeOK, OrderStatuses
  <2>3. cycle' \in [Cycles -> CycleStatuses] /\ book' \in [Cycles -> PriceBook] /\ late' \subseteq Orders \X Products
    BY <1>1, LineTypes DEF IInv, TypeOK, CycleStatuses, PriceBook
  <2> QED BY <1>1, <2>1, <2>2, <2>3 DEF IInv, TypeOK, billVars
<1>5. ASSUME NEW o \in Orders, o \notin reopened PROVE BagOK(o)'
  <2>1. order[o] = "locked" => cycleOf[o] \in Cycles /\ cycleOf[o] # c
    BY <1>2, <1>5 DEF IInv, BagOK
  <2>2. order[o] = "locked" => /\ cycle'[cycleOf[o]] \in {"locked", "past"}
                               /\ book'[cycleOf[o]] = book[cycleOf[o]]
    BY <1>1, <2>1 DEF IInv, TypeOK, BagOK
  <2>3. order'[o] = order[o] /\ cycleOf'[o] = cycleOf[o] /\ line'[o] = line[o]
    BY <1>1, <1>5
  <2>4. \A p \in Products : <<o, p>> \in late => <<o, p>> \in late'
    BY <1>1, <1>5
  <2> QED BY <2>2, <2>3, <2>4, SameBag DEF IInv
<1>6. ASSUME NEW o \in Orders, o \in reopened PROVE BagOK(o)'
  <2>1. BagOK(o) /\ order[o] # "none" /\ cycleOf'[o] = cycleOf[o] /\ order'[o] = "confirmed"
    BY <1>1, <1>2, <1>6 DEF IInv
  <2>2. \A p \in Products : line'[o][p] # NoLine => line'[o][p].final = 0
    BY <1>1, <1>3, <1>6
  <2> QED BY <2>1, <2>2 DEF BagOK, Billable
<1>7. \A o \in Orders : order[o] \in Closed => order'[o] \in Closed
  BY <1>1, <1>2 DEF Closed
<1> QED BY <1>1, <1>4, <1>5, <1>6, <1>7, RowStep

LEMMA CloseCycleKeeps ==
  ASSUME IInv, NEW c \in Cycles, CloseCycle(c) PROVE IInv'
<1>1. TypeOK'
  BY DEF CloseCycle, IInv, TypeOK, CycleStatuses, billVars
<1>2. \A o \in Orders : order[o] = "locked" => cycle'[cycleOf[o]] \in {"locked", "past"}
  BY DEF CloseCycle, IInv, TypeOK, BagOK
<1>3. \A o \in Orders : BagOK(o)'
  BY <1>2, SameBag DEF CloseCycle, IInv
<1> QED BY <1>1, <1>3, RowStep DEF CloseCycle

(***************************************************************************)
(* The bag: weighed, struck out, packed, gone.                             *)
(***************************************************************************)

LEMMA LiveIsSold ==
  ASSUME NEW o \in Orders, NEW p \in Products
  PROVE  p \in LiveLines(o) <=> Sells(line[o][p])
BY DEF LiveLines, Sells

\* A line is rewritten with its price; one that loses its weight in a packed bag
\* counts as late.
LEMMA LineWritten ==
  ASSUME IInv, NEW o \in Orders, NEW p \in Products, NEW m \in Line,
         line[o][p] \in Line,
         line' = [line EXCEPT ![o] = [line[o] EXCEPT ![p] = m]],
         m.final = line[o][p].final,
         Sells(m) => Sells(line[o][p]),
         m.weight = line[o][p].weight \/ m.weight # 0 \/ order[o] \notin Billable \/ <<o, p>> \in late',
         late \subseteq late', late' \subseteq late \cup {<<o, p>>},
         UNCHANGED <<cycle, book, order, cycleOf, billVars, writer>>
  PROVE  IInv'
<1>1. line[o] \in [Products -> Line \cup {NoLine}]
  BY DEF IInv, TypeOK
<1>2. line' \in [Orders -> [Products -> Line \cup {NoLine}]]
  <2>1. [line[o] EXCEPT ![p] = m] \in [Products -> Line \cup {NoLine}]
    BY <1>1
  <2> QED BY <2>1 DEF IInv, TypeOK
<1>3. TypeOK'
  BY <1>2 DEF IInv, TypeOK, billVars
<1>4. ASSUME NEW q \in Orders, q # o PROVE BagOK(q)'
  <2>1. line'[q] = line[q]
    BY <1>4
  <2>2. order[q] = "locked" => cycle[cycleOf[q]] \in {"locked", "past"}
    BY DEF IInv, BagOK
  <2> QED BY <2>1, <2>2, SameBag DEF IInv
<1>5. BagOK(o)'
  <2>1. \A r \in Products : line'[o][r] = IF r = p THEN m ELSE line[o][r]
    BY <1>1 DEF IInv, TypeOK
  <2>2. BagOK(o) /\ order[o] # "none"
    BY NullAssumption DEF IInv, BagOK, NullAssumption
  <2>3. ASSUME NEW r \in LiveLines(o)'
        PROVE  /\ r \in LiveLines(o)
               /\ line'[o][r].final = line[o][r].final
               /\ \/ line'[o][r].weight = line[o][r].weight \/ line'[o][r].weight # 0
                  \/ order[o] \notin Billable \/ <<o, r>> \in late'
    <3>1. r \in Products
      BY DEF LiveLines
    <3>2. Sells(line'[o][r])
      BY DEF LiveLines, Sells
    <3>3. Sells(line[o][r])
      BY <2>1, <3>1, <3>2
    <3>4. r \in LiveLines(o)
      BY <3>1, <3>3, LiveIsSold
    <3> QED BY <2>1, <3>1, <3>4
  <2>4. order[o] = "confirmed" => \A r \in Products : line'[o][r] # NoLine => line'[o][r].final = 0
    BY <2>1, <2>2, NullAssumption DEF BagOK, NullAssumption
  <2> QED BY <2>2, <2>3, <2>4 DEF BagOK
<1> QED BY <1>3, <1>4, <1>5, RowStep

LEMMA SetPackedQtyKeeps ==
  ASSUME NullAssumption, IInv, NEW o \in Orders, NEW p \in Products, NEW weight \in Weights,
         SetPackedQty(o, p, weight)
  PROVE  IInv'
<1> DEFINE m == [line[o][p] EXCEPT !.weight = weight]
<1>1. line[o][p] \in Line
  BY DEF SetPackedQty, IInv, TypeOK
<1>2. m \in Line /\ m.final = line[o][p].final /\ m.weight = weight /\ m.unavailable = line[o][p].unavailable
  BY <1>1 DEF Line
<1>3. line' = [line EXCEPT ![o] = [line[o] EXCEPT ![p] = m]]
  BY DEF SetPackedQty, IInv, TypeOK
<1>4. Sells(m) => Sells(line[o][p])
  BY <1>1, <1>2 DEF Sells, NullAssumption
<1> QED BY <1>1, <1>2, <1>3, <1>4, LineWritten DEF SetPackedQty

LEMMA StrikeOutKeeps ==
  ASSUME NullAssumption, IInv, NEW o \in Orders, NEW p \in Products, StrikeOut(o, p)
  PROVE  IInv'
<1> DEFINE m == [line[o][p] EXCEPT !.unavailable = TRUE]
<1>1. line[o][p] \in Line
  BY DEF StrikeOut, LiveLines, IInv, TypeOK
<1>2. m \in Line /\ m.final = line[o][p].final /\ m.weight = line[o][p].weight /\ m.unavailable
  BY <1>1 DEF Line
<1>3. line' = [line EXCEPT ![o] = [line[o] EXCEPT ![p] = m]]
  BY DEF StrikeOut, IInv, TypeOK
<1> QED BY <1>1, <1>2, <1>3, LineWritten DEF StrikeOut, Sells

LEMMA MarkOrderPackedKeeps ==
  ASSUME IInv, NEW o \in Orders, MarkOrderPacked(o) PROVE IInv'
<1>1. TypeOK'
  BY DEF MarkOrderPacked, IInv, TypeOK, OrderStatuses, billVars
<1>2. ASSUME NEW q \in Orders, q # o PROVE BagOK(q)'
  <2>1. order'[q] = order[q] /\ UNCHANGED <<cycle, book, cycleOf, line, late>>
    BY <1>2 DEF MarkOrderPacked, IInv, TypeOK
  <2>2. order[q] = "locked" => cycle[cycleOf[q]] \in {"locked", "past"}
    BY DEF IInv, BagOK
  <2> QED BY <2>1, <2>2, SameBag DEF IInv
<1>3. BagOK(o)'
  <2>1. order[o] # "none" /\ order'[o] \in {"cancelled", "packed"} /\ UNCHANGED <<cycleOf, line, late>>
    BY DEF MarkOrderPacked, IInv, TypeOK
  <2>2. \A p \in LiveLines(o)' : line'[o][p].weight # 0
    BY <2>1 DEF MarkOrderPacked, PackBlockers, LiveLines
  <2> QED BY <2>1, <2>2 DEF BagOK, IInv
<1>4. \A q \in Orders : order[q] \in Closed => order'[q] \in Closed
  BY DEF MarkOrderPacked, IInv, TypeOK, Closed
<1> QED BY <1>1, <1>2, <1>3, <1>4, RowStep DEF MarkOrderPacked

LEMMA BagLeavesKeeps ==
  ASSUME IInv, NEW o \in Orders, BagLeaves(o) PROVE IInv'
<1>1. TypeOK'
  BY DEF BagLeaves, IInv, TypeOK, OrderStatuses, billVars
<1>2. ASSUME NEW q \in Orders, q # o PROVE BagOK(q)'
  <2>1. order'[q] = order[q] /\ UNCHANGED <<cycle, book, cycleOf, line, late>>
    BY <1>2 DEF BagLeaves, IInv, TypeOK
  <2>2. order[q] = "locked" => cycle[cycleOf[q]] \in {"locked", "past"}
    BY DEF IInv, BagOK
  <2> QED BY <2>1, <2>2, SameBag DEF IInv
<1>3. BagOK(o)'
  <2>1. order[o] = "packed" /\ order'[o] = "out" /\ UNCHANGED <<cycleOf, line, late>>
    BY DEF BagLeaves, IInv, TypeOK
  <2>2. LiveLines(o)' = LiveLines(o)
    BY <2>1 DEF LiveLines
  <2> QED BY <2>1, <2>2 DEF BagOK, IInv, Billable
<1>4. \A q \in Orders : order[q] \in Closed => order'[q] \in Closed
  BY DEF BagLeaves, IInv, TypeOK, Closed
<1> QED BY <1>1, <1>2, <1>3, <1>4, RowStep DEF BagLeaves

(***************************************************************************)
(* The bill engine.                                                        *)
(***************************************************************************)

\* A bill step leaves the bags alone.
LEMMA BillStepKeeps ==
  ASSUME IInv, UNCHANGED <<rowVars, writer, late>>, bill' \in [Bills -> Bill \cup {NoBill}],
         message' \in [Bills -> Message], BilledBags', KeysOK'
  PROVE  IInv'
<1>1. TypeOK'
  BY DEF IInv, TypeOK, rowVars
<1>2. \A o \in Orders : BagOK(o)'
  BY DEF IInv, BagOK, LiveLines, rowVars
<1> QED BY <1>1, <1>2 DEF IInv

\* A step on a bill and the messages of its bag, which keeps every bill's order.
LEMMA StatusWritten ==
  ASSUME NullAssumption, IInv, NEW b \in Bills, bill[b] # NoBill, NEW st \in BillStatuses,
         UNCHANGED <<rowVars, writer, late>>,
         bill' = [bill EXCEPT ![b] = [bill[b] EXCEPT !.status = st]],
         message' \in [Bills -> Message], KeysOK'
  PROVE  IInv'
<1>1. bill[b] \in Bill
  BY DEF IInv, TypeOK
<1>2. [bill[b] EXCEPT !.status = st] \in Bill
  BY <1>1 DEF Bill
<1>3. bill' \in [Bills -> Bill \cup {NoBill}]
  BY <1>2 DEF IInv, TypeOK
<1>4. \A a \in Bills : bill'[a] # NoBill =>
        bill[a] # NoBill /\ bill'[a].order = bill[a].order
  BY <1>1 DEF Bill, IInv, TypeOK
<1>5. BilledBags'
  BY <1>4 DEF IInv, BilledBags, rowVars
<1> QED BY <1>3, <1>5, BillStepKeeps

LEMMA MarkBillSentKeeps ==
  ASSUME NullAssumption, IInv, NEW b \in Bills, NEW hasWamid \in BOOLEAN, MarkBillSent(b, hasWamid)
  PROVE  IInv'
<1> DEFINE st == IF bill[b].status = "draft" THEN "sent" ELSE bill[b].status
           o == bill[b].order
<1>1. bill[b] # NoBill /\ bill[b] \in Bill
  BY DEF MarkBillSent, IInv, TypeOK
<1>2. st \in BillStatuses
  BY <1>1 DEF Bill, BillStatuses
<1>3. bill' = [bill EXCEPT ![b] = [bill[b] EXCEPT !.status = st]]
  BY DEF MarkBillSent, IInv, TypeOK
<1>4. /\ message' = [m \in Bills |-> IF m \in MessagesOf(o) THEN [message[m] EXCEPT !.status = "sent"] ELSE message[m]]
      /\ UNCHANGED <<rowVars, writer, late>>
  BY DEF MarkBillSent
<1>5. message' \in [Bills -> Message] /\ \A m \in Bills : message'[m].key = message[m].key
  BY <1>4 DEF IInv, TypeOK, Message
<1>6. \A m \in Bills : message[m] = NoMessage => message'[m] = NoMessage
  BY <1>4 DEF MessagesOf
<1>7. \A a \in Bills :
        /\ bill'[a] = NoBill <=> bill[a] = NoBill
        /\ bill[a] # NoBill => /\ bill'[a].order = bill[a].order
                               /\ bill'[a].status = "void" <=> bill[a].status = "void"
                               /\ bill'[a].status \in {"draft", "sent"} => bill[a].status \in {"draft", "sent"}
  BY <1>1, <1>2, <1>3 DEF NullAssumption, Bill, IInv, TypeOK
<1>8. KeysOK'
  BY <1>5, <1>6, <1>7 DEF IInv, KeysOK, OneLive, LiveBill, KeyIsLive, Keyed, Owing, OwnMessage, OthersVoid
<1> QED BY <1>1, <1>2, <1>3, <1>4, <1>5, <1>8, StatusWritten

LEMMA MarkBillPaidKeeps ==
  ASSUME NullAssumption, IInv, NEW b \in Bills, MarkBillPaid(b) PROVE IInv'
<1>1. bill[b] # NoBill /\ bill[b] \in Bill
  BY DEF MarkBillPaid, IInv, TypeOK
<1>2. /\ bill' = [bill EXCEPT ![b] = [bill[b] EXCEPT !.status = "paid"]]
      /\ UNCHANGED <<rowVars, message, writer, late>>
  BY DEF MarkBillPaid, IInv, TypeOK
<1>3. \A a \in Bills : LiveBill(a) /\ bill[a].order = bill[b].order => a = b
  BY DEF MarkBillPaid, LiveIndex, BillsIn, BillsOf, LiveBill, IInv, TypeOK, Bill
<1>4. /\ bill'[b] # NoBill /\ bill'[b].order = bill[b].order /\ bill'[b].status = "paid"
      /\ \A a \in Bills \ {b} : bill'[a] = bill[a]
  BY <1>1, <1>2 DEF NullAssumption, Bill, BillStatuses, IInv, TypeOK
<1>5. KeysOK'
  <2>1. OneLive'
    BY <1>3, <1>4 DEF IInv, KeysOK, OneLive, LiveBill
  <2>2. KeyIsLive' /\ Keyed'
    BY <1>2, <1>4 DEF IInv, KeysOK, KeyIsLive, Keyed
  <2>3. \A a \in Bills : Owing(a)' => Owing(a) /\ a # b
    BY <1>4 DEF Owing
  <2>4. OwnMessage' /\ OthersVoid'
    BY <1>1, <1>2, <1>4, <2>3 DEF IInv, KeysOK, Owing, OwnMessage, OthersVoid
  <2> QED BY <2>1, <2>2, <2>4 DEF KeysOK
<1>6. message' \in [Bills -> Message]
  BY <1>2 DEF IInv, TypeOK
<1> QED BY <1>1, <1>2, <1>5, <1>6, StatusWritten DEF BillStatuses

LEMMA VoidBillKeeps ==
  ASSUME NullAssumption, IInv, NEW b \in Bills, VoidBill(b) PROVE IInv'
<1> DEFINE o == bill[b].order
<1>1. bill[b] # NoBill /\ bill[b] \in Bill /\ bill[b].status # "void"
  BY DEF VoidBill, IInv, TypeOK
<1>2. /\ bill' = [bill EXCEPT ![b] = [bill[b] EXCEPT !.status = "void"]]
      /\ message' = [m \in Bills |-> IF m \in MessagesOf(o) THEN FreedKey(message[m]) ELSE message[m]]
      /\ UNCHANGED <<rowVars, writer, late>>
  BY DEF VoidBill, IInv, TypeOK
<1>3. \A m \in Bills : /\ FreedKey(message[m]) \in Message
                       /\ FreedKey(message[m]).key = IF message[m].key = "order" THEN "void" ELSE message[m].key
  BY DEF FreedKey, IInv, TypeOK, Message
<1>4. message' \in [Bills -> Message]
  BY <1>2, <1>3 DEF IInv, TypeOK
<1>5. /\ bill'[b] # NoBill /\ bill'[b].order = o /\ bill'[b].status = "void"
      /\ \A a \in Bills \ {b} : bill'[a] = bill[a]
  BY <1>1, <1>2 DEF NullAssumption, Bill, BillStatuses, IInv, TypeOK
<1>6. \A m \in Bills : bill[m] # NoBill /\ bill[m].order = o /\ message[m] # NoMessage
                       => message'[m].key \in {"none", "void"}
  <2>1. \A m \in Bills : message[m].key \in {"none", "order", "void"}
    BY DEF IInv, TypeOK, Message
  <2>2. \A m \in Bills : bill[m] # NoBill /\ bill[m].order = o /\ message[m] # NoMessage
                         => message'[m] = FreedKey(message[m])
    BY <1>2 DEF MessagesOf, BillsOf
  <2> QED BY <1>3, <2>1, <2>2
<1>7. \A m \in Bills : bill[m] = NoBill \/ bill[m].order # o => message'[m] = message[m]
  BY <1>2 DEF MessagesOf, BillsOf
<1>8. KeysOK'
  <2>1. OneLive'
    BY <1>5 DEF IInv, KeysOK, OneLive, LiveBill
  <2>2. ASSUME NEW m \in Bills, message[m] # NoMessage PROVE message'[m].key # "none"
    <3>1. message[m].key # "none"
      BY <2>2 DEF IInv, KeysOK, Keyed
    <3> QED BY <1>2, <1>3, <3>1
  <2>3. ASSUME NEW m \in Bills, message[m] = NoMessage PROVE message'[m] = NoMessage
    BY <1>2, <2>3 DEF MessagesOf
  <2>4. Keyed'
    BY <2>2, <2>3 DEF Keyed
  <2>5. ASSUME NEW m \in Bills, bill'[m] # NoBill, message'[m].key = "order"
        PROVE  bill'[m].status # "void"
    <3>1. bill[m] # NoBill
      BY <1>1, <1>5, <2>5
    <3>2. bill[m].order # o
      BY <1>6, <2>3, <2>5, <3>1 DEF NoMessage
    <3>3. message'[m] = message[m] /\ bill'[m] = bill[m]
      BY <1>5, <1>7, <3>2
    <3> QED BY <2>5, <3>1, <3>3 DEF IInv, KeysOK, KeyIsLive
  <2>6. \A a \in Bills : Owing(a)' => Owing(a) /\ a # b /\ bill[a].order # o
    BY <1>1, <1>5 DEF Owing, LiveBill, OneLive, KeysOK, IInv
  <2>7. OwnMessage'
    BY <1>7, <2>6 DEF IInv, KeysOK, Owing, OwnMessage
  <2>8. ASSUME NEW a \in Bills, NEW d \in Bills, Owing(a)', d # a, bill'[d] # NoBill,
               bill'[d].order = bill'[a].order, message'[d] # NoMessage
        PROVE  message'[d].key = "void"
    <3>1. Owing(a) /\ bill'[a] = bill[a] /\ bill[a].order # o
      BY <1>5, <2>6, <2>8
    <3>2. bill'[d] = bill[d] /\ message'[d] = message[d]
      BY <1>5, <1>7, <2>8, <3>1
    <3> QED BY <2>8, <3>1, <3>2 DEF IInv, KeysOK, OthersVoid
  <2> QED BY <2>1, <2>4, <2>5, <2>7, <2>8 DEF KeysOK, KeyIsLive, OthersVoid
<1> QED BY <1>1, <1>2, <1>4, <1>8, StatusWritten DEF BillStatuses

\* The bags of toBill each get the bill that fresh names, a draft with a queued
\* message; they had no bill but void ones.
LEMMA IssueKeeps ==
  ASSUME NullAssumption, IInv, NEW toBill \in SUBSET Orders, NEW fresh \in [toBill -> Bills],
         \A o \in toBill : order[o] \in Billable /\ bill[fresh[o]] = NoBill,
         \A o \in toBill, b \in Bills : LiveBill(b) => bill[b].order # o,
         \A o, q \in toBill : fresh[o] = fresh[q] => o = q,
         Issue(toBill, fresh)
  PROVE  IInv'
<1> DEFINE issued == {fresh[o] : o \in toBill}
           of(b) == CHOOSE o \in toBill : fresh[o] = b
           new(o) == [order |-> o, status |-> "draft"]
<1>1. \A o \in toBill : of(fresh[o]) = o
  OBVIOUS
<1>2. \A o \in toBill : KeyFree(o)
  BY DEF KeyFree, MessagesOf, BillsOf, IInv, KeysOK, KeyIsLive, LiveBill
<1>3. /\ bill' = [b \in Bills |-> IF b \in issued THEN new(of(b)) ELSE bill[b]]
      /\ message' = [b \in Bills |-> IF b \in issued /\ KeyFree(of(b))
                                     THEN [key |-> "order", status |-> "queued"] ELSE message[b]]
      /\ UNCHANGED <<rowVars, writer, late>>
  BY DEF Issue
<1>4. \A o \in toBill : bill'[fresh[o]] = new(o) /\ message'[fresh[o]] = [key |-> "order", status |-> "queued"]
  BY <1>1, <1>2, <1>3
<1>5. \A o \in toBill : /\ bill'[fresh[o]] \in Bill /\ bill'[fresh[o]].order = o
                        /\ bill'[fresh[o]].status = "draft"
  <2>1. ASSUME NEW o \in toBill
        PROVE  new(o) \in Bill /\ new(o).order = o /\ new(o).status = "draft"
    BY DEF Bill, BillStatuses
  <2> HIDE DEF new
  <2> QED BY <1>4, <2>1
<1>6. \A o \in toBill : /\ message'[fresh[o]] \in Message /\ message'[fresh[o]].key = "order"
  <2> DEFINE msg == [key |-> "order", status |-> "queued"]
  <2>1. msg \in Message /\ msg.key = "order"
    BY DEF Message
  <2>2. \A o \in toBill : message'[fresh[o]] = msg
    BY <1>4
  <2> HIDE DEF msg
  <2> QED BY <2>1, <2>2
<1>7. ASSUME NEW b \in Bills
      PROVE  \/ \E o \in toBill : b = fresh[o]
             \/ bill'[b] = bill[b] /\ message'[b] = message[b] /\ \A o \in toBill : b # fresh[o]
  BY <1>3
<1> HIDE DEF issued, of, new
<1>8. bill' \in [Bills -> Bill \cup {NoBill}] /\ message' \in [Bills -> Message]
  <2>1. \A b \in Bills : bill'[b] \in Bill \cup {NoBill} /\ message'[b] \in Message
    BY <1>5, <1>6, <1>7 DEF IInv, TypeOK
  <2> QED BY <1>3, <2>1
<1>9. BilledBags'
  <2> SUFFICES ASSUME NEW b \in Bills, bill'[b] # NoBill PROVE order[bill'[b].order] \in Closed
    BY <1>3 DEF BilledBags, rowVars
  <2>1. ASSUME NEW o \in toBill, b = fresh[o] PROVE order[bill'[b].order] \in Closed
    BY <1>5, <2>1 DEF Billable, Closed
  <2>2. CASE bill'[b] = bill[b]
    BY <2>2 DEF IInv, BilledBags
  <2> QED BY <1>7, <2>1, <2>2
<1>10. KeysOK'
  <2>1. \A o \in toBill : bill'[fresh[o]] # NoBill
    BY <1>5 DEF NullAssumption
  <2>2. ASSUME NEW a \in Bills, NEW b \in Bills, LiveBill(a)', LiveBill(b)', bill'[a].order = bill'[b].order
        PROVE  a = b
    <3>1. ASSUME NEW o \in toBill, NEW x \in Bills, NEW y \in Bills, x = fresh[o], LiveBill(y)', bill'[y].order = o
          PROVE  x = y
      <4>1. ~LiveBill(y) \/ bill[y].order # o
        OBVIOUS
      <4>2. bill'[y] # bill[y]
        BY <3>1, <4>1 DEF LiveBill
      <4>3. PICK q \in toBill : y = fresh[q]
        BY <1>7, <4>2
      <4> QED BY <1>5, <3>1, <4>3
    <3>2. CASE \E o \in toBill : a = fresh[o] \/ b = fresh[o]
      BY <1>5, <2>2, <3>1, <3>2
    <3>3. CASE bill'[a] = bill[a] /\ bill'[b] = bill[b]
      BY <2>2, <3>3 DEF IInv, KeysOK, OneLive, LiveBill
    <3> QED BY <1>7, <3>2, <3>3
  <2>3. KeyIsLive'
    <3> SUFFICES ASSUME NEW b \in Bills, bill'[b] # NoBill, message'[b].key = "order"
                 PROVE  bill'[b].status # "void"
      BY DEF KeyIsLive
    <3>1. CASE bill'[b] = bill[b] /\ message'[b] = message[b]
      BY <3>1 DEF IInv, KeysOK, KeyIsLive
    <3> QED BY <1>5, <1>7, <3>1
  <2>4. Keyed'
    <3> SUFFICES ASSUME NEW b \in Bills, message'[b] # NoMessage PROVE message'[b].key # "none"
      BY DEF Keyed
    <3>1. CASE message'[b] = message[b]
      BY <3>1 DEF IInv, KeysOK, Keyed
    <3> QED BY <1>6, <1>7, <3>1
  <2>5. OwnMessage'
    <3> SUFFICES ASSUME NEW b \in Bills, Owing(b)' PROVE message'[b].key = "order"
      BY DEF OwnMessage
    <3>1. CASE bill'[b] = bill[b] /\ message'[b] = message[b]
      BY <3>1 DEF IInv, KeysOK, OwnMessage, Owing
    <3> QED BY <1>6, <1>7, <3>1
  <2>6. OthersVoid'
    <3> SUFFICES ASSUME NEW b \in Bills, NEW d \in Bills, Owing(b)', d # b, bill'[d] # NoBill,
                        bill'[d].order = bill'[b].order, message'[d] # NoMessage
                 PROVE  message'[d].key = "void"
      BY DEF OthersVoid
    <3>1. ASSUME NEW o \in toBill, b = fresh[o] PROVE message'[d].key = "void"
      <4>1. bill'[d].order = o
        BY <1>5, <3>1
      <4>2. \A q \in toBill : d # fresh[q]
        BY <1>5, <3>1, <4>1
      <4>3. bill'[d] = bill[d] /\ message'[d] = message[d]
        BY <1>7, <4>2
      <4>4. bill[d].status = "void"
        BY <4>1, <4>3 DEF LiveBill
      <4>5. message[d].key # "order" /\ message[d].key # "none"
        BY <4>3, <4>4 DEF IInv, KeysOK, KeyIsLive, Keyed
      <4> QED BY <4>3, <4>5 DEF IInv, TypeOK, Message
    <3>2. ASSUME NEW o \in toBill, d = fresh[o], bill'[b] = bill[b] PROVE message'[d].key = "void"
      <4>1. bill[b].order = o /\ LiveBill(b)
        BY <1>5, <3>2 DEF Owing, LiveBill
      <4> QED BY <4>1
    <3>3. CASE bill'[b] = bill[b] /\ bill'[d] = bill[d] /\ message'[d] = message[d]
      BY <3>3 DEF IInv, KeysOK, OthersVoid, Owing
    <3> QED BY <1>7, <3>1, <3>2, <3>3
  <2> QED BY <2>2, <2>3, <2>4, <2>5, <2>6 DEF KeysOK, OneLive
<1> QED BY <1>3, <1>8, <1>9, <1>10, BillStepKeeps

LEMMA GenerateBillKeeps ==
  ASSUME NullAssumption, IInv, NEW o \in Orders, GenerateBill(o) PROVE IInv'
<1>1. PICK b \in Bills : bill[b] = NoBill /\ Issue({o}, [x \in {o} |-> b])
  BY DEF GenerateBill
<1>2. \A a \in Bills : LiveBill(a) => bill[a].order # o
  BY DEF GenerateBill, BillsIn, BillsOf, LiveBill, IInv, TypeOK, Bill
<1> QED BY <1>1, <1>2, IssueKeeps DEF GenerateBill

LEMMA GenerateBillsForCycleKeeps ==
  ASSUME NullAssumption, IInv, NEW c \in Cycles, GenerateBillsForCycle(c) PROVE IInv'
<1> DEFINE toBill == {o \in BagsOf(c, Billable) : BillsOf(o) = {}}
<1>1. PICK fresh \in [toBill -> {b \in Bills : bill[b] = NoBill}] :
        /\ \A o, q \in toBill : fresh[o] = fresh[q] => o = q
        /\ Issue(toBill, fresh)
  BY DEF GenerateBillsForCycle
<1>2. toBill \in SUBSET Orders /\ \A o \in toBill : order[o] \in Billable
  BY DEF BagsOf
<1>3. \A o \in toBill, b \in Bills : LiveBill(b) => bill[b].order # o
  BY DEF BillsOf, LiveBill
<1>4. fresh \in [toBill -> Bills] /\ \A o \in toBill : bill[fresh[o]] = NoBill
  OBVIOUS
<1> HIDE DEF toBill
<1> QED BY <1>1, <1>2, <1>3, <1>4, IssueKeeps

(***************************************************************************)
(* The theorems.                                                           *)
(***************************************************************************)

LEMMA IInvNext == ASSUME CycleLockAssumption, NullAssumption, IInv, [Next]_vars PROVE IInv'
<1>1. ASSUME NEW w \in Writers, WriterStep(w) PROVE IInv'
  BY <1>1, ResolveKeeps, WriteBagKeeps, WriteFailsKeeps DEF WriterStep
<1>2. ASSUME NEW c \in Cycles, CycleStep(c) PROVE IInv'
  BY <1>2, LockCycleKeeps, UnlockCycleKeeps, CloseCycleKeeps, GenerateBillsForCycleKeeps DEF CycleStep
<1>3. ASSUME NEW o \in Orders, BagStep(o) PROVE IInv'
  BY <1>3, SetPackedQtyKeeps, StrikeOutKeeps, MarkOrderPackedKeeps, BagLeavesKeeps, GenerateBillKeeps DEF BagStep
<1>4. ASSUME NEW b \in Bills, BillStep(b) PROVE IInv'
  BY <1>4, MarkBillSentKeeps, MarkBillPaidKeeps, VoidBillKeeps DEF BillStep
<1>5. CASE UNCHANGED vars
  <2>1. TypeOK'
    BY <1>5 DEF IInv, TypeOK, vars, rowVars, billVars
  <2> QED BY <1>5, <2>1, SameRows DEF vars
<1> QED BY <1>1, <1>2, <1>3, <1>4, <1>5 DEF Next

\* The invariant that the theorems rest on, and what it says in the words of
\* the module's properties.
LEMMA IInvHolds == Spec => []IInv
<1>1. Init => IInv
  BY CycleLockAssumption, IInvInit
<1>2. IInv /\ [Next]_vars => IInv'
  BY CycleLockAssumption, NullAssumption, IInvNext
<1> QED BY <1>1, <1>2, PTL DEF Spec

\* Every variable keeps its type: no lock, unlock, void or correction leaves a
\* row that the schema has no place for.
THEOREM CycleTypeCorrect == Spec => []TypeOK
<1>1. IInv => TypeOK
  BY DEF IInv
<1> QED BY <1>1, IInvHolds, PTL

\* However often a cycle is locked, unlocked and re-priced, a live line of a
\* locked bag carries the price its cycle's last lock found, but for the lines
\* that came in after the lock (002: unlock clears, lock stamps).
THEOREM StampedAtLockHolds == Spec => []StampedAtLock
<1>1. IInv => StampedAtLock
  BY DEF IInv, BagOK, StampedAtLock
<1> QED BY <1>1, IInvHolds, PTL

\* A bill comes to be only through Issue, for a packed bag.
LEMMA IssueWeighs ==
  ASSUME IInv, NEW toBill \in SUBSET Orders, \A o \in toBill : order[o] \in Billable,
         NEW fresh \in [toBill -> Bills], Issue(toBill, fresh),
         NEW b \in Bills, bill[b] = NoBill, bill'[b] # NoBill
  PROVE  \A p \in LiveLines(bill'[b].order) : line[bill'[b].order][p].weight = 0 => <<bill'[b].order, p>> \in late
<1>1. PICK o \in toBill : bill'[b] = [order |-> o, status |-> "draft"]
  <2> DEFINE of == CHOOSE o \in toBill : fresh[o] = b
  <2>1. \E o \in toBill : b = fresh[o]
    BY DEF Issue
  <2>2. of \in toBill
    BY <2>1
  <2>3. bill'[b] = [order |-> of, status |-> "draft"]
    BY <2>1 DEF Issue
  <2> QED BY <2>2, <2>3
<1>2. BagOK(o) /\ bill'[b].order = o
  BY <1>1 DEF IInv
<1> QED BY <1>1, <1>2 DEF BagOK

LEMMA NextWeighs ==
  ASSUME NullAssumption, IInv, [Next]_vars, NEW b \in Bills, bill[b] = NoBill, bill'[b] # NoBill
  PROVE  \A p \in LiveLines(bill'[b].order) : line[bill'[b].order][p].weight = 0 => <<bill'[b].order, p>> \in late
<1>1. ASSUME NEW o \in Orders, GenerateBill(o)
      PROVE  \A p \in LiveLines(bill'[b].order) : line[bill'[b].order][p].weight = 0 => <<bill'[b].order, p>> \in late
  <2>1. PICK a \in Bills : Issue({o}, [x \in {o} |-> a])
    BY <1>1 DEF GenerateBill
  <2> QED BY <1>1, <2>1, IssueWeighs DEF GenerateBill
<1>2. ASSUME NEW c \in Cycles, GenerateBillsForCycle(c)
      PROVE  \A p \in LiveLines(bill'[b].order) : line[bill'[b].order][p].weight = 0 => <<bill'[b].order, p>> \in late
  <2> DEFINE toBill == {o \in BagsOf(c, Billable) : BillsOf(o) = {}}
  <2>1. PICK fresh \in [toBill -> {a \in Bills : bill[a] = NoBill}] : Issue(toBill, fresh)
    BY <1>2 DEF GenerateBillsForCycle
  <2>2. /\ toBill \in SUBSET Orders /\ \A o \in toBill : order[o] \in Billable
        /\ fresh \in [toBill -> Bills]
    BY DEF BagsOf
  <2> HIDE DEF toBill
  <2> QED BY <2>1, <2>2, IssueWeighs
<1>3. ASSUME NEW w \in Writers, WriterStep(w) PROVE FALSE
  BY <1>3 DEF WriterStep, Resolve, WriteBag, WriteFails, billVars
<1>4. ASSUME NEW c \in Cycles, CycleStep(c), ~GenerateBillsForCycle(c) PROVE FALSE
  BY <1>4 DEF CycleStep, LockCycle, UnlockCycle, CloseCycle, billVars
<1>5. ASSUME NEW o \in Orders, BagStep(o), ~GenerateBill(o) PROVE FALSE
  BY <1>5 DEF BagStep, SetPackedQty, StrikeOut, MarkOrderPacked, BagLeaves, billVars
<1>6. ASSUME NEW a \in Bills, BillStep(a) PROVE FALSE
  <2>1. bill[a] # NoBill /\ \E st : bill' = [bill EXCEPT ![a].status = st]
    <3>1. ASSUME NEW hasWamid \in BOOLEAN, MarkBillSent(a, hasWamid)
          PROVE  /\ bill[a] # NoBill
                 /\ bill' = [bill EXCEPT ![a].status = IF bill[a].status = "draft" THEN "sent" ELSE bill[a].status]
      BY <3>1 DEF MarkBillSent
    <3>2. CASE MarkBillPaid(a)
      BY <3>2 DEF MarkBillPaid
    <3>3. CASE VoidBill(a)
      BY <3>3 DEF VoidBill
    <3> QED BY <1>6, <3>1, <3>2, <3>3 DEF BillStep
  <2>2. a # b
    BY <2>1
  <2> QED BY <2>1, <2>2 DEF IInv, TypeOK
<1>7. ~UNCHANGED vars
  BY DEF vars, billVars
<1> QED BY <1>1, <1>2, <1>3, <1>4, <1>5, <1>6, <1>7 DEF Next

\* A bill is issued with every live line weighed, but for the lines that joined
\* the bag after it was locked and those the station un-weighed after it was
\* packed, whatever the bag and its cycle went through (003:31-50, 195-203;
\* 002:402-408).
THEOREM BilledWasWeighedHolds == Spec => BilledWasWeighed
<1>1. IInv /\ [Next]_vars =>
        [\A b \in Bills :
          bill[b] = NoBill /\ bill'[b] # NoBill =>
            LET o == bill'[b].order
            IN \A p \in LiveLines(o) : line[o][p].weight = 0 => <<o, p>> \in late]_vars
  BY NextWeighs, NullAssumption
<1> QED BY <1>1, IInvHolds, PTL DEF Spec, BilledWasWeighed

\* Whatever was voided, reissued, sent twice or paid before, a bill that is a
\* draft or sent has a message of its own, and none of the bag's older messages
\* holds the order's key (003:219-261, 299-325, 448-454).
THEOREM BillHasItsMessageHolds == Spec => []BillHasItsMessage
<1>1. IInv => BillHasItsMessage
  <2> SUFFICES ASSUME IInv, NEW b \in Bills, bill[b] # NoBill, bill[b].status \in {"draft", "sent"}
               PROVE  /\ message[b].key = "order"
                      /\ \A d \in MessagesOf(bill[b].order) \ {b} : message[d].key = "void"
    BY DEF BillHasItsMessage
  <2>1. \A d \in MessagesOf(bill[b].order) :
          d \in Bills /\ bill[d] # NoBill /\ bill[d].order = bill[b].order /\ message[d] # NoMessage
    BY DEF MessagesOf, BillsOf
  <2> QED BY <2>1 DEF IInv, KeysOK, Owing, OwnMessage, OthersVoid
<1> QED BY <1>1, IInvHolds, PTL

\* What a step may do to the lines of a bag whose bill is sent or paid.
FrozenLines ==
  \A o \in Orders, p \in Products :
    BillsIn(o, {"sent", "paid"}) # {} /\ line[o][p] # NoLine => line'[o][p] = line[o][p]

LEMMA BilledIsClosed ==
  ASSUME IInv, NEW o \in Orders, BillsIn(o, {"sent", "paid"}) # {} PROVE order[o] \in Closed
BY DEF IInv, BilledBags, BillsIn, BillsOf

LEMMA WriteBagFrozen ==
  ASSUME IInv, NEW w \in Writers, NEW products \in SUBSET Products, WriteBag(w, products)
  PROVE  FrozenLines
<1>1. PICK q \in Orders : PutLines(q, writer[w].at, products)
  BY DEF WriteBag
<1>2. ASSUME NEW o \in Orders, NEW p \in Products, line[o][p] # NoLine PROVE line'[o][p] = line[o][p]
  BY <1>1, <1>2 DEF PutLines, IInv, TypeOK
<1> QED BY <1>2 DEF FrozenLines

LEMMA LocksFrozen ==
  ASSUME IInv, NEW c \in Cycles,
         UnlockCycle(c) \/ \E prices \in PriceBook, allowMissing \in BOOLEAN : LockCycle(c, prices, allowMissing)
  PROVE  FrozenLines
<1> SUFFICES ASSUME NEW o \in Orders, order[o] \in Closed PROVE line'[o] = line[o]
  BY BilledIsClosed DEF FrozenLines
<1>1. o \notin BagsOf(c, {"confirmed"}) /\ o \notin BagsOf(c, {"locked", "confirmed"})
  BY DEF BagsOf, Closed
<1>2. CASE UnlockCycle(c)
  BY <1>1, <1>2 DEF UnlockCycle
<1>3. ASSUME NEW prices \in PriceBook, NEW allowMissing \in BOOLEAN, LockCycle(c, prices, allowMissing)
      PROVE  line'[o] = line[o]
  BY <1>1, <1>3 DEF LockCycle
<1> QED BY <1>2, <1>3

LEMMA LineFrozen ==
  ASSUME IInv, NEW o \in Orders, NEW p \in Products,
         StrikeOut(o, p) \/ \E weight \in Weights : SetPackedQty(o, p, weight)
  PROVE  FrozenLines
<1>1. BillsIn(o, {"sent", "paid"}) = {}
  BY DEF StrikeOut, SetPackedQty, WeightFrozen, Settled
<1>2. \A q \in Orders \ {o} : line'[q] = line[q]
  <2>1. PICK l : line' = [line EXCEPT ![o] = [line[o] EXCEPT ![p] = l]]
    <3>1. ASSUME StrikeOut(o, p)
          PROVE  line' = [line EXCEPT ![o] = [line[o] EXCEPT ![p] = [line[o][p] EXCEPT !.unavailable = TRUE]]]
      BY <3>1 DEF StrikeOut, IInv, TypeOK
    <3>2. ASSUME NEW weight \in Weights, SetPackedQty(o, p, weight)
          PROVE  line' = [line EXCEPT ![o] = [line[o] EXCEPT ![p] = [line[o][p] EXCEPT !.weight = weight]]]
      BY <3>2 DEF SetPackedQty, IInv, TypeOK
    <3> QED BY <3>1, <3>2
  <2> QED BY <2>1 DEF IInv, TypeOK
<1> QED BY <1>1, <1>2 DEF FrozenLines

LEMMA FrozenNext == ASSUME IInv, [Next]_vars PROVE FrozenLines
<1>1. CASE UNCHANGED rowVars
  BY <1>1 DEF FrozenLines, rowVars
<1>2. CASE UNCHANGED line
  BY <1>2 DEF FrozenLines
<1>3. ASSUME NEW w \in Writers, WriterStep(w) PROVE FrozenLines
  BY <1>1, <1>3, WriteBagFrozen DEF WriterStep, Resolve, WriteFails
<1>4. ASSUME NEW c \in Cycles, CycleStep(c) PROVE FrozenLines
  <2>1. CASE CloseCycle(c)
    BY <1>2, <2>1 DEF CloseCycle
  <2>2. CASE GenerateBillsForCycle(c)
    BY <1>1, <2>2 DEF GenerateBillsForCycle, Issue
  <2> QED BY <1>4, <2>1, <2>2, LocksFrozen DEF CycleStep
<1>5. ASSUME NEW o \in Orders, BagStep(o) PROVE FrozenLines
  <2>1. CASE MarkOrderPacked(o) \/ BagLeaves(o)
    BY <1>2, <2>1 DEF MarkOrderPacked, BagLeaves
  <2>2. CASE GenerateBill(o)
    BY <1>1, <2>2 DEF GenerateBill, Issue
  <2> QED BY <1>5, <2>1, <2>2, LineFrozen DEF BagStep
<1>6. ASSUME NEW b \in Bills, BillStep(b) PROVE FrozenLines
  <2>1. ASSUME NEW hasWamid \in BOOLEAN, MarkBillSent(b, hasWamid) PROVE FrozenLines
    BY <1>1, <2>1 DEF MarkBillSent
  <2>2. CASE MarkBillPaid(b)
    BY <1>1, <2>2 DEF MarkBillPaid
  <2>3. CASE VoidBill(b)
    BY <1>1, <2>3 DEF VoidBill
  <2> QED BY <1>6, <2>1, <2>2, <2>3 DEF BillStep
<1>7. CASE UNCHANGED vars
  BY <1>1, <1>7 DEF vars
<1> QED BY <1>3, <1>4, <1>5, <1>6, <1>7 DEF Next

\* Once a bag's bill is sent or paid, no line it has changes, by the weigh
\* station, an unlock, a lock or another order (002:287-290, 003:383-387).
THEOREM SentLinesAreFrozenHolds == Spec => SentLinesAreFrozen
<1>1. IInv /\ [Next]_vars => [FrozenLines]_vars
  BY FrozenNext
<1>2. Spec => [][FrozenLines]_vars
  BY <1>1, IInvHolds, PTL DEF Spec
<1> QED BY <1>2 DEF SentLinesAreFrozen, FrozenLines

------------------------------------------------------------------------------
(* The booking calendar, at every hour of every week.                      *)

\* An instant is a day and an hour of it.
LEMMA DayAndHour == ASSUME NEW t \in Nat
  PROVE /\ t \div DayTicks \in Nat /\ t % DayTicks \in 0..23
        /\ t = DayTicks * (t \div DayTicks) + (t % DayTicks)
BY DEF DayTicks

\* The days of the week follow one another.
DaysOn(d, k) == IF d + k < 7 THEN d + k ELSE IF d + k < 14 THEN d + k - 7 ELSE 0

LEMMA Week == ASSUME NEW d \in Nat
  PROVE /\ Weekday(d) \in 0..6
        /\ \A k \in 0..7 : Weekday(d + k) = DaysOn(Weekday(d), k)
BY DEF Weekday, DaysOn

\* How many days the next cut-off is away.
Wait(d, h) ==
  CASE d = 0 -> IF h < 20 THEN 0 ELSE 3
    [] d = 1 -> 2
    [] d = 2 -> 1
    [] d = 3 -> IF h < 20 THEN 0 ELSE 4
    [] d = 4 -> 3
    [] d = 5 -> 2
    [] d = 6 -> 1

LEMMA Ahead == ASSUME NEW d \in Nat, NEW h \in 0..23
  PROVE /\ Wait(Weekday(d), h) \in 0..4
        /\ \A k \in 0..7 : d + k \in CutoffsAhead(DayTicks * d + h) <=> Weekday(d + k) \in CutoffDays /\ ~(k = 0 /\ h >= 20)
<1>1. Weekday(d) \in 0..6
  BY Week
<1>2. Wait(Weekday(d), h) \in 0..4
  BY <1>1 DEF Wait
<1>3. (DayTicks * d + h) \div DayTicks = d
  BY DEF DayTicks
<1>4. ASSUME NEW k \in 0..7
      PROVE  d + k \in CutoffsAhead(DayTicks * d + h) <=> Weekday(d + k) \in CutoffDays /\ ~(k = 0 /\ h >= 20)
  <2>1. d + k \in d..(d + 7)
    OBVIOUS
  <2>2. Missed(Cutoff(d + k), DayTicks * d + h) <=> k = 0 /\ h >= 20
    BY DEF Missed, Cutoff, DayTicks, CutoffHour
  <2> QED BY <1>3, <2>1, <2>2 DEF CutoffsAhead
<1> QED BY <1>2, <1>4

LEMMA FirstCutoff == ASSUME NEW d \in Nat, NEW h \in 0..23
  PROVE Min(CutoffsAhead(DayTicks * d + h)) = d + Wait(Weekday(d), h)
<1> DEFINE S == CutoffsAhead(DayTicks * d + h)
           w == Wait(Weekday(d), h)
<1>0. Weekday(d) \in 0..6 /\ w \in 0..4
  BY Week, Ahead
<1>1. d + w \in S
  <2>1. d + w \in S <=> Weekday(d + w) \in CutoffDays /\ ~(w = 0 /\ h >= 20)
    <3>1. \A k \in 0..7 : d + k \in S <=> Weekday(d + k) \in CutoffDays /\ ~(k = 0 /\ h >= 20)
      BY Ahead
    <3>2. w \in 0..7
      BY <1>0
    <3> HIDE DEF S, w
    <3> QED BY <3>1, <3>2
  <2>2. Weekday(d + w) = DaysOn(Weekday(d), w)
    BY Week, <1>0
  <2> QED BY <1>0, <2>1, <2>2 DEF Wait, DaysOn, CutoffDays, Sunday, Wednesday
<1>2. S \subseteq d..(d + 7)
  <2>1. (DayTicks * d + h) \div DayTicks = d
    BY DEF DayTicks
  <2> QED BY <2>1 DEF CutoffsAhead
<1>3. ASSUME NEW k \in 0..7, d + k \in S PROVE w <= k
  <2>1. Weekday(d + k) \in CutoffDays /\ ~(k = 0 /\ h >= 20)
    BY Ahead, <1>3
  <2>2. Weekday(d + k) = DaysOn(Weekday(d), k)
    BY Week
  <2> QED BY <1>0, <2>1, <2>2 DEF Wait, DaysOn, CutoffDays, Sunday, Wednesday
<1>4. \A x \in S : d + w <= x
  <2> SUFFICES ASSUME NEW x \in S PROVE d + w <= x
    OBVIOUS
  <2>1. x - d \in 0..7 /\ x = d + (x - d)
    BY <1>2
  <2> QED BY <2>1, <1>3, <1>0
<1>5. \A x \in S : (\A y \in S : x <= y) => x = d + w
  BY <1>0, <1>1, <1>2, <1>4
<1> HIDE DEF S, w
<1>6. \A x : (x \in S /\ \A y \in S : x <= y) <=> x = d + w
  BY <1>1, <1>4, <1>5
<1>7. (CHOOSE x \in S : \A y \in S : x =< y) = d + w
  BY <1>6, <1>1, <1>4, <1>5
<1> QED BY <1>7 DEF Min, S, w

\* What the algorithm books, on every day and at every hour.
LEMMA Slot ==
  ASSUME NEW d \in Nat, NEW h \in 0..23
  PROVE  LET day == d + Wait(Weekday(d), h)
         IN /\ day \in Nat /\ Weekday(day) \in CutoffDays
            /\ DeliveryFor(DayTicks * d + h) =
                 [date    |-> day + 1,
                  label   |-> IF Weekday(day) = 0 THEN "Monday" ELSE "Thursday",
                  locksAt |-> Cutoff(day),
                  opensAt |-> Cutoff(day) - (IF Weekday(day) = 0 THEN 4 ELSE 3) * DayTicks]
<1> DEFINE day == d + Wait(Weekday(d), h)
<1>1. day \in Nat /\ Weekday(day) \in CutoffDays
  <2>1. Weekday(d) \in 0..6 /\ Wait(Weekday(d), h) \in 0..4
    BY Week, Ahead
  <2>2. Weekday(day) = DaysOn(Weekday(d), Wait(Weekday(d), h))
    BY Week, <2>1
  <2> QED BY <2>1, <2>2 DEF Wait, DaysOn, CutoffDays, Sunday, Wednesday
<1>2. Min(CutoffsAhead(DayTicks * d + h)) = day
  BY FirstCutoff
<1> HIDE DEF day
<1>3. DeliveryFor(DayTicks * d + h) =
        [date    |-> day + 1,
         label   |-> IF Weekday(day) = 0 THEN "Monday" ELSE "Thursday",
         locksAt |-> Cutoff(day),
         opensAt |-> Cutoff(day) - (IF Weekday(day) = 0 THEN 4 ELSE 3) * DayTicks]
  BY <1>2 DEF DeliveryFor, Sunday
<1> QED BY <1>1, <1>3 DEF day

\* The next slot after one that locks on a given day.
LEMMA SlotAfter ==
  ASSUME NEW day \in Nat, Weekday(day) \in CutoffDays
  PROVE  LET next == DeliveryFor(Cutoff(day) + 1)
         IN /\ next.opensAt = Cutoff(day)
            /\ next.label = IF Weekday(day) = 0 THEN "Thursday" ELSE "Monday"
<1>1. Cutoff(day) + 1 = DayTicks * day + 21 /\ 21 \in 0..23
  BY DEF Cutoff, DayTicks, CutoffHour
<1>2. Wait(Weekday(day), 21) = IF Weekday(day) = 0 THEN 3 ELSE 4
  BY DEF Wait, DaysOn, CutoffDays, Sunday, Wednesday
<1>3. /\ Weekday(day + 3) = IF Weekday(day) = 0 THEN 3 ELSE 6
      /\ Weekday(day + 4) = IF Weekday(day) = 0 THEN 4 ELSE 0
  BY Week DEF DaysOn, CutoffDays, Sunday, Wednesday
<1> DEFINE next == day + Wait(Weekday(day), 21)
<1>4. DeliveryFor(Cutoff(day) + 1) =
        [date    |-> next + 1,
         label   |-> IF Weekday(next) = 0 THEN "Monday" ELSE "Thursday",
         locksAt |-> Cutoff(next),
         opensAt |-> Cutoff(next) - (IF Weekday(next) = 0 THEN 4 ELSE 3) * DayTicks]
  BY <1>1, Slot
<1>5. CASE Weekday(day) = 0
  <2>1. next = day + 3 /\ Weekday(next) = 3
    BY <1>2, <1>3, <1>5
  <2>2. Cutoff(next) - 3 * DayTicks = Cutoff(day)
    BY <2>1 DEF Cutoff, DayTicks, CutoffHour
  <2> QED BY <1>4, <1>5, <2>1, <2>2
<1>6. CASE Weekday(day) = 3
  <2>1. next = day + 4 /\ Weekday(next) = 0
    BY <1>2, <1>3, <1>6
  <2>2. Cutoff(next) - 4 * DayTicks = Cutoff(day)
    BY <2>1 DEF Cutoff, DayTicks, CutoffHour
  <2> QED BY <1>4, <1>6, <2>1, <2>2
<1> QED BY <1>5, <1>6 DEF CutoffDays, Sunday, Wednesday

\* The calendar, at every hour of every week.
LEMMA Calendar ==
  ASSUME NEW t \in Nat
  PROVE  LET slot == DeliveryFor(t)
             next == NextAfter(slot)
         IN /\ slot.label = BookedFor(t)
            /\ slot.opensAt <= t /\ t < slot.locksAt
            /\ Weekday(slot.date) = IF slot.label = "Monday" THEN 1 ELSE 4
            /\ next.opensAt = slot.locksAt
            /\ next.label # slot.label
<1> DEFINE d == t \div DayTicks
           h == t % DayTicks
           day == d + Wait(Weekday(d), h)
<1>1. d \in Nat /\ h \in 0..23 /\ t = DayTicks * d + h /\ Weekday(d) \in 0..6
  BY DayAndHour, Week
<1>2. day \in Nat /\ Weekday(day) \in CutoffDays
  BY <1>1, Slot
<1>3. DeliveryFor(t) =
        [date    |-> day + 1,
         label   |-> IF Weekday(day) = 0 THEN "Monday" ELSE "Thursday",
         locksAt |-> Cutoff(day),
         opensAt |-> Cutoff(day) - (IF Weekday(day) = 0 THEN 4 ELSE 3) * DayTicks]
  BY <1>1, Slot
<1>4. Weekday(day + 1) = Weekday(day) + 1
  BY <1>2, Week DEF DaysOn, CutoffDays, Sunday, Wednesday
<1>5. /\ NextAfter(DeliveryFor(t)).opensAt = Cutoff(day)
      /\ NextAfter(DeliveryFor(t)).label = IF Weekday(day) = 0 THEN "Thursday" ELSE "Monday"
  BY <1>2, <1>3, SlotAfter DEF NextAfter
<1>6. /\ Weekday(day) = 0 <=> Weekday(d) \in {4, 5, 6} \/ (Weekday(d) = 0 /\ h < 20) \/ (Weekday(d) = 3 /\ h >= 20)
      /\ Cutoff(day) - (IF Weekday(day) = 0 THEN 4 ELSE 3) * DayTicks <= t /\ t < Cutoff(day)
  <2>1. Weekday(day) = DaysOn(Weekday(d), Wait(Weekday(d), h))
    <3>1. Wait(Weekday(d), h) \in 0..4
      BY <1>1, Ahead
    <3> HIDE DEF d, h
    <3> QED BY <1>1, <3>1, Week
  <2> HIDE DEF d, h
  <2> QED BY <1>1, <2>1 DEF Wait, DaysOn, Cutoff, DayTicks, CutoffHour
<1>7. BookedFor(t) = IF Weekday(day) = 0 THEN "Monday" ELSE "Thursday"
  BY <1>1, <1>6 DEF BookedFor
<1> HIDE DEF d, h, day
<1> QED BY <1>2, <1>3, <1>4, <1>5, <1>6, <1>7 DEF CutoffDays, Sunday, Wednesday

\* FollowsCalendar, which TLC evaluates for a fortnight, holds of any hour.
LEMMA CalendarHolds == FollowsCalendar
<1>1. \A t \in (7 * DayTicks)..(21 * DayTicks) : t \in Nat
  BY DEF DayTicks
<1> QED BY <1>1, Calendar DEF FollowsCalendar

\* Where a writer's delivery comes from.
BookedAs(c, t) ==
  \/ c = DeliveryFor(t).date
  \/ c = NextAfter(DeliveryFor(t)).date /\ cycle[DeliveryFor(t).date] # "none"
Booked == \A w \in Writers : writer[w] # Idle => \E t \in Times : BookedAs(writer[w].at, t)

\* A cycle that was made stays made.
LEMMA CyclesStay ==
  ASSUME IInv, [Next]_vars
  PROVE  \A c \in Cycles : cycle[c] # "none" => cycle'[c] # "none"
<1>0. cycle \in [Cycles -> CycleStatuses]
  BY DEF IInv, TypeOK
<1>1. ASSUME NEW w \in Writers, WriterStep(w) PROVE \A c \in Cycles : cycle[c] # "none" => cycle'[c] # "none"
  BY <1>0, <1>1 DEF WriterStep, Resolve, WriteBag, WriteFails, rowVars
<1>2. ASSUME NEW d \in Cycles, CycleStep(d) PROVE \A c \in Cycles : cycle[c] # "none" => cycle'[c] # "none"
  BY <1>0, <1>2 DEF CycleStep, LockCycle, UnlockCycle, CloseCycle, GenerateBillsForCycle, Issue, rowVars
<1>3. ASSUME NEW o \in Orders, BagStep(o) PROVE cycle' = cycle
  BY <1>3 DEF BagStep, SetPackedQty, StrikeOut, MarkOrderPacked, BagLeaves, GenerateBill, Issue, rowVars
<1>4. ASSUME NEW b \in Bills, BillStep(b) PROVE cycle' = cycle
  BY <1>4 DEF BillStep, MarkBillSent, MarkBillPaid, VoidBill, rowVars
<1>5. CASE UNCHANGED vars
  BY <1>5 DEF vars, rowVars
<1> QED BY <1>1, <1>2, <1>3, <1>4, <1>5 DEF Next

\* Who resolves books by the calendar; nobody else moves a writer's delivery.
LEMMA BookedNext == ASSUME CycleLockAssumption, IInv, Booked, [Next]_vars PROVE Booked'
<1>1. ASSUME NEW w \in Writers, writer'[w] # Idle
      PROVE  \/ writer'[w] = writer[w]
             \/ \E t \in Times : BookedAs(writer'[w].at, t)
  <2>0. writer \in [Writers -> [at : Cycles, household : Households] \cup {Idle}]
    BY DEF IInv, TypeOK
  <2>1. ASSUME NEW v \in Writers, NEW t \in Times, NEW h \in Households, Resolve(v, t, h)
        PROVE  writer'[w] = writer[w] \/ BookedAs(writer'[w].at, t)
    <3>1. CASE w = v
      <4>1. writer'[w].at = CycleFor(t) /\ CycleFor(t) # NoCycle
        BY <2>0, <2>1, <3>1 DEF Resolve
      <4> QED BY <4>1 DEF CycleFor, BookedAs, Accepts
    <3> QED BY <2>0, <2>1, <3>1 DEF Resolve
  <2>2. ASSUME NEW v \in Writers, NEW products \in SUBSET Products, WriteBag(v, products)
        PROVE  writer'[w] = writer[w]
    BY <1>1, <2>0, <2>2 DEF WriteBag
  <2>3. ASSUME NEW v \in Writers, WriteFails(v) PROVE writer'[w] = writer[w]
    BY <1>1, <2>0, <2>3 DEF WriteFails
  <2>4. ASSUME NEW c \in Cycles, CycleStep(c) PROVE writer' = writer
    BY <2>4 DEF CycleStep, LockCycle, UnlockCycle, CloseCycle, GenerateBillsForCycle, Issue
  <2>5. ASSUME NEW o \in Orders, BagStep(o) PROVE writer' = writer
    BY <2>5 DEF BagStep, SetPackedQty, StrikeOut, MarkOrderPacked, BagLeaves, GenerateBill, Issue
  <2>6. ASSUME NEW b \in Bills, BillStep(b) PROVE writer' = writer
    BY <2>6 DEF BillStep, MarkBillSent, MarkBillPaid, VoidBill
  <2>7. CASE UNCHANGED vars
    BY <2>7 DEF vars
  <2> QED BY <2>1, <2>2, <2>3, <2>4, <2>5, <2>6, <2>7 DEF Next, WriterStep
<1>2. \A t \in Times : DeliveryFor(t).date \in Cycles
  BY DEF Cycles
<1>3. \A c, t : t \in Times /\ BookedAs(c, t) => BookedAs(c, t)'
  BY <1>2, CyclesStay DEF BookedAs
<1> QED BY <1>1, <1>3 DEF Booked

\* An order is booked for the delivery that the calendar names, or for the
\* next one past a cycle that was closed (schedule.js:7-13, orders.js:27-50).
THEOREM BookingCalendarHolds == Spec => []BookingCalendar
<1>1. Init => Booked
  BY DEF Init, Booked
<1>2. Booked => BookingCalendar
  BY CalendarHolds DEF Booked, BookedAs, BookingCalendar
<1> QED BY <1>1, <1>2, IInvHolds, BookedNext, CycleLockAssumption, PTL DEF Spec

\* The printed moment explains the delivery, at every hour of every week
\* (bill.js:155-171).
THEOREM MomentExplainsDeliveryHolds == \A t \in Nat : MomentExplainsDelivery(t)
<1> SUFFICES ASSUME NEW t \in Nat PROVE MomentExplainsDelivery(t)
  OBVIOUS
<1> DEFINE d == Weekday(t \div DayTicks)
           h == t % DayTicks
           said == OrderedPhrase(t)
           evening == ~said.am /\ said.h12 \in 8..11
<1>1. d \in 0..6 /\ h \in 0..23
  BY DayAndHour, Week
<1>2. said.day = d /\ (said.am <=> h < 12) /\ said.h12 = IF h % 12 = 0 THEN 12 ELSE h % 12
  BY DEF OrderedPhrase
<1>3. DeliveryFor(t).label = BookedFor(t)
  BY Calendar
<1>4. BookedFor(t) = IF d \in {4, 5, 6} \/ (d = 0 /\ h < 20) \/ (d = 3 /\ h >= 20) THEN "Monday" ELSE "Thursday"
  <2>1. CASE d = 0
    BY <1>1, <2>1 DEF BookedFor
  <2>2. CASE d \in {1, 2}
    BY <1>1, <2>2 DEF BookedFor
  <2>3. CASE d = 3
    BY <1>1, <2>3 DEF BookedFor
  <2>4. CASE d \in {4, 5, 6}
    BY <1>1, <2>4 DEF BookedFor
  <2> QED BY <1>1, <2>1, <2>2, <2>3, <2>4
<1> HIDE DEF d, h, said
<1>5. (evening <=> h >= 20) /\ h = (said.h12 % 12) + (IF said.am THEN 0 ELSE 12)
  <2>1. CASE h < 12
    BY <1>1, <1>2, <2>1
  <2>2. CASE h = 12
    BY <1>2, <2>2
  <2>3. CASE h \in 13..23
    <3>1. said.h12 = h - 12 /\ ~said.am
      BY <1>2, <2>3
    <3> QED BY <2>3, <3>1
  <2> QED BY <1>1, <2>1, <2>2, <2>3
<1> HIDE DEF evening
<1>6. BookedFor(t) = IF said.day \in {4, 5, 6} \/ (said.day = 0 /\ ~evening) \/ (said.day = 3 /\ evening)
                     THEN "Monday" ELSE "Thursday"
  BY <1>1, <1>2, <1>4, <1>5
<1> QED BY <1>3, <1>5, <1>6 DEF MomentExplainsDelivery, said, evening, h

------------------------------------------------------------------------------
(* The numbers of the messages.                                            *)

\* A rounded number is within half of what was rounded, and keeps the order.
LEMMA RoundedIs ==
  ASSUME NEW n \in Nat, NEW d \in Nat \ {0}
  PROVE  /\ Rounded(n, d) \in Nat
         /\ d * Rounded(n, d) <= n + d \div 2 /\ n + d \div 2 < d * Rounded(n, d) + d
<1> DEFINE t == n + d \div 2
           r == t \div d
<1>1. t \in Nat /\ r \in Nat
  OBVIOUS
<1> HIDE DEF t
<1>2. d * r <= t /\ t < d * r + d
  BY SMT, <1>1
<1> QED BY <1>1, <1>2 DEF Rounded, t

LEMMA RoundedNear ==
  ASSUME NEW n \in Nat, NEW d \in Nat \ {0}
  PROVE  2 * d * Rounded(n, d) <= 2 * n + d /\ 2 * n <= 2 * d * Rounded(n, d) + d
<1> DEFINE r == Rounded(n, d)
           x == d * r
           h == d \div 2
<1>1. r \in Nat /\ x <= n + h /\ n + h < x + d
  BY RoundedIs
<1>2. h \in Nat /\ 2 * h <= d /\ d <= 2 * h + 1
  OBVIOUS
<1> HIDE DEF r, h
<1>3. 2 * d * r = 2 * x /\ x \in Nat
  BY SMT, <1>1
<1> HIDE DEF x
<1>4. 2 * x <= 2 * n + d /\ 2 * n <= 2 * x + d
  BY SMT, <1>1, <1>2, <1>3
<1> QED BY <1>3, <1>4 DEF r

LEMMA RoundedMonotone ==
  ASSUME NEW n \in Nat, NEW m \in Nat, n <= m, NEW d \in Nat \ {0}
  PROVE  Rounded(n, d) <= Rounded(m, d)
<1> DEFINE a == Rounded(n, d)
           b == Rounded(m, d)
           h == d \div 2
<1>1. a \in Nat /\ d * a <= n + h
  BY RoundedIs
<1>2. b \in Nat /\ m + h < d * b + d
  BY RoundedIs
<1>3. h \in Nat
  OBVIOUS
<1> HIDE DEF a, b, h
<1>4. d * a < d * b + d /\ d * (b + 1) = d * b + d
  BY SMT, <1>1, <1>2, <1>3
<1>5. d * a < d * (b + 1)
  BY <1>4
<1>6. a < b + 1
  BY SMT, <1>1, <1>2, <1>5
<1> QED BY SMT, <1>1, <1>2, <1>6 DEF a, b

LEMMA TimesMonotone ==
  ASSUME NEW a \in Nat, NEW b \in Nat, NEW c \in Nat, NEW e \in Nat, a <= b, c <= e
  PROVE  a * c <= b * e
OBVIOUS

\* The savings printed apart are the saving, whatever the paisa of the three
\* totals (bill.js:311-321).
THEOREM SavingsAddUpHolds ==
  \A totals \in [market : Nat, ceiling : Nat, billed : Nat] : SavingsAddUp(totals)
<1> SUFFICES ASSUME NEW totals \in [market : Nat, ceiling : Nat, billed : Nat],
                    totals.billed <= totals.ceiling, totals.ceiling <= totals.market
             PROVE  Distance(FinalBill(<<>>, totals).bachat, Money(totals.market) - Money(totals.billed)) <= 1
  BY DEF SavingsAddUp
<1> DEFINE market == totals.market
           ceiling == totals.ceiling
           billed == totals.billed
<1>1. FinalBill(<<>>, totals).bachat = Saving(market, ceiling) + Saving(ceiling, billed)
  BY DEF FinalBill
<1>2. market \in Nat /\ ceiling \in Nat /\ billed \in Nat /\ billed <= ceiling /\ ceiling <= market
  OBVIOUS
<1> HIDE DEF market, ceiling, billed
<1>3. Distance(Saving(market, ceiling) + Saving(ceiling, billed), Money(market) - Money(billed)) <= 1
  BY <1>2 DEF Saving, Money, Rounded, Distance
<1> QED BY <1>1, <1>3 DEF market, billed

\* The template never shows a saving that its two totals do not show
\* (templates.js:135-151).
THEOREM TemplateAddsUpHolds ==
  \A totals \in [market : Nat, ceiling : Nat, billed : Nat] : TemplateAddsUp(totals)
<1> SUFFICES ASSUME NEW totals \in [market : Nat, ceiling : Nat, billed : Nat]
             PROVE  TemplateAddsUp(totals)
  OBVIOUS
<1> DEFINE market == totals.market
           ceiling == totals.ceiling
<1>0. market \in Nat /\ ceiling \in Nat
  OBVIOUS
<1> DEFINE c == Confirmation(<<>>, totals)
           p == OrderBillParams(c)
<1>1. /\ c.bazaar_total = Money(market) /\ c.zyada_se_zyada = Money(ceiling) /\ c.abhi_se_bachat = Saving(market, ceiling)
      /\ c = [lines |-> c.lines, bazaar_total |-> Money(market), zyada_se_zyada |-> Money(ceiling), abhi_se_bachat |-> Saving(market, ceiling)]
  BY DEF Confirmation
<1> HIDE DEF c, market, ceiling
<1>2. /\ p.bazaar_total = IF Saving(market, ceiling) > 0 THEN Money(market) ELSE Money(ceiling)
      /\ p.zyada_se_zyada = Money(ceiling) /\ p.abhi_se_bachat = Saving(market, ceiling)
  BY <1>1 DEF OrderBillParams
<1>3. LET b == IF Saving(market, ceiling) > 0 THEN Money(market) ELSE Money(ceiling)
      IN b >= Money(ceiling) /\ Distance(b - Money(ceiling), Saving(market, ceiling)) <= 1
  BY <1>0 DEF Saving, Money, Rounded, Distance
<1> QED BY <1>2, <1>3 DEF TemplateAddsUp, c

\* No line costs more than was promised for it, at any price, weight and lock
\* price, unless it was weighed heavier than it was ordered (bill.js:5-7,
\* 001_init.sql:255-260).
THEOREM LineNeverMoreHolds ==
  \A l \in [qty : Nat, packed : Nat \cup {Null}, ceiling : Nat, final : Nat \cup {Null}] : LineNeverMore(l)
<1> SUFFICES ASSUME NEW l \in [qty : Nat, packed : Nat \cup {Null}, ceiling : Nat, final : Nat \cup {Null}], l.packed <= l.qty
             PROVE  LinePaisa(l, BilledRate(l)) <= Rounded(l.qty * l.ceiling, 1000)
  BY DEF LineNeverMore
<1>1. BilledQty(l) \in Nat /\ BilledQty(l) <= l.qty /\ l.qty \in Nat
  BY DEF BilledQty, Null
<1>2. BilledRate(l) \in Nat /\ BilledRate(l) <= l.ceiling /\ l.ceiling \in Nat
  BY DEF BilledRate, Null
<1>3. /\ BilledQty(l) * BilledRate(l) <= l.qty * l.ceiling
      /\ BilledQty(l) * BilledRate(l) \in Nat /\ l.qty * l.ceiling \in Nat
  BY <1>1, <1>2, TimesMonotone
<1> QED BY <1>3, RoundedMonotone DEF LinePaisa

\* Weight goods are quoted per kg.
LEMMA RateOfWeight ==
  ASSUME NEW rate \in Nat, NEW size \in Nat \ {0}
  PROVE  RatePhrase(rate, "g", size) = Rounded(rate * 10000, size)
BY SMT DEF RatePhrase, PackSize

\* A weight reads as what it is, for every number of packs of every size
\* (bill.js:64-93).
THEOREM WeightReadsRightHolds ==
  \A qty \in Nat, size \in Nat \ {0} : WeightReadsRight(qty, size)
<1> SUFFICES ASSUME NEW qty \in Nat, NEW size \in Nat \ {0} PROVE WeightReadsRight(qty, size)
  OBVIOUS
<1> DEFINE total == qty * size
           said == QtyPhrase(qty, "g", size)
<1>1. total \in Nat /\ PackSize(size) = size
  BY DEF PackSize
<1>2. CASE total \in {250 * Gram, 500 * Gram, 750 * Gram}
  <2>1. said = Spoken(total)
    BY SMT, <1>1, <1>2 DEF QtyPhrase
  <2>2. Grams(Spoken(total)) = total
    <3> HIDE DEF total
    <3> QED BY SMT, <1>2 DEF Spoken, Grams, Gram
  <2> QED BY SMT, <1>1, <2>1, <2>2 DEF WeightReadsRight, Distance
<1>3. CASE total \notin {250 * Gram, 500 * Gram, 750 * Gram} /\ total >= 1000 * Gram
  <2>1. said = [number |-> Rounded(total, Gram), word |-> "kg"]
    BY <1>1, <1>3 DEF QtyPhrase
  <2>2. Grams(said) = Rounded(total, Gram) * Gram
    <3> DEFINE r == Rounded(total, Gram)
    <3>1. r \in Nat
      BY <1>1 DEF Rounded, Gram
    <3> HIDE DEF r, said
    <3>2. Grams([number |-> r, word |-> "kg"]) = r * Gram
      BY SMT, <3>1 DEF Grams, Gram
    <3> QED BY <2>1, <3>2 DEF r
  <2>3. Distance(Rounded(total, Gram) * Gram, total) <= 500000
    BY <1>1 DEF Rounded, Gram, Distance
  <2> QED BY <1>1, <1>3, <2>2, <2>3 DEF WeightReadsRight
<1>4. CASE total \notin {250 * Gram, 500 * Gram, 750 * Gram} /\ ~(total >= 1000 * Gram)
  <2>1. said = [number |-> Rounded(total, 1000), word |-> "g"]
    BY <1>1, <1>4 DEF QtyPhrase
  <2>2. Grams(said) = Rounded(total, 1000) * 1000
    <3> DEFINE r == Rounded(total, 1000)
    <3>1. r \in Nat
      BY <1>1 DEF Rounded, Gram
    <3> HIDE DEF r, said
    <3>2. Grams([number |-> r, word |-> "g"]) = r * 1000
      BY SMT, <3>1 DEF Grams, Gram
    <3> QED BY <2>1, <3>2 DEF r
  <2>3. Distance(Rounded(total, 1000) * 1000, total) <= 500
    BY <1>1 DEF Rounded, Distance
  <2> QED BY <1>1, <1>4, <2>2, <2>3 DEF WeightReadsRight
<1> QED BY <1>2, <1>3, <1>4

\* The multiplication on every line of weight goods comes out
\* (bill.js:113-131).
THEOREM LineMultipliesHolds ==
  \A qty \in Nat, rate \in Nat, size \in Nat \ {0} : LineMultiplies(qty, rate, size)
<1> SUFFICES ASSUME NEW qty \in Nat, NEW rate \in Nat, NEW size \in Nat \ {0}
             PROVE  LineMultiplies(qty, rate, size)
  OBVIOUS
<1> DEFINE grams == (qty * size) \div Gram
<1>0. grams \in Nat
  BY DEF Gram
<1> HIDE DEF grams
<1> SUFFICES ASSUME qty * size = grams * 1000000
             PROVE  2 * Distance(RatePhrase(rate, "g", size) * grams, PricePhrase(qty, rate) * 1000) <= grams + 1000
  BY DEF LineMultiplies, Gram, grams
<1> DEFINE perKg == RatePhrase(rate, "g", size)
           price == PricePhrase(qty, rate)
           x == qty * rate
           y == size * perKg
<1>1. perKg \in Nat /\ y \in Nat /\ 2 * y <= 20000 * rate + size /\ 20000 * rate <= 2 * y + size
  <2>1. perKg = Rounded(rate * 10000, size)
    BY RateOfWeight
  <2>2. rate * 10000 \in Nat /\ perKg \in Nat
    <3> HIDE DEF perKg
    <3> QED BY <2>1, RoundedIs
  <2>3. y \in Nat /\ 2 * size * perKg = 2 * y
    <3> HIDE DEF perKg
    <3> QED BY <2>2
  <2> HIDE DEF perKg, y
  <2> QED BY <2>1, <2>2, <2>3, RoundedNear, RoundedIs
<1>2. price \in Nat /\ x \in Nat /\ 200000 * price <= 2 * x + 100000 /\ 2 * x <= 200000 * price + 100000
  <2>1. x \in Nat /\ price = Rounded(x, 100000)
    BY DEF PricePhrase
  <2> HIDE DEF x, price
  <2> QED BY <2>1 DEF Rounded
\* times the packs
<1>3. /\ qty * y = 1000000 * (grams * perKg)
      /\ 2 * (qty * y) <= 20000 * x + 1000000 * grams
      /\ 20000 * x <= 2 * (qty * y) + 1000000 * grams
  <2>1. qty * y = (qty * size) * perKg
    <3> HIDE DEF perKg
    <3> QED BY <1>1
  <2>2. (grams * 1000000) * perKg = 1000000 * (grams * perKg)
    <3> HIDE DEF perKg
    <3> QED BY SMT, <1>0, <1>1
  <2> HIDE DEF y, perKg
  <2>4. /\ qty * (2 * y) <= qty * (20000 * rate + size)
        /\ qty * (20000 * rate) <= qty * (2 * y + size)
    BY SMT, <1>1
  <2>5. /\ qty * (20000 * rate + size) = 20000 * x + qty * size /\ qty * (2 * y) = 2 * (qty * y)
        /\ qty * (20000 * rate) = 20000 * x /\ qty * (2 * y + size) = 2 * (qty * y) + qty * size
    BY SMT, <1>1
  <2>6. 2 * (qty * y) <= 20000 * x + qty * size /\ 20000 * x <= 2 * (qty * y) + qty * size
    BY ONLY <2>4, <2>5
  <2>7. qty * y \in Nat /\ x \in Nat /\ grams * perKg \in Nat /\ qty * size = 1000000 * grams
    BY SMT, <1>0, <1>1
  <2>8. qty * y = 1000000 * (grams * perKg)
    BY ONLY <2>1, <2>2, <2>7, qty * size = grams * 1000000
  <2> DEFINE w == qty * y
             v == grams * perKg
  <2> HIDE DEF x, w, v
  <2> QED BY SMT, <1>0, <2>6, <2>7, <2>8 DEF w, v
<1>4. grams * perKg \in Nat /\ perKg * grams = grams * perKg
  <2> HIDE DEF perKg
  <2> QED BY SMT, <1>0, <1>1
<1>5. 2 * Distance(perKg * grams, price * 1000) <= grams + 1000
  <2> DEFINE z == grams * perKg
             w == qty * y
  <2>1. /\ z \in Nat /\ w = 1000000 * z
        /\ 2 * w <= 20000 * x + 1000000 * grams
        /\ 20000 * x <= 2 * w + 1000000 * grams
    BY SMT, <1>3, <1>4
  <2>2. perKg * grams = z
    BY <1>4
  <2> HIDE DEF perKg, price, x, y, z, w
  <2>3. 2 * z <= 2000 * price + grams + 1000 /\ 2000 * price <= 2 * z + grams + 1000
    BY SMT, <1>0, <1>2, <2>1
  <2>4. 2 * Distance(z, price * 1000) <= grams + 1000
    BY SMT, <1>0, <1>2, <2>1, <2>3 DEF Distance
  <2> QED BY <2>2, <2>4
<1> QED BY <1>5

------------------------------------------------------------------------------
(* The price list.                                                         *)

\* What a title says is a whole measure, or nothing.
LEMMA ParsedWhole ==
  ASSUME NEW title \in Title
  PROVE  LET parsed == ParseTitle(title)
         IN \/ parsed.unit \in Units /\ parsed.pack \in Nat
            \/ parsed.unit = NoValue /\ parsed.pack = NoValue
<1>1. title.dash \in Part /\ title.glued \in Part
  BY DEF Title
<1>2. ASSUME NEW part \in Part, Readable(part)
      PROVE  Measure(part).unit \in Units /\ Measure(part).pack \in Nat
  BY <1>2 DEF Part, OrNull, Units, Readable, Measure, WeightUnits, CountUnits
<1> QED BY <1>1, <1>2 DEF ParseTitle

\* The two ways of a webhook: the row stays, or it is written as the product says.
LEMMA SavedIs ==
  ASSUME NEW row \in Row \cup {NoRow}, NEW p \in Told, p.hasVariant, ~p.community
  PROVE  LET saved == UpsertFromShopify(row, p)
             parsed == ParseTitle(p.title)
         IN /\ saved \in Row
            /\ saved.price = p.price /\ saved.market = p.market /\ saved.name = p.title.name
            /\ saved.active = (p.status = "active" /\ p.price # NoValue /\ p.price > 0)
            /\ parsed.unit # NoValue => saved.unit = parsed.unit /\ saved.pack = parsed.pack
            /\ p.title.urdu # NoValue => saved.urdu = p.title.urdu
            /\ p.image # NoValue => saved.image = p.image
            /\ row \in Row /\ row # NoRow =>
                 /\ saved.link = row.link /\ saved.weighed = row.weighed
                 /\ parsed.unit = NoValue => saved.unit = row.unit /\ saved.pack = row.pack
                 /\ p.title.urdu = NoValue => saved.urdu = row.urdu
                 /\ p.image = NoValue => saved.image = row.image
<1> DEFINE parsed == ParseTitle(p.title)
           old == IF row # NoRow THEN row
                  ELSE [unit |-> "kg", pack |-> 1000, urdu |-> NoValue, image |-> NoValue, link |-> NoValue,
                        weighed |-> Coalesce(parsed.unit, "kg") \in WeightUnits]
           saved == UpsertFromShopify(row, p)
<1>1. /\ p.title \in Title /\ p.title.name \in Names /\ p.title.urdu \in OrNull(Names) /\ p.image \in OrNull(Names)
      /\ p.price \in OrNull(Nat) /\ p.market \in OrNull(Nat)
  BY DEF Told, Title
<1>2. \/ parsed.unit \in Units /\ parsed.pack \in Nat
      \/ parsed.unit = NoValue /\ parsed.pack = NoValue
  BY <1>1, ParsedWhole
<1>3. NoValue \notin Units /\ NoValue \notin Nat /\ NoValue \notin Names
  BY ProductSyncAssumption
<1>4. /\ old.unit \in Units /\ old.pack \in Nat /\ old.urdu \in OrNull(Names) /\ old.image \in OrNull(Names)
      /\ old.link \in OrNull(Names) /\ old.weighed \in BOOLEAN
      /\ row # NoRow => old = row
  <2>1. CASE row # NoRow
    BY <2>1 DEF Row
  <2>2. CASE row = NoRow
    <3>1. /\ old.unit = "kg" /\ old.pack = 1000 /\ old.urdu = NoValue /\ old.image = NoValue /\ old.link = NoValue
          /\ old.weighed \in BOOLEAN
      BY <2>2
    <3> QED BY <2>2, <3>1 DEF OrNull, Units, WeightUnits
  <2> QED BY <2>1, <2>2
<1>5. saved = [name   |-> p.title.name,
               urdu   |-> Coalesce(p.title.urdu, old.urdu),
               unit   |-> Coalesce(parsed.unit, old.unit),
               pack   |-> Coalesce(parsed.pack, old.pack),
               image  |-> Coalesce(p.image, old.image),
               price  |-> p.price,
               market |-> p.market,
               active |-> p.status = "active" /\ p.price # NoValue /\ p.price > 0,
               weighed |-> old.weighed,
               link   |-> old.link]
  BY DEF UpsertFromShopify
<1> HIDE DEF parsed, old, saved
<1>6. saved \in Row
  BY <1>1, <1>2, <1>4, <1>5 DEF Row, OrNull, Coalesce
<1>7. /\ saved.price = p.price /\ saved.market = p.market /\ saved.name = p.title.name
      /\ saved.active = (p.status = "active" /\ p.price # NoValue /\ p.price > 0)
      /\ saved.urdu = Coalesce(p.title.urdu, old.urdu) /\ saved.image = Coalesce(p.image, old.image)
      /\ saved.unit = Coalesce(parsed.unit, old.unit) /\ saved.pack = Coalesce(parsed.pack, old.pack)
      /\ saved.link = old.link /\ saved.weighed = old.weighed
  BY <1>5
<1>8. /\ parsed.unit # NoValue => saved.unit = parsed.unit /\ saved.pack = parsed.pack
      /\ p.title.urdu # NoValue => saved.urdu = p.title.urdu
      /\ p.image # NoValue => saved.image = p.image
      /\ row # NoRow =>
           /\ saved.link = row.link /\ saved.weighed = row.weighed
           /\ parsed.unit = NoValue => saved.unit = row.unit /\ saved.pack = row.pack
           /\ p.title.urdu = NoValue => saved.urdu = row.urdu
           /\ p.image = NoValue => saved.image = row.image
  BY <1>2, <1>3, <1>4, <1>7 DEF Coalesce
<1> QED BY <1>6, <1>7, <1>8 DEF saved, parsed

\* Rows are told apart by their columns.
LEMMA SameRow ==
  ASSUME NEW a \in Row, NEW b \in Row,
         a.name = b.name, a.urdu = b.urdu, a.unit = b.unit, a.pack = b.pack, a.image = b.image,
         a.price = b.price, a.market = b.market, a.active = b.active, a.weighed = b.weighed, a.link = b.link
  PROVE  a = b
BY DEF Row

\* Shopify may send any webhook again (productSync.js:121-138).
THEOREM SavedOnceHolds == \A row \in Row \cup {NoRow}, p \in Told : SavedOnce(row, p)
<1> SUFFICES ASSUME NEW row \in Row \cup {NoRow}, NEW p \in Told PROVE SavedOnce(row, p)
  OBVIOUS
<1> DEFINE saved == UpsertFromShopify(row, p)
           again == UpsertFromShopify(saved, p)
<1>1. CASE p.hasVariant /\ ~p.community
  <2>1. saved \in Row /\ saved # NoRow
    BY <1>1, SavedIs, ProductSyncAssumption
  <2>2. /\ saved.price = p.price /\ saved.market = p.market /\ saved.name = p.title.name
        /\ saved.active = (p.status = "active" /\ p.price # NoValue /\ p.price > 0)
        /\ ParseTitle(p.title).unit # NoValue => saved.unit = ParseTitle(p.title).unit /\ saved.pack = ParseTitle(p.title).pack
        /\ p.title.urdu # NoValue => saved.urdu = p.title.urdu
        /\ p.image # NoValue => saved.image = p.image
    BY <1>1, SavedIs
  <2> HIDE DEF saved
  <2>3. /\ again \in Row
        /\ again.price = p.price /\ again.market = p.market /\ again.name = p.title.name
        /\ again.active = (p.status = "active" /\ p.price # NoValue /\ p.price > 0)
        /\ ParseTitle(p.title).unit # NoValue => again.unit = ParseTitle(p.title).unit /\ again.pack = ParseTitle(p.title).pack
        /\ p.title.urdu # NoValue => again.urdu = p.title.urdu
        /\ p.image # NoValue => again.image = p.image
        /\ again.link = saved.link /\ again.weighed = saved.weighed
        /\ ParseTitle(p.title).unit = NoValue => again.unit = saved.unit /\ again.pack = saved.pack
        /\ p.title.urdu = NoValue => again.urdu = saved.urdu
        /\ p.image = NoValue => again.image = saved.image
    BY <1>1, <2>1, SavedIs
  <2> HIDE DEF again
  <2>4. again = saved
    BY <2>1, <2>2, <2>3, SameRow
  <2> QED BY <2>4 DEF SavedOnce, again, saved
<1>2. CASE ~(p.hasVariant /\ ~p.community)
  <2>1. \A r : UpsertFromShopify(r, p) = r
    BY <1>2 DEF UpsertFromShopify
  <2> QED BY <2>1 DEF SavedOnce
<1> QED BY <1>1, <1>2

\* No title takes a pack size apart from its unit (productSync.js:35-44, 131-133).
THEOREM MeasureStaysWholeHolds == \A row \in Row \cup {NoRow}, p \in Told : MeasureStaysWhole(row, p)
<1> SUFFICES ASSUME NEW row \in Row \cup {NoRow}, NEW p \in Told, row # NoRow
             PROVE  LET saved == UpsertFromShopify(row, p)
                    IN [unit |-> saved.unit, pack |-> saved.pack] \in
                         {[unit |-> row.unit, pack |-> row.pack], ParseTitle(p.title)}
  BY DEF MeasureStaysWhole
<1> DEFINE saved == UpsertFromShopify(row, p)
           parsed == ParseTitle(p.title)
<1>1. parsed = [unit |-> parsed.unit, pack |-> parsed.pack]
  BY DEF ParseTitle, Measure
<1>2. CASE p.hasVariant /\ ~p.community
  <2>1. /\ parsed.unit # NoValue => saved.unit = parsed.unit /\ saved.pack = parsed.pack
        /\ parsed.unit = NoValue => saved.unit = row.unit /\ saved.pack = row.pack
    BY <1>2, SavedIs
  <2> HIDE DEF saved, parsed
  <2>2. [unit |-> saved.unit, pack |-> saved.pack] \in {[unit |-> row.unit, pack |-> row.pack], parsed}
    BY <1>1, <2>1
  <2> QED BY <2>2 DEF saved, parsed
<1>3. CASE ~(p.hasVariant /\ ~p.community)
  <2>1. saved = row
    BY <1>3 DEF UpsertFromShopify
  <2> QED BY <2>1
<1> QED BY <1>2, <1>3

\* Whatever an item showed, a push makes it cost our price or takes it off sale
\* (productSync.js:208-226).
THEOREM SoldAtOurPriceHolds ==
  \A row \in Row \cup {NoRow}, p \in Told : \A item : SoldAtOurPrice(row, item, p)
<1> SUFFICES ASSUME NEW row \in Row \cup {NoRow}, NEW p \in Told, NEW item,
                    NEW outcome \in FromShopifyWebhook(row, item, p), outcome[2] # item, outcome[2].stock
             PROVE  /\ outcome[1].price > 0 /\ Coalesce(outcome[2].sale, outcome[2].price) = outcome[1].price
                    /\ outcome[2].sale # NoValue => outcome[2].price > outcome[2].sale
  BY DEF SoldAtOurPrice
<1> DEFINE saved == UpsertFromShopify(row, p)
<1>1. p.hasVariant /\ ~p.community /\ outcome[1] = saved /\ outcome[2] = MetaUpdate(item, saved)
  BY DEF FromShopifyWebhook, PushOne
<1>2. saved.price = p.price /\ saved.active = (p.status = "active" /\ p.price # NoValue /\ p.price > 0) /\ saved.market = p.market
  BY <1>1, SavedIs
<1>3. p.price \in OrNull(Nat) /\ p.market \in OrNull(Nat)
  BY DEF Told
<1>4. NoValue \notin Nat
  BY ProductSyncAssumption
<1> HIDE DEF saved
<1>5. saved.price \in Nat /\ saved.price > 0
  <2>1. MetaUpdate(item, saved).stock = saved.active
    BY DEF MetaUpdate
  <2> QED BY <1>1, <1>2, <1>3, <2>1 DEF OrNull
<1>6. CASE saved.market # NoValue /\ saved.market > saved.price
  <2>1. outcome[2].price = saved.market /\ outcome[2].sale = saved.price
    BY <1>1, <1>4, <1>5, <1>6 DEF MetaUpdate
  <2> QED BY <1>1, <1>4, <1>5, <1>6, <2>1 DEF Coalesce
<1>7. CASE ~(saved.market # NoValue /\ saved.market > saved.price)
  <2>1. outcome[2].price = saved.price /\ outcome[2].sale = NoValue
    BY <1>1, <1>4, <1>5, <1>7 DEF MetaUpdate
  <2> QED BY <1>1, <1>5, <2>1 DEF Coalesce
<1> QED BY <1>6, <1>7

\* No link, of any item to any product, gives an item to two
\* (inbox.js:1042-1062).
THEOREM OneProductEachHolds == \A links, item, product : OneProductEach(links, item, product)
<1> SUFFICES ASSUME NEW links, NEW item, NEW product,
                    \A q, r \in DOMAIN links : links[q] = links[r] /\ links[q] # NoValue => q = r,
                    NEW q \in DOMAIN links, NEW r \in DOMAIN links,
                    Link(links, item, product)[q] = Link(links, item, product)[r],
                    Link(links, item, product)[q] # NoValue
             PROVE  q = r
  BY DEF OneProductEach, Link
<1> QED BY DEF Link
==============================================================================
