------------------------------ MODULE BillText ------------------------------
(***************************************************************************)
(* bill.js: the numbers of the two messages a customer reads, the order    *)
(* confirmation and the bill, and what they promise.  Pure algorithms.     *)
(*                                                                         *)
(* A price is in paisa (NUMERIC(12,2)), a quantity in thousandths of a     *)
(* pack and a pack size in thousandths of its unit (NUMERIC(10,3)); what   *)
(* is printed is in rupees.  Arithmetic is exact: where floating point     *)
(* falls just below a half, the printed number is one lower than here,     *)
(* which is no further from what was rounded.                              *)
(***************************************************************************)
EXTENDS Integers, FiniteSetsExt, Schedule

\* Math.round(n / d).
Rounded(n, d) == (n + d \div 2) \div d
Money(paisa) == Rounded(paisa, 100)

Null == -1

------------------------------------------------------------------------------
(* Quantities and rates.                                                   *)

Gram == 1000000  \* of the product of a quantity and a pack size

PackSize(size) == IF size > 0 THEN size ELSE 1000

\* 250, 500 and 750 g as people say them; 0 stands for no number.
Spoken(total) == [number |-> 0, word |->
  CASE total = 250 * Gram -> "pao"
    [] total = 500 * Gram -> "aadha kg"
    [] OTHER -> "pauna kg"]

\* "1 kg", "aadha kg", "2 gaddi": packs times the size of a pack.  The number
\* is in thousandths.
QtyPhrase(qty, unit, size) ==
  LET total == qty * PackSize(size)
  IN IF unit # "g" THEN [number |-> Rounded(total, 1000), word |-> unit]
     ELSE IF total \in {250 * Gram, 500 * Gram, 750 * Gram} THEN Spoken(total)
     ELSE IF total >= 1000 * Gram THEN [number |-> Rounded(total, Gram), word |-> "kg"]
     ELSE [number |-> Rounded(total, 1000), word |-> "g"]

\* Weight goods are quoted per kg, whatever the pack; the others per pack.
RatePhrase(rate, unit, size) ==
  CASE unit = "g"  -> Rounded(rate * 10000, PackSize(size))
    [] unit = "kg" -> Rounded(rate * 10, PackSize(size))
    [] OTHER       -> Money(rate)

PricePhrase(qty, rate) == Rounded(qty * rate, 100000)

------------------------------------------------------------------------------
(* An order line: unit, size, qty, packed (Null: not weighed), the prices  *)
(* ceiling, final (Null: not locked) and market (Null: unknown).           *)

BilledQty(l) == IF l.packed # Null THEN l.packed ELSE l.qty
BilledRate(l) == IF l.final # Null /\ l.final < l.ceiling THEN l.final ELSE l.ceiling
MarketRate(l) == IF l.market # Null THEN l.market ELSE l.ceiling

\* The generated columns of order_items and the sums of orders, in paisa.
LinePaisa(l, rate) == Rounded(BilledQty(l) * rate, 1000)
Total(lines, rate) == MapThenSumSet(LAMBDA i : LinePaisa(lines[i], rate[i]), DOMAIN lines)
Totals(lines) ==
  [ceiling |-> Total(lines, [i \in DOMAIN lines |-> lines[i].ceiling]),
   billed  |-> Total(lines, [i \in DOMAIN lines |-> BilledRate(lines[i])]),
   market  |-> Total(lines, [i \in DOMAIN lines |-> MarketRate(lines[i])])]

Saving(from, to) == IF from > to THEN Money(from - to) ELSE 0

\* orderConfirmation: the most that the customer can be asked to pay.
ConfirmedLine(l) ==
  [qty    |-> QtyPhrase(l.qty, l.unit, l.size),
   rate   |-> RatePhrase(l.ceiling, l.unit, l.size),
   total  |-> PricePhrase(l.qty, l.ceiling),
   bazaar |-> IF l.market > l.ceiling THEN RatePhrase(l.market, l.unit, l.size) ELSE 0]

Confirmation(lines, totals) ==
  [lines |-> [i \in DOMAIN lines |-> ConfirmedLine(lines[i])],
   bazaar_total     |-> Money(totals.market),
   zyada_se_zyada   |-> Money(totals.ceiling),
   abhi_se_bachat   |-> Saving(totals.market, totals.ceiling)]

\* The template has no room for "no saving": it shows one number twice.
OrderBillParams(c) ==
  [c EXCEPT !.bazaar_total = IF c.abhi_se_bachat > 0 THEN @ ELSE c.zyada_se_zyada]

\* finalBill: what is paid, and what was saved twice over.
BilledLine(l) ==
  [qty       |-> QtyPhrase(BilledQty(l), l.unit, l.size),
   rate      |-> RatePhrase(BilledRate(l), l.unit, l.size),
   wasRate   |-> IF BilledRate(l) < l.ceiling THEN RatePhrase(l.ceiling, l.unit, l.size) ELSE 0,
   total     |-> PricePhrase(BilledQty(l), BilledRate(l)),
   reweighed |-> l.packed \notin {Null, l.qty}]

FinalBill(lines, totals) ==
  LET community == Saving(totals.market, totals.ceiling)
      mandi == Saving(totals.ceiling, totals.billed)
  IN [lines |-> [i \in DOMAIN lines |-> BilledLine(lines[i])],
      asal_bill    |-> Money(totals.billed),
      bazaar_total |-> IF totals.market > totals.billed THEN Money(totals.market) ELSE 0,
      bachat       |-> community + mandi,
      parts        |-> IF community > 0 /\ mandi > 0 THEN {"community", "mandi"} ELSE {},
      flatMandi    |-> mandi = 0 /\ community > 0]

------------------------------------------------------------------------------
(* The moment of the order, printed above its delivery day.                *)

\* Karachi's clock, 0 for the 12 of midnight and noon told as 12.
OrderedPhrase(t) ==
  LET h24 == t % DayTicks
  IN [day |-> Weekday(t \div DayTicks),
      h12 |-> IF h24 % 12 = 0 THEN 12 ELSE h24 % 12,
      am  |-> h24 < 12]

------------------------------------------------------------------------------
(* What the customer may conclude from the numbers alone.                  *)

Distance(a, b) == IF a > b THEN a - b ELSE b - a

\* The weight a phrase stands for, in millionths of a gram.
Grams(phrase) ==
  CASE phrase.word = "pao"      -> 250 * Gram
    [] phrase.word = "aadha kg" -> 500 * Gram
    [] phrase.word = "pauna kg" -> 750 * Gram
    [] phrase.word = "kg"       -> phrase.number * Gram
    [] OTHER                    -> phrase.number * 1000

\* A weight reads as what it is, whatever the pack: to half a gram from a kilo
\* on, and to half a thousandth of one below (bill.js:64-93).
WeightReadsRight(qty, size) ==
  LET total == qty * size
      half == IF total >= 1000 * Gram THEN 500000 ELSE 500
  IN Distance(Grams(QtyPhrase(qty, "g", size)), total) <= half

\* The multiplication on a line of weight goods comes out: the printed rate
\* times the grams of the line is the printed total, to half a rupee and half
\* a rupee more for every kilo (bill.js:113-131).
LineMultiplies(qty, rate, size) ==
  LET grams == (qty * size) \div Gram
  IN qty * size = grams * Gram =>
       2 * Distance(RatePhrase(rate, "g", size) * grams, PricePhrase(qty, rate) * 1000) <= grams + 1000

\* The customer adds up her list and gets the total, to half a rupee a line and
\* half a rupee (bill.js:199-274, 010_market_price.sql:118-132).
ListAddsUp(lines) ==
  LET c == Confirmation(lines, Totals(lines))
      sum == MapThenSumSet(LAMBDA i : c.lines[i].total, DOMAIN lines)
  IN (\A i \in DOMAIN lines : lines[i].packed = Null) =>
       200 * Distance(sum, c.zyada_se_zyada) <= 101 * Cardinality(DOMAIN lines) + 100

\* A line that was not weighed heavier than it was ordered never costs more
\* than was promised for it (bill.js:5-7, 001_init.sql:255-260).
LineNeverMore(l) ==
  l.packed <= l.qty => LinePaisa(l, BilledRate(l)) <= Rounded(l.qty * l.ceiling, 1000)

\* Nor does the bill.
NeverMoreThanPromised(lines) ==
  LET asOrdered == [i \in DOMAIN lines |-> [lines[i] EXCEPT !.packed = Null, !.final = Null]]
  IN (\A i \in DOMAIN lines : lines[i].packed <= lines[i].qty) =>
       FinalBill(lines, Totals(lines)).asal_bill
         <= Confirmation(asOrdered, Totals(asOrdered)).zyada_se_zyada

\* The two savings, printed apart, come to what the bazaar would have asked
\* for more, to a rupee, whenever the three totals stand in their order
\* (bill.js:311-321).
SavingsAddUp(totals) ==
  totals.billed <= totals.ceiling /\ totals.ceiling <= totals.market =>
    Distance(FinalBill(<<>>, totals).bachat, Money(totals.market) - Money(totals.billed)) <= 1

\* Neither message claims a saving that its own two totals do not show: in the
\* template their difference is the saving printed, to a rupee, with or without
\* a bazaar rate (templates.js:135-151).
TemplateAddsUp(totals) ==
  LET c == OrderBillParams(Confirmation(<<>>, totals))
  IN c.bazaar_total >= c.zyada_se_zyada
     /\ Distance(c.bazaar_total - c.zyada_se_zyada, c.abhi_se_bachat) <= 1

\* The printed moment is the moment of the order, and whoever reads it can tell
\* the delivery: up to 7:59 PM on a Sunday it is Monday's, up to 7:59 PM on a
\* Wednesday Thursday's (bill.js:155-171).
MomentExplainsDelivery(t) ==
  LET said == OrderedPhrase(t)
      evening == ~said.am /\ said.h12 \in 8..11
  IN /\ t % DayTicks = (said.h12 % 12) + (IF said.am THEN 0 ELSE 12)
     /\ DeliveryFor(t).label =
          IF said.day \in {4, 5, 6} \/ (said.day = 0 /\ ~evening) \/ (said.day = 3 /\ evening)
          THEN "Monday" ELSE "Thursday"
=============================================================================
