----------------------------- MODULE MCBillText -----------------------------
(* The pure algorithms of the messages and the price list, on bounded      *)
(* inputs: TLC evaluates each assumption before it checks the run.         *)
EXTENDS BillText, Templates, ProductSync

\* Packs of half a gram up to two kilos, whole and weighed.
Packs == {1, 250, 333, 500, 950, 1000, 1500, 2000}
Sizes == {1000, 2000, 100000, 250000, 333000, 500000, 1000000}
Fits(qty, size) == qty * size <= 2000 * Gram

ASSUME WeightsReadRight ==
  \A qty \in Packs, size \in Sizes : Fits(qty, size) => WeightReadsRight(qty, size)

ASSUME LinesMultiply ==
  \A qty \in Packs, size \in Sizes, rate \in {0, 1, 99, 4950, 5000, 24999} :
    Fits(qty, size) => LineMultiplies(qty, rate, size)

\* Lines that were weighed or not, locked or not, compared or not.
Lines ==
  [qty : {1000, 1333}, packed : {Null, 0, 900}, ceiling : {4950, 24999},
   final : {Null, 4949, 6000}, market : {Null, 26050}, unit : {"g"}, size : {500000}]

ASSUME TotalsHold ==
  \A a, b \in Lines : ListAddsUp(<<a, b>>) /\ LineNeverMore(a) /\ NeverMoreThanPromised(<<a, b>>)

\* Paisa on both sides of every rupee and every half.
Paisa == {0, 1, 49, 50, 51, 99, 100, 101, 149, 150, 151}

ASSUME SavingsHold ==
  \A market, ceiling, billed \in Paisa :
    LET totals == [market |-> market, ceiling |-> ceiling, billed |-> billed]
    IN SavingsAddUp(totals) /\ TemplateAddsUp(totals)

Texts == UNION {[1..n -> {"x", " ", "nl"}] : n \in 0..5}
ASSUME TextsAreSafe == \A text \in Texts : SafeForGood(text)

Lists == UNION {[1..n -> {1, 294, 297, 588, 621}] : n \in 0..5}
ASSUME ListsFit == \A items \in Lists : ListFits(items)

------------------------------------------------------------------------------
TitleParts == [n : {NoValue, 0, 500, 1000}, word : {"kg", "g", "bundle", "other"}]
Titles == [name : {"new"}, urdu : {NoValue, "new"}, dash : TitleParts, glued : [n : {500000}, word : {"g", "other"}]]
Webhooks ==
  [title : Titles, hasVariant : {TRUE}, community : BOOLEAN, price : {NoValue, 0, 100}, market : {NoValue, 90, 150},
   status : {"active", "draft"}, image : {NoValue}]
Rows == {NoRow} \cup
  [name : {"old"}, urdu : {NoValue, "old"}, unit : {"kg", "bundle"}, pack : {1000, 2000}, image : {"old"},
   price : {100}, market : {150}, active : {TRUE}, weighed : {TRUE}, link : {NoValue, "old"}]
Items == [price : {100, 150}, sale : {NoValue, 100}, stock : BOOLEAN]

ASSUME RatesHold ==
  \A row \in Rows, p \in Webhooks :
    /\ SavedOnce(row, p) /\ MeasureStaysWhole(row, p)
    /\ \A item \in Items : SoldAtOurPrice(row, item, p)

ASSUME LinksHold ==
  \A links \in [{"a", "b", "c"} -> {NoValue, "i", "j"}] :
    \A item \in {"i", "j"}, product \in {"a", "b", "c", "gone"} : OneProductEach(links, item, product)
=============================================================================
