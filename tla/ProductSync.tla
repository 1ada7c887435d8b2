----------------------------- MODULE ProductSync -----------------------------
(***************************************************************************)
(* productSync.js and the inbox's rates: from a product as Shopify tells   *)
(* it to its row of products, and from the row to the item of the WhatsApp *)
(* catalogue it is linked to.  What one call does, as an operator; the     *)
(* webhook of a product makes the two calls one after the other.           *)
(*                                                                         *)
(* Prices are in paisa, pack sizes in thousandths.  The category, which    *)
(* follows the product as its name does, is left out.  Meta is external:   *)
(* what it is sent it applies, or not.                                     *)
(***************************************************************************)
EXTENDS Integers

CONSTANTS
  Names,    \* the texts of names and of picture and catalogue ids
  NoValue,  \* NULL
  NoRow

WeightUnits == {"kg", "g"}
CountUnits == {"bundle", "dozen", "pcs", "packet"}
Units == WeightUnits \cup CountUnits

OrNull(S) == S \cup {NoValue}
Row == [name : Names, urdu : OrNull(Names), unit : Units, pack : Nat, image : OrNull(Names), price : OrNull(Nat),
        market : OrNull(Nat), active : BOOLEAN, weighed : BOOLEAN, link : OrNull(Names)]
Part == [n : OrNull(Nat), word : Units \cup {"other"}]
Title == [name : Names, urdu : OrNull(Names), dash : Part, glued : Part]
Told == [title : Title, hasVariant : BOOLEAN, community : BOOLEAN, price : OrNull(Nat), market : OrNull(Nat),
         status : {"active", "draft"}, image : OrNull(Names)]

ASSUME ProductSyncAssumption == NoRow \notin Row /\ NoValue \notin Names \cup Nat \cup Units

\* The part of a title behind the dash, or glued to the name's end: a number (NoValue:
\* none) and a word, which is named here by the unit it is a spelling of; "other" is
\* none of them.  "gaddi" is one bundle, and so is "0 gaddi"; "kg" alone is no weight.
Readable(part) ==
  \/ part.word \in WeightUnits /\ part.n # NoValue
  \/ part.word \in CountUnits /\ (part.n = NoValue \/ part.n % 1000 = 0)

Measure(part) ==
  [unit |-> part.word,
   pack |-> IF part.word \in CountUnits /\ part.n \in {NoValue, 0} THEN 1000 ELSE part.n]

ParseTitle(title) ==
  IF Readable(title.dash) THEN Measure(title.dash)
  ELSE IF title.glued.word \in WeightUnits /\ Readable(title.glued) THEN Measure(title.glued)
  ELSE [unit |-> NoValue, pack |-> NoValue]

Coalesce(a, b) == IF a # NoValue THEN a ELSE b

\* INSERT ... ON CONFLICT (shopify_variant_id) DO UPDATE.  What the title, the picture
\* or the Urdu name does not say is kept; whether it is weighed is decided once.
UpsertFromShopify(row, p) ==
  LET parsed == ParseTitle(p.title)
      old == IF row # NoRow THEN row
             ELSE [unit |-> "kg", pack |-> 1000, urdu |-> NoValue, image |-> NoValue, link |-> NoValue,
                   weighed |-> Coalesce(parsed.unit, "kg") \in WeightUnits]
  IN IF ~p.hasVariant \/ p.community THEN row
     ELSE [name   |-> p.title.name,
           urdu   |-> Coalesce(p.title.urdu, old.urdu),
           unit   |-> Coalesce(parsed.unit, old.unit),
           pack   |-> Coalesce(parsed.pack, old.pack),
           image  |-> Coalesce(p.image, old.image),
           price  |-> p.price,
           market |-> p.market,
           active |-> p.status = "active" /\ p.price # NoValue /\ p.price > 0,
           weighed |-> old.weighed,
           link   |-> old.link]

\* What the catalogue shows for an update: the bazaar rate struck through, or the plain
\* price; with no price of ours the item keeps what it shows.
MetaUpdate(item, row) ==
  LET ours == row.price # NoValue /\ row.price > 0
      struck == ours /\ row.market # NoValue /\ row.market > row.price
  IN [price |-> IF struck THEN row.market ELSE IF ours THEN row.price ELSE item.price,
      sale  |-> IF struck THEN row.price ELSE IF ours THEN NoValue ELSE item.sale,
      stock |-> row.active]

\* Only a linked product is pushed, and a refusal or a timeout is only logged.
PushOne(item, row) == IF row.link = NoValue THEN {item} ELSE {item, MetaUpdate(item, row)}

\* The outcomes of products/update: the row and the item.
FromShopifyWebhook(row, item, p) ==
  LET saved == UpsertFromShopify(row, p)
  IN IF ~p.hasVariant \/ p.community THEN {<<row, item>>}
     ELSE {<<saved, shown>> : shown \in PushOne(item, saved)}

\* /rates/link, one pair of it: whoever had the item gives it away, whether or not
\* there is a product to take it.
Link(links, item, product) ==
  [q \in DOMAIN links |-> IF q = product THEN item ELSE IF links[q] = item THEN NoValue ELSE links[q]]

------------------------------------------------------------------------------
\* A webhook that Shopify sends again changes nothing (productSync.js:121-138).
SavedOnce(row, p) ==
  LET saved == UpsertFromShopify(row, p) IN UpsertFromShopify(saved, p) = saved

\* The pack size never comes apart from its unit: both are the title's, or
\* both what they were.  "500" of grams next to "kg" would be a bill of half
\* a tonne (productSync.js:35-44, 131-133).
MeasureStaysWhole(row, p) ==
  LET saved == UpsertFromShopify(row, p) IN
  row # NoRow =>
    [unit |-> saved.unit, pack |-> saved.pack] \in
      {[unit |-> row.unit, pack |-> row.pack], ParseTitle(p.title)}

\* After a push that arrived, what can be bought in the catalogue costs our
\* price there, next to a higher one or to none, whatever the item showed
\* before; what has no price of ours cannot be bought (productSync.js:208-226).
SoldAtOurPrice(row, item, p) ==
  \A outcome \in FromShopifyWebhook(row, item, p) :
    LET saved == outcome[1]
        shown == outcome[2]
    IN shown # item /\ shown.stock =>
         /\ saved.price > 0 /\ Coalesce(shown.sale, shown.price) = saved.price
         /\ shown.sale # NoValue => shown.price > shown.sale

\* A catalogue item is one product's at most, whatever is linked in whatever
\* order: the unique index never refuses a link (inbox.js:1042-1062).
OneProductEach(links, item, product) ==
  (\A q, r \in DOMAIN links : links[q] = links[r] /\ links[q] # NoValue => q = r) =>
    LET linked == Link(links, item, product)
    IN \A q, r \in DOMAIN links : linked[q] = linked[r] /\ linked[q] # NoValue => q = r
=============================================================================
