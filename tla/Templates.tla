------------------------------ MODULE Templates ------------------------------
(***************************************************************************)
(* What may be put into a WhatsApp template: templateSafe of bill.js and   *)
(* fitItems of templates.js.  Pure algorithms.                             *)
(*                                                                         *)
(* A text is a sequence of "x" (any other character), " " and "nl" (a      *)
(* newline or a tab); a list of items is the sequence of their lengths.    *)
(***************************************************************************)
EXTENDS Integers, SequencesExt

\* Each run of newlines and tabs becomes one space.
OneLine(text) ==
  FoldLeft(LAMBDA done, c :
             [out   |-> IF c # "nl" THEN Append(done.out, c)
                        ELSE IF done.break THEN done.out ELSE Append(done.out, " "),
              break |-> c = "nl"],
           [out |-> <<>>, break |-> FALSE], text).out

\* Each run of five spaces or more becomes four.
Squeezed(text) ==
  FoldLeft(LAMBDA out, c :
             IF c = " " /\ IsSuffix(<<" ", " ", " ", " ">>, out) THEN out ELSE Append(out, c),
           <<>>, text)

TemplateSafe(text) ==
  [ok    |-> "nl" \notin ToSet(text) /\ Squeezed(text) = text,
   value |-> Squeezed(OneLine(text))]

\* An empty variable is refused as well.
Safe(text) == IF text = <<>> THEN <<"x">> ELSE TemplateSafe(text).value

ItemsMax == 620
Separator == 3  \* " * "
Reserve == 30

\* The length of the first n items, joined.
Joined(items, n) == FoldLeft(+, 0, SubSeq(items, 1, n)) + Separator * (IF n = 0 THEN 0 ELSE n - 1)

\* As many whole items as leave room for "aur 12 cheezein".
FitItems(items) ==
  IF Joined(items, Len(items)) <= ItemsMax THEN [shown |-> Len(items), more |-> 0]
  ELSE LET n == CHOOSE n \in 0..Len(items) :
                  /\ \A k \in 1..n : Joined(items, k) <= ItemsMax - Reserve
                  /\ n < Len(items) => Joined(items, n + 1) > ItemsMax - Reserve
       IN [shown |-> n, more |-> Len(items) - n]

------------------------------------------------------------------------------
Digits(n) == IF n < 10 THEN 1 ELSE IF n < 100 THEN 2 ELSE 3
FittedLength(items) ==
  LET fit == FitItems(items)
  IN Joined(items, fit.shown) + IF fit.more = 0 THEN 0 ELSE Separator + 13 + Digits(fit.more)

\* What is sent is always accepted, is not changed by a second pass (params go
\* through it twice), and is what was composed exactly if the guard says so
\* (bill.js:409-420, templates.js:116).
SafeForGood(text) ==
  /\ TemplateSafe(Safe(text)).ok /\ Safe(text) # <<>>
  /\ Safe(Safe(text)) = Safe(text)
  /\ TemplateSafe(text).ok <=> TemplateSafe(text).value = text

\* No item is lost without being counted, none is cut, and the list with its
\* tail keeps within the limit (templates.js:118-133).
ListFits(items) ==
  LET fit == FitItems(items)
  IN /\ fit.shown + fit.more = Len(items)
     /\ FittedLength(items) <= ItemsMax
     /\ fit.more > 0 <=> Joined(items, Len(items)) > ItemsMax
=============================================================================
