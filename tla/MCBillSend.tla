------------------------------ MODULE MCBillSend ------------------------------
(***************************************************************************)
(* Instances of BillSend for TLC.                                          *)
(***************************************************************************)
EXTENDS BillSend, TLC

\* Worker runs are interchangeable.
WorkerSymmetry == Permutations(Workers)

\* The receipts that Meta may send in a run.
AnyReceipt == Attempts \X Receipts
OfTheFirst == {<<1, "sent">>, <<1, "failed">>}
OfTheFirstTwo == OfTheFirst \cup {<<2, "failed">>}
=============================================================================
