---------------------------- MODULE BillSendProofs ----------------------------
(***************************************************************************)
(* Theorems about BillSend, for every number of worker runs and every      *)
(* limit of attempts.                                                      *)
(***************************************************************************)
EXTENDS BillSend, TLAPS

\* A busy run works on an attempt that was claimed; the current attempt is the last.
RunOK == \A w \in Workers : /\ run[w].pc # "idle" => run[w].n \in 1..billAttempts
                            /\ run[w].pc = "result" => run[w].result.outcome # "none"

Typed == TypeOK /\ RunOK /\ current = billAttempts

\* The types of three variables, as TypeOK has them.
AttemptRows == [Attempts -> [outcome : Outcomes, proof : Proofs, channel : {"text", "template"},
                             byPerson : BOOLEAN, template : BOOLEAN]]
Messages == [Attempts -> Receipts \cup {"none", "queued"}]
Runs == [Workers -> [pc : {"idle", "claimed", "result"}, n : 0..MaxSends,
                     result : [outcome : {"none", "accepted", "not_sent", "ambiguous"},
                               retryable : BOOLEAN, template : BOOLEAN]]]

\* An idle run is well-typed.
LEMMA IdleType == /\ Idle \in [pc : {"idle", "claimed", "result"}, n : 0..MaxSends,
                               result : [outcome : {"none", "accepted", "not_sent", "ambiguous"},
                                         retryable : BOOLEAN, template : BOOLEAN]]
                  /\ Idle.pc = "idle"
BY BillSendAssumption DEF BillSendAssumption, Idle, Run, NoResult, Result

\* The first attempt is still to come.
LEMMA TypedInit == ASSUME Init PROVE Typed
<1>1. bill \in Bills /\ billProof \in Proofs /\ snapshot \in BOOLEAN
  BY DEF Init, Bills, Proofs
<1>2. billAttempts \in 0..MaxSends /\ base \in 0..MaxSends /\ current \in 0..MaxSends
  BY BillSendAssumption DEF BillSendAssumption, Init
<1>3. Unclaimed \in [outcome : Outcomes, proof : Proofs, channel : {"text", "template"},
                     byPerson : BOOLEAN, template : BOOLEAN]
  BY DEF Unclaimed, Attempt, Outcomes, Proofs
<1>4. run \in [Workers -> [pc : {"idle", "claimed", "result"}, n : 0..MaxSends,
                           result : [outcome : {"none", "accepted", "not_sent", "ambiguous"},
                                     retryable : BOOLEAN, template : BOOLEAN]]]
      /\ RunOK
  BY IdleType DEF Init, RunOK
<1> QED BY <1>1, <1>2, <1>3, <1>4 DEF Init, Typed, TypeOK, Fates, Receipts

\* Logging a message, marking it sent or advancing it gives it a status.
LEMMA MessageType ==
  ASSUME TypeOK, NEW n, NEW receipt \in Receipts, NEW status \in Receipts \cup {"queued"},
         MarkSent(n) \/ Advance(n, receipt) \/ Log(n, status)
  PROVE  message' \in Messages
<1>1. CASE MarkSent(n)
  BY <1>1 DEF TypeOK, MarkSent, Receipts, Messages
<1>2. CASE Advance(n, receipt)
  BY <1>2 DEF TypeOK, Advance, Messages
<1>3. CASE Log(n, status)
  BY <1>3 DEF TypeOK, Log, Messages
<1> QED BY <1>1, <1>2, <1>3

\* A new outcome or a proof keeps the type of the attempts.
LEMMA AttemptType ==
  ASSUME TypeOK, NEW n, NEW outcome \in Outcomes, NEW proof \in Proofs, NEW template \in BOOLEAN,
         Close(n, outcome, proof, template) \/ Prove(n, proof)
  PROVE  attempt' \in AttemptRows
<1>1. CASE Close(n, outcome, proof, template)
  BY <1>1 DEF TypeOK, Close, Attempt, AttemptRows
<1>2. CASE Prove(n, proof)
  BY <1>2 DEF TypeOK, Prove, Attempt, AttemptRows
<1> QED BY <1>1, <1>2

\* A commit that is seen, or not, leaves the runs in order.
LEMMA CommittedType ==
  ASSUME Typed, NEW w \in Workers, Committed(w), billAttempts' = billAttempts
  PROVE  run' \in Runs /\ RunOK'
<1>2. CASE run' = run
  BY <1>2 DEF Typed, TypeOK, RunOK, Runs
<1>3. CASE run' = [run EXCEPT ![w] = Idle]
  BY IdleType, <1>3 DEF Typed, TypeOK, RunOK, Runs
<1> QED BY <1>2, <1>3 DEF Committed

\* The attempts that were claimed, and the names that follow, are of their types.
LEMMA Names ==
  ASSUME Typed
  PROVE  /\ 1..billAttempts \subseteq Attempts
         /\ billAttempts > 0 => current \in Attempts
         /\ \A w \in Workers : run[w].pc # "idle" => run[w].n \in Attempts
         /\ {"accepted", "claim_expired", "not_sent", "ambiguous"} \subseteq Outcomes
         /\ Proofs = {"none", "accepted", "receipt", "operator", "prior_log"}
         /\ {"sent", "failed"} \subseteq Receipts
<1>1. 1..billAttempts \subseteq Attempts
  BY BillSendAssumption DEF BillSendAssumption, Typed, TypeOK, Attempts
<1>2. billAttempts > 0 => current \in Attempts
  BY BillSendAssumption DEF BillSendAssumption, Typed, TypeOK, Attempts
<1> QED BY <1>1, <1>2 DEF Typed, RunOK, Outcomes, Proofs, Receipts

\* A step that changes neither the runs nor the number of attempts keeps the runs in order.
LEMMA RunsKept ==
  ASSUME Typed, UNCHANGED <<run, billAttempts, current>>
  PROVE  run' \in Runs /\ RunOK' /\ current' = billAttempts'
BY DEF Typed, TypeOK, RunOK, Runs

\* A claim opens the next attempt.
LEMMA ClaimTyped == ASSUME Typed, NEW w \in Workers, NEW open \in BOOLEAN, Claim(w, open) PROVE Typed'
<1>1. PICK channel \in {"text", "template"} :
        attempt' = [attempt EXCEPT ![billAttempts + 1] = Attempt("open", "none", channel, authorized, FALSE)]
  BY DEF Claim
<1>2. billAttempts + 1 \in Attempts /\ billAttempts + 1 \in 0..MaxSends
  BY BillSendAssumption DEF BillSendAssumption, Claim, Attempts, Typed, TypeOK
<1>3. Attempt("open", "none", channel, authorized, FALSE) \in
        [outcome : Outcomes, proof : Proofs, channel : {"text", "template"}, byPerson : BOOLEAN, template : BOOLEAN]
  BY DEF Attempt, Outcomes, Proofs, Typed, TypeOK
<1>4. attempt' \in AttemptRows
  BY <1>1, <1>3 DEF AttemptRows, Typed, TypeOK
<1>5. run' = [run EXCEPT ![w] = Run("claimed", billAttempts + 1, NoResult)] /\ billAttempts' = billAttempts + 1
  BY DEF Claim
<1>6. Run("claimed", billAttempts + 1, NoResult) \in
        [pc : {"idle", "claimed", "result"}, n : 0..MaxSends,
         result : [outcome : {"none", "accepted", "not_sent", "ambiguous"}, retryable : BOOLEAN, template : BOOLEAN]]
  BY <1>2 DEF Run, NoResult, Result
<1>7. run' \in Runs
  BY <1>5, <1>6 DEF Runs, Typed, TypeOK
<1>8. RunOK'
  <2> SUFFICES ASSUME NEW v \in Workers
               PROVE  /\ run'[v].pc # "idle" => run'[v].n \in 1..billAttempts'
                      /\ run'[v].pc = "result" => run'[v].result.outcome # "none"
    BY DEF RunOK
  <2>1. CASE v = w
    BY <2>1, <1>2, <1>5 DEF Run, Typed, TypeOK, Attempts
  <2>2. CASE v # w
    BY <2>2, <1>5, <1>2 DEF Typed, TypeOK, RunOK, Attempts
  <2> QED BY <2>1, <2>2
<1>9. bill' \in Bills /\ billAttempts' \in 0..MaxSends /\ current' = billAttempts' /\ authorized' \in BOOLEAN
      /\ UNCHANGED <<billProof, base, due, held, factVars, hasWamid, messageVars, receiptVars, alerts, fate>>
  BY <1>2 DEF Claim, Bills
<1> QED BY <1>4, <1>7, <1>8, <1>9 DEF Typed, TypeOK, AttemptRows, Runs, factVars, messageVars, receiptVars

\* Meta's answer is a result, and the message has a fate.
LEMMA SendTyped == ASSUME Typed, NEW w \in Workers, Send(w) PROVE Typed'
<1>1. PICK result \in Answers(attempt[run[w].n].channel) : \E f \in FatesOf(attempt[run[w].n].channel, result.outcome) :
        /\ fate' = [fate EXCEPT ![run[w].n] = f]
        /\ run' = [run EXCEPT ![w] = Run("result", run[w].n, result)]
  BY DEF Send
<1>2. /\ result \in [outcome : {"none", "accepted", "not_sent", "ambiguous"}, retryable : BOOLEAN, template : BOOLEAN]
      /\ result.outcome # "none"
  <2>1. CASE result \in {Result(o, FALSE, FALSE) : o \in {"accepted", "ambiguous"}}
    <3>1. PICK o \in {"accepted", "ambiguous"} : result = Result(o, FALSE, FALSE)
      BY <2>1
    <3> QED BY <3>1 DEF Result
  <2>2. CASE result \in {Result("not_sent", b, FALSE) : b \in BOOLEAN}
    <3>1. PICK b \in BOOLEAN : result = Result("not_sent", b, FALSE)
      BY <2>2
    <3> QED BY <3>1 DEF Result
  <2>3. CASE result = Result("not_sent", TRUE, TRUE)
    BY <2>3 DEF Result
  <2> QED BY <1>1, <2>1, <2>2, <2>3 DEF Answers, Refusals
<1>3. fate' \in [Attempts -> Fates]
  BY <1>1 DEF FatesOf, Fates, Typed, TypeOK
<1>4. run[w].n \in 1..billAttempts /\ run[w].n \in 0..MaxSends
  BY DEF Send, Typed, TypeOK, RunOK
<1>5. run' \in Runs
  BY <1>1, <1>2, <1>4 DEF Run, Runs, Typed, TypeOK
<1>6. RunOK' /\ current' = billAttempts'
  BY <1>1, <1>2, <1>4 DEF Send, Run, RunOK, Typed, TypeOK, sourceVars
<1> QED BY <1>3, <1>5, <1>6 DEF Send, Typed, TypeOK, Runs, sourceVars, factVars, attemptVars, messageVars, receiptVars

\* A result is recorded; the repetition of a finalize that committed too.
LEMMA FinalizeTyped == ASSUME Typed, NEW w \in Workers, Finalize(w) PROVE Typed'
<1> USE DEF sourceVars, factVars, attemptVars, messageVars, receiptVars
<1>1. run[w].pc = "result" /\ Committed(w) /\ UNCHANGED <<billAttempts, current>>
  BY DEF Finalize, FinalizeAccepted, FinalizeNotAccepted, FinalizeLate, FinalizeConflict
<1>2. run' \in Runs /\ RunOK' /\ current' = billAttempts'
  BY <1>1, CommittedType DEF Typed
<1>3. run[w].n \in Attempts /\ run[w].result.template \in BOOLEAN /\ run[w].result.outcome \in Outcomes
  BY <1>1, Names DEF Typed, TypeOK, RunOK
<1>4. CASE FinalizeAccepted(w)
  <2>1. Close(run[w].n, "accepted", "accepted", FALSE) /\ Log(run[w].n, "sent")
    BY <1>4 DEF FinalizeAccepted
  <2>2. attempt' \in AttemptRows
    BY <2>1, <1>3, AttemptType, Names DEF Typed
  <2>3. message' \in Messages
    BY <2>1, MessageType, Names DEF Typed
  <2>4. bill' \in Bills /\ billProof' \in Proofs /\ hasWamid' \subseteq Attempts
    BY <1>4, <1>3 DEF FinalizeAccepted, Typed, TypeOK, Bills, Proofs
  <2>5. UNCHANGED <<billAttempts, base, current, authorized, due, held, factVars, shut, receiptVars, fate>>
    BY <1>4 DEF FinalizeAccepted
  <2> QED BY <1>2, <2>2, <2>3, <2>4, <2>5 DEF Typed, TypeOK, AttemptRows, Messages, Runs
<1>5. CASE FinalizeNotAccepted(w)
  <2>1. Close(run[w].n, run[w].result.outcome, "none", run[w].result.template)
    BY <1>5 DEF FinalizeNotAccepted
  <2>2. attempt' \in AttemptRows
    BY <2>1, <1>3, AttemptType, Names DEF Typed
  <2>3. PICK status \in {"queued", "failed"} : Log(run[w].n, status)
    BY <1>5 DEF FinalizeNotAccepted
  <2>4. message' \in Messages
    BY <2>3, MessageType, Names DEF Typed
  <2>5. bill' \in {bill, "unknown", "pending", "failed"} /\ due' \in BOOLEAN
    BY <1>5, <1>3 DEF FinalizeNotAccepted, Typed, TypeOK
  <2>6. UNCHANGED <<billProof, billAttempts, base, current, authorized, held, factVars, hasWamid, shut, receiptVars, fate>>
    BY <1>5 DEF FinalizeNotAccepted
  <2> QED BY <1>2, <2>2, <2>4, <2>5, <2>6 DEF Typed, TypeOK, AttemptRows, Messages, Runs, Bills
<1>6. CASE FinalizeLate(w)
  <2>1. PICK proof \in Proofs : Close(run[w].n, "accepted", proof, FALSE)
    BY <1>6, <1>3 DEF FinalizeLate, Proofs, Typed, TypeOK
  <2>2. attempt' \in AttemptRows
    BY <2>1, <1>3, AttemptType, Names DEF Typed
  <2>3. message' \in Messages
    BY <1>6, MessageType, Names DEF FinalizeLate, Typed
  <2>4. bill' \in Bills /\ billProof' \in Proofs /\ hasWamid' \subseteq Attempts
    BY <1>6, <1>3 DEF FinalizeLate, Typed, TypeOK, Bills, Proofs
  <2>5. UNCHANGED <<billAttempts, base, current, authorized, due, held, factVars, shut, receiptVars, fate>>
    BY <1>6 DEF FinalizeLate
  <2> QED BY <1>2, <2>2, <2>3, <2>4, <2>5 DEF Typed, TypeOK, AttemptRows, Messages, Runs
<1>7. CASE FinalizeConflict(w)
  BY <1>2, <1>7 DEF FinalizeConflict, Typed, TypeOK, Runs
<1> QED BY <1>4, <1>5, <1>6, <1>7 DEF Finalize

\* A receipt changes the message, perhaps the attempt's proof and the bill.
LEMMA ReceiptTyped ==
  ASSUME Typed, NEW n \in Attempts, NEW receipt \in Receipts, ApplyReceipt(n, receipt) PROVE Typed'
<1> USE DEF sourceVars, factVars, attemptVars, messageVars, receiptVars
<1>1. UNCHANGED <<run, billAttempts, current, base, authorized, held, factVars, hasWamid, journal, aged, fate>>
  BY DEF ApplyReceipt, ApplyProof, ApplyShut, ApplyFailed
<1>2. run' \in Runs /\ RunOK' /\ current' = billAttempts'
  BY <1>1, RunsKept
<1>3. PICK r \in Receipts : ApplyToMessage(n, r)
  BY Names DEF ApplyReceipt, ApplyProof, ApplyShut, ApplyFailed
<1>4. message' \in Messages
  BY <1>3, MessageType, Names DEF ApplyToMessage, Typed
<1>5. applied' \subseteq journal
  BY <1>3 DEF ApplyToMessage, Applicable, Typed, TypeOK
<1>6. CASE ApplyProof(n, receipt)
  <2>1. attempt' \in AttemptRows
    BY <1>6, AttemptType, Names DEF ApplyProof, Typed
  <2>2. bill' \in Bills /\ billProof' \in Proofs /\ UNCHANGED <<due, shut>>
    BY <1>6 DEF ApplyProof, Typed, TypeOK, Bills, Proofs
  <2> QED BY <1>1, <1>2, <1>4, <1>5, <2>1, <2>2 DEF Typed, TypeOK, AttemptRows, Messages, Runs
<1>7. CASE ApplyShut(n) \/ ApplyFailed(n)
  <2>1. bill' \in Bills /\ billProof' \in Proofs /\ due' \in BOOLEAN /\ attempt' = attempt
    BY <1>7 DEF ApplyShut, ApplyFailed, Typed, TypeOK, Bills, Proofs
  <2>2. shut' \subseteq Attempts
    BY <1>7 DEF ApplyShut, ApplyFailed, ShutBy, Typed, TypeOK
  <2> QED BY <1>1, <1>2, <1>4, <1>5, <2>1, <2>2 DEF Typed, TypeOK, Messages, Runs
<1> QED BY <1>6, <1>7 DEF ApplyReceipt

\* An expired claim has ended its attempt and queued its message.
LEMMA ExpireTyped == ASSUME Typed, ExpireClaim PROVE Typed'
<1>1. UNCHANGED <<run, billAttempts, current>>
  BY DEF ExpireClaim, sourceVars
<1>2. run' \in Runs /\ RunOK' /\ current' = billAttempts'
  BY <1>1, RunsKept
<1>3. attempt' \in AttemptRows
  BY AttemptType, Names DEF ExpireClaim, Expired, Typed
<1>4. message' \in Messages
  BY MessageType, Names DEF ExpireClaim, Expired, Typed
<1> QED BY <1>2, <1>3, <1>4 DEF ExpireClaim, ExpiredBill, Bills, Typed, TypeOK, AttemptRows, Messages, Runs,
                                factVars, receiptVars

\* An operator resends, composes, confirms, abandons, holds, releases or links.
LEMMA OperatorTyped == ASSUME Typed, Operator PROVE Typed'
<1> USE DEF factVars, attemptVars, messageVars, receiptVars
<1>1. UNCHANGED <<run, billAttempts, current>>
  BY DEF Operator, BillResend, BillCompose, BillConfirmSent, BillAbandon, HoldOrRelease, LinkReceipt
<1>2. run' \in Runs /\ RunOK' /\ current' = billAttempts'
  BY <1>1, RunsKept
<1>3. CASE BillResend
  BY <1>2, <1>3 DEF BillResend, Reauthorize, Typed, TypeOK, Runs, Bills
<1>4. CASE BillCompose
  BY <1>2, <1>4 DEF BillCompose, Reauthorize, Typed, TypeOK, Runs, Bills
<1>5. CASE BillConfirmSent
  <2>1. attempt' \in AttemptRows
    BY <1>5, AttemptType, Names DEF BillConfirmSent, Typed
  <2>2. message' \in Messages
    BY <1>5, MessageType, Names DEF BillConfirmSent, Typed
  <2> QED BY <1>2, <1>5, <2>1, <2>2 DEF BillConfirmSent, Typed, TypeOK, AttemptRows, Messages, Runs, Bills, Proofs
<1>6. CASE BillAbandon
  BY <1>2, <1>6 DEF BillAbandon, Typed, TypeOK, Runs, Bills
<1>7. CASE HoldOrRelease
  BY <1>2, <1>7 DEF HoldOrRelease, Typed, TypeOK, Runs
<1>8. ASSUME NEW n \in Attempts, LinkReceipt(n) PROVE Typed'
  <2>1. attempt' \in AttemptRows
    BY <1>8, AttemptType, Names DEF LinkReceipt, Typed
  <2>2. message' \in Messages
    BY <1>8, MessageType, Names DEF LinkReceipt, Typed
  <2>3. bill' \in Bills /\ billProof' \in Proofs /\ hasWamid' \subseteq Attempts
        /\ UNCHANGED <<billAttempts, base, current, authorized, due, held, factVars, shut, receiptVars, fate>>
    BY <1>8 DEF LinkReceipt, Typed, TypeOK, Bills, Proofs
  <2> QED BY <1>2, <2>1, <2>2, <2>3 DEF Typed, TypeOK, AttemptRows, Messages, Runs
<1> QED BY <1>3, <1>4, <1>5, <1>6, <1>7, <1>8 DEF Operator

\* Every step keeps the types, and every busy run has an attempt.
LEMMA TypedStep == ASSUME Typed, [Next]_vars PROVE Typed'
<1> USE DEF sourceVars, factVars, attemptVars, messageVars, receiptVars
<1>1. CASE ClaimPriorLog
  BY <1>1 DEF ClaimPriorLog, Typed, TypeOK, RunOK, Bills, Proofs
<1>2. CASE ClaimCancelled
  BY <1>2 DEF ClaimCancelled, Typed, TypeOK, RunOK, Bills
<1>3. CASE ClaimStale
  BY <1>3 DEF ClaimStale, Typed, TypeOK, RunOK, Bills
<1>4. ASSUME NEW w \in Workers, Crash(w) PROVE Typed'
  BY <1>4, BillSendAssumption DEF BillSendAssumption, Crash, Idle, Run, NoResult, Result, Typed, TypeOK, RunOK
<1>5. ASSUME NEW n \in Attempts, AlertUnlinked(n) PROVE Typed'
  BY <1>5 DEF AlertUnlinked, Typed, TypeOK, RunOK
<1>6. CASE BackoffElapses
  BY <1>6 DEF BackoffElapses, Typed, TypeOK, RunOK
<1>7. CASE FactsChange
  BY <1>7 DEF FactsChange, Typed, TypeOK, RunOK
<1>8. ASSUME NEW n \in Attempts, NEW receipt \in Receipts, Journal(n, receipt) PROVE Typed'
  BY <1>8 DEF Journal, Typed, TypeOK, RunOK
<1>9. CASE ReceiptsAge
  BY <1>9 DEF ReceiptsAge, Typed, TypeOK, RunOK
<1>10. CASE UNCHANGED vars
  BY <1>10 DEF vars, Typed, TypeOK, RunOK
<1> QED BY <1>1, <1>2, <1>3, <1>4, <1>5, <1>6, <1>7, <1>8, <1>9, <1>10, ClaimTyped, SendTyped, FinalizeTyped, ReceiptTyped,
           ExpireTyped, OperatorTyped DEF Next, ClaimOrClose, Sweep, ReplaySwept, ReplayOne, World

\* Every column, attempt, message, receipt and run keeps its type.
THEOREM BillTypeCorrect == Spec => []TypeOK
<1>1. Typed => TypeOK
  BY DEF Typed
<1> QED BY TypedInit, TypedStep, <1>1, PTL DEF Spec

\* A bill becomes pending by an authorization, which starts a new budget, or while some is left.
LEMMA BudgetStep == ASSUME Typed, BillBudget, [Next]_vars PROVE BillBudget'
<1> USE DEF sourceVars
<1>1. CASE UNCHANGED <<billAttempts, base>> /\ (bill' = "pending" => bill = "pending" \/ BudgetLeft)
  BY <1>1 DEF BillBudget, Used, BudgetLeft
<1>2. CASE Reauthorize /\ UNCHANGED billAttempts
  BY <1>2, BillSendAssumption DEF BillSendAssumption, Reauthorize, BillBudget, Used, Typed, TypeOK
<1>3. ASSUME NEW w \in Workers, NEW open \in BOOLEAN, Claim(w, open) PROVE BillBudget'
  BY <1>3, BillSendAssumption DEF BillSendAssumption, Claim, Claimable, BillBudget, Used, Typed, TypeOK
<1>4. ClaimPriorLog \/ ClaimCancelled \/ ClaimStale => BillBudget'
  BY <1>1 DEF ClaimPriorLog, ClaimCancelled, ClaimStale
<1>5. ASSUME NEW w \in Workers, Finalize(w) PROVE BillBudget'
  <2>1. FinalizeNotAccepted(w) => BillBudget'
    BY <1>1 DEF FinalizeNotAccepted
  <2>2. FinalizeAccepted(w) \/ FinalizeLate(w) \/ FinalizeConflict(w) => BillBudget'
    BY <1>1 DEF FinalizeAccepted, FinalizeLate, FinalizeConflict
  <2> QED BY <1>5, <2>1, <2>2 DEF Finalize
<1>6. ASSUME NEW w \in Workers, Send(w) \/ Crash(w) PROVE BillBudget'
  BY <1>1, <1>6 DEF Send, Crash
<1>7. ASSUME NEW n \in Attempts, NEW receipt \in Receipts, ApplyReceipt(n, receipt) PROVE BillBudget'
  <2>1. ApplyProof(n, receipt) => BillBudget'
    BY <1>1 DEF ApplyProof
  <2>2. ApplyShut(n) => BillBudget'
    BY <1>1 DEF ApplyShut
  <2>3. ApplyFailed(n) => BillBudget'
    BY <1>1 DEF ApplyFailed
  <2> QED BY <1>7, <2>1, <2>2, <2>3 DEF ApplyReceipt
<1>8. ExpireClaim => BillBudget'
  BY <1>1 DEF ExpireClaim, ExpiredBill
<1>9. ASSUME NEW n \in Attempts, AlertUnlinked(n) \/ LinkReceipt(n) PROVE BillBudget'
  BY <1>1, <1>9 DEF AlertUnlinked, LinkReceipt
<1>10. Operator => BillBudget'
  BY <1>1, <1>2, <1>9 DEF Operator, BillResend, BillCompose, BillConfirmSent, BillAbandon, HoldOrRelease
<1>11. World \/ UNCHANGED vars => BillBudget'
  BY <1>1 DEF World, BackoffElapses, FactsChange, Journal, ReceiptsAge, vars
<1> QED BY <1>3, <1>4, <1>5, <1>6, <1>7, <1>8, <1>9, <1>10, <1>11 DEF Next, ClaimOrClose, Sweep, ReplaySwept, ReplayOne

\* No authorization pays for more than GROCERY_BILL_MAX_ATTEMPTS attempts: a
\* pending bill, which may be claimed at once, always has one of them left.
THEOREM BillBudgetHolds == Spec => []BillBudget
<1>1. Init => BillBudget
  BY BillSendAssumption DEF BillSendAssumption, Init, BillBudget, Used
<1> QED BY TypedInit, TypedStep, <1>1, BudgetStep, PTL DEF Spec

\* OneInFlight, and: what has no outcome yet has no proof.
InFlight == OneInFlight /\ \A n \in Attempts : attempt[n].outcome \in {"unclaimed", "open"} => attempt[n].proof = "none"

\* A step that leaves the attempts, their messages and the bill's being in flight alone.
LEMMA InFlightKept ==
  ASSUME InFlight, UNCHANGED <<attempt, hasWamid, message, billAttempts, current>>, bill' = "sending" <=> bill = "sending"
  PROVE  InFlight'
BY DEF InFlight, OneInFlight

\* Nothing but attempt n and its message changes.
Only(n) == /\ \A m \in Attempts \ {n} : attempt'[m] = attempt[m] /\ message'[m] = message[m]
           /\ hasWamid' \in {hasWamid, hasWamid \cup {n}}
           /\ UNCHANGED <<billAttempts, current>>

\* A step that leaves attempt n with an outcome and a message.
LEMMA InFlightClosed ==
  ASSUME Typed, InFlight, NEW n \in Attempts, Only(n),
         attempt[n].outcome # "unclaimed", attempt'[n].outcome \notin {"unclaimed", "open"}, message'[n] # "none",
         n \in hasWamid' /\ attempt'[n].outcome # "accepted" => attempt'[n].proof = "receipt",
         bill' = "sending" <=> bill = "sending" /\ current # n
  PROVE  InFlight'
<1> SUFFICES ASSUME NEW m \in Attempts
             PROVE  /\ attempt'[m].outcome = "open" <=> bill' = "sending" /\ current' = m
                    /\ attempt'[m].outcome = "unclaimed" <=> m > billAttempts'
                    /\ message'[m] = "none" <=> attempt'[m].outcome \in {"unclaimed", "open"}
                    /\ m \in hasWamid' /\ attempt'[m].outcome # "accepted" => attempt'[m].proof = "receipt"
                    /\ attempt'[m].outcome \in {"unclaimed", "open"} => attempt'[m].proof = "none"
  BY DEF InFlight, OneInFlight
<1>1. CASE m = n
  BY <1>1 DEF Only, InFlight, OneInFlight
<1>2. CASE m # n
  BY <1>2 DEF Only, InFlight, OneInFlight
<1> QED BY <1>1, <1>2

\* Closing an attempt changes that one only.
LEMMA Closed ==
  ASSUME Typed, NEW n \in Attempts, NEW outcome, NEW proof, NEW template, Close(n, outcome, proof, template)
  PROVE  /\ \A m \in Attempts \ {n} : attempt'[m] = attempt[m]
         /\ attempt'[n].outcome = outcome /\ attempt'[n].proof = proof
BY DEF Close, Attempt, Typed, TypeOK

\* A proof changes one attempt only, and not its outcome.
LEMMA Proven ==
  ASSUME Typed, NEW n \in Attempts, NEW proof, Prove(n, proof)
  PROVE  /\ \A m \in Attempts \ {n} : attempt'[m] = attempt[m]
         /\ attempt'[n].outcome = attempt[n].outcome
         /\ attempt'[n].proof = IF attempt[n].proof = "none" THEN proof ELSE attempt[n].proof
BY DEF Prove, Attempt, Typed, TypeOK

\* Logging a message, or marking it sent, gives it a row and changes no other.
LEMMA Logged ==
  ASSUME Typed, NEW n \in Attempts, MarkSent(n) \/ Log(n, "sent") \/ Log(n, "queued") \/ Log(n, "failed")
  PROVE  /\ \A m \in Attempts \ {n} : message'[m] = message[m]
         /\ message'[n] # "none"
<1>1. CASE MarkSent(n)
  BY <1>1 DEF MarkSent, Typed, TypeOK, Receipts, Rank
<1>2. CASE Log(n, "sent") \/ Log(n, "queued") \/ Log(n, "failed")
  BY <1>2 DEF Log, Typed, TypeOK, Receipts
<1> QED BY <1>1, <1>2

\* A receipt advances one message only, and does not remove its row.
LEMMA Advanced ==
  ASSUME Typed, NEW n \in Attempts, NEW receipt \in Receipts, Advance(n, receipt)
  PROVE  /\ \A m \in Attempts \ {n} : message'[m] = message[m]
         /\ message[n] # "none" => message'[n] # "none"
BY DEF Advance, Typed, TypeOK, Receipts

\* The claim opens the next attempt while no other is open.
LEMMA InFlightClaim ==
  ASSUME Typed, InFlight, NEW w \in Workers, NEW open \in BOOLEAN, Claim(w, open) PROVE InFlight'
<1> DEFINE n == billAttempts + 1
<1>1. n \in Attempts
  BY BillSendAssumption DEF BillSendAssumption, Claim, Attempts, Typed, TypeOK
<1>2. attempt'[n].outcome = "open" /\ attempt'[n].proof = "none" /\ \A m \in Attempts \ {n} : attempt'[m] = attempt[m]
  BY <1>1 DEF Claim, Attempt, Typed, TypeOK
<1>3. bill # "sending" /\ bill' = "sending" /\ current' = n /\ billAttempts' = n /\ UNCHANGED <<message, hasWamid>>
  BY DEF Claim, Claimable, messageVars
<1>4. attempt[n].outcome = "unclaimed" /\ message[n] = "none" /\ n \notin hasWamid
  BY <1>1 DEF InFlight, OneInFlight, Typed, TypeOK
<1> SUFFICES ASSUME NEW m \in Attempts
             PROVE  /\ attempt'[m].outcome = "open" <=> bill' = "sending" /\ current' = m
                    /\ attempt'[m].outcome = "unclaimed" <=> m > billAttempts'
                    /\ message'[m] = "none" <=> attempt'[m].outcome \in {"unclaimed", "open"}
                    /\ m \in hasWamid' /\ attempt'[m].outcome # "accepted" => attempt'[m].proof = "receipt"
                    /\ attempt'[m].outcome \in {"unclaimed", "open"} => attempt'[m].proof = "none"
  BY DEF InFlight, OneInFlight
<1>5. CASE m = n
  BY <1>2, <1>3, <1>4, <1>5 DEF Typed, TypeOK
<1>6. CASE m # n
  <2>1. m > n <=> m > billAttempts
    BY <1>1, <1>6, BillSendAssumption DEF BillSendAssumption, Typed, TypeOK, Attempts
  <2> QED BY <1>2, <1>3, <1>6, <2>1 DEF InFlight, OneInFlight
<1> QED BY <1>5, <1>6

\* A result that is recorded closes the run's attempt, or changes none.
LEMMA InFlightFinalize ==
  ASSUME Typed, InFlight, NEW w \in Workers, Finalize(w) PROVE InFlight'
<1> DEFINE n == run[w].n
<1>1. n \in Attempts /\ UNCHANGED <<billAttempts, current>>
  BY Names DEF Finalize, FinalizeAccepted, FinalizeNotAccepted, FinalizeLate, FinalizeConflict, sourceVars
<1>2. CASE FinalizeAccepted(w)
  <2>1. Close(n, "accepted", "accepted", FALSE) /\ Log(n, "sent") /\ attempt[n].outcome = "open"
        /\ hasWamid' = hasWamid \cup {n}
    BY <1>2 DEF FinalizeAccepted
  <2>2. bill = "sending" /\ current = n /\ bill' # "sending"
    BY <1>1, <1>2, <2>1 DEF FinalizeAccepted, SendingThis, InFlight, OneInFlight
  <2> HIDE DEF n
  <2>3. attempt'[n].outcome = "accepted" /\ \A m \in Attempts \ {n} : attempt'[m] = attempt[m]
    BY <1>1, <2>1, Closed
  <2>4. message'[n] # "none" /\ \A m \in Attempts \ {n} : message'[m] = message[m]
    BY <1>1, <2>1, Logged
  <2>5. Only(n)
    BY <1>1, <2>1, <2>3, <2>4 DEF Only
  <2> QED BY <1>1, <2>1, <2>2, <2>3, <2>4, <2>5, InFlightClosed
<1>3. CASE FinalizeNotAccepted(w)
  <2>1. Close(n, run[w].result.outcome, "none", run[w].result.template) /\ attempt[n].outcome = "open"
        /\ run[w].result.outcome \in {"not_sent", "ambiguous"} /\ hasWamid' = hasWamid
    BY <1>3 DEF FinalizeNotAccepted, Accepted, Typed, TypeOK, RunOK
  <2>2. PICK status \in {"queued", "failed"} : Log(n, status)
    BY <1>3 DEF FinalizeNotAccepted
  <2>3. bill = "sending" /\ current = n /\ n \notin hasWamid
    BY <1>1, <2>1 DEF InFlight, OneInFlight
  <2>4. bill' # "sending"
    BY <1>3, <2>3 DEF FinalizeNotAccepted, SendingThis
  <2> HIDE DEF n
  <2>5. attempt'[n].outcome \in {"not_sent", "ambiguous"} /\ \A m \in Attempts \ {n} : attempt'[m] = attempt[m]
    BY <1>1, <2>1, Closed
  <2>6. message'[n] # "none" /\ \A m \in Attempts \ {n} : message'[m] = message[m]
    BY <1>1, <2>2, Logged
  <2>7. Only(n)
    BY <1>1, <2>1, <2>5, <2>6 DEF Only
  <2> QED BY <1>1, <2>1, <2>3, <2>4, <2>5, <2>6, <2>7, InFlightClosed
<1>4. CASE FinalizeLate(w)
  <2>1. PICK proof : Close(n, "accepted", proof, FALSE)
    BY <1>4 DEF FinalizeLate
  <2>2. MarkSent(n) /\ attempt[n].outcome \in NeverKnown /\ hasWamid' = hasWamid \cup {n}
    BY <1>4 DEF FinalizeLate
  <2>3. bill' = "sending" <=> bill = "sending" /\ current # n
    BY <1>1, <1>4, <2>2 DEF FinalizeLate, NeverKnown, InFlight, OneInFlight
  <2> HIDE DEF n
  <2>4. attempt'[n].outcome = "accepted" /\ \A m \in Attempts \ {n} : attempt'[m] = attempt[m]
    BY <1>1, <2>1, Closed
  <2>5. message'[n] # "none" /\ \A m \in Attempts \ {n} : message'[m] = message[m]
    BY <1>1, <2>2, Logged
  <2>6. Only(n)
    BY <1>1, <2>2, <2>4, <2>5 DEF Only
  <2> QED BY <1>1, <2>2, <2>3, <2>4, <2>5, <2>6, InFlightClosed DEF NeverKnown
<1>5. CASE FinalizeConflict(w)
  BY <1>5, InFlightKept DEF FinalizeConflict, sourceVars, attemptVars, messageVars
<1> QED BY <1>2, <1>3, <1>4, <1>5 DEF Finalize

\* The expiry closes the attempt in flight.
LEMMA InFlightExpire == ASSUME Typed, InFlight, ExpireClaim PROVE InFlight'
<1>1. Close(current, "claim_expired", "none", FALSE) /\ Log(current, "queued") /\ attempt[current].outcome = "open"
      /\ bill = "sending" /\ bill' = "unknown" /\ UNCHANGED <<billAttempts, current, hasWamid>>
  BY DEF ExpireClaim, Expirable, Expired, ExpiredBill
<1>2. CASE current \in Attempts
  <2>1. /\ attempt'[current].outcome = "claim_expired"
        /\ \A m \in Attempts \ {current} : attempt'[m] = attempt[m]
    BY <1>1, <1>2, Closed
  <2>2. message'[current] # "none" /\ \A m \in Attempts \ {current} : message'[m] = message[m]
    BY <1>1, <1>2, Logged
  <2>3. Only(current)
    BY <1>1, <2>1, <2>2 DEF Only
  <2>4. current \notin hasWamid
    BY <1>1, <1>2 DEF InFlight, OneInFlight
  <2> QED BY <1>1, <1>2, <2>1, <2>2, <2>3, <2>4, InFlightClosed
<1>3. CASE current \notin Attempts
  <2>1. UNCHANGED <<attempt, message>>
    BY <1>1, <1>3 DEF Close, Log, Typed, TypeOK
  <2> QED BY <1>1, <1>3, <2>1 DEF InFlight, OneInFlight
<1> QED BY <1>2, <1>3

\* A proof of an attempt that was closed, with its message: a receipt, a link or a person's word.
LEMMA InFlightProven ==
  ASSUME Typed, InFlight, NEW n \in Attempts, NEW proof \in Proofs, NEW receipt \in Receipts,
         Prove(n, proof), MarkSent(n) \/ Advance(n, receipt), UNCHANGED <<billAttempts, current>>,
         attempt[n].outcome \notin {"unclaimed", "open"},
         \/ hasWamid' = hasWamid
         \/ hasWamid' = hasWamid \cup {n} /\ proof = "receipt" /\ attempt[n].proof = "none",
         bill' = "sending" <=> bill = "sending"
  PROVE  InFlight'
<1>1. message[n] # "none" /\ ~(bill = "sending" /\ current = n)
  BY DEF InFlight, OneInFlight
<1>2. Only(n) /\ message'[n] # "none" /\ attempt'[n].outcome = attempt[n].outcome
  BY <1>1, Proven, Logged, Advanced DEF Only
<1>3. n \in hasWamid' /\ attempt'[n].outcome # "accepted" => attempt'[n].proof = "receipt"
  BY Proven DEF InFlight, OneInFlight
<1> QED BY <1>1, <1>2, <1>3, InFlightClosed

\* A receipt applied changes the message, and may prove the attempt.
LEMMA InFlightReceipt ==
  ASSUME Typed, InFlight, NEW n \in Attempts, NEW receipt \in Receipts, ApplyReceipt(n, receipt) PROVE InFlight'
<1>1. n \in hasWamid /\ attempt[n].outcome \notin {"unclaimed", "open"} /\ message[n] # "none"
  BY DEF ApplyReceipt, ApplyProof, ApplyShut, ApplyFailed, ApplyToMessage, Applicable, InFlight, OneInFlight
<1>2. CASE ApplyProof(n, receipt)
  <2>1. /\ Prove(n, "receipt") /\ Advance(n, receipt) /\ UNCHANGED <<billAttempts, current, hasWamid>>
        /\ bill' = "sending" <=> bill = "sending"
    BY <1>2 DEF ApplyProof, ApplyToMessage
  <2> QED BY <1>1, <2>1, InFlightProven, Names
<1>3. CASE ApplyShut(n) \/ ApplyFailed(n)
  <2>1. /\ Advance(n, "failed") /\ UNCHANGED <<attempt, billAttempts, current, hasWamid>>
        /\ bill' = "sending" <=> bill = "sending"
    BY <1>3 DEF ApplyShut, ApplyFailed, ApplyToMessage, RetryShut, attemptVars, sourceVars
  <2>2. Only(n) /\ message'[n] # "none"
    BY <1>1, <2>1, Advanced, Names DEF Only
  <2>3. ~(bill = "sending" /\ current = n) /\ (attempt[n].outcome # "accepted" => attempt[n].proof = "receipt")
    BY <1>1 DEF InFlight, OneInFlight
  <2> QED BY <1>1, <2>1, <2>2, <2>3, InFlightClosed
<1> QED BY <1>2, <1>3 DEF ApplyReceipt

\* The operator proves a closed attempt, or leaves the attempts alone.
LEMMA InFlightOperator == ASSUME Typed, InFlight, Operator PROVE InFlight'
<1>1. CASE BillResend \/ BillCompose \/ BillAbandon \/ HoldOrRelease
  BY <1>1, InFlightKept DEF BillResend, BillCompose, BillAbandon, HoldOrRelease, Reauthorize, attemptVars, messageVars
<1>2. CASE BillConfirmSent
  <2>1. /\ Prove(current, "operator") /\ MarkSent(current) /\ UNCHANGED <<billAttempts, current, hasWamid>>
        /\ bill = "unknown" /\ bill' = "sent"
    BY <1>2 DEF BillConfirmSent
  <2>2. CASE current \in Attempts
    <3>1. attempt[current].outcome \notin {"unclaimed", "open"}
      BY <2>1, <2>2 DEF InFlight, OneInFlight, Typed, TypeOK
    <3> QED BY <2>1, <2>2, <3>1, InFlightProven, Names
  <2>3. CASE current \notin Attempts
    <3>1. UNCHANGED <<attempt, message>>
      BY <2>1, <2>3 DEF Prove, MarkSent, Typed, TypeOK
    <3> QED BY <2>1, <3>1, InFlightKept
  <2> QED BY <2>2, <2>3
<1>3. ASSUME NEW n \in Attempts, LinkReceipt(n) PROVE InFlight'
  <2>1. /\ Prove(n, "receipt") /\ MarkSent(n) /\ UNCHANGED <<billAttempts, current>> /\ hasWamid' = hasWamid \cup {n}
        /\ attempt[n].outcome \notin {"unclaimed", "open"} /\ attempt[n].proof = "none"
        /\ bill' = "sending" <=> bill = "sending"
    BY <1>3 DEF LinkReceipt, Candidate, NeverKnown
  <2>2. "receipt" \in Proofs /\ "sent" \in Receipts
    BY DEF Proofs, Receipts
  <2> QED BY <2>1, <2>2, InFlightProven
<1> QED BY <1>1, <1>2, <1>3 DEF Operator

\* Every step keeps at most one attempt in flight, the bill's own.
LEMMA InFlightStep == ASSUME Typed, InFlight, [Next]_vars PROVE InFlight'
<1>1. CASE ClaimPriorLog \/ ClaimCancelled \/ ClaimStale
  BY <1>1, InFlightKept DEF ClaimPriorLog, ClaimCancelled, ClaimStale, Claimable, attemptVars, messageVars
<1>2. ASSUME NEW w \in Workers, Send(w) \/ Crash(w) PROVE InFlight'
  BY <1>2, InFlightKept DEF Send, Crash, sourceVars, attemptVars, messageVars
<1>3. ASSUME NEW n \in Attempts, AlertUnlinked(n) PROVE InFlight'
  BY <1>3, InFlightKept DEF AlertUnlinked, sourceVars, attemptVars, messageVars
<1>4. CASE World \/ UNCHANGED vars
  BY <1>4, InFlightKept DEF World, BackoffElapses, FactsChange, Journal, ReceiptsAge, vars, sourceVars, attemptVars, messageVars
<1> QED BY <1>1, <1>2, <1>3, <1>4, InFlightClaim, InFlightFinalize, InFlightExpire, InFlightReceipt, InFlightOperator
        DEF Next, ClaimOrClose, Sweep, ReplaySwept, ReplayOne

\* The bill is in 'sending' exactly while its current attempt has no outcome,
\* no other attempt is open, and each closed attempt has its message row.
THEOREM OneInFlightHolds == Spec => []OneInFlight
<1>1. Init => InFlight
  BY BillSendAssumption DEF BillSendAssumption, Init, InFlight, OneInFlight, Unclaimed, Attempt, Attempts
<1>2. InFlight => OneInFlight
  BY DEF InFlight
<1> QED BY TypedInit, TypedStep, <1>1, <1>2, InFlightStep, PTL DEF Spec

\* Two runs never have the same attempt in their hands.
Own == \A v, w \in Workers : v # w /\ run[v].pc # "idle" /\ run[w].pc # "idle" => run[v].n # run[w].n

\* A message that is not sent yet, or was not sent, has no fate.
FateKnown == /\ \A n \in Attempts : fate[n] # "none" => n <= billAttempts
             /\ \A w \in Workers : run[w].pc = "claimed" \/ (run[w].pc = "result" /\ run[w].result.outcome = "not_sent")
                                     => fate[run[w].n] = "none"

\* The bill of attempt m reached the customer, or still may.
Maybe(m) == fate[m] = "taken" \/ \E w \in Workers : run[w].pc = "claimed" /\ run[w].n = m

\* A person authorized an attempt after m, up to n.
ByPerson(m, n) == \E k \in Attempts : m < k /\ k <= n /\ attempt[k].byPerson

\* After a bill that may have gone out, only a person starts another ...
Authorised == \A m, n \in Attempts : m < n /\ n <= billAttempts /\ Maybe(m) => ByPerson(m, n)

\* ... and so a bill waits to be sent again without a person's word only if none may have gone out since the last.
MayGo == \A m \in Attempts : m <= billAttempts /\ Maybe(m) => ByPerson(m, billAttempts)
Waiting == bill = "pending" /\ ~authorized => MayGo

Once == Own /\ FateKnown /\ Authorised /\ Waiting

\* No attempt forgets who authorized it.
SamePersons == \A k \in Attempts : attempt'[k].byPerson = attempt[k].byPerson

\* An outcome or a proof does not change who authorized an attempt.
LEMMA PersonsKept ==
  ASSUME Typed, NEW n, NEW outcome, NEW proof, NEW template, Close(n, outcome, proof, template) \/ Prove(n, proof)
  PROVE  SamePersons
<1>1. CASE Close(n, outcome, proof, template)
  BY <1>1 DEF Close, Attempt, SamePersons, Typed, TypeOK
<1>2. CASE Prove(n, proof)
  BY <1>2 DEF Prove, Attempt, SamePersons, Typed, TypeOK
<1> QED BY <1>1, <1>2

\* A step that neither claims nor sends, and starts no new wait that a person did not start.
LEMMA OnceKept ==
  ASSUME Typed, Once, UNCHANGED <<fate, billAttempts>>, SamePersons,
         \A w \in Workers : run'[w] \in {run[w], Idle},
         bill' = "pending" /\ ~authorized' => (bill = "pending" /\ ~authorized) \/ MayGo
  PROVE  Once'
<1>1. \A w \in Workers : run'[w].pc # "idle" => run'[w] = run[w]
  BY IdleType
<1>2. \A m : Maybe(m)' => Maybe(m)
  BY <1>1 DEF Maybe
<1>3. \A m, n : ByPerson(m, n) => \E k \in Attempts : m < k /\ k <= n /\ attempt'[k].byPerson
  BY DEF ByPerson, SamePersons
<1>4. Own'
  BY <1>1 DEF Own, Once
<1>5. FateKnown'
  BY <1>1 DEF FateKnown, Once
<1>6. Authorised'
  BY <1>2, <1>3 DEF Authorised, ByPerson, Once
<1>7. Waiting'
  BY <1>2, <1>3 DEF Waiting, MayGo, ByPerson, Once
<1> QED BY <1>4, <1>5, <1>6, <1>7 DEF Once

\* The claim needs a person's word, or no earlier bill may have gone out since the last.
LEMMA OnceClaim == ASSUME Typed, Once, NEW w \in Workers, NEW open \in BOOLEAN, Claim(w, open) PROVE Once'
<1> DEFINE n == billAttempts + 1
<1>1. n \in Attempts /\ billAttempts' = n /\ billAttempts \in Nat
  BY BillSendAssumption DEF BillSendAssumption, Claim, Attempts, Typed, TypeOK
<1>2. run' = [run EXCEPT ![w] = Run("claimed", n, NoResult)] /\ fate' = fate /\ bill = "pending" /\ bill' = "sending"
  BY DEF Claim, Claimable
<1>3. attempt'[n].byPerson = authorized /\ \A k \in Attempts \ {n} : attempt'[k].byPerson = attempt[k].byPerson
  BY <1>1 DEF Claim, Attempt, Typed, TypeOK
<1>4. run'[w].pc = "claimed" /\ run'[w].n = n /\ \A v \in Workers \ {w} : run'[v] = run[v]
  BY <1>2 DEF Run, Typed, TypeOK
<1>5. fate[n] = "none"
  BY <1>1 DEF FateKnown, Once, Typed, TypeOK
<1>6. \A v \in Workers : run[v].pc # "idle" => run[v].n \in Nat /\ run[v].n < n
  BY <1>1 DEF Typed, RunOK
<1>7. Own'
  BY <1>4, <1>6 DEF Own, Once
<1>8. FateKnown'
  <2>1. \A m \in Attempts : fate'[m] # "none" => m <= n
    BY <1>1, <1>2, BillSendAssumption DEF BillSendAssumption, Attempts, FateKnown, Once
  <2> QED BY <1>1, <1>2, <1>4, <1>5, <2>1 DEF FateKnown, Once
<1>9. \A m \in Attempts : Maybe(m)' => Maybe(m) \/ m = n
  BY <1>2, <1>4 DEF Maybe
<1>10. Authorised'
  <2> HIDE DEF n
  <2> SUFFICES ASSUME NEW m \in Attempts, NEW k \in Attempts, m < k, k <= n, Maybe(m)' PROVE ByPerson(m, k)'
    BY <1>1 DEF Authorised
  <2>1. m \in Nat /\ k \in Nat /\ n \in Nat
    BY <1>1, BillSendAssumption DEF BillSendAssumption, Attempts
  <2>2. Maybe(m)
    BY <1>9, <2>1
  <2>3. \A i, j \in Attempts : j < n /\ ByPerson(i, j) => ByPerson(i, j)'
    BY <1>1, <1>3, BillSendAssumption DEF BillSendAssumption, Attempts, ByPerson
  <2>4. CASE k < n
    <3>1. ByPerson(m, k)
      BY <1>1, <2>1, <2>2, <2>4 DEF Authorised, Once, n
    <3> QED BY <2>3, <2>4, <3>1
  <2>5. CASE k = n /\ authorized
    BY <1>1, <1>3, <2>1, <2>5 DEF ByPerson
  <2>6. CASE k = n /\ ~authorized
    <3>1. PICK i \in Attempts : m < i /\ i <= billAttempts /\ attempt[i].byPerson
      BY <1>1, <1>2, <2>1, <2>2, <2>6 DEF Waiting, MayGo, ByPerson, Once, n
    <3>2. i # n /\ i <= n
      BY <1>1, <3>1, BillSendAssumption DEF BillSendAssumption, Attempts, n
    <3> QED BY <1>3, <2>6, <3>1, <3>2 DEF ByPerson
  <2> QED BY <2>1, <2>4, <2>5, <2>6 DEF Typed, TypeOK
<1> QED BY <1>2, <1>7, <1>8, <1>10 DEF Once, Waiting

\* The message goes out, or not, in the hands of the only run that has it.
LEMMA OnceSend == ASSUME Typed, Once, NEW w \in Workers, Send(w) PROVE Once'
<1> DEFINE n == run[w].n
<1>1. PICK result \in Answers(attempt[n].channel) : \E f \in FatesOf(attempt[n].channel, result.outcome) :
        /\ fate' = [fate EXCEPT ![n] = f]
        /\ run' = [run EXCEPT ![w] = Run("result", n, result)]
  BY DEF Send
<1>2. run[w].pc = "claimed" /\ n \in Attempts /\ n <= billAttempts
      /\ UNCHANGED <<bill, authorized, billAttempts, attempt>>
  BY Names, BillSendAssumption DEF Send, sourceVars, attemptVars, Typed, RunOK
<1>3. PICK f \in FatesOf(attempt[n].channel, result.outcome) : fate' = [fate EXCEPT ![n] = f]
  BY <1>1
<1> HIDE DEF n
<1>4. fate'[n] = f /\ \A m \in Attempts \ {n} : fate'[m] = fate[m]
  BY <1>2, <1>3 DEF Typed, TypeOK
<1>5. result.outcome = "not_sent" => f = "none"
  BY <1>3 DEF FatesOf
<1>6. run'[w].pc = "result" /\ run'[w].n = n /\ run'[w].result = result /\ \A v \in Workers \ {w} : run'[v] = run[v]
  BY <1>1 DEF Run, Typed, TypeOK
<1>7. \A v \in Workers \ {w} : run[v].pc # "idle" => run[v].n # n /\ run[v].n \in Attempts
  BY <1>2, Names DEF Own, Once, n
<1>8. Own'
  BY <1>2, <1>6, <1>7 DEF Own, Once
<1>9. FateKnown'
  <2>1. \A m \in Attempts : fate'[m] # "none" => m <= billAttempts
    BY <1>2, <1>4 DEF FateKnown, Once
  <2>2. ASSUME NEW v \in Workers,
               run'[v].pc = "claimed" \/ (run'[v].pc = "result" /\ run'[v].result.outcome = "not_sent")
        PROVE  fate'[run'[v].n] = "none"
    <3>1. CASE v = w
      BY <1>4, <1>5, <1>6, <2>2, <3>1
    <3>2. CASE v # w
      BY <1>4, <1>6, <1>7, <2>2, <3>2 DEF FateKnown, Once
    <3> QED BY <3>1, <3>2
  <2> QED BY <1>2, <2>1, <2>2 DEF FateKnown
<1>10. \A m \in Attempts : Maybe(m)' => Maybe(m)
  <2> SUFFICES ASSUME NEW m \in Attempts, Maybe(m)' PROVE Maybe(m)
    OBVIOUS
  <2>1. CASE m = n
    BY <1>2, <2>1 DEF Maybe, n
  <2>2. CASE m # n
    BY <1>4, <1>6, <2>2 DEF Maybe
  <2> QED BY <2>1, <2>2
<1>11. Authorised' /\ Waiting'
  BY <1>2, <1>10 DEF Authorised, Waiting, MayGo, ByPerson, Once
<1> QED BY <1>8, <1>9, <1>11 DEF Once

\* Where the last attempt did not reach the customer and never will, the next may go.
LEMMA NextMayGo ==
  ASSUME Typed, Once, NEW n \in Attempts, n = billAttempts, ~Maybe(n) PROVE MayGo
<1> SUFFICES ASSUME NEW m \in Attempts, m <= billAttempts, Maybe(m) PROVE ByPerson(m, billAttempts)
  BY DEF MayGo
<1>1. m < n /\ n <= billAttempts
  BY BillSendAssumption DEF BillSendAssumption, Attempts, Typed, TypeOK
<1> QED BY <1>1 DEF Authorised, Once

\* A result that is recorded makes the bill wait again only if nothing was sent.
LEMMA OnceFinalize == ASSUME Typed, InFlight, Once, NEW w \in Workers, Finalize(w) PROVE Once'
<1> DEFINE n == run[w].n
<1>1. /\ run[w].pc = "result" /\ n \in Attempts /\ UNCHANGED <<fate, billAttempts>>
      /\ \A v \in Workers : run'[v] \in {run[v], Idle}
  BY Names DEF Finalize, FinalizeAccepted, FinalizeNotAccepted, FinalizeLate, FinalizeConflict, Committed, sourceVars,
               Typed, TypeOK
<1>2. CASE FinalizeAccepted(w)
  <2>1. SamePersons
    BY <1>2, PersonsKept DEF FinalizeAccepted
  <2>2. bill' = "pending" /\ ~authorized' => bill = "pending" /\ ~authorized
    BY <1>2 DEF FinalizeAccepted
  <2> QED BY <1>1, <2>1, <2>2, OnceKept
<1>3. CASE FinalizeNotAccepted(w)
  <2>1. SamePersons
    BY <1>3, PersonsKept DEF FinalizeNotAccepted
  <2>2. run[w].result.outcome \in {"not_sent", "ambiguous"} /\ attempt[n].outcome = "open"
    BY <1>1, <1>3 DEF FinalizeNotAccepted, Accepted, Typed, TypeOK, RunOK
  <2>3. bill = "sending" /\ n = billAttempts
    BY <1>1, <2>2 DEF InFlight, OneInFlight, Typed
  <2>4. bill' = "pending" => run[w].result.outcome = "not_sent"
    BY <1>3, <2>2, <2>3 DEF FinalizeNotAccepted, SendingThis, Typed
  <2>5. ASSUME run[w].result.outcome = "not_sent" PROVE MayGo
    <3>1. fate[n] = "none"
      BY <1>1, <2>5 DEF FateKnown, Once
    <3>2. \A v \in Workers : run[v].pc = "claimed" => run[v].n # n
      BY <1>1 DEF Own, Once
    <3>3. ~Maybe(n)
      BY <3>1, <3>2 DEF Maybe
    <3> QED BY <1>1, <2>3, <3>3, NextMayGo
  <2> QED BY <1>1, <2>1, <2>4, <2>5, OnceKept
<1>4. CASE FinalizeLate(w)
  <2>1. SamePersons
    BY <1>4, PersonsKept DEF FinalizeLate
  <2>2. bill' = "pending" /\ ~authorized' => bill = "pending" /\ ~authorized
    BY <1>4 DEF FinalizeLate
  <2> QED BY <1>1, <2>1, <2>2, OnceKept
<1>5. CASE FinalizeConflict(w)
  BY <1>1, <1>5, OnceKept DEF FinalizeConflict, sourceVars, attemptVars, SamePersons
<1> QED BY <1>2, <1>3, <1>4, <1>5 DEF Finalize

\* A receipt makes the bill wait again only if the last message found the window shut.
LEMMA OnceReceipt ==
  ASSUME Typed, Once, NEW n \in Attempts, NEW receipt \in Receipts, ApplyReceipt(n, receipt) PROVE Once'
<1>1. UNCHANGED <<fate, billAttempts, authorized>> /\ \A w \in Workers : run'[w] \in {run[w], Idle}
  BY DEF ApplyReceipt, ApplyProof, ApplyShut, ApplyFailed, sourceVars
<1>2. CASE ApplyProof(n, receipt)
  <2>1. SamePersons
    BY <1>2, PersonsKept DEF ApplyProof
  <2>2. bill' = "pending" => bill = "pending"
    BY <1>2 DEF ApplyProof
  <2> QED BY <1>1, <2>1, <2>2, OnceKept
<1>3. CASE ApplyShut(n)
  <2>1. SamePersons /\ fate[n] = "shut" /\ n = billAttempts
    BY <1>3 DEF ApplyShut, RetryShut, Is131047, SamePersons, attemptVars, Typed
  <2>2. \A w \in Workers : run[w].pc = "claimed" => run[w].n # n
    BY <2>1 DEF FateKnown, Once
  <2>3. MayGo
    BY <2>1, <2>2, NextMayGo DEF Maybe
  <2> QED BY <1>1, <2>1, <2>3, OnceKept
<1>4. CASE ApplyFailed(n)
  BY <1>1, <1>4, OnceKept DEF ApplyFailed, SamePersons, sourceVars, attemptVars
<1> QED BY <1>2, <1>3, <1>4 DEF ApplyReceipt

\* The operator makes a bill wait again by authorizing it only.
LEMMA OnceOperator == ASSUME Typed, Once, Operator PROVE Once'
<1>1. UNCHANGED <<fate, billAttempts>> /\ \A w \in Workers : run'[w] \in {run[w], Idle}
  BY DEF Operator, BillResend, BillCompose, BillConfirmSent, BillAbandon, HoldOrRelease, LinkReceipt
<1>2. CASE BillResend \/ BillCompose
  BY <1>1, <1>2, OnceKept DEF BillResend, BillCompose, Reauthorize, SamePersons, attemptVars
<1>3. CASE BillAbandon \/ HoldOrRelease
  BY <1>1, <1>3, OnceKept DEF BillAbandon, HoldOrRelease, SamePersons, attemptVars
<1>4. CASE BillConfirmSent
  <2>1. SamePersons
    BY <1>4, PersonsKept DEF BillConfirmSent
  <2> QED BY <1>1, <1>4, <2>1, OnceKept DEF BillConfirmSent
<1>5. ASSUME NEW n \in Attempts, LinkReceipt(n) PROVE Once'
  <2>1. SamePersons
    BY <1>5, PersonsKept DEF LinkReceipt
  <2>2. UNCHANGED authorized /\ bill' \in {bill, "sent"}
    BY <1>5 DEF LinkReceipt
  <2> QED BY <1>1, <2>1, <2>2, OnceKept
<1> QED BY <1>2, <1>3, <1>4, <1>5 DEF Operator

\* Every step keeps that a second bill needs a person's word.
LEMMA OnceStep == ASSUME Typed, InFlight, Once, [Next]_vars PROVE Once'
<1>1. CASE ClaimPriorLog \/ ClaimCancelled \/ ClaimStale
  BY <1>1, OnceKept DEF ClaimPriorLog, ClaimCancelled, ClaimStale, attemptVars, SamePersons
<1>2. ASSUME NEW w \in Workers, Crash(w) PROVE Once'
  <2>1. \A v \in Workers : run'[v] \in {run[v], Idle}
    BY <1>2 DEF Crash, Typed, TypeOK
  <2> QED BY <1>2, <2>1, OnceKept DEF Crash, sourceVars, attemptVars, SamePersons
<1>3. ExpireClaim => Once'
  <2>1. ExpireClaim => SamePersons
    BY PersonsKept DEF ExpireClaim, Expired
  <2> QED BY <2>1, OnceKept DEF ExpireClaim, ExpiredBill
<1>4. ASSUME NEW n \in Attempts, AlertUnlinked(n) PROVE Once'
  BY <1>4, OnceKept DEF AlertUnlinked, sourceVars, attemptVars, SamePersons
<1>5. CASE World \/ UNCHANGED vars
  <2>1. UNCHANGED <<fate, billAttempts, bill, authorized, attempt, run>>
    BY <1>5 DEF World, BackoffElapses, FactsChange, Journal, ReceiptsAge, vars, sourceVars, attemptVars
  <2> QED BY <2>1, OnceKept DEF SamePersons
<1> QED BY <1>1, <1>2, <1>3, <1>4, <1>5, OnceClaim, OnceSend, OnceFinalize, OnceReceipt, OnceOperator
        DEF Next, ClaimOrClose, Sweep, ReplaySwept, ReplayOne

\* Between two bills of one order that reached the customer a person authorized
\* the second, whatever runs stalled, claims expired, answers and receipts came late.
THEOREM AtMostOnceHolds == Spec => []AtMostOnceAutomatic
<1>1. Init => InFlight
  BY BillSendAssumption DEF BillSendAssumption, Init, InFlight, OneInFlight, Unclaimed, Attempt, Attempts
<1>2. Init => Once
  BY IdleType, BillSendAssumption DEF BillSendAssumption, Init, Attempts, Once, Own, FateKnown, Authorised, Waiting, MayGo
<1>3. ASSUME Typed, Once PROVE AtMostOnceAutomatic
  <2> SUFFICES ASSUME NEW m \in Attempts, NEW n \in Attempts, m < n, fate[m] = "taken", fate[n] = "taken"
               PROVE  \E k \in (m + 1)..n : attempt[k].byPerson
    BY DEF AtMostOnceAutomatic
  <2>1. ByPerson(m, n)
    BY <1>3 DEF Once, FateKnown, Authorised, Maybe
  <2> QED BY <2>1, BillSendAssumption DEF BillSendAssumption, Attempts, ByPerson
<1> QED BY TypedInit, TypedStep, <1>1, <1>2, <1>3, InFlightStep, OnceStep, PTL DEF Spec

\* The receipts that message n's row must show the furthest of.
Seen(n) == {"sent"} \cup {receipt \in Receipts : <<n, receipt>> \in applied}
Shows(n) == message[n] \in Seen(n) /\ \A status \in Seen(n) : Rank[status] <= Rank[message[n]]

\* A message without a wamid has met no receipt, and the operator may still link one to it.
RowOf(n) ==
  IF n \in hasWamid THEN Shows(n)
  ELSE /\ \A receipt \in Receipts : <<n, receipt>> \notin applied
       /\ attempt[n].outcome \in NeverKnown => message[n] \in {"queued", "sent"}
Ordered == \A n \in Attempts : RowOf(n)

\* What Meta reported, answered or proved is true of the message.
Reports(n) == \A receipt \in Receipts :
  <<n, receipt>> \in journal => fate[n] = "taken" \/ (fate[n] = "shut" /\ receipt = "failed")
Truthful ==
  /\ \A n \in Attempts : /\ Reports(n)
                         /\ n \in hasWamid => fate[n] # "none"
                         /\ attempt[n].proof = "receipt" => fate[n] = "taken"
  /\ \A w \in Workers : run[w].pc = "result" /\ run[w].result.outcome = "accepted" => fate[run[w].n] # "none"

\* Only message n, its attempt and its receipts change.
LEMMA RowsElse ==
  ASSUME Ordered, NEW n \in Attempts,
         \A m \in Attempts \ {n} : /\ message'[m] = message[m]
                                   /\ attempt'[m].outcome \in NeverKnown => attempt[m].outcome \in NeverKnown
                                   /\ m \in hasWamid' <=> m \in hasWamid
                                   /\ \A receipt \in Receipts : <<m, receipt>> \in applied' <=> <<m, receipt>> \in applied,
         RowOf(n)'
  PROVE  Ordered'
<1> SUFFICES ASSUME NEW m \in Attempts, m # n PROVE RowOf(m)'
  BY DEF Ordered
<1>1. Seen(m)' = Seen(m)
  BY DEF Seen
<1>2. Shows(m)' <=> Shows(m)
  BY <1>1 DEF Shows
<1> QED BY <1>2 DEF Ordered, RowOf

\* A step that leaves the messages, their ids and what was applied to them alone.
LEMMA RowsKept ==
  ASSUME Ordered, UNCHANGED <<hasWamid, message, applied>>,
         \A n \in Attempts : attempt'[n].outcome \in NeverKnown => attempt[n].outcome \in NeverKnown
  PROVE  Ordered'
BY DEF Ordered, RowOf, Shows, Seen

\* A row that meets no receipt shows "sent" once it is marked, and keeps more than that.
LEMMA RowMarked ==
  ASSUME Typed, Ordered, NEW n \in Attempts, MarkSent(n), UNCHANGED applied,
         n \in hasWamid => n \in hasWamid', n \in hasWamid' => n \in hasWamid \/ attempt[n].outcome \in NeverKnown,
         attempt'[n].outcome \in NeverKnown => attempt[n].outcome \in NeverKnown
  PROVE  RowOf(n)'
<1>1. message'[n] = IF Rank[message[n]] < 1 THEN "sent" ELSE message[n]
  BY DEF MarkSent, Rank, Typed, TypeOK
<1>2. CASE n \in hasWamid
  <2>1. Shows(n) /\ message[n] \in Receipts
    BY <1>2 DEF Ordered, RowOf, Shows, Seen, Receipts
  <2>2. message'[n] = message[n] /\ Seen(n)' = Seen(n)
    BY <1>1, <2>1 DEF Seen, Rank, Receipts
  <2> QED BY <1>2, <2>1, <2>2 DEF RowOf, Shows
<1>3. CASE n \notin hasWamid
  <2>1. /\ \A receipt \in Receipts : <<n, receipt>> \notin applied
        /\ attempt[n].outcome \in NeverKnown => message[n] \in {"queued", "sent"}
    BY <1>3 DEF Ordered, RowOf
  <2>2. attempt[n].outcome \in NeverKnown => message'[n] = "sent"
    BY <1>1, <2>1 DEF Rank
  <2>3. Seen(n)' = {"sent"}
    BY <2>1 DEF Seen
  <2> QED BY <1>3, <2>1, <2>2, <2>3 DEF RowOf, Shows, Rank
<1> QED BY <1>2, <1>3

\* A receipt advances its row to the furthest that was seen.
LEMMA RowAdvanced ==
  ASSUME Typed, Ordered, NEW n \in Attempts, NEW receipt \in Receipts, ApplyToMessage(n, receipt), UNCHANGED hasWamid
  PROVE  RowOf(n)'
<1>1. /\ n \in hasWamid /\ Shows(n) /\ applied' = applied \cup {<<n, receipt>>}
      /\ message'[n] = IF Rank[message[n]] < Rank[receipt] THEN receipt ELSE message[n]
  BY DEF ApplyToMessage, Applicable, Advance, Ordered, RowOf, Typed, TypeOK
<1>2. Seen(n)' = Seen(n) \cup {receipt}
  BY <1>1 DEF Seen
<1>3. \A status \in Receipts : Rank[status] \in Nat
  BY DEF Rank, Receipts
<1>4. Seen(n) \subseteq Receipts /\ message[n] \in Receipts
  BY <1>1 DEF Seen, Shows, Receipts
<1>5. Shows(n)'
  <2>1. message'[n] \in Seen(n)'
    BY <1>1, <1>2 DEF Shows
  <2>2. Rank[message[n]] <= Rank[message'[n]] /\ Rank[receipt] <= Rank[message'[n]]
    BY <1>1, <1>3, <1>4
  <2>3. \A status \in Seen(n) : Rank[status] <= Rank[message[n]]
    BY <1>1 DEF Shows
  <2>4. \A status \in Seen(n)' : Rank[status] <= Rank[message'[n]]
    <3> SUFFICES ASSUME NEW status \in Seen(n)' PROVE Rank[status] <= Rank[message'[n]]
      OBVIOUS
    <3>1. CASE status = receipt
      BY <2>2, <3>1
    <3>2. CASE status \in Seen(n)
      <4>1. Rank[status] \in Nat /\ Rank[message[n]] \in Nat /\ message'[n] \in Receipts
        BY <1>1, <1>3, <1>4, <3>2
      <4> QED BY <1>3, <2>2, <2>3, <3>2, <4>1
    <3> QED BY <1>2, <3>1, <3>2
  <2> QED BY <2>1, <2>4 DEF Shows
<1> QED BY <1>1, <1>5 DEF RowOf

\* A result that is recorded gives its message a first row, or marks it.
LEMMA RowsFinalize == ASSUME Typed, InFlight, Ordered, NEW w \in Workers, Finalize(w) PROVE Ordered'
<1>0. PICK n : n = run[w].n
  OBVIOUS
<1>1. n \in Attempts /\ UNCHANGED applied
  BY <1>0, Names DEF Finalize, FinalizeAccepted, FinalizeNotAccepted, FinalizeLate, FinalizeConflict, receiptVars
<1>2. CASE FinalizeAccepted(w)
  <2>1. Close(n, "accepted", "accepted", FALSE) /\ Log(n, "sent") /\ attempt[n].outcome = "open"
        /\ hasWamid' = hasWamid \cup {n}
    BY <1>0, <1>2 DEF FinalizeAccepted
  <2>2. n \notin hasWamid
    BY <1>1, <2>1 DEF InFlight, OneInFlight
  <2>3. /\ \A m \in Attempts \ {n} : attempt'[m] = attempt[m] /\ message'[m] = message[m]
        /\ message'[n] = "sent"
    BY <1>1, <2>1, Closed DEF Log, Typed, TypeOK
  <2>4. Seen(n)' = {"sent"}
    BY <1>1, <2>2 DEF Seen, Ordered, RowOf
  <2>5. RowOf(n)'
    BY <2>1, <2>3, <2>4 DEF RowOf, Shows, Rank
  <2> QED BY <1>1, <2>1, <2>3, <2>5, RowsElse
<1>3. CASE FinalizeNotAccepted(w)
  <2>1. Close(n, run[w].result.outcome, "none", run[w].result.template) /\ attempt[n].outcome = "open"
        /\ Log(n, IF run[w].result.outcome = "ambiguous" THEN "queued" ELSE "failed") /\ hasWamid' = hasWamid
        /\ run[w].result.outcome \in {"not_sent", "ambiguous"}
    BY <1>0, <1>3 DEF FinalizeNotAccepted, Accepted, Typed, TypeOK, RunOK
  <2>2. n \notin hasWamid
    BY <1>1, <2>1 DEF InFlight, OneInFlight
  <2>3. /\ \A m \in Attempts \ {n} : attempt'[m] = attempt[m] /\ message'[m] = message[m]
        /\ attempt'[n].outcome = run[w].result.outcome
        /\ message'[n] = IF run[w].result.outcome = "ambiguous" THEN "queued" ELSE "failed"
    BY <1>1, <2>1, Closed DEF Log, Typed, TypeOK
  <2>4. RowOf(n)'
    BY <1>1, <2>1, <2>2, <2>3 DEF RowOf, Ordered, NeverKnown
  <2> QED BY <1>1, <2>1, <2>3, <2>4, RowsElse
<1>4. CASE FinalizeLate(w)
  <2>1. PICK proof : Close(n, "accepted", proof, FALSE)
    BY <1>0, <1>4 DEF FinalizeLate
  <2>2. MarkSent(n) /\ attempt[n].outcome \in NeverKnown /\ hasWamid' = hasWamid \cup {n}
    BY <1>0, <1>4 DEF FinalizeLate
  <2>3. \A m \in Attempts \ {n} : attempt'[m] = attempt[m] /\ message'[m] = message[m]
    BY <1>1, <2>1, <2>2, Closed, Logged
  <2>4. RowOf(n)'
    BY <1>1, <2>1, <2>2, Closed, RowMarked
  <2> QED BY <1>1, <2>2, <2>3, <2>4, RowsElse
<1>5. CASE FinalizeConflict(w)
  BY <1>5, RowsKept DEF FinalizeConflict, attemptVars, messageVars, receiptVars
<1> QED BY <1>2, <1>3, <1>4, <1>5 DEF Finalize

\* A proof of an attempt marks its message.
LEMMA RowsProven ==
  ASSUME Typed, Ordered, NEW n \in Attempts, NEW proof, Prove(n, proof), MarkSent(n), UNCHANGED applied,
         hasWamid' = hasWamid \/ (hasWamid' = hasWamid \cup {n} /\ attempt[n].outcome \in NeverKnown)
  PROVE  Ordered'
<1>1. \A m \in Attempts \ {n} : attempt'[m] = attempt[m] /\ message'[m] = message[m]
  BY Proven, Logged
<1>2. attempt'[n].outcome = attempt[n].outcome
  BY Proven
<1> QED BY <1>1, <1>2, RowMarked, RowsElse

\* A receipt, a link or a person's word changes one row; what else the operator does changes none.
LEMMA RowsReceipt ==
  ASSUME Typed, Ordered, NEW n \in Attempts, NEW receipt \in Receipts, ApplyReceipt(n, receipt) PROVE Ordered'
<1>1. ASSUME NEW r \in Receipts, ApplyToMessage(n, r), UNCHANGED hasWamid,
             \A m \in Attempts : attempt'[m].outcome = attempt[m].outcome
      PROVE  Ordered'
  <2>1. \A m \in Attempts \ {n} : message'[m] = message[m]
    BY <1>1, Advanced DEF ApplyToMessage
  <2>2. \A m \in Attempts \ {n}, s \in Receipts : <<m, s>> \in applied' <=> <<m, s>> \in applied
    BY <1>1 DEF ApplyToMessage
  <2> QED BY <1>1, <2>1, <2>2, RowAdvanced, RowsElse
<1>2. CASE ApplyProof(n, receipt)
  <2>1. Prove(n, "receipt") /\ ApplyToMessage(n, receipt) /\ UNCHANGED hasWamid
    BY <1>2 DEF ApplyProof
  <2>2. \A m \in Attempts : attempt'[m].outcome = attempt[m].outcome
    BY <2>1, Proven
  <2> QED BY <1>1, <2>1, <2>2
<1>3. CASE ApplyShut(n) \/ ApplyFailed(n)
  BY <1>1, <1>3, Names DEF ApplyShut, ApplyFailed, attemptVars
<1> QED BY <1>2, <1>3 DEF ApplyReceipt

LEMMA RowsOperator == ASSUME Typed, Ordered, Operator PROVE Ordered'
<1>1. CASE BillResend \/ BillCompose \/ BillAbandon \/ HoldOrRelease
  BY <1>1, RowsKept DEF BillResend, BillCompose, BillAbandon, HoldOrRelease, attemptVars, messageVars, receiptVars
<1>2. CASE BillConfirmSent
  <2>1. Prove(current, "operator") /\ MarkSent(current) /\ UNCHANGED <<hasWamid, applied>>
    BY <1>2 DEF BillConfirmSent, receiptVars
  <2>2. CASE current \in Attempts
    BY <2>1, <2>2, RowsProven
  <2>3. CASE current \notin Attempts
    <3>1. UNCHANGED <<attempt, message>>
      BY <2>1, <2>3 DEF Prove, MarkSent, Typed, TypeOK
    <3> QED BY <2>1, <3>1, RowsKept
  <2> QED BY <2>2, <2>3
<1>3. ASSUME NEW n \in Attempts, LinkReceipt(n) PROVE Ordered'
  BY <1>3, RowsProven DEF LinkReceipt, Candidate, receiptVars
<1> QED BY <1>1, <1>2, <1>3 DEF Operator

\* Every step keeps the rows of the messages in order.
LEMMA RowsStep == ASSUME Typed, InFlight, Ordered, [Next]_vars PROVE Ordered'
<1>1. CASE ClaimPriorLog \/ ClaimCancelled \/ ClaimStale
  BY <1>1, RowsKept DEF ClaimPriorLog, ClaimCancelled, ClaimStale, attemptVars, messageVars, receiptVars
<1>2. ASSUME NEW w \in Workers, NEW open \in BOOLEAN, Claim(w, open) PROVE Ordered'
  <2>1. \A n \in Attempts : attempt'[n].outcome \in NeverKnown => attempt[n].outcome \in NeverKnown
    BY <1>2 DEF Claim, Attempt, NeverKnown, Typed, TypeOK
  <2> QED BY <1>2, <2>1, RowsKept DEF Claim, messageVars, receiptVars
<1>3. CASE ExpireClaim
  <2>1. Close(current, "claim_expired", "none", FALSE) /\ Log(current, "queued") /\ UNCHANGED <<hasWamid, applied>>
        /\ attempt[current].outcome = "open"
    BY <1>3 DEF ExpireClaim, Expirable, Expired, receiptVars
  <2>2. CASE current \in Attempts
    <3>1. current \notin hasWamid
      BY <2>1, <2>2 DEF InFlight, OneInFlight
    <3>2. /\ \A m \in Attempts \ {current} : attempt'[m] = attempt[m] /\ message'[m] = message[m]
          /\ message'[current] = "queued"
      BY <2>1, <2>2, Closed DEF Log, Typed, TypeOK
    <3>3. current' = current
      BY <1>3 DEF ExpireClaim
    <3>4. RowOf(current)'
      BY <2>1, <2>2, <3>1, <3>2, <3>3 DEF Ordered, RowOf
    <3> QED BY <2>1, <2>2, <3>2, <3>3, <3>4, RowsElse
  <2>3. CASE current \notin Attempts
    <3>1. UNCHANGED <<attempt, message>>
      BY <2>1, <2>3 DEF Close, Log, Typed, TypeOK
    <3> QED BY <2>1, <3>1, RowsKept
  <2> QED BY <2>2, <2>3
<1>4. ASSUME NEW n \in Attempts, AlertUnlinked(n) PROVE Ordered'
  BY <1>4, RowsKept DEF AlertUnlinked, attemptVars, messageVars, receiptVars
<1>5. ASSUME NEW w \in Workers, Send(w) \/ Crash(w) PROVE Ordered'
  BY <1>5, RowsKept DEF Send, Crash, attemptVars, messageVars, receiptVars
<1>6. CASE World \/ UNCHANGED vars
  BY <1>6, RowsKept DEF World, BackoffElapses, FactsChange, Journal, ReceiptsAge, vars, attemptVars, messageVars, receiptVars
<1> QED BY <1>1, <1>2, <1>3, <1>4, <1>5, <1>6, RowsFinalize, RowsReceipt, RowsOperator
        DEF Next, ClaimOrClose, Sweep, ReplaySwept, ReplayOne

\* The claim of no bill has been made yet.
LEMMA RowsInit == ASSUME Init PROVE InFlight /\ Ordered
<1>1. InFlight
  BY BillSendAssumption DEF BillSendAssumption, Init, InFlight, OneInFlight, Unclaimed, Attempt, Attempts
<1> QED BY <1>1 DEF Init, Ordered, RowOf, Unclaimed, Attempt, NeverKnown

\* A message's row shows the furthest of the receipts applied to it, whatever order they came in.
THEOREM ReceiptOrderIsIrrelevantHolds == Spec => []ReceiptOrderIsIrrelevant
<1>1. Typed /\ Ordered => ReceiptOrderIsIrrelevant
  BY DEF ReceiptOrderIsIrrelevant, Ordered, RowOf, Shows, Seen, Typed, TypeOK
<1> QED BY TypedInit, TypedStep, RowsInit, InFlightStep, RowsStep, <1>1, PTL DEF Spec

\* Alerts are never withdrawn, and a stop raises its own, under the number of the last attempt.
LEMMA AlertsStep == ASSUME Typed, StopIsAlerted, [Next]_vars PROVE StopIsAlerted'
<1> USE DEF StopIsAlerted, Raised
<1>1. ASSUME UNCHANGED <<current, billAttempts>>, alerts \subseteq alerts',
             bill' \notin {"unknown", "failed"} \/ bill' = bill \/ (bill' = "unknown" /\ <<"bill_unknown", current>> \in alerts')
             \/ (bill' = "failed" /\ \E kind \in {"bill_failed", "bill_stale"} : <<kind, billAttempts>> \in alerts')
      PROVE  StopIsAlerted'
  BY <1>1
<1>2. CASE ClaimPriorLog \/ ClaimCancelled \/ ClaimStale
  BY <1>1, <1>2 DEF ClaimPriorLog, ClaimCancelled, ClaimStale
<1>3. ASSUME NEW w \in Workers, NEW open \in BOOLEAN, Claim(w, open) PROVE StopIsAlerted'
  BY <1>3 DEF Claim
<1>4. ASSUME NEW w \in Workers, Send(w) \/ Crash(w) PROVE StopIsAlerted'
  BY <1>1, <1>4 DEF Send, Crash, sourceVars
<1>5. ASSUME NEW w \in Workers, Finalize(w) PROVE StopIsAlerted'
  <2>1. CASE FinalizeNotAccepted(w)
    BY <1>1, <2>1 DEF FinalizeNotAccepted, SendingThis, Typed
  <2>2. CASE FinalizeAccepted(w) \/ FinalizeLate(w) \/ FinalizeConflict(w)
    BY <1>1, <2>2 DEF FinalizeAccepted, FinalizeLate, FinalizeConflict, sourceVars
  <2> QED BY <1>5, <2>1, <2>2 DEF Finalize
<1>6. CASE ExpireClaim
  BY <1>1, <1>6 DEF ExpireClaim, ExpiredBill
<1>7. ASSUME NEW n \in Attempts, NEW receipt \in Receipts, ApplyReceipt(n, receipt) PROVE StopIsAlerted'
  <2>1. CASE ApplyProof(n, receipt)
    BY <1>1, <2>1 DEF ApplyProof
  <2>2. CASE ApplyShut(n)
    BY <1>1, <2>2 DEF ApplyShut, RetryShut, Typed
  <2>3. CASE ApplyFailed(n)
    BY <1>1, <2>3 DEF ApplyFailed, sourceVars
  <2> QED BY <1>7, <2>1, <2>2, <2>3 DEF ApplyReceipt
<1>8. ASSUME NEW n \in Attempts, AlertUnlinked(n) \/ LinkReceipt(n) PROVE StopIsAlerted'
  BY <1>1, <1>8 DEF AlertUnlinked, LinkReceipt, sourceVars
<1>9. CASE BillResend \/ BillCompose \/ BillConfirmSent \/ BillAbandon \/ HoldOrRelease
  BY <1>1, <1>9 DEF BillResend, BillCompose, BillConfirmSent, BillAbandon, HoldOrRelease, Reauthorize
<1>10. CASE World \/ UNCHANGED vars
  BY <1>1, <1>10 DEF World, BackoffElapses, FactsChange, Journal, ReceiptsAge, vars, sourceVars
<1> QED BY <1>2, <1>3, <1>4, <1>5, <1>6, <1>7, <1>8, <1>9, <1>10 DEF Next, ClaimOrClose, Sweep, ReplaySwept, ReplayOne, Operator

\* Every stop of a bill that waits for a person was announced, each time anew.
THEOREM StopIsAlertedHolds == Spec => []StopIsAlerted
<1>1. Init => StopIsAlerted
  BY DEF Init, StopIsAlerted
<1> QED BY TypedInit, TypedStep, <1>1, AlertsStep, PTL DEF Spec

\* A step without a send: what is newly journalled, linked or proved is true.
LEMMA TruthfulKept ==
  ASSUME Truthful, UNCHANGED fate, \A w \in Workers : run'[w].pc = "result" => run'[w] = run[w],
         \A n \in Attempts, receipt \in Receipts : <<n, receipt>> \in journal' =>
           \/ <<n, receipt>> \in journal
           \/ fate[n] = "taken" \/ (fate[n] = "shut" /\ receipt = "failed"),
         \A n \in Attempts : n \in hasWamid' => n \in hasWamid \/ fate[n] # "none",
         \A n \in Attempts : attempt'[n].proof = "receipt" => attempt[n].proof = "receipt" \/ fate[n] = "taken"
  PROVE  Truthful'
BY DEF Truthful, Reports

\* Meta's answer: a message that was taken has a fate.
LEMMA TruthfulSend == ASSUME Typed, Once, Truthful, NEW w \in Workers, Send(w) PROVE Truthful'
<1>1. PICK n : n = run[w].n
  OBVIOUS
<1>2. PICK result \in Answers(attempt[n].channel) : \E f \in FatesOf(attempt[n].channel, result.outcome) :
        /\ fate' = [fate EXCEPT ![n] = f]
        /\ run' = [run EXCEPT ![w] = Run("result", n, result)]
  BY <1>1 DEF Send
<1>3. PICK f \in FatesOf(attempt[n].channel, result.outcome) : fate' = [fate EXCEPT ![n] = f]
  BY <1>2
<1>4. n \in Attempts /\ run[w].pc = "claimed" /\ fate[n] = "none" /\ UNCHANGED <<journal, hasWamid, attempt>>
  BY <1>1, Names DEF Send, attemptVars, receiptVars, Once, FateKnown
<1>5. fate'[n] = f /\ \A m \in Attempts \ {n} : fate'[m] = fate[m]
  BY <1>3, <1>4 DEF Typed, TypeOK
<1>6. result.outcome = "accepted" => f # "none"
  BY <1>3 DEF FatesOf
<1>7. ASSUME NEW v \in Workers, run'[v].pc = "result", run'[v].result.outcome = "accepted" PROVE fate'[run'[v].n] # "none"
  <2>1. CASE v = w
    BY <1>2, <1>5, <1>6, <1>7, <2>1 DEF Run, Typed, TypeOK
  <2>2. CASE v # w
    <3>1. run'[v] = run[v] /\ run[v].n # n /\ run[v].n \in Attempts
      BY <1>1, <1>2, <1>4, <1>7, <2>2, Names DEF Own, Once, Typed, TypeOK
    <3> QED BY <1>5, <1>7, <3>1 DEF Truthful
  <2> QED BY <2>1, <2>2
<1>8. ASSUME NEW m \in Attempts
      PROVE  /\ Reports(m)'
             /\ m \in hasWamid' => fate'[m] # "none"
             /\ attempt'[m].proof = "receipt" => fate'[m] = "taken"
  BY <1>4, <1>5 DEF Truthful, Reports
<1> QED BY <1>7, <1>8 DEF Truthful

\* Meta reports no message as sent that it did not take.
LEMMA ReceiptMeans ==
  ASSUME Typed, Truthful, NEW n \in Attempts, ProvenByJournal(n) PROVE fate[n] = "taken"
BY DEF ProvenByJournal, Journalled, Truthful, Reports, Receipts

\* Every step keeps what is reported, linked or proved true.
LEMMA TruthfulStep == ASSUME Typed, InFlight, Once, Truthful, [Next]_vars PROVE Truthful'
<1>1. CASE ClaimPriorLog \/ ClaimCancelled \/ ClaimStale
  BY <1>1, TruthfulKept DEF ClaimPriorLog, ClaimCancelled, ClaimStale, attemptVars, receiptVars
<1>2. ASSUME NEW w \in Workers, NEW open \in BOOLEAN, Claim(w, open) PROVE Truthful'
  <2>1. \A n \in Attempts : attempt'[n].proof = "receipt" => attempt[n].proof = "receipt"
    BY <1>2 DEF Claim, Attempt, Typed, TypeOK
  <2>2. \A v \in Workers : run'[v].pc = "result" => run'[v] = run[v]
    BY <1>2 DEF Claim, Run, Typed, TypeOK
  <2> QED BY <1>2, <2>1, <2>2, TruthfulKept DEF Claim, receiptVars
<1>3. ASSUME NEW w \in Workers, Finalize(w) PROVE Truthful'
  <2>1. PICK n \in Attempts : n = run[w].n
    BY <1>3, Names DEF Finalize, FinalizeAccepted, FinalizeNotAccepted, FinalizeLate, FinalizeConflict
  <2>2. /\ UNCHANGED <<fate, journal>> /\ run[w].pc = "result"
        /\ \A v \in Workers : run'[v].pc = "result" => run'[v] = run[v]
    BY <1>3, IdleType DEF Finalize, FinalizeAccepted, FinalizeNotAccepted, FinalizeLate, FinalizeConflict, Committed,
                          receiptVars, Typed, TypeOK
  <2>3. CASE FinalizeAccepted(w)
    <3>1. /\ Close(n, "accepted", "accepted", FALSE) /\ hasWamid' = hasWamid \cup {n} /\ fate[n] # "none"
      BY <2>1, <2>2, <2>3 DEF FinalizeAccepted, Accepted, Truthful
    <3>2. \A m \in Attempts : attempt'[m].proof = "receipt" => attempt[m].proof = "receipt"
      BY <3>1, Closed
    <3> QED BY <2>2, <3>1, <3>2, TruthfulKept
  <2>4. CASE FinalizeNotAccepted(w)
    <3>1. Close(n, run[w].result.outcome, "none", run[w].result.template) /\ hasWamid' = hasWamid
      BY <2>1, <2>4 DEF FinalizeNotAccepted
    <3>2. \A m \in Attempts : attempt'[m].proof = "receipt" => attempt[m].proof = "receipt"
      BY <3>1, Closed
    <3> QED BY <2>2, <3>1, <3>2, TruthfulKept
  <2>5. CASE FinalizeLate(w)
    <3>1. /\ Close(n, "accepted", IF attempt[n].proof = "none" THEN "accepted" ELSE attempt[n].proof, FALSE)
          /\ hasWamid' = hasWamid \cup {n} /\ fate[n] # "none"
      BY <2>1, <2>2, <2>5 DEF FinalizeLate, Accepted, Truthful
    <3>2. \A m \in Attempts : attempt'[m].proof = "receipt" => attempt[m].proof = "receipt"
      BY <3>1, Closed
    <3> QED BY <2>2, <3>1, <3>2, TruthfulKept
  <2>6. CASE FinalizeConflict(w)
    BY <2>2, <2>6, TruthfulKept DEF FinalizeConflict, attemptVars
  <2> QED BY <1>3, <2>3, <2>4, <2>5, <2>6 DEF Finalize
<1>4. CASE ExpireClaim
  <2>1. Close(current, "claim_expired", "none", FALSE) /\ UNCHANGED <<fate, journal, hasWamid, run>>
    BY <1>4 DEF ExpireClaim, Expired, receiptVars
  <2>2. \A m \in Attempts : attempt'[m].proof = "receipt" => attempt[m].proof = "receipt"
    BY <2>1 DEF Close, Attempt, Typed, TypeOK
  <2> QED BY <2>1, <2>2, TruthfulKept
<1>5. ASSUME NEW n \in Attempts, NEW receipt \in Receipts, ApplyReceipt(n, receipt) PROVE Truthful'
  <2>1. CASE ApplyProof(n, receipt)
    <3>1. ProvenByJournal(n) /\ Prove(n, "receipt") /\ UNCHANGED <<fate, journal, hasWamid, run>>
      BY <2>1 DEF ApplyProof, ApplyToMessage, Applicable, ProvenByJournal, Journalled
    <3> QED BY <3>1, ReceiptMeans, Proven, TruthfulKept
  <2>2. CASE ApplyShut(n) \/ ApplyFailed(n)
    BY <2>2, TruthfulKept DEF ApplyShut, ApplyFailed, attemptVars
  <2> QED BY <1>5, <2>1, <2>2 DEF ApplyReceipt
<1>6. ASSUME NEW n \in Attempts, AlertUnlinked(n) PROVE Truthful'
  BY <1>6, TruthfulKept DEF AlertUnlinked, attemptVars, receiptVars
<1>7. ASSUME NEW n \in Attempts, LinkReceipt(n) PROVE Truthful'
  <2>1. ProvenByJournal(n) /\ Prove(n, "receipt") /\ hasWamid' = hasWamid \cup {n} /\ UNCHANGED <<fate, journal, run>>
    BY <1>7 DEF LinkReceipt, receiptVars
  <2> QED BY <2>1, ReceiptMeans, Proven, TruthfulKept
<1>8. CASE BillResend \/ BillCompose \/ BillAbandon \/ HoldOrRelease
  BY <1>8, TruthfulKept DEF BillResend, BillCompose, BillAbandon, HoldOrRelease, attemptVars, receiptVars
<1>9. CASE BillConfirmSent
  <2>1. Prove(current, "operator") /\ UNCHANGED <<fate, journal, hasWamid, run>>
    BY <1>9 DEF BillConfirmSent, receiptVars
  <2>2. \A m \in Attempts : attempt'[m].proof = "receipt" => attempt[m].proof = "receipt"
    BY <2>1 DEF Prove, Attempt, Typed, TypeOK
  <2> QED BY <2>1, <2>2, TruthfulKept
<1>10. ASSUME NEW n \in Attempts, NEW receipt \in Receipts, Journal(n, receipt) PROVE Truthful'
  <2>1. fate[n] = "taken" \/ (fate[n] = "shut" /\ receipt = "failed")
    BY <1>10 DEF Journal, Reportable, Typed, TypeOK, Fates
  <2> QED BY <1>10, <2>1, TruthfulKept DEF Journal, attemptVars
<1>11. CASE BackoffElapses \/ FactsChange \/ ReceiptsAge \/ UNCHANGED vars
  BY <1>11, TruthfulKept DEF BackoffElapses, FactsChange, ReceiptsAge, vars, attemptVars, receiptVars
<1>12. ASSUME NEW w \in Workers, Crash(w) PROVE Truthful'
  BY <1>12, IdleType, TruthfulKept DEF Crash, attemptVars, receiptVars, Typed, TypeOK
<1> QED BY <1>1, <1>2, <1>3, <1>4, <1>5, <1>6, <1>7, <1>8, <1>9, <1>10, <1>11, <1>12, TruthfulSend
        DEF Next, ClaimOrClose, Sweep, ReplaySwept, ReplayOne, Operator, World

\* Meta took message n; if it failed, somebody was told of that or of a stop since it was sent.
Shown(n) == n \in hasWamid /\ fate[n] # "none" /\ (<<n, "failed">> \in applied => Warned(n))
OnMetasWord == bill = "sent" /\ billProof \in {"accepted", "receipt"}

\* A step that applies no failure and sends nothing keeps what a message shows.
LEMMA ShownKept ==
  ASSUME UNCHANGED fate, hasWamid \subseteq hasWamid', alerts \subseteq alerts',
         \A n \in Attempts : <<n, "failed">> \in applied' => <<n, "failed">> \in applied
  PROVE  \A n \in Attempts : Shown(n) => Shown(n)'
BY DEF Shown, Warned

\* A bill is sent on Meta's word if it was before, or if a message shows it now.
LEMMA WordKept ==
  ASSUME TypeOK, SentIsProved, \A n \in Attempts : Shown(n) => Shown(n)',
         OnMetasWord' => OnMetasWord \/ \E n \in Attempts : Shown(n)'
  PROVE  SentIsProved'
BY DEF SentIsProved, Shown, OnMetasWord, TypeOK

\* A message that gets its id after it was sent has met no failure.
LEMMA ShownFirst ==
  ASSUME Typed, Ordered, Truthful, NEW n \in Attempts, n \notin hasWamid, fate[n] # "none",
         n \in hasWamid', UNCHANGED <<applied, fate>>
  PROVE  Shown(n)'
BY DEF Shown, Ordered, RowOf, Typed, TypeOK, Fates, Receipts

\* The stop of a bill was announced under the number of its last attempt, no earlier than any message.
LEMMA StopWarns ==
  ASSUME Typed, InFlight, StopIsAlerted, NEW n \in Attempts, n \in hasWamid, bill \in {"unknown", "failed"}
  PROVE  Warned(n)
<1>1. attempt[n].outcome # "unclaimed"
  BY DEF InFlight, OneInFlight
<1>2. billAttempts >= n
  BY <1>1, BillSendAssumption DEF BillSendAssumption, InFlight, OneInFlight, Attempts, Typed, TypeOK
<1>3. PICK kind \in Warnings : <<kind, billAttempts>> \in alerts
  BY DEF StopIsAlerted, Warnings, Typed
<1> QED BY <1>2, <1>3 DEF Warned

\* Every step keeps that a bill is sent on Meta's word only if Meta took it.
LEMMA SentStep ==
  ASSUME Typed, InFlight, Once, Ordered, Truthful, StopIsAlerted, SentIsProved, [Next]_vars PROVE SentIsProved'
<1> USE DEF Typed
<1>1. CASE ClaimPriorLog \/ ClaimCancelled \/ ClaimStale
  BY <1>1, ShownKept, WordKept DEF ClaimPriorLog, ClaimCancelled, ClaimStale, attemptVars, receiptVars, Raised, OnMetasWord
<1>2. ASSUME NEW w \in Workers, NEW open \in BOOLEAN, Claim(w, open) PROVE SentIsProved'
  BY <1>2 DEF Claim, SentIsProved
<1>3. ASSUME NEW w \in Workers, Send(w) PROVE SentIsProved'
  <2>1. PICK n : n = run[w].n
    OBVIOUS
  <2>2. fate[n] = "none" /\ \A m \in Attempts \ {n} : fate'[m] = fate[m]
    BY <1>3, <2>1 DEF Send, Once, FateKnown, TypeOK
  <2>3. \A m \in Attempts : Shown(m) => m # n
    BY <2>2 DEF Shown, Truthful
  <2>4. \A m \in Attempts : Shown(m) => Shown(m)'
    BY <1>3, <2>2, <2>3 DEF Send, Shown, Warned, attemptVars, receiptVars
  <2> QED BY <1>3, <2>4, WordKept DEF Send, sourceVars, OnMetasWord
<1>4. ASSUME NEW w \in Workers, Finalize(w) PROVE SentIsProved'
  <2>1. PICK n \in Attempts : n = run[w].n
    BY <1>4, Names DEF Finalize, FinalizeAccepted, FinalizeNotAccepted, FinalizeLate, FinalizeConflict
  <2>2. CASE FinalizeAccepted(w)
    <3>1. n \notin hasWamid /\ fate[n] # "none" /\ hasWamid' = hasWamid \cup {n} /\ UNCHANGED <<applied, fate, alerts>>
      BY <2>1, <2>2 DEF FinalizeAccepted, Accepted, InFlight, OneInFlight, Truthful, receiptVars
    <3>2. Shown(n)'
      BY <3>1, ShownFirst
    <3> QED BY <3>1, <3>2, ShownKept, WordKept
  <2>3. CASE FinalizeNotAccepted(w)
    <3>1. UNCHANGED <<applied, fate, hasWamid>> /\ alerts \subseteq alerts' /\ (bill' = "sent" => bill = "sent")
          /\ billProof' = billProof
      BY <2>3 DEF FinalizeNotAccepted, Raised, receiptVars
    <3> QED BY <3>1, ShownKept, WordKept DEF OnMetasWord
  <2>4. CASE FinalizeLate(w)
    <3>1. fate[n] # "none" /\ hasWamid' = hasWamid \cup {n} /\ UNCHANGED <<applied, fate, alerts>>
          /\ attempt[n].outcome \in NeverKnown
      BY <2>1, <2>4 DEF FinalizeLate, Accepted, Truthful, receiptVars
    <3>2. CASE bill \in {"unknown", "failed"}
      <4>1. n \in hasWamid => Warned(n)
        BY <3>2, StopWarns
      <4>2. Shown(n)'
        BY <3>1, <4>1, ShownFirst DEF Shown, Warned
      <4> QED BY <3>1, <4>2, ShownKept, WordKept
    <3>3. CASE bill \notin {"unknown", "failed"}
      <4>1. UNCHANGED <<bill, billProof>>
        BY <2>4, <3>3 DEF FinalizeLate
      <4> QED BY <3>1, <4>1, ShownKept, WordKept DEF OnMetasWord
    <3> QED BY <3>2, <3>3
  <2>5. CASE FinalizeConflict(w)
    BY <2>5, ShownKept, WordKept DEF FinalizeConflict, Raised, sourceVars, attemptVars, receiptVars, OnMetasWord
  <2> QED BY <1>4, <2>2, <2>3, <2>4, <2>5 DEF Finalize
<1>5. CASE ExpireClaim
  BY <1>5, ShownKept, WordKept DEF ExpireClaim, ExpiredBill, Raised, receiptVars, OnMetasWord
<1>6. ASSUME NEW n \in Attempts, NEW receipt \in Receipts, ApplyReceipt(n, receipt) PROVE SentIsProved'
  <2>1. CASE ApplyProof(n, receipt)
    <3>1. n \in hasWamid /\ ProvenByJournal(n) /\ applied' = applied \cup {<<n, receipt>>} /\ receipt # "failed"
          /\ UNCHANGED <<fate, hasWamid, alerts>>
      BY <2>1 DEF ApplyProof, ApplyToMessage, Applicable, ProvenByJournal, Journalled
    <3>2. \A m \in Attempts : <<m, "failed">> \in applied' => <<m, "failed">> \in applied
      BY <3>1
    <3>3. CASE bill \in {"unknown", "failed"}
      <4>1. Warned(n) /\ fate[n] # "none"
        BY <3>1, <3>3, StopWarns DEF Truthful
      <4>2. Shown(n)'
        BY <3>1, <4>1 DEF Shown, Warned
      <4> QED BY <3>1, <3>2, <4>2, ShownKept, WordKept
    <3>4. CASE bill \notin {"unknown", "failed"}
      <4>1. UNCHANGED <<bill, billProof>>
        BY <2>1, <3>4 DEF ApplyProof
      <4> QED BY <3>1, <3>2, <4>1, ShownKept, WordKept DEF OnMetasWord
    <3> QED BY <3>3, <3>4
  <2>2. CASE ApplyShut(n)
    BY <2>2 DEF ApplyShut, RetryShut, SentIsProved
  <2>3. CASE ApplyFailed(n)
    <3>1. /\ applied' = applied \cup {<<n, "failed">>} /\ n \in hasWamid /\ UNCHANGED <<bill, billProof, fate, hasWamid>>
          /\ alerts' = IF bill = "sent" THEN alerts \cup {<<"bill_delivery_failed", n>>} ELSE alerts
      BY <2>3 DEF ApplyFailed, ApplyToMessage, Applicable, Raised, sourceVars, attemptVars
    <3>2. CASE bill # "sent"
      BY <3>1, <3>2 DEF SentIsProved
    <3>3. CASE bill = "sent"
      <4>1. Warned(n)'
        <5>1. <<"bill_delivery_failed", n>> \in alerts' /\ n >= n
          BY <3>1, <3>3, BillSendAssumption DEF BillSendAssumption, Attempts
        <5> QED BY <5>1 DEF Warned, Warnings
      <4>2. \A m \in Attempts : Warned(m) => Warned(m)'
        BY <3>1 DEF Warned
      <4>3. \A m \in Attempts : Shown(m) => Shown(m)'
        BY <3>1, <4>1, <4>2 DEF Shown
      <4> QED BY <3>1, <4>3, WordKept DEF OnMetasWord
    <3> QED BY <3>2, <3>3
  <2> QED BY <1>6, <2>1, <2>2, <2>3 DEF ApplyReceipt
<1>7. ASSUME NEW n \in Attempts, AlertUnlinked(n) PROVE SentIsProved'
  BY <1>7, ShownKept, WordKept DEF AlertUnlinked, Raised, sourceVars, attemptVars, receiptVars, OnMetasWord
<1>8. ASSUME NEW n \in Attempts, LinkReceipt(n) PROVE SentIsProved'
  <2>1. fate[n] = "taken" /\ n \notin hasWamid /\ hasWamid' = hasWamid \cup {n} /\ UNCHANGED <<applied, fate, alerts>>
    BY <1>8, ReceiptMeans DEF LinkReceipt, Candidate, receiptVars
  <2>2. Shown(n)'
    BY <2>1, ShownFirst
  <2> QED BY <2>1, <2>2, ShownKept, WordKept
<1>9. CASE BillResend \/ BillCompose \/ BillConfirmSent \/ BillAbandon \/ HoldOrRelease
  BY <1>9 DEF BillResend, BillCompose, BillConfirmSent, BillAbandon, HoldOrRelease, Reauthorize, attemptVars, receiptVars,
              SentIsProved, Warned
<1>10. CASE World \/ UNCHANGED vars
  BY <1>10 DEF World, BackoffElapses, FactsChange, Journal, ReceiptsAge, vars, sourceVars, attemptVars, receiptVars,
              SentIsProved, Warned
<1>11. ASSUME NEW w \in Workers, Crash(w) PROVE SentIsProved'
  BY <1>11 DEF Crash, sourceVars, attemptVars, receiptVars, SentIsProved, Warned
<1> QED BY <1>1, <1>2, <1>3, <1>4, <1>5, <1>6, <1>7, <1>8, <1>9, <1>10, <1>11
        DEF Next, ClaimOrClose, Sweep, ReplaySwept, ReplayOne, Operator

\* What holds of the messages initially.
LEMMA TruthfulInit == ASSUME Init PROVE Once /\ Truthful /\ SentIsProved
<1>1. Once
  BY IdleType, BillSendAssumption DEF BillSendAssumption, Init, Attempts, Once, Own, FateKnown, Authorised, Waiting, MayGo
<1>2. Truthful /\ SentIsProved
  BY IdleType DEF Init, Truthful, Reports, Unclaimed, Attempt, SentIsProved
<1> QED BY <1>1, <1>2

\* A bill is sent on Meta's word only if Meta took a message of it; and if each message
\* that has an id has a 'failed' receipt, a person was alerted: to that failure, or to
\* a stop of the bill at that attempt or a later one.
THEOREM SentIsProvedHolds == Spec => []SentIsProved
<1>1. Init => StopIsAlerted
  BY DEF Init, StopIsAlerted
<1> QED BY TypedInit, TypedStep, RowsInit, TruthfulInit, <1>1, InFlightStep, OnceStep, RowsStep, TruthfulStep,
           AlertsStep, SentStep, PTL DEF Spec

\* A step that leaves the bill, its claim and its authorization alone asks nothing of the source's guard.
LEMMA BillUntouched == ASSUME UNCHANGED <<bill, current, authorized>> PROVE BillGuardAccepts
BY DEF BillGuardAccepts

\* Nor of the attempts' guard, if it leaves them alone.
LEMMA AttemptsUntouched == ASSUME UNCHANGED attempt PROVE \A n \in Attempts : AttemptGuardAccepts(n)
BY DEF AttemptGuardAccepts

\* An open attempt is closed, or one that was never known turns out accepted, with its proof.
LEMMA CloseAccepted ==
  ASSUME Typed, InFlight, NEW n \in Attempts, NEW outcome, NEW proof, NEW template, Close(n, outcome, proof, template),
         \/ attempt[n].outcome = "open"
         \/ attempt[n].outcome \in NeverKnown /\ outcome = "accepted" /\ attempt[n].proof \in {"none", proof}
  PROVE  \A m \in Attempts : AttemptGuardAccepts(m)
<1>1. ASSUME NEW m \in Attempts \ {n} PROVE AttemptGuardAccepts(m)
  BY <1>1, Closed DEF AttemptGuardAccepts
<1>2. AttemptGuardAccepts(n)
  <2>1. attempt'[n].outcome = outcome /\ attempt'[n].proof = proof
    BY Closed
  <2> QED BY <2>1 DEF AttemptGuardAccepts, InFlight
<1> QED BY <1>1, <1>2

\* A proof that is there is not replaced.
LEMMA ProveAccepted ==
  ASSUME Typed, NEW n \in Attempts, NEW proof, Prove(n, proof) PROVE \A m \in Attempts : AttemptGuardAccepts(m)
BY Proven DEF AttemptGuardAccepts

\* A receipt takes a sent bill back only with the error code 131047 on the row of its message.
LEMMA ShutFirst ==
  ASSUME Typed, Ordered, Truthful, NEW n \in Attempts, ApplyShut(n) PROVE n \in shut'
<1>1. fate[n] = "shut" /\ n \in hasWamid /\ <<n, "failed">> \notin applied /\ shut' = shut \cup ShutBy(n)
  BY DEF ApplyShut, RetryShut, Is131047, ApplyToMessage, Applicable
<1>2. \A receipt \in Receipts : <<n, receipt>> \notin applied
  BY <1>1 DEF Truthful, Reports, Typed, TypeOK
<1>3. message[n] = "sent"
  BY <1>1, <1>2 DEF Ordered, RowOf, Shows, Seen
<1> QED BY <1>1, <1>3 DEF ShutBy, Is131047, Rank

\* No step asks the guards of the source and of its attempts for an update that they refuse.
LEMMA GuardStep ==
  ASSUME Typed, InFlight, Ordered, Truthful, [Next]_vars
  PROVE  BillGuardAccepts /\ \A n \in Attempts : AttemptGuardAccepts(n)
<1> USE DEF Typed
<1>1. CASE ClaimPriorLog \/ ClaimCancelled \/ ClaimStale
  BY <1>1, AttemptsUntouched
     DEF ClaimPriorLog, ClaimCancelled, ClaimStale, Claimable, attemptVars, BillGuardAccepts, BillEdges, TypeOK
<1>2. ASSUME NEW w \in Workers, NEW open \in BOOLEAN, Claim(w, open)
      PROVE  BillGuardAccepts /\ \A n \in Attempts : AttemptGuardAccepts(n)
  <2>1. BillGuardAccepts
    BY <1>2 DEF Claim, Claimable, BillGuardAccepts, BillEdges, TypeOK
  <2>2. ASSUME NEW m \in Attempts PROVE AttemptGuardAccepts(m)
    <3>1. CASE m = billAttempts + 1
      <4>1. attempt[m].outcome = "unclaimed"
        BY <3>1 DEF InFlight, OneInFlight, TypeOK
      <4> QED BY <4>1 DEF AttemptGuardAccepts, InFlight
    <3>2. CASE m # billAttempts + 1
      <4>1. attempt'[m] = attempt[m]
        BY <1>2, <3>2 DEF Claim, TypeOK
      <4> QED BY <4>1 DEF AttemptGuardAccepts
    <3> QED BY <3>1, <3>2
  <2> QED BY <2>1, <2>2
<1>3. ASSUME NEW w \in Workers, Send(w) \/ Crash(w)
      PROVE  BillGuardAccepts /\ \A n \in Attempts : AttemptGuardAccepts(n)
  BY <1>3, BillUntouched, AttemptsUntouched DEF Send, Crash, sourceVars, attemptVars
<1>4. ASSUME NEW w \in Workers, Finalize(w)
      PROVE  BillGuardAccepts /\ \A n \in Attempts : AttemptGuardAccepts(n)
  <2>1. PICK n \in Attempts : n = run[w].n
    BY <1>4, Names DEF Finalize, FinalizeAccepted, FinalizeNotAccepted, FinalizeLate, FinalizeConflict
  <2>2. CASE FinalizeAccepted(w)
    <3>1. bill = "sending" /\ bill' \in {"sent", "sending"} /\ UNCHANGED <<current, authorized>>
      BY <2>1, <2>2 DEF FinalizeAccepted, SendingThis, InFlight, OneInFlight
    <3> QED BY <2>1, <2>2, <3>1, CloseAccepted DEF FinalizeAccepted, BillGuardAccepts, BillEdges
  <2>3. CASE FinalizeNotAccepted(w)
    <3>1. bill = "sending" /\ bill' \in {"unknown", "pending", "failed"} /\ UNCHANGED <<current, authorized>>
      BY <2>1, <2>3 DEF FinalizeNotAccepted, SendingThis, InFlight, OneInFlight
    <3> QED BY <2>1, <2>3, <3>1, CloseAccepted DEF FinalizeNotAccepted, BillGuardAccepts, BillEdges
  <2>4. CASE FinalizeLate(w)
    <3>1. bill' = bill \/ (bill \in {"unknown", "failed"} /\ bill' = "sent")
      BY <2>4 DEF FinalizeLate
    <3>2. BillGuardAccepts
      BY <2>4, <3>1 DEF FinalizeLate, BillGuardAccepts, BillEdges
    <3>3. \E proof \in {"accepted", attempt[n].proof} :
            Close(n, "accepted", proof, FALSE) /\ attempt[n].proof \in {"none", proof} /\ attempt[n].outcome \in NeverKnown
      BY <2>1, <2>4 DEF FinalizeLate
    <3> QED BY <3>2, <3>3, CloseAccepted
  <2>5. CASE FinalizeConflict(w)
    BY <2>5, BillUntouched, AttemptsUntouched DEF FinalizeConflict, sourceVars, attemptVars
  <2> QED BY <1>4, <2>2, <2>3, <2>4, <2>5 DEF Finalize
<1>5. CASE ExpireClaim
  <2>1. BillGuardAccepts
    BY <1>5 DEF ExpireClaim, Expirable, ExpiredBill, BillGuardAccepts, BillEdges
  <2>2. Close(current, "claim_expired", "none", FALSE) /\ attempt[current].outcome = "open"
    BY <1>5 DEF ExpireClaim, Expirable, Expired
  <2>3. CASE current \in Attempts
    BY <2>1, <2>2, <2>3, CloseAccepted
  <2>4. CASE current \notin Attempts
    <3>1. attempt' = attempt
      BY <2>2, <2>4 DEF Close, TypeOK
    <3> QED BY <2>1, <3>1, AttemptsUntouched
  <2> QED BY <2>3, <2>4
<1>6. ASSUME NEW n \in Attempts, NEW receipt \in Receipts, ApplyReceipt(n, receipt)
      PROVE  BillGuardAccepts /\ \A m \in Attempts : AttemptGuardAccepts(m)
  <2>1. CASE ApplyProof(n, receipt)
    <3>1. BillGuardAccepts
      BY <2>1 DEF ApplyProof, BillGuardAccepts, BillEdges
    <3> QED BY <2>1, <3>1, ProveAccepted DEF ApplyProof
  <2>2. CASE ApplyShut(n)
    <3>1. bill = "sent" /\ bill' \in {"pending", "failed"} /\ current = n /\ UNCHANGED <<current, authorized, attempt>>
      BY <2>2 DEF ApplyShut, RetryShut, attemptVars
    <3> QED BY <2>2, <3>1, ShutFirst, AttemptsUntouched DEF BillGuardAccepts, BillEdges
  <2>3. CASE ApplyFailed(n)
    BY <2>3, BillUntouched, AttemptsUntouched DEF ApplyFailed, sourceVars, attemptVars
  <2> QED BY <1>6, <2>1, <2>2, <2>3 DEF ApplyReceipt
<1>7. ASSUME NEW n \in Attempts, AlertUnlinked(n)
      PROVE  BillGuardAccepts /\ \A m \in Attempts : AttemptGuardAccepts(m)
  BY <1>7, BillUntouched, AttemptsUntouched DEF AlertUnlinked, sourceVars, attemptVars
<1>8. ASSUME NEW n \in Attempts, LinkReceipt(n)
      PROVE  BillGuardAccepts /\ \A m \in Attempts : AttemptGuardAccepts(m)
  <2>1. BillGuardAccepts
    BY <1>8 DEF LinkReceipt, BillGuardAccepts, BillEdges
  <2> QED BY <1>8, <2>1, ProveAccepted DEF LinkReceipt
<1>9. CASE BillResend \/ BillCompose \/ BillAbandon \/ HoldOrRelease
  BY <1>9, AttemptsUntouched DEF BillResend, BillCompose, BillAbandon, HoldOrRelease, Reauthorize, attemptVars,
                                BillGuardAccepts, BillEdges, TypeOK
<1>10. CASE BillConfirmSent
  <2>1. BillGuardAccepts
    BY <1>10 DEF BillConfirmSent, BillGuardAccepts, BillEdges
  <2>2. Prove(current, "operator")
    BY <1>10 DEF BillConfirmSent
  <2>3. CASE current \in Attempts
    BY <2>1, <2>2, <2>3, ProveAccepted
  <2>4. CASE current \notin Attempts
    <3>1. attempt' = attempt
      BY <2>2, <2>4 DEF Prove, TypeOK
    <3> QED BY <2>1, <3>1, AttemptsUntouched
  <2> QED BY <2>3, <2>4
<1>11. CASE World \/ UNCHANGED vars
  BY <1>11, BillUntouched, AttemptsUntouched
     DEF World, BackoffElapses, FactsChange, Journal, ReceiptsAge, vars, sourceVars, attemptVars
<1> QED BY <1>1, <1>2, <1>3, <1>4, <1>5, <1>6, <1>7, <1>8, <1>9, <1>10, <1>11
        DEF Next, ClaimOrClose, Sweep, ReplaySwept, ReplayOne, Operator

\* No operation asks the triggers on the source and on its attempts for an update of the bill,
\* of its authorization or of an attempt that they refuse.
THEOREM BillGuardHolds == Spec => BillGuard
<1>1. Typed /\ InFlight /\ Ordered /\ Truthful /\ [Next]_vars
        => [BillGuardAccepts /\ \A n \in Attempts : AttemptGuardAccepts(n)]_vars
  BY GuardStep
<1> QED BY TypedInit, TypedStep, RowsInit, TruthfulInit, InFlightStep, OnceStep, RowsStep, TruthfulStep, <1>1, PTL
        DEF Spec, BillGuard
=============================================================================
