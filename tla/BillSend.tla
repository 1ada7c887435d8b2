------------------------------- MODULE BillSend -------------------------------
(***************************************************************************)
(* T2, T3 and T4 of migration 017, and what may happen to a bill after     *)
(* them: the order confirmation of ONE applied source, from the frozen     *)
(* snapshot to the customer's phone.  Bills share no row, so one is enough.*)
(*                                                                         *)
(* Actors: worker runs, that claim an attempt, send it and record the      *)
(* result, and may stall or die anywhere in between; Meta, which takes or  *)
(* refuses a message, answers or does not, and sends receipts in any order *)
(* and any number of times; the sweeper, that expires claims and replays   *)
(* receipts; the operator.                                                 *)
(*                                                                         *)
(* A message that Meta takes has a WhatsApp id (wamid) of its own; the     *)
(* attempt that sent it stands for that id.                                *)
(*                                                                         *)
(* Nothing uses the operators named Faulty...: each is a plausible mistake *)
(* in the definition that follows it.                                      *)
(***************************************************************************)
EXTENDS Naturals, FiniteSets

CONSTANTS
  Workers,          \* concurrent worker runs
  MaxBillAttempts,  \* GROCERY_BILL_MAX_ATTEMPTS: automatic attempts per authorization
  MaxSends,         \* bound of the model: attempts over all authorizations
  MayReport,        \* bound of the model: the receipts, <<attempt, status>>, that Meta may send
  MayChange         \* bound of the model: which of "uncomposed", "held", "stale",
                    \* "cancelled", "prior_log", "aged" may come about

ASSUME BillSendAssumption ==
  /\ MaxBillAttempts \in Nat \ {0}
  /\ MaxSends \in Nat /\ MaxBillAttempts <= MaxSends
  /\ MayReport \subseteq (1..MaxSends) \X {"sent", "delivered", "read", "failed"}
  /\ MayChange \subseteq {"uncomposed", "held", "stale", "cancelled", "prior_log", "aged"}

Attempts == 1..MaxSends

VARIABLES
  bill, billProof, billAttempts, base, current, authorized, due, held,
             \* columns of the source: bill_state, bill_proof, bill_attempts,
             \* bill_attempt_budget_base, bill_current_attempt_id (0: none),
             \* a bill_authorization_audit_id is set, bill_next_attempt_at
             \* has passed, bill_hold_reason is set
  snapshot, stale, cancelled, priorLog,
             \* the snapshot exists, is older than GROCERY_BILL_MAX_AGE_H; the bag
             \* is cancelled; a whatsapp_messages row of the old code shows the send
  attempt,   \* shopify_order_bill_attempts
  hasWamid,  \* attempts with a wamid, in their own row and in their message row
  message,   \* whatsapp_messages.status of each attempt's row, "none" before it exists
  shut,      \* messages whose error_code is 131047, the 24h window is shut
  journal,   \* whatsapp_receipt_backlog: <<attempt, receipt>>
  applied,   \* the receipts with an applied_at
  aged,      \* the receipts journalled more than 14 days ago, and not applied by then
  alerts,
  fate,      \* what became of each message at Meta; no code reads it
  run        \* the worker runs

sourceVars == <<bill, billProof, billAttempts, base, current, authorized, due, held>>
factVars == <<snapshot, stale, cancelled, priorLog>>
attemptVars == <<attempt, hasWamid>>
messageVars == <<message, shut>>
receiptVars == <<journal, applied, aged>>
vars == <<sourceVars, factVars, attemptVars, messageVars, receiptVars, alerts, fate, run>>

Bills == {"pending", "sending", "sent", "failed", "unknown", "abandoned", "not_required"}
Outcomes == {"unclaimed", "open", "accepted", "not_sent", "ambiguous", "claim_expired"}
NeverKnown == {"ambiguous", "claim_expired"}
Proofs == {"none", "accepted", "receipt", "operator", "prior_log"}
Receipts == {"sent", "delivered", "read", "failed"}
Fates == {"none", "taken", "shut"}

\* asb_msg_status_rank.
Rank == [none |-> 0, queued |-> 0, sent |-> 1, failed |-> 2, delivered |-> 3, read |-> 4]

\* A transport result of whatsapp.js.
Result(outcome, retryable, template) == [outcome |-> outcome, retryable |-> retryable, template |-> template]
NoResult == Result("none", FALSE, FALSE)
Run(pc, n, result) == [pc |-> pc, n |-> n, result |-> result]
Idle == Run("idle", 0, NoResult)
Attempt(outcome, proof, channel, byPerson, template) ==
  [outcome |-> outcome, proof |-> proof, channel |-> channel, byPerson |-> byPerson, template |-> template]
Unclaimed == Attempt("unclaimed", "none", "text", FALSE, FALSE)

Init ==
  /\ \/ bill = "pending" /\ snapshot = TRUE /\ alerts = {}
     \/ /\ "uncomposed" \in MayChange
        /\ bill = "failed" /\ snapshot = FALSE /\ alerts = {<<"compose_error", 0>>}
  /\ billProof = "none" /\ billAttempts = 0 /\ base = 0 /\ current = 0
  /\ authorized = FALSE /\ due = TRUE /\ held = FALSE
  /\ stale = FALSE /\ cancelled = FALSE /\ priorLog \in BOOLEAN /\ (priorLog => "prior_log" \in MayChange)
  /\ attempt = [n \in Attempts |-> Unclaimed]
  /\ hasWamid = {} /\ shut = {}
  /\ message = [n \in Attempts |-> "none"]
  /\ journal = {} /\ applied = {} /\ aged = {}
  /\ fate = [n \in Attempts |-> "none"]
  /\ run = [w \in Workers |-> Idle]

------------------------------------------------------------------------------
(* Alerts, and the states that a bill leaves its attempt for.              *)

\* The rows of the outbox are told apart by the number of attempts so far.
FaultyRaised(kind, n) == IF \E a \in alerts : a[1] = kind THEN {} ELSE {<<kind, n>>}
Raised(kind, n) == {<<kind, n>>}

Used == billAttempts - base
FaultyBudgetLeft == Used <= MaxBillAttempts
BudgetLeft == Used < MaxBillAttempts

------------------------------------------------------------------------------
(* T2: claim.  One transaction under the source's row lock.                *)

FaultyClaimable == bill = "pending" /\ due /\ ~held /\ Used + 1 < MaxBillAttempts
Claimable == bill = "pending" /\ due /\ ~held

\* A log row of the old code shows that the bill went out.
ClaimPriorLog ==
  /\ Claimable /\ priorLog
  /\ bill' = "sent" /\ billProof' = "prior_log" /\ authorized' = FALSE
  /\ UNCHANGED <<billAttempts, base, current, due, held, factVars, attemptVars, messageVars, receiptVars,
                 alerts, fate, run>>

ClaimCancelled ==
  /\ Claimable /\ ~priorLog /\ cancelled
  /\ bill' = "not_required" /\ authorized' = FALSE
  /\ UNCHANGED <<billProof, billAttempts, base, current, due, held, factVars, attemptVars, messageVars,
                 receiptVars, alerts, fate, run>>

\* An operator's resend overrides the age, for its own retries too.
Authorized == authorized \/ \E n \in Attempts : n > base /\ attempt[n].byPerson

ClaimStale ==
  /\ Claimable /\ ~priorLog /\ ~cancelled
  /\ stale /\ ~Authorized
  /\ bill' = "failed"
  /\ alerts' = alerts \cup Raised("bill_stale", billAttempts)
  /\ UNCHANGED <<billProof, billAttempts, base, current, authorized, due, held, factVars, attemptVars,
                 messageVars, receiptVars, fate, run>>

\* After a 131047 for this bill only the template, else what the window allows.
ForceTemplate == \E n \in Attempts : attempt[n].template \/ n \in shut

Claim(w, windowOpen) ==
  LET n == billAttempts + 1
      channel == IF windowOpen /\ ~ForceTemplate THEN "text" ELSE "template"
  IN
  /\ run[w].pc = "idle" /\ Claimable /\ ~priorLog /\ ~cancelled /\ (~stale \/ Authorized)
  /\ n <= MaxSends
  /\ attempt' = [attempt EXCEPT ![n] = Attempt("open", "none", channel, authorized, FALSE)]
  /\ bill' = "sending" /\ billAttempts' = n /\ current' = n /\ authorized' = FALSE
  /\ run' = [run EXCEPT ![w] = Run("claimed", n, NoResult)]
  /\ UNCHANGED <<billProof, base, due, held, factVars, hasWamid, messageVars, receiptVars, alerts, fate>>

------------------------------------------------------------------------------
(* T3: send.  No transaction and no lock; the claim may have expired.      *)
(* Meta's part is an assumption: a refusal, or no connection, means that   *)
(* nothing was sent; without a clear answer anything may have happened;    *)
(* a text that was taken may still find the window shut.                   *)

\* 'not_sent' and 'refused' differ in their name only: both are "not_sent" here.
Refusals(channel) == {Result("not_sent", retryable, FALSE) : retryable \in BOOLEAN}
                       \cup (IF channel = "text" THEN {Result("not_sent", TRUE, TRUE)} ELSE {})
Answers(channel) == Refusals(channel)
                      \cup {Result(outcome, FALSE, FALSE) : outcome \in {"accepted", "ambiguous"}}

\* What may become of the message that got this answer.
FatesOf(channel, outcome) ==
  (IF outcome = "accepted" THEN {} ELSE {"none"})
    \cup (IF outcome = "not_sent" THEN {} ELSE {"taken"})
    \cup (IF outcome # "not_sent" /\ channel = "text" THEN {"shut"} ELSE {})

Send(w) ==
  LET n == run[w].n IN
  /\ run[w].pc = "claimed"
  /\ \E result \in Answers(attempt[n].channel) : \E f \in FatesOf(attempt[n].channel, result.outcome) :
       /\ fate' = [fate EXCEPT ![n] = f]
       /\ run' = [run EXCEPT ![w] = Run("result", n, result)]
  /\ UNCHANGED <<sourceVars, factVars, attemptVars, messageVars, receiptVars, alerts>>

------------------------------------------------------------------------------
(* T4: finalize, and the expiry of a claim that never got there.           *)

\* The transaction commits; the run may not see it and tries the same again.
Committed(w) == run' \in {run, [run EXCEPT ![w] = Idle]}

FaultyAccepted(result) == result.outcome \in {"accepted", "ambiguous"}
Accepted(result) == result.outcome = "accepted"

\* logInTx: the row of this attempt's message, in the transaction.
Log(n, status) == message' = [message EXCEPT ![n] = status]

\* markSentInTx: a row that was queued becomes sent, with the wamid if there is one.
MarkSent(n) == message' = [message EXCEPT ![n] = IF Rank[@] < Rank["sent"] THEN "sent" ELSE @]

\* The attempt's row takes an outcome; only a later proof changes it again.
Close(n, outcome, proof, template) ==
  attempt' = [attempt EXCEPT ![n] = Attempt(outcome, proof, attempt[n].channel, attempt[n].byPerson, template)]

\* The first proof stays: COALESCE(proof, ...).
Prove(n, proof) ==
  attempt' = [attempt EXCEPT ![n] =
                Attempt(@.outcome, IF @.proof = "none" THEN proof ELSE @.proof, @.channel, @.byPerson, @.template)]

SendingThis(n) == bill = "sending" /\ current = n

FinalizeAccepted(w) ==
  LET n == run[w].n IN
  /\ run[w].pc = "result" /\ attempt[n].outcome = "open" /\ Accepted(run[w].result)
  /\ Close(n, "accepted", "accepted", FALSE)
  /\ hasWamid' = hasWamid \cup {n}
  /\ Log(n, "sent")
  /\ IF SendingThis(n) THEN bill' = "sent" /\ billProof' = "accepted" ELSE UNCHANGED <<bill, billProof>>
  /\ Committed(w)
  /\ UNCHANGED <<billAttempts, base, current, authorized, due, held, factVars, shut, receiptVars, alerts, fate>>

\* Nothing was sent, or nobody knows.
FinalizeNotAccepted(w) ==
  LET n == run[w].n
      result == run[w].result
  IN
  /\ run[w].pc = "result" /\ attempt[n].outcome = "open" /\ ~Accepted(result)
  /\ Close(n, result.outcome, "none", result.template)
  /\ Log(n, IF result.outcome = "ambiguous" THEN "queued" ELSE "failed")
  /\ IF ~SendingThis(n)
     THEN alerts' = alerts \cup Raised("finalize_conflict", n) /\ UNCHANGED <<bill, due>>
     ELSE \/ /\ result.outcome = "ambiguous"
             /\ bill' = "unknown" /\ alerts' = alerts \cup Raised("bill_unknown", n)
             /\ UNCHANGED due
          \/ /\ result.outcome # "ambiguous" /\ result.retryable /\ BudgetLeft
             /\ bill' = "pending" /\ due' = result.template
             /\ UNCHANGED alerts
          \/ /\ result.outcome # "ambiguous" /\ ~(result.retryable /\ BudgetLeft)
             /\ bill' = "failed" /\ alerts' = alerts \cup Raised("bill_failed", n)
             /\ UNCHANGED due
  /\ Committed(w)
  /\ UNCHANGED <<billProof, billAttempts, base, current, authorized, held, factVars, hasWamid, shut,
                 receiptVars, fate>>

\* The attempt was closed meanwhile as never known, and Meta did take it.
FinalizeLate(w) ==
  LET n == run[w].n IN
  /\ run[w].pc = "result" /\ attempt[n].outcome \in NeverKnown /\ Accepted(run[w].result)
  /\ Close(n, "accepted", IF attempt[n].proof = "none" THEN "accepted" ELSE attempt[n].proof, FALSE)
  /\ hasWamid' = hasWamid \cup {n}
  /\ MarkSent(n)
  /\ IF bill \in {"unknown", "failed"} THEN bill' = "sent" /\ billProof' = "accepted"
                                       ELSE UNCHANGED <<bill, billProof>>
  /\ Committed(w)
  /\ UNCHANGED <<billAttempts, base, current, authorized, due, held, factVars, shut, receiptVars, alerts, fate>>

\* Any other result for a closed attempt, the repetition of a commit included.
FinalizeConflict(w) ==
  LET n == run[w].n IN
  /\ run[w].pc = "result" /\ attempt[n].outcome # "open"
  /\ ~(attempt[n].outcome \in NeverKnown /\ Accepted(run[w].result))
  /\ alerts' = alerts \cup Raised("finalize_conflict", n)
  /\ Committed(w)
  /\ UNCHANGED <<sourceVars, factVars, attemptVars, messageVars, receiptVars, fate>>

\* The process dies, or the database is away for longer than the retries.
Crash(w) ==
  /\ run[w].pc # "idle"
  /\ run' = [run EXCEPT ![w] = Idle]
  /\ UNCHANGED <<sourceVars, factVars, attemptVars, messageVars, receiptVars, alerts, fate>>

\* The sweeper, once a claim is older than GROCERY_BILL_CLAIM_EXPIRY_MIN: the
\* run may be dead or only slow, and its message sent or not.
FaultyExpiredBill == "pending"
ExpiredBill == "unknown"

FaultyExpired(n) == Close(n, "claim_expired", "none", FALSE) /\ UNCHANGED message
Expired(n) == Close(n, "claim_expired", "none", FALSE) /\ Log(n, "queued")

FaultyExpirable == bill = "sending" /\ attempt[current].outcome = "open" /\ \E w \in Workers : run[w].n = current
Expirable == bill = "sending" /\ attempt[current].outcome = "open"

ExpireClaim ==
  /\ Expirable
  /\ Expired(current)
  /\ bill' = ExpiredBill
  /\ alerts' = alerts \cup Raised("bill_unknown", current)
  /\ UNCHANGED <<billProof, billAttempts, base, current, authorized, due, held, factVars, hasWamid, shut,
                 receiptVars, fate, run>>

BackoffElapses ==
  /\ ~due
  /\ due' = TRUE
  /\ UNCHANGED <<bill, billProof, billAttempts, base, current, authorized, held, factVars, attemptVars,
                 messageVars, receiptVars, alerts, fate, run>>

------------------------------------------------------------------------------
(* Receipts.  Journalled before the webhook's 200, in any order; applied   *)
(* once their message's row exists, in any order, each once.               *)

\* What Meta may report: a message that was delivered never fails, and one
\* that found the window shut is reported as failed only.
Journalled(n, receipts) == \E receipt \in receipts : <<n, receipt>> \in journal
Reportable(n) ==
  CASE fate[n] = "none" -> {}
    [] fate[n] = "shut" -> {"failed"}
    [] fate[n] = "taken" -> {"sent"}
         \cup (IF Journalled(n, {"failed"}) THEN {} ELSE {"delivered", "read"})
         \cup (IF Journalled(n, {"delivered", "read"}) THEN {} ELSE {"failed"})

Journal(n, receipt) ==
  /\ receipt \in Reportable(n) /\ <<n, receipt>> \in MayReport
  /\ journal' = journal \cup {<<n, receipt>>}
  /\ UNCHANGED <<sourceVars, factVars, attemptVars, messageVars, applied, aged, alerts, fate, run>>

FaultyAdvance(n, receipt) == message' = [message EXCEPT ![n] = receipt]
Advance(n, receipt) == message' = [message EXCEPT ![n] = IF Rank[@] < Rank[receipt] THEN receipt ELSE @]

FaultyApplicable(n, receipt) ==
  <<n, receipt>> \in journal \ applied /\ n \in hasWamid /\ Rank[message[n]] < Rank[receipt]
Applicable(n, receipt) == <<n, receipt>> \in journal \ applied /\ n \in hasWamid

\* The part of applyOne that concerns the message and the journal.
ApplyToMessage(n, receipt) ==
  /\ Applicable(n, receipt)
  /\ Advance(n, receipt)
  /\ applied' = applied \cup {<<n, receipt>>}

\* error_code is written together with the status 'failed'.
Is131047(n) == fate[n] = "shut"
ShutBy(n) == IF Is131047(n) /\ Rank[message[n]] < Rank["failed"] THEN {n} ELSE {}

ApplyProof(n, receipt) ==
  /\ receipt \in {"sent", "delivered", "read"}
  /\ ApplyToMessage(n, receipt)
  /\ Prove(n, "receipt")
  /\ IF bill \in {"unknown", "failed"} THEN bill' = "sent" /\ billProof' = "receipt"
                                       ELSE UNCHANGED <<bill, billProof>>
  /\ UNCHANGED <<billAttempts, base, current, authorized, due, held, factVars, hasWamid, shut, journal,
                 aged, alerts, fate, run>>

\* The TEXT bill was taken and never delivered: again, as a template.
FaultyRetryShut(n) == Is131047(n) /\ attempt[n].channel = "text" /\ bill = "sent"
RetryShut(n) == Is131047(n) /\ attempt[n].channel = "text" /\ bill = "sent" /\ current = n

ApplyShut(n) ==
  /\ ApplyToMessage(n, "failed") /\ RetryShut(n)
  /\ shut' = shut \cup ShutBy(n)
  /\ billProof' = "none"
  /\ IF BudgetLeft
     THEN bill' = "pending" /\ due' = TRUE /\ UNCHANGED alerts
     ELSE bill' = "failed" /\ alerts' = alerts \cup Raised("bill_failed", n) /\ UNCHANGED due
  /\ UNCHANGED <<billAttempts, base, current, authorized, held, factVars, attemptVars, journal, aged, fate, run>>

ApplyFailed(n) ==
  /\ ApplyToMessage(n, "failed") /\ ~RetryShut(n)
  /\ shut' = shut \cup ShutBy(n)
  /\ alerts' = IF bill = "sent" THEN alerts \cup Raised("bill_delivery_failed", n) ELSE alerts
  /\ UNCHANGED <<sourceVars, factVars, attemptVars, journal, aged, fate, run>>

ApplyReceipt(n, receipt) ==
  ApplyProof(n, receipt) \/ (receipt = "failed" /\ (ApplyShut(n) \/ ApplyFailed(n)))

\* Two weeks go by: every minute a sweep replays what has a message row, so only
\* the receipts that have none grow old.
ReceiptsAge ==
  /\ "aged" \in MayChange
  /\ aged' = aged \cup {p \in journal \ applied : p[1] \notin hasWamid} /\ aged' # aged
  /\ UNCHANGED <<sourceVars, factVars, attemptVars, messageVars, journal, applied, alerts, fate, run>>

\* The sweep replays the receipts of the last 14 days.  T4 and link-receipt,
\* after their commit, and the webhook, each time a receipt comes, try the
\* receipts of one wamid whatever their age, once, and the try may be lost.
ReplaySwept == \E n \in Attempts, receipt \in Receipts : <<n, receipt>> \notin aged /\ ApplyReceipt(n, receipt)
ReplayOne == \E n \in Attempts, receipt \in Receipts : ApplyReceipt(n, receipt)

\* The sweeper points at the attempts that a receipt without a message row may prove.
Candidate(n) == attempt[n].outcome \in NeverKnown /\ n \notin hasWamid
ProvenByJournal(n) == Journalled(n, {"sent", "delivered", "read"})

AlertUnlinked(n) ==
  /\ ProvenByJournal(n) /\ Candidate(n)
  /\ <<"receipt_unlinked", n>> \notin alerts
  /\ alerts' = alerts \cup Raised("receipt_unlinked", n)
  /\ UNCHANGED <<sourceVars, factVars, attemptVars, messageVars, receiptVars, fate, run>>

------------------------------------------------------------------------------
(* The operator: every action refuses a bill in flight (locked).           *)

\* A whole budget must be left within the bound of the model.
Reauthorize == /\ billAttempts + MaxBillAttempts <= MaxSends
               /\ bill' = "pending" /\ authorized' = TRUE /\ base' = billAttempts /\ due' = TRUE

BillResend ==
  /\ bill \in {"failed", "unknown"} /\ snapshot
  /\ Reauthorize
  /\ UNCHANGED <<billProof, billAttempts, current, held, factVars, attemptVars, messageVars, receiptVars,
                 alerts, fate, run>>

BillCompose ==
  /\ bill = "failed" /\ ~snapshot
  /\ snapshot' = TRUE
  /\ Reauthorize
  /\ UNCHANGED <<billProof, billAttempts, current, held, stale, cancelled, priorLog, attemptVars, messageVars,
                 receiptVars, alerts, fate, run>>

BillConfirmSent ==
  /\ bill = "unknown"
  /\ bill' = "sent" /\ billProof' = "operator"
  /\ Prove(current, "operator")
  /\ MarkSent(current)
  /\ UNCHANGED <<billAttempts, base, current, authorized, due, held, factVars, hasWamid, shut, receiptVars,
                 alerts, fate, run>>

BillAbandon ==
  /\ bill \in {"failed", "unknown"}
  /\ bill' = "abandoned"
  /\ UNCHANGED <<billProof, billAttempts, base, current, authorized, due, held, factVars, attemptVars,
                 messageVars, receiptVars, alerts, fate, run>>

HoldOrRelease ==
  /\ "held" \in MayChange /\ bill # "sending"
  /\ held' = ~held
  /\ UNCHANGED <<bill, billProof, billAttempts, base, current, authorized, due, factVars, attemptVars,
                 messageVars, receiptVars, alerts, fate, run>>

\* The operator links the receipt to the attempt it belongs to.  The guard on
\* the attempt's row refuses to replace a proof: then nothing is changed.
LinkReceipt(n) ==
  /\ bill # "sending"
  /\ Candidate(n) /\ ProvenByJournal(n) /\ attempt[n].proof = "none"
  /\ Prove(n, "receipt")
  /\ hasWamid' = hasWamid \cup {n}
  /\ MarkSent(n)
  /\ IF bill \in {"unknown", "failed"} THEN bill' = "sent" /\ billProof' = "receipt"
                                       ELSE UNCHANGED <<bill, billProof>>
  /\ UNCHANGED <<billAttempts, base, current, authorized, due, held, factVars, shut, receiptVars, alerts, fate, run>>

\* Time makes the bill too old; staff cancel the bag.
FactsChange ==
  /\ \/ ~stale /\ snapshot /\ "stale" \in MayChange /\ stale' = TRUE /\ UNCHANGED cancelled
     \/ ~cancelled /\ "cancelled" \in MayChange /\ cancelled' = TRUE /\ UNCHANGED stale
  /\ UNCHANGED <<snapshot, priorLog, sourceVars, attemptVars, messageVars, receiptVars, alerts, fate, run>>

------------------------------------------------------------------------------
Finalize(w) == FinalizeAccepted(w) \/ FinalizeNotAccepted(w) \/ FinalizeLate(w) \/ FinalizeConflict(w)
ClaimOrClose == ClaimPriorLog \/ ClaimCancelled \/ ClaimStale \/ \E w \in Workers, open \in BOOLEAN : Claim(w, open)

Sweep == ExpireClaim \/ ReplaySwept \/ \E n \in Attempts : AlertUnlinked(n)
Operator == BillResend \/ BillCompose \/ BillConfirmSent \/ BillAbandon \/ HoldOrRelease
              \/ \E n \in Attempts : LinkReceipt(n)
World == BackoffElapses \/ FactsChange \/ ReceiptsAge \/ \E n \in Attempts, receipt \in Receipts : Journal(n, receipt)

Next ==
  \/ ClaimOrClose
  \/ \E w \in Workers : Send(w) \/ Finalize(w) \/ Crash(w)
  \/ Sweep \/ ReplayOne \/ Operator \/ World

Spec == Init /\ [][Next]_vars

(***************************************************************************)
(* Fairness.  The sweeper runs every minute: it claims what is due,        *)
(* expires old claims and replays recent receipts; time passes; a run,     *)
(* which waits for no other, sends, finalizes or dies.  Nothing is assumed *)
(* of the operator, of Meta, nor of the replays of one wamid.              *)
(***************************************************************************)
FairSpec ==
  /\ Spec
  /\ WF_vars(ClaimOrClose) /\ WF_vars(ExpireClaim) /\ WF_vars(BackoffElapses)
  /\ \A w \in Workers : WF_vars(Send(w) \/ (Finalize(w) /\ run'[w] = Idle) \/ Crash(w))
  /\ WF_vars(ReplaySwept)

------------------------------------------------------------------------------
(* Properties.                                                             *)

TypeOK ==
  /\ bill \in Bills /\ billProof \in Proofs
  /\ billAttempts \in 0..MaxSends /\ base \in 0..MaxSends /\ current \in 0..MaxSends
  /\ authorized \in BOOLEAN /\ due \in BOOLEAN /\ held \in BOOLEAN
  /\ snapshot \in BOOLEAN /\ stale \in BOOLEAN /\ cancelled \in BOOLEAN /\ priorLog \in BOOLEAN
  /\ attempt \in [Attempts -> [outcome : Outcomes, proof : Proofs, channel : {"text", "template"},
                               byPerson : BOOLEAN, template : BOOLEAN]]
  /\ hasWamid \subseteq Attempts /\ shut \subseteq Attempts
  /\ message \in [Attempts -> Receipts \cup {"none", "queued"}]
  /\ journal \subseteq Attempts \X Receipts /\ applied \subseteq journal /\ aged \subseteq journal
  /\ fate \in [Attempts -> Fates]
  /\ run \in [Workers -> [pc : {"idle", "claimed", "result"}, n : 0..MaxSends,
                          result : [outcome : {"none", "accepted", "not_sent", "ambiguous"},
                                    retryable : BOOLEAN, template : BOOLEAN]]]

\* "AT-MOST-ONCE AUTOMATIC SEND" (grocery/billing.js:4): between two bills that
\* reached the customer a person authorized the second one, whatever runs
\* stalled, claims expired, answers were lost and receipts came late.
AtMostOnceAutomatic == \A m, n \in Attempts :
  m < n /\ fate[m] = "taken" /\ fate[n] = "taken" => \E k \in (m + 1)..n : attempt[k].byPerson

\* The bill is in 'sending' exactly while its current attempt has no outcome;
\* no other attempt is open; and each closed attempt has its message row, so
\* the log of a finalize never meets another's row (OutboundLogConflict).
OneInFlight == \A n \in Attempts :
  /\ attempt[n].outcome = "open" <=> bill = "sending" /\ current = n
  /\ attempt[n].outcome = "unclaimed" <=> n > billAttempts
  /\ message[n] = "none" <=> attempt[n].outcome \in {"unclaimed", "open"}
  /\ n \in hasWamid /\ attempt[n].outcome # "accepted" => attempt[n].proof = "receipt"

\* No authorization pays for more than GROCERY_BILL_MAX_ATTEMPTS attempts.
BillBudget == Used <= MaxBillAttempts /\ (bill = "pending" => Used < MaxBillAttempts)

\* The database says that a bill was sent, on Meta's word, only if Meta took a
\* message of it; and unless one of those is without a 'failed' receipt, a person
\* has been alerted: to that failure, or, because a failure raises nothing while
\* the bill is not 'sent' (grocery/receipts.js:119), to the stop of that attempt
\* or a later one, before an older receipt proved the bill (receipts.js:95).
Warnings == {"bill_delivery_failed", "bill_unknown", "bill_failed", "bill_stale", "compose_error"}
Warned(n) == \E a \in alerts : a[1] \in Warnings /\ a[2] >= n
SentIsProved == bill = "sent" /\ billProof \in {"accepted", "receipt"} =>
  \E n \in hasWamid : fate[n] # "none" /\ (<<n, "failed">> \in applied => Warned(n))

\* Every stop that waits for a person was announced, each time anew.
StopIsAlerted ==
  /\ bill = "unknown" => <<"bill_unknown", current>> \in alerts
  /\ bill = "failed" => \E kind \in {"bill_failed", "bill_stale", "compose_error", "bill_unknown"} :
                          <<kind, billAttempts>> \in alerts

\* The receipts of a message may come in any order: its row shows the furthest
\* of those applied, as if they had come in order (grocery/receipts.js:10-15).
ReceiptOrderIsIrrelevant == \A n \in hasWamid :
  LET seen == {"sent"} \cup {receipt \in Receipts : <<n, receipt>> \in applied} IN
  message[n] \in seen /\ \A status \in seen : Rank[status] <= Rank[message[n]]

\* asb017_sources_guard and asb017_attempts_guard: no operation asks for an
\* update of the bill, its authorization or an attempt that the triggers refuse.
BillEdges ==
  ({"pending"} \X {"sending", "sent", "not_required", "failed"}) \cup
  ({"sending"} \X {"sent", "pending", "failed", "unknown"}) \cup
  ({"sent"} \X {"pending", "failed"}) \cup
  ({"unknown", "failed"} \X {"sent", "pending", "abandoned"})
AttemptGuardAccepts(n) ==
  /\ attempt[n].outcome \notin {"unclaimed", "open", attempt'[n].outcome} =>
       attempt[n].outcome \in NeverKnown /\ attempt'[n].outcome = "accepted"
  /\ attempt[n].proof # "none" => attempt'[n].proof = attempt[n].proof
BillGuardAccepts ==
  /\ bill' # bill => <<bill, bill'>> \in BillEdges
  /\ bill \in {"failed", "unknown"} /\ bill' = "pending" => authorized'
  /\ bill = "sent" /\ bill' # "sent" => current \in shut'
  /\ current' # current => bill = "pending" /\ bill' = "sending"
  /\ authorized' # authorized => IF authorized THEN bill = "pending" /\ bill' # "pending"
                                 ELSE bill \in {"failed", "unknown"} /\ bill' = "pending"
BillGuard == [][BillGuardAccepts /\ \A n \in Attempts : AttemptGuardAccepts(n)]_vars

\* A claimed attempt does not stay in flight, and a bill that is to be sent is
\* tried or closed, unless an operator holds it.
InFlightEnds == bill = "sending" ~> bill # "sending"
PendingEnds == <>[]~held => (bill = "pending" ~> bill # "pending")

\* No receipt of the last 14 days is left behind: again and again, each one whose
\* message has a row is applied, those included that came before the row.  An older
\* one gets the tries of ReplayOne only, against grocery/receipts.js:13-15.
ReceiptsAreApplied == []<>(\A p \in journal \ aged : p[1] \in hasWamid => p \in applied)

\* "WHATEVER the source's bill state is now ... an operator links one
\* explicitly" (grocery/receipts.js:156-163): each attempt that the alert lists
\* as a candidate can take the receipt.
CandidateIsLinkable == [][\A n \in Attempts :
  <<"receipt_unlinked", n>> \in alerts' \ alerts => attempt[n].proof = "none"]_vars
=============================================================================
