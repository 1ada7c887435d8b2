------------------------------ MODULE OrderSource ------------------------------
(***************************************************************************)
(* T0 and T1 of migration 017: how a Shopify orders/create delivery        *)
(* becomes one durable row of shopify_order_sources, and how that row is   *)
(* applied to the household's grocery bag.                                 *)
(*                                                                         *)
(* Actors: Shopify, which delivers and redelivers until it reads a 200;    *)
(* worker runs (a kick after the 200, or the sweeper, in any number of     *)
(* server instances), each of which may die at any point; the sweeper that *)
(* expires leases; the operator; staff, who edit the Community registry    *)
(* and the bags while all this runs.                                       *)
(*                                                                         *)
(* T1b is one database transaction that holds the source row's lock from   *)
(* its first statement.  It is three steps here, because it reads the      *)
(* Community registry twice, without a lock on it: once to split the lines *)
(* (BeginApply), once in the bag writer's own check (PassCheck), and the   *)
(* queries between the check and the writes may wait for the customer's    *)
(* row.  The rest runs under the household's lock and is one step.         *)
(*                                                                         *)
(* Nothing uses the operators named Faulty...: each is a plausible mistake *)
(* in the definition that follows it, for the runs that show that the      *)
(* properties at the end of this module notice it.                         *)
(***************************************************************************)
EXTENDS Naturals, FiniteSets

CONSTANTS
  Orders,        \* Shopify order ids
  Deliveries,    \* webhook delivery ids
  Lines,         \* line items; a line's product is not told apart from the line
  Priced,        \* the lines with a price above 0
  Slots,         \* (household, delivery cycle) pairs: at most one live bag each
  Workers,       \* concurrent worker runs
  OrderOf,       \* the Shopify order a delivery is about, NoOrder if it has no numeric id
  LinesOf,       \* the lines in a delivery's payload
  Lossy,         \* the deliveries whose 200 may be lost
  WithPhone,     \* the deliveries whose payload has a phone number
  SlotOf,        \* the slot an order belongs to
  NoOrder, NoDelivery,
  MaxAttempts,   \* GROCERY_MAX_ATTEMPTS: attempts per budget
  MaxClaims      \* bound of the model: claims of one source over all its budgets

ASSUME OrderSourceAssumption ==
  /\ NoOrder \notin Orders
  /\ NoDelivery \notin Deliveries
  /\ OrderOf \in [Deliveries -> Orders \cup {NoOrder}]
  /\ LinesOf \in [Deliveries -> SUBSET Lines] /\ Priced \subseteq Lines
  /\ WithPhone \subseteq Deliveries /\ Lossy \subseteq Deliveries
  /\ SlotOf \in [Orders -> Slots]
  /\ MaxAttempts \in Nat \ {0}
  /\ MaxClaims \in Nat /\ MaxAttempts <= MaxClaims

VARIABLES
  event,       \* webhook_events.status of each delivery, "absent" before it is recorded
  acked,       \* deliveries whose 200 reached Shopify
  firstEvent,  \* first_webhook_event_id of each source
  status, legacyReason, attempts, base, lease, due, leakSeen, bill,
               \* the columns of the source row; lease is the token of the
               \* current claim, due is next_attempt_at <= now(), leakSeen is
               \* last_error ~ ASB_COMMUNITY_LEAK, base is attempt_budget_base
  snapshot,    \* sources with a frozen bill snapshot
  duplicates,  \* deliveries recorded in shopify_order_source_duplicates
  alerts,      \* rows of the alert outbox
  registered,  \* lines the Community registry claims now
  intake,      \* community_intake rows: <<order, line>>, never changed
  saved,       \* orders with an orders row that carries their Shopify id
  bags,        \* slots with a live bag
  written,     \* bag writes <<order, line, token>>: which claim added what
  skipped,     \* shopify_order_lines of kind skipped: <<order, line>>
  run          \* the worker runs

eventVars  == <<event, acked, firstEvent, duplicates>>
sourceVars == <<status, legacyReason, attempts, base, lease, due, leakSeen, bill, snapshot>>
bagVars    == <<saved, bags, written, skipped>>
lineVars   == <<registered, intake>>
vars == <<eventVars, sourceVars, bagVars, lineVars, alerts, run>>

Statuses == {"none", "received", "processing", "retryable_error", "applied",
             "community_only", "review", "dismissed", "legacy"}
BackfillReasons == {"orders_row", "event_processed_unmapped", "event_failed", "event_unfinished"}
ReopenReasons == {"event_failed", "event_unfinished"}
Bills == {"none", "not_ready", "pending", "failed", "not_required", "legacy"}
Events == {"absent", "received", "processed", "failed", "ignored"}

\* A lease token is new at every claim; so is the attempt number of a source,
\* which stands for it.  0 is no lease, and the pre-017 code's own bag writes.
NoLease == 0
Run(pc, o, token, grocery, leak) == [pc |-> pc, o |-> o, token |-> token, grocery |-> grocery, leak |-> leak]
Idle == Run("idle", NoOrder, NoLease, {}, FALSE)

Payload(o) == IF firstEvent[o] = NoDelivery THEN {} ELSE LinesOf[firstEvent[o]]
Used(o) == attempts[o] - base[o]
FaultyOutOfBudget(o) == Used(o) > MaxAttempts
OutOfBudget(o) == Used(o) >= MaxAttempts
Live(o) == legacyReason[o] \notin BackfillReasons
FaultyIsCommunity(o, l) == l \in registered
IsCommunity(o, l) == l \in registered \/ <<o, l>> \in intake
FaultyAlreadySaved(o) == o \in saved /\ SlotOf[o] \notin bags
AlreadySaved(o) == o \in saved
FaultyClaimable(o) == status[o] = "received" /\ due[o]
Claimable(o) == status[o] \in {"received", "retryable_error"} /\ due[o]
FaultyReopenable(o) == legacyReason[o] \in BackfillReasons
Reopenable(o) == legacyReason[o] \in ReopenReasons

\* The source row is locked by an open T1b transaction.
InT1b == {"open", "checked"}
RowLocked(o) == \E w \in Workers : run[w].pc \in InT1b /\ run[w].o = o

------------------------------------------------------------------------------
(* Initially: no live source.  The backfill has mapped some orders of the  *)
(* old code; an orders row written by the old code may exist for an order  *)
(* that has no source yet.                                                 *)

LegacyEvent(r) == IF r = "event_failed" THEN "failed"
                  ELSE IF r = "event_unfinished" THEN "received" ELSE "processed"

Init ==
  /\ registered \in SUBSET Lines
  /\ \E old \in [Orders -> BackfillReasons \cup {"none"}], first \in [Orders -> Deliveries \cup {NoDelivery}] :
       /\ \A o \in Orders : IF old[o] = "none" THEN first[o] = NoDelivery
                                               ELSE first[o] \in Deliveries /\ OrderOf[first[o]] = o
       /\ legacyReason = old
       /\ firstEvent = first
       /\ status = [o \in Orders |-> IF old[o] = "none" THEN "none" ELSE "legacy"]
       /\ bill = [o \in Orders |-> IF old[o] = "none" THEN "none" ELSE "legacy"]
       /\ event = [d \in Deliveries |->
                     IF \E o \in Orders : first[o] = d
                     THEN LegacyEvent(old[OrderOf[d]]) ELSE "absent"]
       /\ \E rows \in SUBSET {o \in Orders : old[o] \in {"none", "orders_row"}} :
            /\ {o \in Orders : old[o] = "orders_row"} \subseteq rows
            /\ \A o, p \in rows : SlotOf[o] = SlotOf[p] => o = p
            /\ saved = rows
            /\ bags = {SlotOf[o] : o \in rows}
            /\ written = {<<p[1], p[2], NoLease>> : p \in {q \in rows \X Lines :
                              \E d \in Deliveries : OrderOf[d] = q[1] /\ q[2] \in LinesOf[d]}}
       /\ \E early \in SUBSET {o \in Orders : old[o] \in ReopenReasons} :
            intake = {p \in early \X registered : p[2] \in LinesOf[first[p[1]]]}
  /\ acked = {d \in Deliveries : event[d] # "absent"}
  /\ attempts = [o \in Orders |-> 0]
  /\ base = [o \in Orders |-> 0]
  /\ lease = [o \in Orders |-> NoLease]
  /\ due = [o \in Orders |-> TRUE]
  /\ leakSeen = [o \in Orders |-> FALSE]
  /\ snapshot = {} /\ duplicates = {} /\ alerts = {} /\ skipped = {}
  /\ run = [w \in Workers |-> Idle]

------------------------------------------------------------------------------
(* T0: the webhook route.  The capture transaction commits before the 200, *)
(* and the 200 may be lost.                                                *)

Answered(d) == acked' = acked \cup {d} \/ (d \in Lossy /\ acked' = acked)

\* The order is new: its row is reserved and its Community lines captured.
CaptureOwner(d) ==
  LET o == OrderOf[d] IN
  /\ event[d] = "absent" /\ o \in Orders /\ status[o] = "none"
  /\ event' = [event EXCEPT ![d] = "received"]
  /\ firstEvent' = [firstEvent EXCEPT ![o] = d]
  /\ status' = [status EXCEPT ![o] = "received"]
  /\ bill' = [bill EXCEPT ![o] = "not_ready"]
  /\ intake' = intake \cup {<<o, l>> : l \in {k \in LinesOf[d] : IsCommunity(o, k)}}
  /\ Answered(d)
  /\ UNCHANGED <<legacyReason, attempts, base, lease, due, leakSeen, snapshot, duplicates,
                 alerts, registered, bagVars, run>>

\* The order is known: the delivery is recorded, never applied.  Different
\* content is an anomaly; a backfilled source has no fingerprint to differ from.
CaptureDuplicate(d) ==
  LET o == OrderOf[d]
      differs == Live(o) /\ LinesOf[d] # Payload(o)
  IN
  /\ event[d] = "absent" /\ o \in Orders /\ status[o] # "none"
  /\ event' = [event EXCEPT ![d] = "ignored"]
  /\ duplicates' = duplicates \cup {d}
  /\ alerts' = IF differs THEN alerts \cup {<<"duplicate_anomaly", d>>} ELSE alerts
  /\ Answered(d)
  /\ UNCHANGED <<firstEvent, sourceVars, bagVars, lineVars, run>>

\* No numeric order id: recorded as failed, with an alert.
CaptureInvalid(d) ==
  /\ event[d] = "absent" /\ OrderOf[d] = NoOrder
  /\ event' = [event EXCEPT ![d] = "failed"]
  /\ alerts' = alerts \cup {<<"invalid_order", d>>}
  /\ Answered(d)
  /\ UNCHANGED <<firstEvent, duplicates, sourceVars, bagVars, lineVars, run>>

\* The same delivery id again: only the 200.
Redelivery(d) ==
  /\ event[d] # "absent"
  /\ acked' = acked \cup {d}
  /\ UNCHANGED <<event, firstEvent, duplicates, sourceVars, bagVars, lineVars, alerts, run>>

Deliver(d) == CaptureOwner(d) \/ CaptureDuplicate(d) \/ CaptureInvalid(d) \/ Redelivery(d)

------------------------------------------------------------------------------
(* T1a, T1b: one worker run.                                               *)

ReviewAlert(o) == <<"review", o, attempts[o]>>
FaultyRaiseReview(o) == alerts' = IF \E a \in alerts : a[1] = "review" /\ a[2] = o
                                THEN alerts ELSE alerts \cup {ReviewAlert(o)}
RaiseReview(o) == alerts' = alerts \cup {ReviewAlert(o)}

FaultyRelease(o) == UNCHANGED lease
Release(o) == lease' = [lease EXCEPT ![o] = NoLease]

\* The first event's row shows the outcome of its source.
FaultyMirror(o, newEvent) ==
  event' = IF newEvent = "received" THEN event ELSE [event EXCEPT ![firstEvent[o]] = newEvent]
Mirror(o, newEvent) == event' = [event EXCEPT ![firstEvent[o]] = newEvent]

Claim(w, o) ==
  /\ run[w].pc = "idle"
  /\ Claimable(o)
  /\ attempts[o] < MaxClaims
  /\ status' = [status EXCEPT ![o] = "processing"]
  /\ attempts' = [attempts EXCEPT ![o] = @ + 1]
  /\ lease' = [lease EXCEPT ![o] = attempts[o] + 1]
  /\ run' = [run EXCEPT ![w] = Run("leased", o, attempts[o] + 1, {}, FALSE)]
  /\ UNCHANGED <<eventVars, legacyReason, base, due, leakSeen, bill, snapshot, bagVars, lineVars, alerts>>

HoldsLease(w) == status[run[w].o] = "processing" /\ lease[run[w].o] = run[w].token

\* The lease was expired under a slow run: outcome 'lost', nothing is written.
LeaseLost(w) ==
  /\ run[w].pc = "leased" /\ ~HoldsLease(w)
  /\ run' = [run EXCEPT ![w] = Idle]
  /\ UNCHANGED <<eventVars, sourceVars, bagVars, lineVars, alerts>>

\* Lock the row and split the payload into Community and grocery lines.
BeginApply(w) ==
  LET o == run[w].o IN
  /\ run[w].pc = "leased" /\ ~RowLocked(o) /\ HoldsLease(w)
  /\ run' = [run EXCEPT ![w] = Run("open", o, run[w].token, {l \in Payload(o) : ~IsCommunity(o, l)}, FALSE)]
  /\ UNCHANGED <<eventVars, sourceVars, bagVars, lineVars, alerts>>

\* The transaction commits; the run may see an error instead (the connection
\* died on COMMIT) and then goes on to record a failure.
Failing(w, leak) == Run("failed", run[w].o, run[w].token, {}, leak)
Committed(w) == \E seen \in {Idle, Failing(w, FALSE)} : run' = [run EXCEPT ![w] = seen]

\* captureOrderLines inserts the Community lines of the split in this transaction.
FaultyCaptureLines(w) == UNCHANGED intake
CaptureLines(w) ==
  intake' = intake \cup {<<run[w].o, l>> : l \in Payload(run[w].o) \ run[w].grocery}

\* finishProcessing: the one UPDATE that leaves 'processing', and the event's mirror.
Finish(w, newStatus, newBill, newEvent) ==
  LET o == run[w].o IN
  /\ status' = [status EXCEPT ![o] = newStatus]
  /\ bill' = [bill EXCEPT ![o] = newBill]
  /\ Release(o)
  /\ Mirror(o, newEvent)
  /\ CaptureLines(w)
  /\ Committed(w)
  /\ UNCHANGED <<acked, firstEvent, duplicates, attempts, base, due, registered>>

ApplyCommunityOnly(w) ==
  /\ run[w].pc = "open" /\ run[w].grocery = {}
  /\ Finish(w, "community_only", "not_required", "processed")
  /\ leakSeen' = [leakSeen EXCEPT ![run[w].o] = FALSE]
  /\ UNCHANGED <<legacyReason, snapshot, bagVars, alerts>>

ApplyNoPhone(w) ==
  LET o == run[w].o IN
  /\ run[w].pc = "open" /\ run[w].grocery # {} /\ firstEvent[o] \notin WithPhone
  /\ Finish(w, "review", bill[o], "failed")
  /\ leakSeen' = [leakSeen EXCEPT ![o] = FALSE]
  /\ RaiseReview(o)
  /\ UNCHANGED <<legacyReason, snapshot, bagVars>>

\* assertNoCommunityLines at the head of writeGroceryOrder.  Nothing keeps the
\* registry as it is until the lines are written.
Leaks(w) == \E l \in run[w].grocery : IsCommunity(run[w].o, l)
ReachesWriter(w) == run[w].pc = "open" /\ run[w].grocery # {} /\ firstEvent[run[w].o] \in WithPhone

PassCheck(w) ==
  /\ ReachesWriter(w) /\ ~Leaks(w)
  /\ run' = [run EXCEPT ![w].pc = "checked"]
  /\ UNCHANGED <<eventVars, sourceVars, bagVars, lineVars, alerts>>

\* The old code had saved this Shopify order: never a second time.
ApplyAlreadySaved(w) ==
  LET o == run[w].o IN
  /\ run[w].pc = "checked" /\ AlreadySaved(o)
  /\ leakSeen' = [leakSeen EXCEPT ![o] = FALSE]
  /\ \/ /\ legacyReason[o] # "none"
        /\ Finish(w, "review", bill[o], "failed")
        /\ RaiseReview(o)
        /\ UNCHANGED legacyReason
     \/ /\ legacyReason[o] = "none"
        /\ Finish(w, "legacy", "legacy", "ignored")
        /\ legacyReason' = [legacyReason EXCEPT ![o] = "persisted_before_cutover"]
        /\ UNCHANGED alerts
  /\ UNCHANGED <<snapshot, bagVars>>

\* Merge into the slot's live bag, or create one that carries this order's id; a
\* line without a price is put on record and left out; freeze the bill, or note
\* that it could not be composed.
ApplyWrite(w, composed) ==
  LET o == run[w].o IN
  /\ run[w].pc = "checked" /\ ~AlreadySaved(o)
  /\ saved' = IF SlotOf[o] \in bags THEN saved ELSE saved \cup {o}
  /\ bags' = bags \cup {SlotOf[o]}
  /\ written' = written \cup {<<o, l, run[w].token>> : l \in run[w].grocery \cap Priced}
  /\ skipped' = skipped \cup {<<o, l>> : l \in run[w].grocery \ Priced}
  /\ snapshot' = IF composed THEN snapshot \cup {o} ELSE snapshot
  /\ Finish(w, "applied",
            IF bill[o] = "not_required" THEN bill[o] ELSE IF composed THEN "pending" ELSE "failed",
            "processed")
  /\ alerts' = IF composed \/ bill[o] = "not_required" THEN alerts ELSE alerts \cup {<<"compose_error", o>>}
  /\ leakSeen' = [leakSeen EXCEPT ![o] = FALSE]
  /\ UNCHANGED legacyReason

\* Any statement of T1b fails: everything is rolled back, the run has the error.
ApplyError(w) ==
  /\ run[w].pc \in InT1b
  /\ \E leak \in BOOLEAN :
       /\ leak => ReachesWriter(w) /\ Leaks(w)
       /\ run' = [run EXCEPT ![w] = Failing(w, leak)]
  /\ UNCHANGED <<eventVars, sourceVars, bagVars, lineVars, alerts>>

Commit(w) == ApplyCommunityOnly(w) \/ ApplyNoPhone(w) \/ ApplyAlreadySaved(w)
               \/ \E composed \in BOOLEAN : ApplyWrite(w, composed)

------------------------------------------------------------------------------
(* T1c: an attempt failed, or its lease ran out.                           *)

\* The body of recordFailure once the row is found under the same lease.
FailAttempt(o, leak) ==
  LET leakAgain == leak /\ leakSeen[o]
      toReview == OutOfBudget(o) \/ leakAgain
  IN
  /\ status' = [status EXCEPT ![o] = IF toReview THEN "review" ELSE "retryable_error"]
  /\ Release(o)
  /\ leakSeen' = [leakSeen EXCEPT ![o] = leak]
  /\ due' = [due EXCEPT ![o] = IF toReview THEN @ ELSE FALSE]
  /\ IF toReview THEN Mirror(o, "failed") /\ RaiseReview(o) ELSE UNCHANGED <<event, alerts>>
  /\ UNCHANGED <<acked, firstEvent, duplicates, legacyReason, attempts, base, bill, snapshot,
                 bagVars, lineVars>>

RecordFailure(w) ==
  /\ run[w].pc = "failed"
  /\ run' = [run EXCEPT ![w] = Idle]
  /\ \/ HoldsLease(w) /\ ~RowLocked(run[w].o) /\ FailAttempt(run[w].o, run[w].leak)
     \/ ~HoldsLease(w) /\ UNCHANGED <<eventVars, sourceVars, bagVars, lineVars, alerts>>

\* The sweeper, once lease_until has passed: the run may be dead, or just slow.
ExpireLease(o) ==
  /\ status[o] = "processing" /\ ~RowLocked(o)
  /\ FailAttempt(o, FALSE)
  /\ UNCHANGED run

\* The process dies (or cannot reach the database to record the failure).
Crash(w) ==
  /\ run[w].pc # "idle"
  /\ run' = [run EXCEPT ![w] = Idle]
  /\ UNCHANGED <<eventVars, sourceVars, bagVars, lineVars, alerts>>

\* The backoff elapses.
BackoffElapses(o) ==
  /\ ~due[o]
  /\ due' = [due EXCEPT ![o] = TRUE]
  /\ UNCHANGED <<eventVars, status, legacyReason, attempts, base, lease, leakSeen, bill, snapshot,
                 bagVars, lineVars, alerts, run>>

------------------------------------------------------------------------------
(* The operator (every action refuses a row in flight) and the staff.      *)

\* The bound of the model: a whole budget must be left.
Requeue(o) ==
  /\ status[o] = "review" /\ attempts[o] + MaxAttempts <= MaxClaims
  /\ status' = [status EXCEPT ![o] = "received"]
  /\ base' = [base EXCEPT ![o] = attempts[o]]
  /\ due' = [due EXCEPT ![o] = TRUE]
  /\ Mirror(o, "received")
  /\ UNCHANGED <<acked, firstEvent, duplicates, legacyReason, attempts, lease, leakSeen, bill,
                 snapshot, bagVars, lineVars, alerts, run>>

Dismiss(o) ==
  /\ status[o] = "review"
  /\ status' = [status EXCEPT ![o] = "dismissed"]
  /\ bill' = [bill EXCEPT ![o] = "not_required"]
  /\ UNCHANGED <<eventVars, legacyReason, attempts, base, lease, due, leakSeen, snapshot,
                 bagVars, lineVars, alerts, run>>

ReopenLegacy(o, withBill) ==
  /\ status[o] = "legacy" /\ Reopenable(o)
  /\ status' = [status EXCEPT ![o] = "received"]
  /\ bill' = [bill EXCEPT ![o] = IF withBill THEN "not_ready" ELSE "not_required"]
  /\ due' = [due EXCEPT ![o] = TRUE]
  /\ Mirror(o, "received")
  /\ UNCHANGED <<acked, firstEvent, duplicates, legacyReason, attempts, base, lease, leakSeen,
                 snapshot, bagVars, lineVars, alerts, run>>

\* Registry webhooks and scripts add a product or deactivate it.
RegistryChanges(l) ==
  /\ registered' = IF l \in registered THEN registered \ {l} ELSE registered \cup {l}
  /\ UNCHANGED <<eventVars, sourceVars, bagVars, intake, alerts, run>>

\* An inbox order opens a bag that carries no Shopify id; a bag is cancelled.
InboxOrder(s) ==
  /\ s \notin bags
  /\ bags' = bags \cup {s}
  /\ UNCHANGED <<eventVars, sourceVars, saved, written, skipped, lineVars, alerts, run>>

BagCancelled(s) ==
  /\ s \in bags
  /\ bags' = bags \ {s}
  /\ UNCHANGED <<eventVars, sourceVars, saved, written, skipped, lineVars, alerts, run>>

------------------------------------------------------------------------------
WorkerStep(w) ==
  \/ \E o \in Orders : Claim(w, o)
  \/ LeaseLost(w) \/ BeginApply(w) \/ PassCheck(w) \/ Commit(w) \/ ApplyError(w)
  \/ RecordFailure(w) \/ Crash(w)

OperatorStep(o) ==
  Requeue(o) \/ Dismiss(o) \/ \E withBill \in BOOLEAN : ReopenLegacy(o, withBill)

StaffStep == (\E l \in Lines : RegistryChanges(l)) \/ (\E s \in Slots : InboxOrder(s) \/ BagCancelled(s))

Next ==
  \/ \E d \in Deliveries : Deliver(d)
  \/ \E w \in Workers : WorkerStep(w)
  \/ \E o \in Orders : ExpireLease(o) \/ BackoffElapses(o) \/ OperatorStep(o)
  \/ StaffStep

Spec == Init /\ [][Next]_vars

(***************************************************************************)
(* Fairness.  Shopify redelivers until it reads a 200; the sweeper runs    *)
(* every minute, claims what is due and expires leases; a statement        *)
(* timeout ends every open transaction one way or the other; time passes.  *)
(* Nothing is assumed of the operator or the staff, nor of success.        *)
(***************************************************************************)
FairSpec ==
  /\ Spec
  /\ \A d \in Deliveries : WF_vars(Deliver(d) /\ d \notin acked /\ d \in acked')
  /\ \A o \in Orders : /\ WF_vars(\E w \in Workers : Claim(w, o))
                       /\ WF_vars(ExpireLease(o))
                       /\ WF_vars(BackoffElapses(o))
  /\ \A w \in Workers : WF_vars(LeaseLost(w) \/ BeginApply(w) \/ PassCheck(w) \/ Commit(w)
                                  \/ ApplyError(w) \/ RecordFailure(w) \/ Crash(w))

------------------------------------------------------------------------------
(* Properties.                                                             *)

TypeOK ==
  /\ event \in [Deliveries -> Events] /\ acked \subseteq Deliveries
  /\ firstEvent \in [Orders -> Deliveries \cup {NoDelivery}]
  /\ status \in [Orders -> Statuses]
  /\ legacyReason \in [Orders -> BackfillReasons \cup {"none", "persisted_before_cutover"}]
  /\ attempts \in [Orders -> Nat] /\ base \in [Orders -> Nat] /\ lease \in [Orders -> Nat]
  /\ due \in [Orders -> BOOLEAN] /\ leakSeen \in [Orders -> BOOLEAN] /\ bill \in [Orders -> Bills]
  /\ snapshot \subseteq Orders /\ duplicates \subseteq Deliveries
  /\ registered \subseteq Lines /\ intake \subseteq Orders \X Lines
  /\ saved \subseteq Orders /\ bags \subseteq Slots
  /\ written \subseteq Orders \X Lines \X Nat /\ skipped \subseteq Orders \X Lines
  /\ run \in [Workers -> [pc : {"idle", "leased", "open", "checked", "failed"}, o : Orders \cup {NoOrder},
                          token : Nat, grocery : SUBSET Lines, leak : BOOLEAN]]

\* A Shopify order is applied to the bags by one claim at most, and never when
\* the old code had saved it ("A known order is never applied again",
\* docs/grocery-reliability-017.md:9): whatever leases expire, runs die, commits
\* go unseen, duplicates arrive and operators requeue or reopen.
AppliedOnce == \A x, y \in written : x[1] = y[1] => x[3] = y[3]

\* No line of an order is both taken by Community and written into a bag, however
\* often the registry changes between the capture, the tries and the writes: what
\* was taken once stays Community's, though the registry forgets it
\* (intake.js:99-160, apply.js:156-165, classify.js:110-114).
OneHome == \A t \in written : t[3] # NoLease => <<t[1], t[2]>> \notin intake

\* webhook_events shows the operator's list what became of the order: the first
\* delivery's row agrees with its source after every transaction.
EventAgrees(o, e) ==
  /\ status[o] \in {"applied", "community_only"} => e = "processed"
  /\ status[o] \in {"review", "dismissed"} => e = "failed"
  /\ status[o] \in {"received", "processing", "retryable_error"} => e = "received"
  /\ status[o] = "legacy" => IF legacyReason[o] = "persisted_before_cutover" THEN e = "ignored"
                             ELSE e \in {"received", "processed", "failed"}
EventMirrorsSource == \A o \in Orders : status[o] # "none" => EventAgrees(o, event[firstEvent[o]])

\* A source that may still be claimed has budget left, and no claim exceeds it.
BudgetBound == \A o \in Orders :
  /\ base[o] <= attempts[o] /\ Used(o) <= MaxAttempts
  /\ status[o] \in {"received", "retryable_error"} => Used(o) < MaxAttempts

\* Nothing parks an order for a person without an alert row of its own, the
\* second time as well as the first.
ReviewIsAlerted == \A o \in Orders : status[o] = "review" => ReviewAlert(o) \in alerts

\* The CHECKs of shopify_order_sources that relate columns: a step that broke
\* one would be rolled back by the database (017_shopify_order_sources.sql:112-129).
RowChecks(o) ==
  /\ status[o] = "processing" <=> lease[o] # NoLease
  /\ status[o] = "legacy" <=> bill[o] = "legacy"
  /\ status[o] = "legacy" => legacyReason[o] # "none"
  /\ bill[o] \in {"pending", "failed"} => status[o] = "applied"
  /\ bill[o] = "not_ready" => status[o] \in {"received", "processing", "retryable_error", "review"}
  /\ status[o] \in {"community_only", "dismissed"} => bill[o] = "not_required"
  /\ bill[o] = "pending" => o \in snapshot
TableChecks == \A o \in Orders : RowChecks(o)

\* asb017_sources_guard (017_shopify_order_sources.sql:327-434): no operation
\* asks the trigger for an update that it refuses.
StatusEdges == {<<"received", "processing">>, <<"retryable_error", "processing">>} \cup
  ({"processing"} \X {"applied", "community_only", "review", "retryable_error", "legacy"}) \cup
  {<<"review", "received">>, <<"review", "dismissed">>, <<"legacy", "received">>}
BillEdges == ({"not_ready"} \X {"pending", "failed", "not_required", "legacy"}) \cup
  ({"legacy"} \X {"not_ready", "not_required"})
GuardAccepts(o) ==
  /\ status'[o] # status[o] => <<status[o], status'[o]>> \in StatusEdges
  /\ bill'[o] # bill[o] => <<bill[o], bill'[o]>> \in BillEdges
  /\ status[o] = "legacy" /\ status'[o] = "received" => legacyReason[o] \in ReopenReasons
  /\ legacyReason[o] # "none" => legacyReason'[o] = legacyReason[o]
  /\ firstEvent'[o] = firstEvent[o] /\ attempts'[o] >= attempts[o] /\ base'[o] >= base[o]
SourceGuard == [][\A o \in Orders : status[o] # "none" => GuardAccepts(o)]_vars

\* An order that Shopify was told is taken never stays in between: it is
\* applied, or it waits for a person who has been alerted, or it was settled.
Settled(o) == status[o] \in {"applied", "community_only", "review", "dismissed", "legacy"}
AckedOrderSettles ==
  \A d \in Deliveries : OrderOf[d] \in Orders => (d \in acked ~> Settled(OrderOf[d]))

\* The promise of OrderPromise, kept by this module: an order is open until a
\* step applies it whole, and what a claim wrote is never written again.
PhaseOf(o) ==
  IF status[o] = "none" THEN "unknown"
  ELSE IF status[o] = "applied" THEN "applied"
  ELSE IF \/ status[o] \in {"community_only", "dismissed"}
          \/ status[o] = "legacy" /\ legacyReason[o] \notin ReopenReasons
       THEN "closed" ELSE "open"
phaseBar == [o \in Orders |-> PhaseOf(o)]
contentBar == [o \in Orders |-> Payload(o)]
communityBar == [o \in Orders |-> {l \in Lines : <<o, l>> \in intake}]
baggedBar == [o \in Orders |-> {<<t[2], t[3]>> : t \in {u \in written : u[1] = o /\ u[3] # NoLease}}]
skippedBar == [o \in Orders |-> {l \in Lines : <<o, l>> \in skipped}]
Promise == INSTANCE OrderPromise WITH
  phase <- phaseBar, content <- contentBar, community <- communityBar,
  bagged <- baggedBar, skipped <- skippedBar
KeepsPromise == Promise!Spec
=============================================================================
