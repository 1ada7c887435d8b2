------------------------------ MODULE Cutover ------------------------------
(***************************************************************************)
(* The change of builds around migration 017: the old build (which writes  *)
(* a bag after its 200 and keeps no source), the 017 build, and the        *)
(* compatibility build of an emergency rollback (L3); the backfill, the    *)
(* switches, and the two repairs of a rollback window. The old build and   *)
(* L3 are not in the repository: their steps are what backfill.js, the     *)
(* reconciliations and their rehearsals say of them. An order in T0 or T1  *)
(* is one step here; OrderSource and BillSend have the detail. The         *)
(* environment flags are left out: one changes by a restart, so it lets a  *)
(* sweep be, or there is none. Nothing uses the operators named Faulty...: *)
(* each is a plausible mistake in the operator after it.                   *)
(***************************************************************************)
EXTENDS Naturals, FiniteSets

CONSTANTS
  Orders,        \* Shopify orders
  Deliveries,    \* deliveries of orders/create, numbered as they are stored
  OrderOf,       \* the order of a delivery
  Late,          \* deliveries that reach the 017 build alone: bounds a run
  MayBeCommunity,\* orders that may be Community alone
  MayRevoke,     \* activations that may be revoked
  Runs,          \* sweeps of the 017 build
  MaxRollbacks   \* bounds the returns of the old build and of L3

Switches == {"worker", "bills"}

ASSUME CutoverAssumption ==
  /\ Deliveries \subseteq Nat \ {0} /\ IsFiniteSet(Deliveries)
  /\ Late \subseteq Deliveries /\ MayBeCommunity \subseteq Orders /\ MayRevoke \subseteq Switches
  /\ OrderOf \in [Deliveries -> Orders]
  /\ MaxRollbacks \in Nat

VARIABLES
  up,            \* the builds that have an instance
  rollbacks,     \* such returns so far
  community,     \* the orders whose every line is Community
  event,         \* webhook_events.status; "no_bill" is 'failed' with that detail
  duplicates,    \* shopify_order_source_duplicates
  job,           \* what an old build still does for a delivery it acknowledged
  source,        \* shopify_order_sources
  row,           \* orders with a row of their own that the old build wrote
  log,           \* the row order_confirmed:shopify:<id> of whatsapp_messages
  settings,      \* the keys of app_settings; "activated" is the audit of "worker"
  tx,            \* the apply in hand: the rows of the approved plan
  run,           \* the sweeps
  \* Histories.
  oldWrote,      \* orders the old build wrote into a bag
  writes,        \* how often L3 and the 017 build wrote one
  traceless,     \* orders of the old build that no row and no processed event
                 \* told of when the backfill ended, and the 017 build had taken
  unmapped,      \* orders of the old build that came after the backfill, without
                 \* a row; and those without a source when L3 came
  improvised,    \* orders it failed to write, and billed from the payload
  oldReached,    \* orders whose bill reached the customer from the old build
  reached        \* how many bills reached the customer from the others

buildVars == <<up, rollbacks>>
queueVars == <<event, duplicates, job>>
bagVars == <<row, oldWrote, writes, traceless, unmapped, improvised>>
billVars == <<log, oldReached, reached>>
vars == <<community, buildVars, queueVars, source, bagVars, billVars, settings, tx, run>>

OldBuilds == {"old", "l3"}
Source(origin, status, reason, bill, first, evidence) ==
  [origin |-> origin, status |-> status, reason |-> reason, bill |-> bill, event |-> first, evidence |-> evidence]
Absent == Source("none", "absent", "none", "none", 0, FALSE)
NoJob == [build |-> "none", pc |-> "none"]
NoPlan == [kind |-> "none", rows |-> {}]
IdleRun == [pc |-> "idle", bills |-> FALSE, page |-> {}, hand |-> {}, after |-> 0]

Present(o) == source[o].status # "absent"
InBag(o) == o \in oldWrote \/ writes[o] > 0
Failed == {"failed", "no_bill"}

Origins == {"none", "live", "compat", "backfill"}
Statuses == {"absent", "received", "applied", "legacy", "community_only", "review"}
Reasons == {"none", "compat_inline", "persisted_before_cutover", "orders_row",
            "event_processed_unmapped", "event_failed", "event_unfinished"}
BillStates == {"none", "not_ready", "not_required", "legacy", "pending", "sent", "unknown", "failed"}
EventStates == {"none", "received", "processed", "ignored"} \cup Failed
Messages == {"none", "sent", "refused", "unclear"}
Kinds == {"backfill", "window", "bills"}
Actions == {"insert", "upgrade", "link_existing", "map_community_only", "replay", "record_sent_evidence", "recover_bill"}
SourceRows == [origin : Origins, status : Statuses, reason : Reasons, bill : BillStates,
               event : Deliveries \cup {0}, evidence : BOOLEAN]
Jobs == [build : OldBuilds \cup {"none"}, pc : {"none", "taken", "persisted", "billed"}]
SweepRows == [pc : {"idle", "sources", "bills"}, bills : BOOLEAN, page : SUBSET Orders, hand : SUBSET Orders, after : Nat]
PlanRows == [order : Orders, action : Actions, reason : Reasons, event : Deliveries \cup {0},
             status : EventStates, message : Messages]

TypeOK ==
  /\ up \subseteq OldBuilds \cup {"new"} /\ rollbacks \in 0..MaxRollbacks
  /\ community \subseteq Orders
  /\ event \in [Deliveries -> EventStates] /\ duplicates \subseteq Deliveries
  /\ job \in [Deliveries -> Jobs]
  /\ source \in [Orders -> SourceRows]
  /\ row \subseteq Orders /\ oldWrote \subseteq Orders
  /\ traceless \subseteq Orders /\ unmapped \subseteq Orders
  /\ improvised \subseteq Orders /\ oldReached \subseteq Orders
  /\ writes \in [Orders -> Nat] /\ reached \in [Orders -> Nat]
  /\ log \in [Orders -> Messages]
  /\ settings \subseteq Switches \cup {"marker", "activated"}
  /\ tx \in [kind : Kinds \cup {"none"}, rows : SUBSET PlanRows]
  /\ run \in [Runs -> SweepRows]

Init ==
  /\ up = {"old"} /\ rollbacks = 0
  /\ community \in SUBSET MayBeCommunity
  /\ event = [e \in Deliveries |-> "none"]
  /\ duplicates = {}
  /\ job = [e \in Deliveries |-> NoJob]
  /\ source = [o \in Orders |-> Absent]
  /\ row = {} /\ oldWrote = {} /\ traceless = {} /\ unmapped = {} /\ improvised = {} /\ oldReached = {}
  /\ writes = [o \in Orders |-> 0]
  /\ log = [o \in Orders |-> "none"]
  /\ reached = [o \in Orders |-> 0]
  /\ settings = {}
  /\ tx = NoPlan
  /\ run = [r \in Runs |-> IdleRun]

-----------------------------------------------------------------------------
(* The old build and L3: after the 200 they write the bag, send a bill of  *)
(* their own and mark the event. L3 asks for the source first.             *)

TakeIn(b, e) ==
  /\ b \in up \cap OldBuilds /\ event[e] = "none" /\ e \notin Late
  /\ event' = [event EXCEPT ![e] = "received"]
  /\ job' = [job EXCEPT ![e] = [build |-> b, pc |-> "taken"]]
  /\ UNCHANGED <<community, buildVars, duplicates, source, bagVars, billVars, settings, tx, run>>

JobAt(e, pc) == job[e].pc = pc
To(e, pc) == job' = [job EXCEPT ![e].pc = pc]
Ends(e, status) ==
  /\ event' = [event EXCEPT ![e] = status]
  /\ job' = [job EXCEPT ![e] = NoJob]

\* A bag of its own, or a merge that leaves no row of the order. L3 and the 017
\* build write the same two, with a source that is found before any row.
RowOrMerge(o) == row' = row \/ row' = row \cup {o}

\* After the marker nothing maps what the old build does without a row.
PersistOld(e) ==
  LET o == OrderOf[e] IN
  /\ JobAt(e, "taken") /\ job[e].build = "old" /\ o \notin community
  /\ \/ RowOrMerge(o) /\ oldWrote' = oldWrote \cup {o} /\ UNCHANGED improvised
     \/ improvised' = improvised \cup {o} /\ UNCHANGED <<row, oldWrote>>
  /\ unmapped' = IF "marker" \in settings THEN unmapped \cup ({o} \ row') ELSE unmapped
  /\ To(e, "persisted")
  /\ UNCHANGED <<community, buildVars, event, duplicates, source, writes, traceless, billVars, settings, tx, run>>

PersistL3(e) ==
  LET o == OrderOf[e] IN
  /\ JobAt(e, "taken") /\ job[e].build = "l3" /\ o \notin community
  /\ \/ Present(o) /\ To(e, "billed") /\ UNCHANGED <<source, writes>>
     \/ /\ ~Present(o)
        /\ writes' = [writes EXCEPT ![o] = @ + 1]
        /\ source' = [source EXCEPT ![o] = Source("compat", "legacy", "compat_inline", "legacy", e, FALSE)]
        /\ To(e, "persisted")
  /\ UNCHANGED <<community, buildVars, event, duplicates, row, oldWrote, traceless, unmapped, improvised, billVars, settings, tx, run>>

Reach(b, o, arrived) ==
  /\ oldReached' = IF arrived /\ b = "old" THEN oldReached \cup {o} ELSE oldReached
  /\ reached' = IF arrived /\ b = "l3" THEN [reached EXCEPT ![o] = @ + 1] ELSE reached

\* Accepted; refused by Meta with a code; or an error that says nothing.
BillInline(e) ==
  LET o == OrderOf[e] IN
  /\ JobAt(e, "persisted")
  /\ \E status \in {"sent", "refused", "unclear"}, arrived \in BOOLEAN :
       /\ status = "sent" => arrived
       /\ status = "refused" => ~arrived
       /\ log' = [log EXCEPT ![o] = IF @ = "sent" THEN @ ELSE status]
       /\ Reach(job[e].build, o, arrived)
  /\ To(e, "billed")
  /\ UNCHANGED <<community, buildVars, event, duplicates, source, bagVars, settings, tx, run>>

\* The process dies after the send and before its row.
BillUnlogged(e) ==
  /\ JobAt(e, "persisted")
  /\ Reach(job[e].build, OrderOf[e], TRUE)
  /\ Ends(e, "received")
  /\ UNCHANGED <<community, buildVars, duplicates, source, bagVars, log, settings, tx, run>>

\* "no database-composed bill available": L3 alone.
NoBill(e) ==
  /\ JobAt(e, "persisted") /\ job[e].build = "l3"
  /\ Ends(e, "no_bill")
  /\ UNCHANGED <<community, buildVars, duplicates, source, bagVars, billVars, settings, tx, run>>

\* The end of a job: everything done, nothing to do, or an error before the bag.
EndJob(e) ==
  /\ \/ JobAt(e, "billed") /\ Ends(e, "processed")
     \/ JobAt(e, "taken") /\ OrderOf[e] \in community /\ Ends(e, "processed")
     \/ JobAt(e, "taken") /\ Ends(e, "failed")
  /\ UNCHANGED <<community, buildVars, duplicates, source, bagVars, billVars, settings, tx, run>>

OldStep(e) ==
  \/ \E b \in OldBuilds : TakeIn(b, e)
  \/ PersistOld(e) \/ PersistL3(e) \/ BillInline(e) \/ BillUnlogged(e) \/ NoBill(e) \/ EndJob(e)

-----------------------------------------------------------------------------
(* The 017 build: capture before the 200, and the sweep behind the switches. *)

Owned(e) == source[OrderOf[e]].event = e

\* T0: the first delivery owns the source; a later one is a recorded duplicate.
Capture(e) ==
  LET o == OrderOf[e] IN
  /\ "new" \in up /\ event[e] = "none"
  /\ \/ /\ Present(o)
        /\ duplicates' = duplicates \cup {e}
        /\ event' = [event EXCEPT ![e] = "ignored"]
        /\ UNCHANGED source
     \/ /\ ~Present(o)
        /\ source' = [source EXCEPT ![o] = Source("live", "received", "none", "not_ready", e, FALSE)]
        /\ event' = [event EXCEPT ![e] = "received"]
        /\ UNCHANGED duplicates
  /\ UNCHANGED <<community, buildVars, job, bagVars, billVars, settings, tx, run>>

WorkerOn == {"marker", "worker"} \subseteq settings
BillsOn == "bills" \in settings

\* runOnce reads the switches once, before both of its pages.
Sweep(r) ==
  /\ "new" \in up /\ run[r] = IdleRun /\ (WorkerOn \/ BillsOn)
  /\ run' = [run EXCEPT ![r] =
       [pc |-> "sources", bills |-> BillsOn, hand |-> {}, after |-> 0,
        page |-> IF WorkerOn THEN {o \in Orders : source[o].status = "received"} ELSE {}]]
  /\ UNCHANGED <<community, buildVars, queueVars, source, bagVars, billVars, settings, tx>>

FinishEvent(o, status) == event' = [event EXCEPT ![source[o].event] = status]
ApplyAs(o, status, reason, bill) ==
  source' = [source EXCEPT ![o].status = status, ![o].reason = reason, ![o].bill = bill]

\* T1, once the claim finds the source still 'received': Community alone, already
\* saved by the old build, left to a person (no phone, no attempt left, a replay
\* that is already saved), or written into a bag.
ApplyClaimed(o) ==
  \/ /\ o \in community
     /\ ApplyAs(o, "community_only", source[o].reason, "not_required") /\ FinishEvent(o, "processed")
     /\ UNCHANGED writes
  \/ /\ o \notin community /\ o \in row /\ source[o].reason = "none"
     /\ ApplyAs(o, "legacy", "persisted_before_cutover", "legacy") /\ FinishEvent(o, "ignored")
     /\ UNCHANGED writes
  \/ /\ o \notin community
     /\ ApplyAs(o, "review", source[o].reason, source[o].bill) /\ FinishEvent(o, "failed")
     /\ UNCHANGED writes
  \/ /\ o \notin community \cup row
     /\ \E bill \in {"pending", "failed"} : ApplyAs(o, "applied", source[o].reason, bill)
     /\ FinishEvent(o, "processed")
     /\ writes' = [writes EXCEPT ![o] = @ + 1]

Apply(r, o) ==
  /\ run[r].pc = "sources" /\ o \in run[r].page
  /\ run' = [run EXCEPT ![r].page = @ \ {o}]
  /\ \/ source[o].status = "received" /\ ApplyClaimed(o)
     \/ source[o].status # "received" /\ UNCHANGED <<source, event, writes>>
  /\ UNCHANGED <<community, buildVars, duplicates, job, row, oldWrote, traceless, unmapped, improvised, billVars, settings, tx>>

SelectBills(r) ==
  /\ run[r].pc = "sources" /\ run[r].page = {}
  /\ LET page == {o \in Orders : source[o].bill = "pending"} IN
     run' = [run EXCEPT ![r] = IF run[r].bills /\ page # {} THEN [run[r] EXCEPT !.pc = "bills", !.page = page] ELSE IdleRun]
  /\ UNCHANGED <<community, buildVars, queueVars, source, bagVars, billVars, settings, tx>>

\* processBill reads the switch again for every bill, and claims after that.
FaultyPassed(r) == run[r].bills
Passed(r) == BillsOn
BillGate(r, o) ==
  /\ run[r].pc = "bills" /\ run[r].hand = {} /\ o \in run[r].page
  /\ run' = [run EXCEPT ![r].page = @ \ {o}, ![r].hand = IF Passed(r) THEN {o} ELSE {}]

EndBills(r) ==
  /\ run[r].pc = "bills" /\ run[r].page = {} /\ run[r].hand = {}
  /\ run' = [run EXCEPT ![r] = IdleRun]

Bill(o, state) == source' = [source EXCEPT ![o].bill = state]

\* T2 to T4: the log of the old build closes the bill, or Meta answers.
SendClaimed(o) ==
  \/ log[o] = "sent" /\ Bill(o, "sent") /\ UNCHANGED reached
  \/ /\ log[o] # "sent"
     /\ \/ Bill(o, "sent") /\ reached' = [reached EXCEPT ![o] = @ + 1]
        \/ Bill(o, "unknown") /\ (UNCHANGED reached \/ reached' = [reached EXCEPT ![o] = @ + 1])
        \/ \E state \in {"pending", "failed"} : Bill(o, state) /\ UNCHANGED reached

BillClaim(r, o) ==
  /\ o \in run[r].hand
  /\ \/ /\ source[o].bill = "pending" /\ SendClaimed(o)
        /\ run' = [run EXCEPT ![r].hand = @ \ {o}, ![r].after = IF BillsOn THEN @ ELSE @ + 1]
     \/ /\ source[o].bill # "pending" /\ UNCHANGED <<source, reached>>
        /\ run' = [run EXCEPT ![r].hand = @ \ {o}]
  /\ UNCHANGED <<community, buildVars, queueVars, bagVars, log, oldReached, settings, tx>>

SweepBills(r) ==
  /\ (\E o \in Orders : BillGate(r, o)) \/ EndBills(r)
  /\ UNCHANGED <<community, buildVars, queueVars, source, bagVars, billVars, settings, tx>>

\* A kick after the 200, or another instance's sweep, in one step each.
Kick(o) ==
  /\ "new" \in up /\ WorkerOn /\ source[o].status = "received" /\ ApplyClaimed(o)
  /\ UNCHANGED <<community, buildVars, duplicates, job, row, oldWrote, traceless, unmapped, improvised, billVars, settings, tx, run>>

KickBill(o) ==
  /\ "new" \in up /\ BillsOn /\ source[o].bill = "pending" /\ SendClaimed(o)
  /\ UNCHANGED <<community, buildVars, queueVars, bagVars, log, oldReached, settings, tx, run>>

SweepStep(r) ==
  \/ Sweep(r) \/ SelectBills(r) \/ SweepBills(r)
  \/ \E o \in Orders : Apply(r, o) \/ BillClaim(r, o)

-----------------------------------------------------------------------------
(* Deployments. Two builds overlap while one replaces the other. The old   *)
(* build may come back until the worker is first activated; from then on   *)
(* a rollback is L3.                                                       *)

\* L3 asks for a source, never for a row: what came back with the old build and
\* is not mapped yet says nothing to it.
Deploy(b) ==
  /\ b \notin up
  /\ \/ b = "new" /\ UNCHANGED rollbacks
     \/ /\ b = IF "activated" \in settings THEN "l3" ELSE "old"
        /\ up = {"new"} /\ (b = "old" => tx = NoPlan)
        /\ rollbacks < MaxRollbacks /\ rollbacks' = rollbacks + 1
  /\ up' = up \cup {b}
  /\ unmapped' = IF b = "l3" THEN unmapped \cup {o \in oldWrote : ~Present(o)} ELSE unmapped
  /\ UNCHANGED <<community, queueVars, source, row, oldWrote, writes, traceless, improvised, billVars, settings, tx, run>>

\* An instance dies, or is replaced: what it had in hand is gone.
Die(b) ==
  /\ b \in up
  /\ up' = up \/ (up # {b} /\ up' = up \ {b})
  /\ job' = [e \in Deliveries |-> IF job[e].build = b THEN NoJob ELSE job[e]]
  /\ run' = IF b = "new" THEN [r \in Runs |-> IdleRun] ELSE run
  /\ UNCHANGED <<community, rollbacks, event, duplicates, source, bagVars, billVars, settings, tx>>

-----------------------------------------------------------------------------
(* The recorded half of the switches. The activation and the backfill take *)
(* the same advisory lock; a revocation takes none.                        *)

\* The worker is activated once the old build is gone (step 7 after step 3).
Activate(s) ==
  /\ tx.kind # "backfill" /\ s \notin settings
  /\ s = "worker" => "marker" \in settings /\ "old" \notin up
  /\ s = "bills" => "worker" \in settings
  /\ settings' = settings \cup {s} \cup (IF s = "worker" THEN {"activated"} ELSE {})
  /\ run' = [r \in Runs |-> [run[r] EXCEPT !.after = 0]]
  /\ UNCHANGED <<community, buildVars, queueVars, source, bagVars, billVars, tx>>

Revoke(s) ==
  /\ s \in settings \cap MayRevoke
  /\ settings' = settings \ {s}
  /\ UNCHANGED <<community, buildVars, queueVars, source, bagVars, billVars, tx, run>>

-----------------------------------------------------------------------------
(* The three plans. A plan is a set of rows, computed from what the tables *)
(* hold; its hash is compared again inside the transaction that applies    *)
(* it, so the rows applied are those of the state it begins in.            *)

First(es) == IF es = {} THEN 0 ELSE CHOOSE e \in es : \A f \in es : e <= f
EventsOf(o) == {e \in Deliveries : OrderOf[e] = o /\ event[e] # "none" /\ ~Owned(e) /\ e \notin duplicates}
With(o, statuses) == {e \in EventsOf(o) : event[e] \in statuses}
PlanRow(o, action, reason, e) ==
  [order |-> o, action |-> action, reason |-> reason, event |-> e,
   status |-> IF e = 0 THEN "none" ELSE event[e], message |-> log[o]]

FaultyOldDone(o) == With(o, {"processed"} \cup Failed)
OldDone(o) == With(o, {"processed"})

\* backfill.plan: what the old build left of an order, by the best evidence.
BackfillReason(o) ==
  IF o \in row THEN "orders_row"
  ELSE IF OldDone(o) # {} THEN "event_processed_unmapped"
  ELSE IF With(o, Failed) # {} THEN "event_failed"
  ELSE IF With(o, {"received"}) # {} THEN "event_unfinished"
  ELSE "none"

BackfillEvent(o) ==
  CASE BackfillReason(o) = "orders_row" -> First(IF OldDone(o) # {} THEN OldDone(o) ELSE EventsOf(o))
    [] BackfillReason(o) = "event_processed_unmapped" -> First(OldDone(o))
    [] BackfillReason(o) = "event_failed" -> First(With(o, Failed))
    [] OTHER -> First(EventsOf(o))

LiveReceived(o) == source[o].origin = "live" /\ source[o].status = "received"
FaultyOldHandled(o) == o \in row
OldHandled(o) == o \in row \/ OldDone(o) # {}

BackfillRows ==
  {PlanRow(o, "insert", BackfillReason(o), BackfillEvent(o)) : o \in {o \in Orders : ~Present(o) /\ BackfillReason(o) # "none"}}
  \cup {PlanRow(o, "upgrade", IF o \in row THEN "persisted_before_cutover" ELSE "event_processed_unmapped", source[o].event) :
          o \in {o \in Orders : LiveReceived(o) /\ OldHandled(o)}}

\* rollback-reconcile.plan, for the orders acknowledged and left without a source;
\* in differs are those whose deliveries do not all have the same content.
Selected(o) ==
  First(IF With(o, Failed) # {} THEN With(o, Failed)
        ELSE IF With(o, {"received"}) # {} THEN With(o, {"received"}) ELSE EventsOf(o))

WindowRow(o, differs) ==
  IF o \in differs THEN PlanRow(o, "review", "none", 0)
  ELSE IF o \in row THEN PlanRow(o, "link_existing", "orders_row", Selected(o))
  ELSE IF log[o] = "sent" THEN PlanRow(o, "review", "none", 0)
  ELSE IF o \in community /\ OldDone(o) # {} THEN PlanRow(o, "map_community_only", "event_processed_unmapped", First(OldDone(o)))
  ELSE IF With(o, Failed) # {} THEN PlanRow(o, "replay", "event_failed", Selected(o))
  ELSE IF With(o, {"received"}) # {} THEN PlanRow(o, "replay", "event_unfinished", Selected(o))
  ELSE PlanRow(o, "review", "none", 0)

\* compat-bill-reconcile.classify: only a proof that nothing went out recovers a bill.
FaultyClassify(o) ==
  IF log[o] = "sent" THEN "record_sent_evidence" ELSE IF log[o] # "none" THEN "recover_bill" ELSE "review"
Classify(o) ==
  IF log[o] = "sent" THEN "record_sent_evidence"
  ELSE IF log[o] = "refused" \/ (log[o] = "none" /\ event[source[o].event] = "no_bill") THEN "recover_bill"
  ELSE "review"

CompatUnproved(o) == source[o].origin = "compat" /\ source[o].status = "legacy" /\ ~source[o].evidence

Plan(kind) ==
  CASE kind = "backfill" -> {BackfillRows}
    [] kind = "window" ->
         {{WindowRow(o, differs) : o \in {o \in Orders : ~Present(o) /\ EventsOf(o) # {}}} :
            differs \in SUBSET {o \in Orders : Cardinality(EventsOf(o)) > 1}}
    [] kind = "bills" -> {{PlanRow(o, Classify(o), "none", source[o].event) : o \in {o \in Orders : CompatUnproved(o)}}}

\* The first dry run waits until the old build is gone, and a marker ends it;
\* the two repairs need the marker.
BeginApply(kind) ==
  /\ tx = NoPlan
  /\ (kind = "backfill") = ("marker" \notin settings) /\ "old" \notin up
  /\ \E rows \in Plan(kind) :
       /\ kind = "backfill" \/ \E p \in rows : p.action # "review"
       /\ tx' = [kind |-> kind, rows |-> {p \in rows : p.action # "review"}]
  /\ UNCHANGED <<community, buildVars, queueVars, source, bagVars, billVars, settings, run>>

\* What each row finds again, under its lock or its unique index, or aborts on.
Holds(p) ==
  CASE p.action = "insert" -> ~Present(p.order)
    [] p.action = "upgrade" -> LiveReceived(p.order)
    [] p.action \in {"link_existing", "map_community_only", "replay"} -> ~Present(p.order) /\ event[p.event] = p.status
    [] p.action \in {"record_sent_evidence", "recover_bill"} ->
         /\ source[p.order].status = "legacy"
         /\ p.message # "none" => log[p.order] = p.message
         /\ p.action = "recover_bill" => event[p.event] = p.status

\* The source a row writes, and the status it leaves its event in.
Written(p) ==
  LET o == p.order
      sent == log[o] = "sent"
  IN CASE p.action \in {"insert", "link_existing"} -> Source("backfill", "legacy", p.reason, "legacy", p.event, sent)
       [] p.action = "upgrade" -> Source("live", "legacy", p.reason, "legacy", p.event, sent)
       [] p.action = "map_community_only" -> Source("backfill", "community_only", p.reason, "not_required", p.event, FALSE)
       [] p.action = "replay" -> Source("backfill", "received", p.reason, "not_ready", p.event, FALSE)
       [] p.action = "record_sent_evidence" -> [source[o] EXCEPT !.evidence = TRUE]
       [] p.action = "recover_bill" -> [source[o] EXCEPT !.status = "applied", !.bill = "pending"]

EventAfter(p) ==
  CASE p.action = "upgrade" -> "ignored"
    [] p.action = "replay" -> "received"
    [] p.action = "recover_bill" -> "processed"
    [] OTHER -> IF p.event = 0 THEN "none" ELSE event[p.event]

\* backfill.verify, on the state the rows leave: it sees the other transactions
\* that committed meanwhile.
Verified(rows) ==
  LET mapped == {p.order : p \in rows} IN
  \A o \in Orders \ mapped :
    /\ o \in row => Present(o)
    /\ With(o, {"received", "processed"} \cup Failed) # {} => Present(o)
    /\ ~(LiveReceived(o) /\ OldHandled(o))

\* A row, or an event that the old build marked.
Told(o) == o \in row \/ \E e \in Deliveries : OrderOf[e] = o /\ event[e] = "processed"

CommitApply ==
  /\ tx # NoPlan
  /\ \A p \in tx.rows : Holds(p)
  /\ tx.kind = "backfill" => Verified(tx.rows)
  /\ LET of(o) == {p \in tx.rows : p.order = o}
         at(e) == {p \in tx.rows : p.event = e}
     IN /\ source' = [o \in Orders |-> IF of(o) = {} THEN source[o] ELSE Written(CHOOSE p \in of(o) : TRUE)]
        /\ event' = [e \in Deliveries |-> IF at(e) = {} THEN event[e] ELSE EventAfter(CHOOSE p \in at(e) : TRUE)]
  /\ settings' = IF tx.kind = "backfill" THEN settings \cup {"marker"} ELSE settings
  /\ traceless' = IF tx.kind = "backfill"
                   THEN {o \in oldWrote \cup improvised : LiveReceived(o) /\ ~Told(o)} ELSE traceless
  /\ tx' = NoPlan
  /\ UNCHANGED <<community, buildVars, duplicates, job, row, oldWrote, writes, unmapped, improvised, billVars, run>>

AbortApply ==
  /\ tx # NoPlan /\ tx' = NoPlan
  /\ UNCHANGED <<community, buildVars, queueVars, source, bagVars, billVars, settings, run>>

Operator ==
  \/ \E s \in Switches : Activate(s) \/ Revoke(s)
  \/ \E kind \in Kinds : BeginApply(kind)
  \/ CommitApply \/ AbortApply

Next ==
  \/ \E e \in Deliveries : OldStep(e) \/ Capture(e)
  \/ \E r \in Runs : SweepStep(r)
  \/ \E o \in Orders : Kick(o) \/ KickBill(o)
  \/ \E b \in {"old", "new", "l3"} : Deploy(b) \/ Die(b)
  \/ Operator

Spec == Init /\ [][Next]_vars

-----------------------------------------------------------------------------
(* Properties. *)

\* The orders of the old build that the later ones may take for new.
Untold == traceless \cup unmapped

\* The 017 build and L3 write an order once between them, and not at all what the
\* old build wrote before the backfill and left a row, a processed event or no
\* live source of. Not covered is what it wrote after the backfill: without a
\* row, or unmapped when L3 came (backfill.js:4-23, 70-94; apply.js:193-210).
WrittenOnce ==
  [][\A o \in Orders : writes'[o] > writes[o] => writes[o] = 0 /\ (o \in oldWrote => o \in Untold)]_vars

\* What is closed as handled was: an order marked applied, or legacy for any
\* reason but a failed or unfinished event, is in a bag, unless all of it is
\* Community, or the old build improvised its bill (backfill.js:80-83).
HandledIsWritten ==
  \A o \in Orders :
    (source[o].status = "applied" \/ (source[o].status = "legacy" /\ source[o].reason \notin {"event_failed", "event_unfinished"}))
      => InBag(o) \/ o \in community \/ o \in improvised

\* The bills of the three builds never reach the customer twice for one order
\* but for those orders, though L3's log is lost or unclear
\* (compat-bill-reconcile.js:34-67, 174-182; billing.js:51-61).
BilledOnce ==
  \A o \in Orders : o \notin Untold => reached[o] + (IF o \in oldReached THEN 1 ELSE 0) <= 1

\* Revoking the bills lets a sweep begin one more bill, the one whose switch it
\* had read, and not the rest of its page (billing.js:244, worker.js:73).
OneBillAfterStop == \A r \in Runs : run[r].after <= 1
=============================================================================
