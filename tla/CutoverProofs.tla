---------------------------- MODULE CutoverProofs ----------------------------
(***************************************************************************)
(* Theorems about Cutover: an order is written once across the builds,     *)
(* what is closed as handled was written, a revocation lets one bill go,   *)
(* and an order is billed once.  The first two rest on one invariant,      *)
(* IInv, which says what the tables still show of the old build before the *)
(* marker of the backfill, and what stays to tell of it after;             *)
(* the last one on BillInv, which adds who may still bill an order.        *)
(***************************************************************************)
EXTENDS Cutover, TLAPS, NaturalsInduction, WellFoundedInduction

-----------------------------------------------------------------------------
(* The invariant. *)

Handled(o) == InBag(o) \/ o \in community \/ o \in improvised
Unowned(e) == ~Owned(e) /\ e \notin duplicates
Closed(o) == source[o].status \notin {"absent", "received"}
PastBag(e) == job[e].pc \in {"persisted", "billed"}

\* The builds: a job belongs to one that is up; the old build is gone for good
\* once the worker has been activated, L3 comes only then.
BuildsOK ==
  /\ \A e \in Deliveries : job[e] = NoJob \/ job[e].build \in up
  /\ "old" \in up => "activated" \notin settings
  /\ "l3" \in up => "activated" \in settings
  /\ "activated" \in settings => "marker" \in settings

\* The rows of a plan that say of their order that it was handled.
Claims(p) ==
  \/ p.action \in {"insert", "upgrade", "link_existing"} /\ p.reason \notin {"event_failed", "event_unfinished"}
  \/ p.action \in {"record_sent_evidence", "recover_bill"}

PlanOK ==
  /\ tx # NoPlan => "old" \notin up /\ (tx.kind = "backfill" <=> "marker" \notin settings)
  /\ tx.kind = "backfill" => \A p \in tx.rows : p.action \in {"insert", "upgrade"}
  /\ \A p \in tx.rows : Claims(p) => Handled(p.order)

PageOK == \A r \in Runs : run[r].pc = "sources" /\ run[r].page # {} => "marker" \in settings

\* Before the marker the events tell what the old build did: none of its jobs
\* and no processed event has a source, and a processed one was handled.
Before ==
  "marker" \notin settings =>
    /\ \A e \in Deliveries : job[e].build = "old" => event[e] = "received" /\ Unowned(e)
    /\ \A e \in Deliveries : event[e] = "none" => Unowned(e)
    /\ \A e \in Deliveries : PastBag(e) => job[e].build = "old" /\ Handled(OrderOf[e])
    /\ \A e \in Deliveries : event[e] = "processed" => Unowned(e) /\ Handled(OrderOf[e])
    /\ \A o \in Orders : source[o].status = "received" => source[o].origin = "live"

\* The order came to the old build, and its event is there to say so.
Evidence(o) ==
  \E e \in Deliveries : OrderOf[e] = o /\ Unowned(e) /\ event[e] \in {"received", "processed"} \cup Failed

\* The orders the old build wrote, or failed to write and billed all the same.
OldOrders == oldWrote \cup improvised

\* Before the marker such an order has an event that the backfill will read;
\* after it a row, or a source that keeps the 017 build from it, unless it is one
\* that nothing told of.
NotLost ==
  \A o \in OldOrders : IF "marker" \in settings THEN o \in row \/ o \in Untold \/ Closed(o) ELSE Evidence(o)

L3Knows == "l3" \in up => \A o \in OldOrders : Present(o) \/ o \in Untold

SourcesOK ==
  /\ \A o \in Orders : ~Present(o) => source[o].event = 0
  /\ \A o \in Orders : writes[o] > 0 => Closed(o)
  /\ \A o \in Orders : source[o].origin = "compat" => writes[o] > 0
  /\ row \subseteq oldWrote

Parts == BuildsOK /\ PlanOK /\ PageOK /\ Before /\ NotLost /\ L3Knows /\ SourcesOK /\ HandledIsWritten
IInv == TypeOK /\ Parts

-----------------------------------------------------------------------------
(* Types. *)

\* A set of deliveries that is not empty has a first one.
LEMMA FirstIsIn == ASSUME NEW es, es \subseteq Nat, es # {} PROVE First(es) \in es
<1> DEFINE Below == {ss \in Nat \X Nat : ss[1] < ss[2]}
<1>1. IsWellFoundedOn(Below, Nat)
  BY NatLessThanWellFounded DEF OpToRel
<1>2. PICK e \in es : \A f \in es : ~(<<f, e>> \in Below)
  <2> HIDE DEF Below
  <2> QED BY <1>1, WFMin, Zenon
<1>3. ASSUME NEW f \in es PROVE e <= f
  <2>1. ~(<<f, e>> \in Below)
    BY <1>2
  <2>2. <<f, e>>[1] = f /\ <<f, e>>[2] = e /\ <<f, e>> \in Nat \X Nat
    OBVIOUS
  <2>3. ~(f < e)
    BY <2>1, <2>2
  <2> QED BY <2>3
<1> QED BY <1>3 DEF First

\* A row of a plan has its type.
LEMMA RowTyped ==
  ASSUME TypeOK, NEW o \in Orders, NEW action \in Actions, NEW reason \in Reasons, NEW e \in Deliveries \cup {0}
  PROVE  PlanRow(o, action, reason, e) \in PlanRows
BY CutoverAssumption DEF TypeOK, PlanRow, PlanRows, EventStates

\* The first of a set of deliveries, or 0.
LEMMA FirstTyped == ASSUME NEW es \in SUBSET Deliveries PROVE First(es) \in Deliveries \cup {0}
<1>1. CASE es = {}
  BY <1>1 DEF First
<1>2. CASE es # {}
  BY <1>2, FirstIsIn, CutoverAssumption
<1> QED BY <1>1, <1>2

\* The events of an order are deliveries.
LEMMA SetsOfEvents ==
  ASSUME NEW o \in Orders, NEW statuses
  PROVE  EventsOf(o) \in SUBSET Deliveries /\ With(o, statuses) \in SUBSET Deliveries
BY DEF EventsOf, With

\* What a plan finds of an order has its type.
LEMMA EventsTyped ==
  ASSUME TypeOK, NEW o \in Orders
  PROVE  /\ BackfillEvent(o) \in Deliveries \cup {0} /\ BackfillReason(o) \in Reasons \ {"compat_inline", "persisted_before_cutover"}
         /\ Selected(o) \in Deliveries \cup {0} /\ First(OldDone(o)) \in Deliveries \cup {0}
<1>1. \A statuses : First(With(o, statuses)) \in Deliveries \cup {0}
  BY SetsOfEvents, FirstTyped
<1>2. First(EventsOf(o)) \in Deliveries \cup {0}
  BY SetsOfEvents, FirstTyped
<1>3. First(OldDone(o)) \in Deliveries \cup {0}
  BY <1>1 DEF OldDone
<1>4. BackfillReason(o) \in Reasons \ {"compat_inline", "persisted_before_cutover"}
  BY DEF BackfillReason, Reasons
<1>5. BackfillEvent(o) \in Deliveries \cup {0}
  BY <1>1, <1>2, <1>3, <1>4, Zenon DEF BackfillEvent
<1>6. Selected(o) \in Deliveries \cup {0}
  BY <1>1, <1>2, Zenon DEF Selected
<1> QED BY <1>3, <1>4, <1>5, <1>6

\* A plan has typed rows (and rows that only ask for a review, which are not applied).
LEMMA PlanTyped ==
  ASSUME TypeOK, NEW kind \in Kinds, NEW rows \in Plan(kind), NEW p \in rows, p.action # "review"
  PROVE  p \in PlanRows
<1>1. CASE kind = "backfill"
  <2>1. p \in BackfillRows
    BY <1>1 DEF Plan
  <2>2. ASSUME NEW o \in Orders, p = PlanRow(o, "insert", BackfillReason(o), BackfillEvent(o)) PROVE p \in PlanRows
    BY <2>2, RowTyped, EventsTyped DEF Actions
  <2>3. ASSUME NEW o \in Orders, p = PlanRow(o, "upgrade", IF o \in row THEN "persisted_before_cutover" ELSE "event_processed_unmapped", source[o].event)
        PROVE p \in PlanRows
    <3>1. source[o].event \in Deliveries \cup {0}
      BY DEF TypeOK, SourceRows
    <3> QED BY <2>3, <3>1, RowTyped DEF Actions, Reasons
  <2> QED BY <2>1, <2>2, <2>3 DEF BackfillRows
<1>2. CASE kind = "window"
  <2>1. PICK o \in Orders, differs \in SUBSET Orders : p = WindowRow(o, differs)
    BY <1>2 DEF Plan
  <2>2. \/ p = PlanRow(o, "review", "none", 0)
        \/ p = PlanRow(o, "link_existing", "orders_row", Selected(o))
        \/ p = PlanRow(o, "map_community_only", "event_processed_unmapped", First(OldDone(o)))
        \/ p = PlanRow(o, "replay", "event_failed", Selected(o))
        \/ p = PlanRow(o, "replay", "event_unfinished", Selected(o))
    BY <2>1 DEF WindowRow
  <2>3. p # PlanRow(o, "review", "none", 0)
    BY DEF PlanRow
  <2> QED BY <2>2, <2>3, RowTyped, EventsTyped DEF Actions, Reasons
<1>3. CASE kind = "bills"
  <2>1. PICK o \in Orders : p = PlanRow(o, Classify(o), "none", source[o].event)
    BY <1>3 DEF Plan
  <2>2. Classify(o) \in Actions
    BY <2>1 DEF PlanRow, Classify, Actions
  <2>3. source[o].event \in Deliveries \cup {0}
    BY DEF TypeOK, SourceRows
  <2> QED BY <2>1, <2>2, <2>3, RowTyped DEF Reasons
<1> QED BY <1>1, <1>2, <1>3 DEF Kinds

\* What the steps write into a row of job, source and run.
LEMMA JobTyped ==
  ASSUME job \in [Deliveries -> Jobs], NEW e \in Deliveries, NEW pc \in {"none", "taken", "persisted", "billed"}, To(e, pc)
  PROVE  job' \in [Deliveries -> Jobs]
<1>1. [job[e] EXCEPT !.pc = pc] \in Jobs
  BY DEF Jobs
<1> QED BY <1>1 DEF To

\* A job that ends.
LEMMA EndTyped ==
  ASSUME TypeOK, NEW e \in Deliveries, NEW status \in EventStates, Ends(e, status)
  PROVE  event' \in [Deliveries -> EventStates] /\ job' \in [Deliveries -> Jobs]
<1>1. NoJob \in Jobs
  BY DEF NoJob, Jobs
<1> QED BY <1>1 DEF TypeOK, Ends

\* A new source.
LEMMA SourceTyped ==
  ASSUME NEW origin \in Origins, NEW status \in Statuses, NEW reason \in Reasons, NEW bill \in BillStates,
         NEW e \in Deliveries \cup {0}, NEW evidence \in BOOLEAN
  PROVE  Source(origin, status, reason, bill, e, evidence) \in SourceRows
BY DEF Source, SourceRows

\* A source that T1 closes.
LEMMA ApplyTyped ==
  ASSUME TypeOK, NEW o \in Orders, NEW status \in Statuses, NEW reason \in Reasons, NEW bill \in BillStates,
         ApplyAs(o, status, reason, bill)
  PROVE  source' \in [Orders -> SourceRows]
<1>1. source[o] \in SourceRows
  BY DEF TypeOK
<1>2. source'[o] \in SourceRows
  BY <1>1 DEF TypeOK, ApplyAs, SourceRows
<1>3. \A q \in Orders \ {o} : source'[q] \in SourceRows
  BY DEF TypeOK, ApplyAs
<1>4. source' = [q \in Orders |-> source'[q]]
  BY DEF TypeOK, ApplyAs
<1> QED BY <1>2, <1>3, <1>4

\* A source whose bill moves.
LEMMA BillTyped ==
  ASSUME TypeOK, NEW o \in Orders, NEW state \in BillStates, Bill(o, state)
  PROVE  source' \in [Orders -> SourceRows]
<1>1. [source[o] EXCEPT !.bill = state] \in SourceRows
  BY DEF TypeOK, SourceRows
<1> QED BY <1>1 DEF TypeOK, Bill

\* A sweep that goes on to its bills.
LEMMA RunTyped ==
  ASSUME NEW rr \in SweepRows, NEW page \in SUBSET Orders, NEW pc \in {"idle", "sources", "bills"}
  PROVE  /\ [rr EXCEPT !.pc = pc, !.page = page] \in SweepRows
         /\ IdleRun \in SweepRows
BY DEF SweepRows, IdleRun

\* Each action keeps the types.
LEMMA TypeStep == TypeOK /\ [Next]_vars => TypeOK'
<1> SUFFICES ASSUME TypeOK, [Next]_vars PROVE TypeOK'
  OBVIOUS
<1> USE DEF OldBuilds, EventStates, Failed, Messages
<1>a. OrderOf \in [Deliveries -> Orders] /\ 0 \notin Deliveries
  BY CutoverAssumption
<1>1. ASSUME NEW e \in Deliveries, OldStep(e) PROVE TypeOK'
  <2>1. ASSUME NEW b \in OldBuilds, TakeIn(b, e) PROVE TypeOK'
    BY <2>1 DEF TakeIn, Jobs, TypeOK, buildVars, bagVars, billVars
  <2>2. ASSUME PersistOld(e) PROVE TypeOK'
    <3>1. job' \in [Deliveries -> Jobs]
      BY <2>2, JobTyped DEF PersistOld, TypeOK
    <3> QED BY <2>2, <1>a, <3>1 DEF PersistOld, RowOrMerge, TypeOK, buildVars, billVars
  <2>3. ASSUME PersistL3(e) PROVE TypeOK'
    <3>1. job' \in [Deliveries -> Jobs]
      BY <2>3, JobTyped DEF PersistL3, TypeOK
    <3>2. Source("compat", "legacy", "compat_inline", "legacy", e, FALSE) \in SourceRows
      BY SourceTyped DEF Origins, Statuses, Reasons, BillStates
    <3>3. OrderOf[e] \in Orders /\ writes[OrderOf[e]] + 1 \in Nat
      BY <1>a DEF TypeOK
    <3>4. CASE Present(OrderOf[e])
      BY <2>3, <3>1, <3>4 DEF PersistL3, TypeOK, buildVars, billVars
    <3>5. CASE ~Present(OrderOf[e])
      <4>1. /\ writes' = [writes EXCEPT ![OrderOf[e]] = @ + 1]
            /\ source' = [source EXCEPT ![OrderOf[e]] = Source("compat", "legacy", "compat_inline", "legacy", e, FALSE)]
        BY <2>3, <3>5 DEF PersistL3
      <4>2. writes' \in [Orders -> Nat]
        BY <3>3, <4>1 DEF TypeOK
      <4>3. source' \in [Orders -> SourceRows]
        BY <3>2, <3>3, <4>1 DEF TypeOK
      <4> QED BY <2>3, <3>1, <4>2, <4>3 DEF PersistL3, TypeOK, buildVars, billVars
    <3> QED BY <3>4, <3>5
  <2>4. ASSUME BillInline(e) PROVE TypeOK'
    <3>1. job' \in [Deliveries -> Jobs]
      BY <2>4, JobTyped DEF BillInline, TypeOK
    <3>2. log' \in [Orders -> Messages]
      BY <2>4, <1>a DEF BillInline, TypeOK
    <3>3. oldReached' \subseteq Orders /\ reached' \in [Orders -> Nat]
      BY <2>4, <1>a DEF BillInline, Reach, TypeOK
    <3> QED BY <2>4, <3>1, <3>2, <3>3 DEF BillInline, TypeOK, buildVars, bagVars
  <2>5. ASSUME BillUnlogged(e) PROVE TypeOK'
    <3>2. event' \in [Deliveries -> EventStates] /\ job' \in [Deliveries -> Jobs]
      BY <2>5, EndTyped DEF BillUnlogged
    <3>3. oldReached' \subseteq Orders /\ reached' \in [Orders -> Nat]
      BY <2>5, <1>a DEF BillUnlogged, Reach, TypeOK
    <3> QED BY <2>5, <3>2, <3>3 DEF BillUnlogged, TypeOK, buildVars, bagVars
  <2>6. ASSUME NoBill(e) PROVE TypeOK'
    BY <2>6, EndTyped DEF NoBill, TypeOK, buildVars, bagVars, billVars
  <2>7. ASSUME EndJob(e) PROVE TypeOK'
    <3>1. event' \in [Deliveries -> EventStates] /\ job' \in [Deliveries -> Jobs]
      BY <2>7, EndTyped DEF EndJob
    <3> QED BY <2>7, <3>1 DEF EndJob, TypeOK, buildVars, bagVars, billVars
  <2> QED BY <1>1, <2>1, <2>2, <2>3, <2>4, <2>5, <2>6, <2>7 DEF OldStep
<1>2. ASSUME NEW e \in Deliveries, Capture(e) PROVE TypeOK'
  <2>1. Source("live", "received", "none", "not_ready", e, FALSE) \in SourceRows
    BY SourceTyped DEF Origins, Statuses, Reasons, BillStates
  <2>2. source' \in [Orders -> SourceRows]
    <3>1. OrderOf[e] \in Orders
      BY <1>a
    <3>2. \/ source' = source
          \/ source' = [source EXCEPT ![OrderOf[e]] = Source("live", "received", "none", "not_ready", e, FALSE)]
      BY <1>2 DEF Capture
    <3> QED BY <2>1, <3>1, <3>2 DEF TypeOK
  <2>3. event' \in [Deliveries -> EventStates]
    BY <1>2 DEF Capture, TypeOK
  <2>4. duplicates' \subseteq Deliveries
    BY <1>2 DEF Capture, TypeOK
  <2> QED BY <1>2, <2>2, <2>3, <2>4 DEF Capture, TypeOK, buildVars, bagVars, billVars
<1>3. ASSUME NEW o \in Orders, ApplyClaimed(o) PROVE source' \in [Orders -> SourceRows] /\ event' \in [Deliveries -> EventStates] /\ writes' \in [Orders -> Nat]
  <2>1. source[o].reason \in Reasons /\ source[o].bill \in BillStates
    BY DEF TypeOK, SourceRows
  <2>2. source' \in [Orders -> SourceRows]
    BY <1>3, <2>1, ApplyTyped DEF ApplyClaimed, Statuses, Reasons, BillStates
  <2>3. event' \in [Deliveries -> EventStates]
    BY <1>3 DEF ApplyClaimed, FinishEvent, TypeOK
  <2>4. writes' \in [Orders -> Nat]
    BY <1>3 DEF ApplyClaimed, TypeOK
  <2> QED BY <2>2, <2>3, <2>4
<1>4. ASSUME NEW o \in Orders, SendClaimed(o) PROVE source' \in [Orders -> SourceRows] /\ reached' \in [Orders -> Nat]
  <2>1. source' \in [Orders -> SourceRows]
    BY <1>4, BillTyped DEF SendClaimed, BillStates
  <2>2. reached' \in [Orders -> Nat]
    BY <1>4 DEF SendClaimed, TypeOK
  <2> QED BY <2>1, <2>2
<1>5. ASSUME NEW r \in Runs, SweepStep(r) PROVE TypeOK'
  <2>1. ASSUME Sweep(r) PROVE TypeOK'
    BY <2>1 DEF Sweep, WorkerOn, BillsOn, SweepRows, TypeOK, buildVars, queueVars, bagVars, billVars
  <2>2. ASSUME SelectBills(r) PROVE TypeOK'
    <3>1. run' \in [Runs -> SweepRows]
      BY <2>2, RunTyped DEF SelectBills, TypeOK
    <3> QED BY <2>2, <3>1 DEF SelectBills, TypeOK, buildVars, queueVars, bagVars, billVars
  <2>3. ASSUME SweepBills(r) PROVE TypeOK'
    <3>1. run[r] \in SweepRows
      BY DEF TypeOK
    <3>2. run' \in [Runs -> SweepRows]
      <4>1. ASSUME NEW o \in Orders, BillGate(r, o) PROVE run' \in [Runs -> SweepRows]
        BY <4>1, <3>1 DEF BillGate, TypeOK, SweepRows
      <4>2. ASSUME EndBills(r) PROVE run' \in [Runs -> SweepRows]
        BY <4>2, <3>1 DEF EndBills, TypeOK, SweepRows, IdleRun
      <4> QED BY <2>3, <4>1, <4>2 DEF SweepBills
    <3> QED BY <2>3, <3>2 DEF SweepBills, TypeOK, buildVars, queueVars, bagVars, billVars
  <2>4. ASSUME NEW o \in Orders, Apply(r, o) PROVE TypeOK'
    <3>1. source' \in [Orders -> SourceRows] /\ event' \in [Deliveries -> EventStates] /\ writes' \in [Orders -> Nat]
      BY <2>4, <1>3 DEF Apply, TypeOK
    <3>2. run' \in [Runs -> SweepRows]
      <4>1. run[r] \in SweepRows
        BY DEF TypeOK
      <4>2. [run[r] EXCEPT !.page = @ \ {o}] \in SweepRows
        BY <4>1 DEF SweepRows
      <4> QED BY <2>4, <4>2 DEF Apply, TypeOK
    <3> QED BY <2>4, <3>1, <3>2 DEF Apply, TypeOK, buildVars, billVars
  <2>5. ASSUME NEW o \in Orders, BillClaim(r, o) PROVE TypeOK'
    <3>1. source' \in [Orders -> SourceRows] /\ reached' \in [Orders -> Nat]
      BY <2>5, <1>4 DEF BillClaim, TypeOK
    <3>2. run[r] \in SweepRows
      BY DEF TypeOK
    <3>3. run' \in [Runs -> SweepRows]
      BY <2>5, <3>2 DEF BillClaim, TypeOK, SweepRows
    <3> QED BY <2>5, <3>1, <3>3 DEF BillClaim, TypeOK, buildVars, queueVars, bagVars
  <2> QED BY <1>5, <2>1, <2>2, <2>3, <2>4, <2>5 DEF SweepStep
<1>6. ASSUME NEW o \in Orders, Kick(o) PROVE TypeOK'
  BY <1>6, <1>3 DEF Kick, TypeOK, buildVars, billVars
<1>7. ASSUME NEW o \in Orders, KickBill(o) PROVE TypeOK'
  BY <1>7, <1>4 DEF KickBill, TypeOK, buildVars, queueVars, bagVars
<1>8. ASSUME NEW b \in {"old", "new", "l3"}, Deploy(b) PROVE TypeOK'
  BY <1>8, CutoverAssumption DEF Deploy, TypeOK, queueVars, billVars
<1>9. ASSUME NEW b \in {"old", "new", "l3"}, Die(b) PROVE TypeOK'
  <2>2. NoJob \in Jobs /\ IdleRun \in SweepRows
    BY DEF NoJob, Jobs, IdleRun, SweepRows
  <2>3. job' \in [Deliveries -> Jobs]
    BY <1>9, <2>2 DEF Die, TypeOK
  <2>4. run' \in [Runs -> SweepRows]
    BY <1>9, <2>2 DEF Die, TypeOK
  <2>5. up' \subseteq OldBuilds \cup {"new"}
    BY <1>9 DEF Die, TypeOK
  <2> QED BY <1>9, <2>3, <2>4, <2>5 DEF Die, TypeOK, bagVars, billVars
<1>10. ASSUME Operator PROVE TypeOK'
  <2>1. ASSUME NEW s \in Switches, Activate(s) \/ Revoke(s) PROVE TypeOK'
    <3>1. run' \in [Runs -> SweepRows]
      <4>1. ASSUME NEW q \in Runs PROVE [run[q] EXCEPT !.after = 0] \in SweepRows
        <5>1. run[q] \in SweepRows
          BY DEF TypeOK
        <5> QED BY <5>1 DEF SweepRows
      <4> QED BY <2>1, <4>1 DEF Activate, Revoke, TypeOK
    <3> QED BY <2>1, <3>1 DEF Activate, Revoke, Switches, TypeOK, buildVars, queueVars, bagVars, billVars
  <2>2. ASSUME NEW kind \in Kinds, BeginApply(kind) PROVE TypeOK'
    <3>1. PICK rows \in Plan(kind) : tx' = [kind |-> kind, rows |-> {p \in rows : p.action # "review"}]
      BY <2>2 DEF BeginApply
    <3>2. {p \in rows : p.action # "review"} \in SUBSET PlanRows
      BY PlanTyped
    <3> QED BY <2>2, <3>1, <3>2 DEF BeginApply, TypeOK, buildVars, queueVars, bagVars, billVars
  <2>3. ASSUME CommitApply PROVE TypeOK'
    <3> DEFINE of(o) == {p \in tx.rows : p.order = o}
               at(e) == {p \in tx.rows : p.event = e}
    <3>1. tx.rows \subseteq PlanRows
      BY DEF TypeOK
    <3>2. ASSUME NEW p \in PlanRows, p.order \in Orders PROVE Written(p) \in SourceRows
      <4>1. source[p.order] \in SourceRows /\ p.action \in Actions /\ p.reason \in Reasons /\ p.event \in Deliveries \cup {0}
        BY <3>2 DEF TypeOK, PlanRows
      <4>2. [source[p.order] EXCEPT !.evidence = TRUE] \in SourceRows
        BY <4>1 DEF SourceRows
      <4>3. [source[p.order] EXCEPT !.status = "applied", !.bill = "pending"] \in SourceRows
        BY <4>1 DEF SourceRows, Statuses, BillStates
      <4>4. \A origin \in Origins, status \in Statuses, bill \in BillStates, ev \in BOOLEAN :
              Source(origin, status, p.reason, bill, p.event, ev) \in SourceRows
        BY <4>1, SourceTyped
      <4>5. {"backfill", "live"} \subseteq Origins /\ {"legacy", "community_only", "received"} \subseteq Statuses
            /\ {"legacy", "not_required", "not_ready"} \subseteq BillStates
        BY DEF Origins, Statuses, BillStates
      <4> QED BY <4>1, <4>2, <4>3, <4>4, <4>5 DEF Written, Actions
    <3>3. ASSUME NEW p \in PlanRows PROVE EventAfter(p) \in EventStates
      BY <3>3 DEF PlanRows, EventAfter, TypeOK, Actions
    <3>4. ASSUME NEW o \in Orders, of(o) # {} PROVE Written(CHOOSE p \in of(o) : TRUE) \in SourceRows
      <4>1. (CHOOSE p \in of(o) : TRUE) \in of(o)
        BY <3>4
      <4> QED BY <4>1, <3>1, <3>2
    <3>5. ASSUME NEW e \in Deliveries, at(e) # {} PROVE EventAfter(CHOOSE p \in at(e) : TRUE) \in EventStates
      <4>1. (CHOOSE p \in at(e) : TRUE) \in at(e)
        BY <3>5
      <4> QED BY <4>1, <3>1, <3>3
    <3>6. source' \in [Orders -> SourceRows]
      BY <2>3, <3>4 DEF CommitApply, TypeOK
    <3>7. event' \in [Deliveries -> EventStates]
      BY <2>3, <3>5 DEF CommitApply, TypeOK
    <3> QED BY <2>3, <3>6, <3>7 DEF CommitApply, NoPlan, TypeOK, buildVars, bagVars, billVars
  <2>4. ASSUME AbortApply PROVE TypeOK'
    BY <2>4 DEF AbortApply, NoPlan, TypeOK, buildVars, queueVars, bagVars, billVars
  <2> QED BY <1>10, <2>1, <2>2, <2>3, <2>4 DEF Operator
<1>11. CASE UNCHANGED vars
  BY <1>11 DEF vars, buildVars, queueVars, bagVars, billVars, TypeOK
<1> QED BY <1>1, <1>2, <1>5, <1>6, <1>7, <1>8, <1>9, <1>10, <1>11 DEF Next

-----------------------------------------------------------------------------
(* The steps. *)

\* What the parts read, but for the builds, the plan and the pages.
tableVars == <<event, duplicates, job, community, row, oldWrote, writes, Untold, improvised, settings>>

\* A bill moves, or the log: no source changes in what the parts read of it.
SameSources ==
  \A o \in Orders : /\ source'[o].status = source[o].status /\ source'[o].origin = source[o].origin
                    /\ source'[o].event = source[o].event /\ source'[o].reason = source[o].reason

\* Such a step keeps the parts about tables.
LEMMA QuietStep ==
  ASSUME IInv, TypeOK', UNCHANGED tableVars, SameSources
  PROVE  Before' /\ NotLost' /\ SourcesOK' /\ HandledIsWritten' /\ (\A o \in Orders : Handled(o)' = Handled(o))
<1> USE DEF IInv, Parts, tableVars, SameSources
<1>1. \A o \in Orders : Handled(o)' = Handled(o) /\ Present(o)' = Present(o) /\ Closed(o)' = Closed(o)
  BY DEF Handled, InBag, Present, Closed
<1>2. \A e \in Deliveries : Unowned(e)' = Unowned(e) /\ PastBag(e)' = PastBag(e)
  BY CutoverAssumption DEF Unowned, Owned, PastBag
<1>3. \A o \in Orders : Evidence(o)' = Evidence(o)
  BY <1>2 DEF Evidence
<1>4. Before'
  BY <1>1, <1>2, CutoverAssumption DEF Before
<1>5. NotLost'
  BY <1>1, <1>3, TypeOK DEF NotLost, OldOrders, TypeOK
<1>6. SourcesOK'
  BY <1>1 DEF SourcesOK
<1>7. HandledIsWritten'
  BY <1>1 DEF HandledIsWritten, Handled
<1> QED BY <1>1, <1>4, <1>5, <1>6, <1>7

\* What does not touch the builds, the switches and the plan.
LEMMA KeepBuilds ==
  ASSUME BuildsOK, UNCHANGED <<up, settings>>,
         \A e \in Deliveries : job'[e] \in {job[e], NoJob} \/ (job[e] # NoJob /\ job'[e].build = job[e].build)
  PROVE  BuildsOK'
BY DEF BuildsOK

\* The orders a plan calls handled stay so.
LEMMA KeepPlan ==
  ASSUME TypeOK, PlanOK, UNCHANGED <<up, settings, tx>>, \A o \in Orders : Handled(o) => Handled(o)'
  PROVE  PlanOK'
<1>1. \A p \in tx.rows : p.order \in Orders
  BY DEF TypeOK, PlanRows
<1> QED BY <1>1 DEF PlanOK, Claims

\* Only a sweep changes its page.
LEMMA KeepPage == ASSUME PageOK, UNCHANGED <<run, settings>> PROVE PageOK'
BY DEF PageOK

\* A source stays, and so does what nothing told of.
LEMMA KeepL3 ==
  ASSUME L3Knows, UNCHANGED <<up, oldWrote, improvised>>, TypeOK, Untold \subseteq Untold', \A o \in Orders : Present(o) => Present(o)'
  PROVE  L3Knows'
BY DEF L3Knows, OldOrders, TypeOK

\* T2 to T4 change the bill alone.
LEMMA BillKeepsSources == ASSUME TypeOK, NEW o \in Orders, SendClaimed(o) PROVE SameSources
<1>1. PICK state : Bill(o, state)
  BY DEF SendClaimed
<1> QED BY <1>1 DEF Bill, SameSources, TypeOK, SourceRows

\* A sweep but for its application of sources.
LEMMA SweepBillsStep ==
  ASSUME IInv, TypeOK',
         \/ \E r \in Runs : Sweep(r) \/ SelectBills(r) \/ SweepBills(r) \/ \E o \in Orders : BillClaim(r, o)
         \/ (\E o \in Orders : KickBill(o)) \/ UNCHANGED vars
  PROVE  Parts'
<1>1. UNCHANGED tableVars /\ UNCHANGED <<up, tx>>
  BY DEF Sweep, SelectBills, SweepBills, BillClaim, KickBill, tableVars, buildVars, queueVars, bagVars, billVars, vars, Untold
<1>2. SameSources
  <2>1. CASE UNCHANGED source
    BY <2>1 DEF SameSources
  <2>2. CASE \E o \in Orders : SendClaimed(o)
    BY <2>2, BillKeepsSources DEF IInv
  <2> QED BY <2>1, <2>2 DEF Sweep, SelectBills, SweepBills, BillClaim, KickBill, vars
<1>3. PageOK'
  <2>1. ASSUME NEW r \in Runs, Sweep(r) PROVE PageOK'
    BY <2>1 DEF IInv, Parts, PageOK, TypeOK, Sweep, WorkerOn
  <2>2. ASSUME NEW r \in Runs, SelectBills(r) PROVE PageOK'
    <3>1. (\A q \in Runs \ {r} : run'[q] = run[q]) /\ run'[r].pc \in {"idle", "bills"} /\ UNCHANGED settings
      <4>1. run[r] \in SweepRows /\ run \in [Runs -> SweepRows]
        BY DEF IInv, TypeOK
      <4> QED BY <2>2, <4>1 DEF SweepRows, SelectBills, IdleRun
    <3> QED BY <3>1 DEF IInv, Parts, PageOK
  <2>3. ASSUME NEW r \in Runs, SweepBills(r) PROVE PageOK'
    <3>1. (\A q \in Runs \ {r} : run'[q] = run[q]) /\ run'[r].pc \in {"idle", "bills"} /\ UNCHANGED settings
      <4>1. ASSUME NEW o \in Orders, BillGate(r, o) PROVE (\A q \in Runs \ {r} : run'[q] = run[q]) /\ run'[r].pc = "bills"
        <5>1. run[r] \in SweepRows /\ run \in [Runs -> SweepRows]
          BY DEF IInv, TypeOK
        <5> QED BY <4>1, <5>1 DEF SweepRows, BillGate
      <4>2. ASSUME EndBills(r) PROVE (\A q \in Runs \ {r} : run'[q] = run[q]) /\ run'[r].pc = "idle"
        BY <4>2 DEF IInv, TypeOK, EndBills, IdleRun
      <4> QED BY <2>3, <4>1, <4>2 DEF SweepBills
    <3> QED BY <3>1 DEF IInv, Parts, PageOK, TypeOK
  <2>4. ASSUME NEW r \in Runs, NEW o \in Orders, BillClaim(r, o) PROVE PageOK'
    BY <2>4 DEF IInv, Parts, PageOK, TypeOK, SweepRows, BillClaim
  <2>5. CASE UNCHANGED <<run, settings>>
    BY <2>5, KeepPage DEF IInv, Parts
  <2> QED BY <2>1, <2>2, <2>3, <2>4, <2>5 DEF KickBill, vars
<1>4. BuildsOK'
  BY <1>1, KeepBuilds DEF IInv, Parts, tableVars
<1>5. Before' /\ NotLost' /\ SourcesOK' /\ HandledIsWritten' /\ (\A o \in Orders : Handled(o)' = Handled(o))
  BY <1>1, <1>2, QuietStep
<1>6. PlanOK'
  BY <1>1, <1>5, KeepPlan DEF IInv, Parts, tableVars
<1>7. L3Knows'
  BY <1>1, <1>2, KeepL3 DEF IInv, Parts, tableVars, SameSources, Present
<1> QED BY <1>3, <1>4, <1>5, <1>6, <1>7 DEF Parts

\* A job moves on.
LEMMA ToStep ==
  ASSUME TypeOK, NEW e \in Deliveries, NEW pc, To(e, pc)
  PROVE  /\ job'[e].build = job[e].build /\ job'[e].pc = pc
         /\ \A f \in Deliveries \ {e} : job'[f] = job[f]
<1>1. job[e] \in Jobs /\ job \in [Deliveries -> Jobs]
  BY DEF TypeOK
<1> QED BY <1>1 DEF To, Jobs

\* A job begins, writes, bills, ends: facts about its event alone.
LEMMA TakeInStep == ASSUME IInv, TypeOK', NEW b \in OldBuilds, NEW e \in Deliveries, TakeIn(b, e) PROVE Parts'
<1> USE DEF IInv, Parts, TakeIn, buildVars, bagVars, billVars
<1>1. /\ job'[e] = [build |-> b, pc |-> "taken"] /\ event'[e] = "received" /\ event[e] = "none"
      /\ \A f \in Deliveries \ {e} : job'[f] = job[f] /\ event'[f] = event[f]
  BY DEF TypeOK
<1>2. \A o \in Orders : Handled(o)' = Handled(o) /\ Present(o)' = Present(o) /\ Closed(o)' = Closed(o)
  BY DEF Handled, InBag, Present, Closed
<1>3. \A f \in Deliveries : Unowned(f)' = Unowned(f)
  BY DEF Unowned, Owned
<1>4. BuildsOK'
  BY <1>1 DEF BuildsOK
<1>5. PlanOK' /\ PageOK' /\ L3Knows' /\ SourcesOK'
  BY <1>2, KeepPlan, KeepPage, KeepL3 DEF SourcesOK, Untold
<1>6. Before'
  BY <1>1, <1>2, <1>3, CutoverAssumption DEF Before, PastBag
<1>7. ASSUME NEW o \in Orders, "marker" \notin settings, Evidence(o) PROVE Evidence(o)'
  <2>1. PICK f \in Deliveries : OrderOf[f] = o /\ Unowned(f) /\ event[f] \in {"received", "processed"} \cup Failed
    BY <1>7 DEF Evidence
  <2>2. f # e
    BY <1>1, <2>1 DEF Failed
  <2> QED BY <1>1, <1>3, <2>1, <2>2 DEF Evidence
<1>8. NotLost'
  BY <1>2, <1>7 DEF NotLost, OldOrders, TypeOK, Untold
<1>9. HandledIsWritten'
  BY DEF HandledIsWritten, InBag
<1> QED BY <1>4, <1>5, <1>6, <1>8, <1>9

\* The bag of the old build: a row, or (after the marker) nothing that tells of it.
LEMMA PersistOldStep == ASSUME IInv, TypeOK', NEW e \in Deliveries, PersistOld(e) PROVE Parts'
<1> USE DEF IInv, Parts, PersistOld, billVars, buildVars
<1> DEFINE o == OrderOf[e]
<1>0. o \in Orders
  BY CutoverAssumption
<1>1. /\ job'[e].build = "old" /\ job'[e].pc = "persisted" /\ job[e].build = "old"
      /\ \A f \in Deliveries \ {e} : job'[f] = job[f]
  BY ToStep
<1>2. "old" \in up /\ "l3" \notin up
  BY <1>1 DEF BuildsOK, NoJob
<1>3. /\ row \subseteq row' /\ oldWrote \subseteq oldWrote' /\ oldWrote' \subseteq oldWrote \cup {o}
      /\ improvised \subseteq improvised' /\ improvised' \subseteq improvised \cup {o} /\ Untold \subseteq Untold' /\ row' \subseteq row \cup (oldWrote' \cap {o})
      /\ o \in oldWrote' \/ o \in improvised'
  BY DEF RowOrMerge, TypeOK, Untold
<1>4. \A q \in Orders : Handled(q) => Handled(q)'
  BY <1>3 DEF Handled, InBag
<1>5. Handled(o)'
  BY <1>3 DEF Handled, InBag
<1>6. \A f \in Deliveries : Unowned(f)' = Unowned(f)
  BY DEF Unowned, Owned
<1>7. \A q \in Orders : Present(q)' = Present(q) /\ Closed(q)' = Closed(q)
  BY DEF Present, Closed
<1>8. BuildsOK' /\ PlanOK' /\ PageOK' /\ L3Knows'
  <2>1. BuildsOK'
    BY <1>1, KeepBuilds DEF NoJob
  <2>2. PlanOK' /\ PageOK'
    BY <1>4, KeepPlan, KeepPage
  <2> QED BY <1>2, <2>1, <2>2 DEF L3Knows
<1>9. Before'
  BY <1>1, <1>4, <1>5, <1>6, CutoverAssumption DEF Before, PastBag
<1>10. \A q \in Orders : Evidence(q) => Evidence(q)'
  BY <1>6 DEF Evidence
<1>11. NotLost'
  <2>1. "marker" \notin settings => Evidence(o)'
    BY <1>1, <1>6 DEF Evidence, Before
  <2>2. "marker" \in settings => o \in row' \/ o \in Untold'
    BY DEF Untold
  <2>3. ASSUME NEW q \in OldOrders', q # o PROVE IF "marker" \in settings' THEN q \in row' \/ q \in Untold' \/ Closed(q)' ELSE Evidence(q)'
    <3>1. q \in OldOrders /\ q \in Orders
      BY <1>3, <2>3 DEF OldOrders, TypeOK
    <3> QED BY <1>3, <1>7, <1>10, <3>1 DEF NotLost, OldOrders
  <2> QED BY <2>1, <2>2, <2>3 DEF NotLost, OldOrders
<1>12. SourcesOK'
  BY <1>3, <1>7 DEF SourcesOK
<1>13. HandledIsWritten'
  BY <1>4 DEF HandledIsWritten, Handled
<1> QED BY <1>8, <1>9, <1>11, <1>12, <1>13

\* L3 writes where no source is.
LEMMA PersistL3Step == ASSUME IInv, TypeOK', NEW e \in Deliveries, PersistL3(e) PROVE Parts'
<1> USE DEF IInv, Parts, PersistL3, billVars, buildVars
<1> DEFINE o == OrderOf[e]
<1>0. o \in Orders
  BY CutoverAssumption
<1>1. \A f \in Deliveries : job'[f] = job[f] \/ (job[f] # NoJob /\ job'[f].build = job[f].build)
  <2>1. job[e] # NoJob
    BY DEF JobAt, NoJob
  <2>2. \E pc : To(e, pc)
    OBVIOUS
  <2> HIDE DEF PersistL3
  <2> QED BY <2>1, <2>2, ToStep
<1>2. "marker" \in settings
  BY DEF BuildsOK, JobAt, NoJob
<1>3. \A q \in Orders : /\ writes[q] \in Nat /\ writes'[q] >= writes[q]
                        /\ \/ source'[q] = source[q] /\ writes'[q] = writes[q]
                           \/ ~Present(q) /\ writes'[q] > 0 /\ source'[q].status = "legacy"
  <2>0. \A q \in Orders : writes[q] \in Nat
    BY DEF TypeOK
  <2>1. CASE Present(o)
    <3>1. source' = source /\ writes' = writes
      BY <2>1
    <3> QED BY <2>0, <3>1
  <2>2. CASE ~Present(o)
    <3>1. /\ writes' = [writes EXCEPT ![o] = @ + 1]
          /\ source' = [source EXCEPT ![o] = Source("compat", "legacy", "compat_inline", "legacy", e, FALSE)]
      BY <2>2
    <3>2. source'[o].status = "legacy" /\ writes'[o] = writes[o] + 1
      BY <1>0, <3>1 DEF TypeOK, Source
    <3>3. \A q \in Orders \ {o} : source'[q] = source[q] /\ writes'[q] = writes[q]
      BY <3>1 DEF TypeOK
    <3> HIDE DEF PersistL3, IInv
    <3> QED BY <1>0, <2>0, <2>2, <3>2, <3>3
  <2> QED BY <2>1, <2>2
<1>4. \A q \in Orders : (Handled(q) => Handled(q)') /\ (Present(q) => Present(q)') /\ (Closed(q) => Closed(q)')
  BY <1>3 DEF Handled, InBag, Present, Closed, TypeOK
<1>5. BuildsOK' /\ PlanOK' /\ PageOK' /\ L3Knows'
  BY <1>1, <1>4, KeepBuilds, KeepPlan, KeepPage, KeepL3 DEF Untold
<1>6. Before'
  BY <1>2 DEF Before
<1>7. NotLost'
  BY <1>2, <1>4 DEF NotLost, OldOrders, TypeOK, Untold
<1>8. SourcesOK'
  BY <1>3, <1>4 DEF SourcesOK, Closed, Present
<1>9. HandledIsWritten'
  BY <1>3, <1>4 DEF HandledIsWritten, Handled, InBag
<1> QED BY <1>5, <1>6, <1>7, <1>8, <1>9

\* What remains of a job: it went on, or ended in one of three ways.
Goes(e) == PastBag(e) /\ PastBag(e)' /\ job'[e].build = job[e].build /\ event'[e] = event[e]
Breaks(e) == job'[e] = NoJob /\ event'[e] \in {"received", "no_bill", "failed"}
Completes(e) ==
  job'[e] = NoJob /\ event'[e] = "processed" /\ (PastBag(e) \/ OrderOf[e] \in community)

\* Each of them keeps the parts.
LEMMA JobStep ==
  ASSUME IInv, TypeOK', NEW e \in Deliveries, job[e].pc # "none",
         UNCHANGED <<up, settings, tx, run, community, duplicates, source, row, oldWrote, writes, improvised>>,
         Untold \subseteq Untold',
         \A f \in Deliveries \ {e} : job'[f] = job[f] /\ event'[f] = event[f],
         Goes(e) \/ Breaks(e) \/ Completes(e)
  PROVE  Parts'
<1> USE DEF IInv, Parts
<1>1. job[e] # NoJob /\ job[e].build \in up /\ job[e].build \in OldBuilds
  BY DEF BuildsOK, NoJob, TypeOK, Jobs, OldBuilds
<1>2. \A o \in Orders : Handled(o)' = Handled(o) /\ Present(o)' = Present(o) /\ Closed(o)' = Closed(o)
  BY DEF Handled, InBag, Present, Closed
<1>3. \A f \in Deliveries : Unowned(f)' = Unowned(f)
  BY DEF Unowned, Owned
<1>4. BuildsOK' /\ PlanOK' /\ PageOK' /\ L3Knows'
  BY <1>1, <1>2, KeepBuilds, KeepPlan, KeepPage, KeepL3 DEF Goes, Breaks, Completes
<1>5. "marker" \notin settings => job[e].build = "old" /\ event[e] = "received" /\ Unowned(e)
  BY <1>1 DEF BuildsOK, Before, OldBuilds
<1>6. Before'
  <2> SUFFICES ASSUME "marker" \notin settings, NEW f \in Deliveries
               PROVE  /\ job'[f].build = "old" => event'[f] = "received" /\ Unowned(f)'
                      /\ event'[f] = "none" => Unowned(f)'
                      /\ PastBag(f)' => job'[f].build = "old" /\ Handled(OrderOf[f])'
                      /\ event'[f] = "processed" => Unowned(f)' /\ Handled(OrderOf[f])'
    BY DEF Before
  <2>1. OrderOf[f] \in Orders /\ OrderOf[e] \in Orders
    BY CutoverAssumption
  <2>2. CASE f # e
    BY <1>2, <1>3, <2>1, <2>2 DEF Before, PastBag
  <2>3. CASE f = e
    <3>1. Handled(OrderOf[e]) = Handled(OrderOf[e])'
      BY <1>2, <2>1
    <3>2. PastBag(e) => Handled(OrderOf[e])
      BY DEF Before
    <3>3. CASE Goes(e)
      BY <1>3, <1>5, <2>3, <3>1, <3>2, <3>3 DEF Goes
    <3>4. CASE Breaks(e)
      BY <1>3, <1>5, <2>3, <3>4 DEF Breaks, NoJob, PastBag
    <3>5. CASE Completes(e)
      BY <1>3, <1>5, <2>3, <3>1, <3>2, <3>5 DEF Completes, NoJob, PastBag, Handled
    <3> QED BY <3>3, <3>4, <3>5
  <2> QED BY <2>2, <2>3
<1>7. ASSUME NEW o \in Orders, "marker" \notin settings, Evidence(o) PROVE Evidence(o)'
  <2>1. PICK f \in Deliveries : OrderOf[f] = o /\ Unowned(f) /\ event[f] \in {"received", "processed"} \cup Failed
    BY <1>7 DEF Evidence
  <2>2. event'[f] \in {"received", "processed"} \cup Failed
    BY <1>5, <1>7, <2>1 DEF Goes, Breaks, Completes, Failed
  <2> QED BY <1>3, <2>1, <2>2 DEF Evidence
<1>8. NotLost'
  BY <1>2, <1>7 DEF NotLost, OldOrders, TypeOK
<1>9. SourcesOK'
  BY <1>2 DEF SourcesOK
<1>10. HandledIsWritten'
  BY DEF HandledIsWritten, InBag
<1> QED BY <1>4, <1>6, <1>8, <1>9, <1>10

\* What Ends says of each event.
LEMMA EndsStep ==
  ASSUME TypeOK, NEW e \in Deliveries, NEW status, Ends(e, status)
  PROVE  /\ job'[e] = NoJob /\ event'[e] = status
         /\ \A f \in Deliveries \ {e} : job'[f] = job[f] /\ event'[f] = event[f]
BY DEF TypeOK, Ends

\* The other steps of the old build and of L3.
LEMMA JobSteps ==
  ASSUME IInv, TypeOK', NEW e \in Deliveries, BillInline(e) \/ BillUnlogged(e) \/ NoBill(e) \/ EndJob(e)
  PROVE  Parts'
<1>0. TypeOK
  BY DEF IInv
<1>1. CASE BillInline(e)
  <2>1. Goes(e) /\ \A f \in Deliveries \ {e} : job'[f] = job[f] /\ event'[f] = event[f]
    BY <1>0, <1>1, ToStep DEF BillInline, JobAt, Goes, PastBag
  <2> QED BY <1>1, <2>1, JobStep DEF BillInline, JobAt, buildVars, bagVars, Untold
<1>2. CASE BillUnlogged(e)
  <2>1. Breaks(e) /\ \A f \in Deliveries \ {e} : job'[f] = job[f] /\ event'[f] = event[f]
    BY <1>0, <1>2, EndsStep DEF BillUnlogged, JobAt, Breaks
  <2> QED BY <1>2, <2>1, JobStep DEF BillUnlogged, JobAt, buildVars, bagVars, Untold
<1>3. CASE NoBill(e)
  <2>1. Breaks(e) /\ \A f \in Deliveries \ {e} : job'[f] = job[f] /\ event'[f] = event[f]
    BY <1>0, <1>3, EndsStep DEF NoBill, Breaks
  <2> QED BY <1>3, <2>1, JobStep DEF NoBill, JobAt, buildVars, bagVars, billVars, Untold
<1>4. CASE EndJob(e)
  <2>1. Breaks(e) \/ Completes(e)
    BY <1>0, <1>4, EndsStep DEF EndJob, JobAt, Breaks, Completes, PastBag
  <2>2. \A f \in Deliveries \ {e} : job'[f] = job[f] /\ event'[f] = event[f]
    BY <1>0, <1>4, EndsStep DEF EndJob
  <2> QED BY <1>4, <2>1, <2>2, JobStep DEF EndJob, JobAt, buildVars, bagVars, billVars, Untold
<1> QED BY <1>1, <1>2, <1>3, <1>4

\* T0 touches an order without a source, and an event that nobody took.
LEMMA CaptureStep == ASSUME IInv, TypeOK', NEW e \in Deliveries, Capture(e) PROVE Parts'
<1> USE DEF IInv, Parts
<1> DEFINE o == OrderOf[e]
<1>0. o \in Orders /\ event[e] = "none" /\ UNCHANGED <<community, buildVars, job, bagVars, billVars, settings, tx, run>>
  BY CutoverAssumption DEF Capture
<1>1. /\ \A f \in Deliveries \ {e} : event'[f] = event[f] /\ (f \in duplicates' <=> f \in duplicates)
      /\ event'[e] \in {"ignored", "received"}
  BY DEF Capture, TypeOK
<1>2. \A q \in Orders : \/ source'[q] = source[q]
                        \/ ~Present(q) /\ source'[q] = Source("live", "received", "none", "not_ready", e, FALSE) /\ q = o
  BY <1>0 DEF Capture, TypeOK
<1>3. \A q \in Orders : Handled(q)' = Handled(q) /\ (Present(q) => Present(q)') /\ (Closed(q) <=> Closed(q)')
  BY <1>0, <1>2 DEF Handled, InBag, Present, Closed, Source, bagVars
<1>4. \A f \in Deliveries \ {e} : Unowned(f)' = Unowned(f)
  <2> SUFFICES ASSUME NEW f \in Deliveries \ {e} PROVE Owned(f)' = Owned(f)
    BY <1>1 DEF Unowned
  <2>1. OrderOf[f] \in Orders /\ f # 0
    BY CutoverAssumption
  <2>2. CASE source'[OrderOf[f]] = source[OrderOf[f]]
    BY <2>2 DEF Owned
  <2>3. CASE source'[OrderOf[f]] # source[OrderOf[f]]
    BY <1>2, <2>1, <2>3 DEF Owned, Source, SourcesOK
  <2> QED BY <2>2, <2>3
<1>5. BuildsOK' /\ PlanOK' /\ PageOK' /\ L3Knows'
  BY <1>0, <1>3, KeepBuilds, KeepPlan, KeepPage, KeepL3 DEF buildVars, bagVars, Untold
<1>6. Before'
  <2>1. ASSUME "marker" \notin settings PROVE job[e].build # "old" /\ ~PastBag(e)
    BY <1>0, <2>1 DEF Before
  <2>2. \A q \in Orders : "marker" \notin settings /\ source'[q].status = "received" => source'[q].origin = "live"
    BY <1>2 DEF Before, Source
  <2>3. \A f \in Deliveries : OrderOf[f] \in Orders
    BY CutoverAssumption
  <2> QED BY <1>0, <1>1, <1>3, <1>4, <2>1, <2>2, <2>3 DEF Before, PastBag
<1>7. ASSUME NEW q \in Orders, "marker" \notin settings, Evidence(q) PROVE Evidence(q)'
  <2>1. PICK f \in Deliveries : OrderOf[f] = q /\ Unowned(f) /\ event[f] \in {"received", "processed"} \cup Failed
    BY <1>7 DEF Evidence
  <2>2. f # e
    BY <1>0, <2>1 DEF Failed
  <2> QED BY <1>0, <1>1, <1>4, <2>1, <2>2 DEF Evidence
<1>8. NotLost'
  BY <1>0, <1>3, <1>7 DEF NotLost, OldOrders, TypeOK, bagVars, Untold
<1>9. SourcesOK'
  BY <1>0, <1>2, <1>3 DEF SourcesOK, bagVars, Source, Present
<1>10. HandledIsWritten'
  BY <1>2, <1>3 DEF HandledIsWritten, Handled, Source
<1> QED BY <1>5, <1>6, <1>8, <1>9, <1>10

\* T1: it needs the marker, and closes the source it works on.
LEMMA ApplyStep ==
  ASSUME IInv, TypeOK', NEW o \in Orders, ApplyClaimed(o), source[o].status = "received",
         "marker" \in settings, UNCHANGED <<community, buildVars, duplicates, job, row, oldWrote, Untold, improvised, settings, tx>>
  PROVE  BuildsOK' /\ PlanOK' /\ Before' /\ NotLost' /\ L3Knows' /\ SourcesOK' /\ HandledIsWritten'
<1> USE DEF IInv, Parts
<1>1. /\ source'[o].status \in {"applied", "legacy", "community_only", "review"}
      /\ source'[o].origin = source[o].origin /\ source'[o].event = source[o].event
      /\ \A q \in Orders \ {o} : source'[q] = source[q]
  <2>1. PICK status \in {"applied", "legacy", "community_only", "review"} : \E reason, bill : ApplyAs(o, status, reason, bill)
    BY DEF ApplyClaimed
  <2>2. source[o] \in SourceRows /\ source \in [Orders -> SourceRows]
    BY DEF TypeOK
  <2> QED BY <2>1, <2>2 DEF ApplyAs, SourceRows
<1>2. \A q \in Orders : writes[q] \in Nat /\ writes'[q] \in Nat /\ writes'[q] >= writes[q]
  BY DEF ApplyClaimed, TypeOK
<1>3. \A q \in Orders \ {o} : writes'[q] = writes[q]
  BY DEF ApplyClaimed, TypeOK
<1>4. source'[o].status \in {"applied", "legacy"} => o \in row \/ writes'[o] > 0
  <2>1. source[o] \in SourceRows /\ source \in [Orders -> SourceRows] /\ writes \in [Orders -> Nat]
    BY DEF TypeOK
  <2> HIDE DEF IInv
  <2> QED BY <2>1 DEF ApplyClaimed, ApplyAs, SourceRows
<1>5. \A q \in Orders : (Handled(q) => Handled(q)') /\ (Present(q) <=> Present(q)') /\ (Closed(q) => Closed(q)')
  BY <1>1, <1>2 DEF Handled, InBag, Present, Closed
<1>6. BuildsOK' /\ PlanOK' /\ L3Knows' /\ Before'
  BY <1>5, KeepBuilds, KeepPlan, KeepL3 DEF Before, buildVars
<1>7. NotLost'
  BY <1>5 DEF NotLost, OldOrders, TypeOK
<1>8. SourcesOK'
  BY <1>1, <1>2, <1>3, <1>5 DEF SourcesOK, Closed, Present
<1>9. HandledIsWritten'
  BY <1>1, <1>4, <1>5 DEF HandledIsWritten, Handled, InBag, SourcesOK
<1> QED BY <1>6, <1>7, <1>8, <1>9

\* A sweep applies a source only after the marker.
LEMMA ApplySteps ==
  ASSUME IInv, TypeOK', NEW o \in Orders, Kick(o) \/ \E r \in Runs : Apply(r, o)
  PROVE  Parts'
<1>1. CASE Kick(o)
  <2>1. PageOK'
    BY <1>1, KeepPage DEF IInv, Parts, Kick
  <2> QED BY <1>1, <2>1, ApplyStep DEF Kick, WorkerOn, Parts, Untold
<1>2. ASSUME NEW r \in Runs, Apply(r, o) PROVE Parts'
  <2>1. "marker" \in settings
    BY <1>2 DEF Apply, IInv, Parts, PageOK
  <2>2. PageOK'
    BY <1>2, <2>1 DEF Apply, PageOK
  <2>3. CASE source[o].status = "received"
    BY <1>2, <2>1, <2>2, <2>3, ApplyStep DEF Apply, Parts, Untold
  <2>4. CASE source[o].status # "received"
    <3>1. UNCHANGED tableVars /\ UNCHANGED <<up, tx, source>>
      BY <1>2, <2>4 DEF Apply, tableVars, buildVars, Untold
    <3>2. Before' /\ NotLost' /\ SourcesOK' /\ HandledIsWritten' /\ (\A q \in Orders : Handled(q)' = Handled(q))
      BY <3>1, QuietStep DEF SameSources
    <3>3. BuildsOK' /\ PlanOK' /\ L3Knows'
      BY <3>1, <3>2, KeepBuilds, KeepPlan, KeepL3 DEF IInv, Parts, tableVars, Present
    <3> QED BY <2>2, <3>2, <3>3 DEF Parts
  <2> QED BY <2>3, <2>4
<1> QED BY <1>1, <1>2

\* A build comes.
LEMMA DeployStep == ASSUME IInv, TypeOK', NEW b \in {"old", "new", "l3"}, Deploy(b) PROVE Parts'
<1> USE DEF IInv, Parts
<1>0. UNCHANGED <<community, queueVars, source, row, oldWrote, writes, improvised, billVars, settings, tx, run>>
  BY DEF Deploy
<1>1. up' = up \cup {b} /\ Untold \subseteq Untold' /\ (b = "old" => tx = NoPlan /\ up = {"new"} /\ "activated" \notin settings)
  BY DEF Deploy, Untold
<1>2. b = "l3" => up = {"new"} /\ "activated" \in settings /\ \A o \in oldWrote : Present(o) \/ o \in Untold'
  BY DEF Deploy, TypeOK, Untold
<1>3. \A o \in Orders : Handled(o)' = Handled(o) /\ Present(o)' = Present(o) /\ Closed(o)' = Closed(o)
  BY <1>0 DEF Handled, InBag, Present, Closed
<1>4. \A f \in Deliveries : Unowned(f)' = Unowned(f) /\ PastBag(f)' = PastBag(f)
  BY <1>0 DEF Unowned, Owned, PastBag, queueVars
<1>5. BuildsOK'
  BY <1>0, <1>1, <1>2 DEF BuildsOK, queueVars
<1>6. PlanOK'
  <2>1. \A p \in tx.rows : p.order \in Orders
    BY DEF TypeOK, PlanRows
  <2> QED BY <1>0, <1>1, <1>3, <2>1 DEF PlanOK, Claims
<1>7. PageOK'
  BY <1>0, KeepPage
<1>8. Before'
  BY <1>0, <1>3, <1>4, CutoverAssumption DEF Before, queueVars
<1>9. \A o \in Orders : Evidence(o)' = Evidence(o)
  BY <1>0, <1>4 DEF Evidence, queueVars
<1>10. NotLost'
  BY <1>0, <1>1, <1>3, <1>9 DEF NotLost, OldOrders, TypeOK
<1>11. L3Knows'
  <2>1. b = "l3" => \A o \in OldOrders : Present(o) \/ o \in Untold'
    BY <1>1, <1>2 DEF BuildsOK, NotLost, OldOrders, SourcesOK, Present, Closed
  <2> QED BY <1>0, <1>1, <1>3, <2>1 DEF L3Knows, OldOrders, TypeOK
<1>12. SourcesOK' /\ HandledIsWritten'
  BY <1>0, <1>3 DEF SourcesOK, HandledIsWritten, InBag
<1> QED BY <1>5, <1>6, <1>7, <1>8, <1>10, <1>11, <1>12

\* A build goes, and its jobs with it.
LEMMA DieStep == ASSUME IInv, TypeOK', NEW b \in {"old", "new", "l3"}, Die(b) PROVE Parts'
<1> USE DEF IInv, Parts
<1>0. UNCHANGED <<community, event, duplicates, source, row, oldWrote, writes, improvised, billVars, settings, tx>>
  BY DEF Die, bagVars
<1>1. /\ \A e \in Deliveries : job'[e] = IF job[e].build = b THEN NoJob ELSE job[e]
      /\ up \ {b} \subseteq up' /\ up' \subseteq up /\ Untold \subseteq Untold'
  BY DEF Die, bagVars, Untold
<1>3. \A o \in Orders : Handled(o)' = Handled(o) /\ Present(o)' = Present(o) /\ Closed(o)' = Closed(o)
  BY <1>0 DEF Handled, InBag, Present, Closed
<1>4. \A f \in Deliveries : Unowned(f)' = Unowned(f)
  BY <1>0 DEF Unowned, Owned
<1>5. BuildsOK'
  BY <1>0, <1>1 DEF BuildsOK, NoJob
<1>6. PlanOK'
  <2>1. \A p \in tx.rows : p.order \in Orders
    BY DEF TypeOK, PlanRows
  <2> QED BY <1>0, <1>1, <1>3, <2>1 DEF PlanOK, Claims
<1>7. PageOK'
  BY <1>0 DEF Die, PageOK, IdleRun
<1>8. Before'
  BY <1>0, <1>1, <1>3, <1>4, CutoverAssumption DEF Before, NoJob, PastBag
<1>9. \A o \in Orders : Evidence(o)' = Evidence(o)
  BY <1>0, <1>4 DEF Evidence
<1>10. NotLost'
  BY <1>0, <1>1, <1>3, <1>9 DEF NotLost, OldOrders, TypeOK
<1>11. L3Knows'
  BY <1>0, <1>1, <1>3 DEF L3Knows, OldOrders, TypeOK
<1>12. SourcesOK' /\ HandledIsWritten'
  BY <1>0, <1>3 DEF SourcesOK, HandledIsWritten, InBag
<1> QED BY <1>5, <1>6, <1>7, <1>8, <1>10, <1>11, <1>12

\* An activation or a revocation.
LEMMA SwitchStep == ASSUME IInv, TypeOK', NEW s \in Switches, Activate(s) \/ Revoke(s) PROVE Parts'
<1> USE DEF IInv, Parts
<1>0. UNCHANGED <<community, buildVars, queueVars, source, bagVars, billVars, tx>>
  BY DEF Activate, Revoke
<1>1. /\ "marker" \in settings' <=> "marker" \in settings
      /\ "activated" \in settings => "activated" \in settings'
      /\ "activated" \in settings' => "activated" \in settings \/ ("old" \notin up /\ "marker" \in settings)
      /\ \A r \in Runs : run'[r].pc = run[r].pc /\ run'[r].page = run[r].page
  <2>1. CASE Activate(s)
    BY <2>1 DEF Activate, Switches, TypeOK, SweepRows
  <2>2. CASE Revoke(s)
    BY <2>2 DEF Revoke, Switches, TypeOK
  <2> QED BY <2>1, <2>2
<1>2. \A o \in Orders : Handled(o)' = Handled(o) /\ Present(o)' = Present(o) /\ Closed(o)' = Closed(o)
  BY <1>0 DEF Handled, InBag, Present, Closed, bagVars
<1>3. \A f \in Deliveries : Unowned(f)' = Unowned(f) /\ PastBag(f)' = PastBag(f)
  BY <1>0 DEF Unowned, Owned, PastBag, queueVars
<1>4. BuildsOK' /\ PageOK'
  BY <1>0, <1>1 DEF BuildsOK, PageOK, buildVars, queueVars
<1>5. PlanOK'
  <2>1. \A p \in tx.rows : p.order \in Orders
    BY DEF TypeOK, PlanRows
  <2> QED BY <1>0, <1>1, <1>2, <2>1 DEF PlanOK, Claims, buildVars
<1>6. Before'
  BY <1>0, <1>1, <1>2, <1>3, CutoverAssumption DEF Before, queueVars
<1>7. \A o \in Orders : Evidence(o)' = Evidence(o)
  BY <1>0, <1>3 DEF Evidence, queueVars
<1>8. NotLost'
  BY <1>0, <1>1, <1>2, <1>7 DEF NotLost, OldOrders, TypeOK, bagVars, Untold
<1>9. L3Knows' /\ SourcesOK' /\ HandledIsWritten'
  BY <1>0, <1>2 DEF L3Knows, OldOrders, SourcesOK, HandledIsWritten, InBag, TypeOK, bagVars, buildVars, Untold
<1> QED BY <1>4, <1>5, <1>6, <1>8, <1>9

\* A plan that calls an order handled has read what says so.
LEMMA PlanClaims ==
  ASSUME IInv, NEW kind \in Kinds, kind = "backfill" <=> "marker" \notin settings,
         NEW rows \in Plan(kind), NEW p \in rows, Claims(p)
  PROVE  Handled(p.order)
<1> USE DEF IInv, Parts
<1>1. ASSUME NEW o \in Orders, "marker" \notin settings, OldDone(o) # {} PROVE Handled(o)
  <2>1. PICK e \in Deliveries : OrderOf[e] = o /\ event[e] = "processed" /\ Unowned(e)
    BY <1>1 DEF OldDone, With, EventsOf, Unowned
  <2> QED BY <1>1, <2>1 DEF Before
<1>2. \A o \in Orders : o \in row => Handled(o)
  BY DEF SourcesOK, Handled, InBag
<1>3. CASE kind = "backfill"
  <2>1. p \in BackfillRows /\ "marker" \notin settings
    BY <1>3 DEF Plan
  <2>2. ASSUME NEW o \in Orders, BackfillReason(o) # "none", p = PlanRow(o, "insert", BackfillReason(o), BackfillEvent(o))
        PROVE Handled(p.order)
    BY <1>1, <1>2, <2>1, <2>2 DEF BackfillReason, PlanRow, Claims
  <2>3. ASSUME NEW o \in Orders, NEW reason, OldHandled(o), p = PlanRow(o, "upgrade", reason, source[o].event)
        PROVE Handled(p.order)
    BY <1>1, <1>2, <2>1, <2>3 DEF OldHandled, PlanRow
  <2> QED BY <2>1, <2>2, <2>3 DEF BackfillRows
<1>4. CASE kind = "window"
  <2>1. PICK o \in Orders, differs \in SUBSET Orders : p = WindowRow(o, differs)
    BY <1>4 DEF Plan
  <2> QED BY <1>2, <2>1 DEF WindowRow, PlanRow, Claims
<1>5. CASE kind = "bills"
  <2>1. PICK o \in Orders : p = PlanRow(o, Classify(o), "none", source[o].event) /\ CompatUnproved(o)
    BY <1>5 DEF Plan
  <2> QED BY <2>1 DEF CompatUnproved, SourcesOK, Handled, InBag, PlanRow
<1> QED BY <1>3, <1>4, <1>5 DEF Kinds

\* A plan begins, or is given up.
LEMMA PlanSteps ==
  ASSUME IInv, TypeOK', AbortApply \/ \E kind \in Kinds : BeginApply(kind)
  PROVE  Parts'
<1>1. UNCHANGED tableVars /\ UNCHANGED <<up, run, source>>
  BY DEF AbortApply, BeginApply, tableVars, buildVars, queueVars, bagVars, Untold
<1>2. Before' /\ NotLost' /\ SourcesOK' /\ HandledIsWritten' /\ (\A q \in Orders : Handled(q)' = Handled(q))
  BY <1>1, QuietStep DEF SameSources
<1>3. BuildsOK' /\ PageOK' /\ L3Knows'
  BY <1>1, KeepBuilds, KeepPage, KeepL3 DEF IInv, Parts, tableVars, Present
<1>4. CASE AbortApply
  <2>1. tx'.rows = {} /\ tx'.kind = "none" /\ tx' = NoPlan
    BY <1>4 DEF AbortApply, NoPlan
  <2> QED BY <1>2, <1>3, <2>1 DEF PlanOK, Parts
<1>5. ASSUME NEW kind \in Kinds, BeginApply(kind) PROVE PlanOK'
  <2>1. PICK rows \in Plan(kind) : tx' = [kind |-> kind, rows |-> {p \in rows : p.action # "review"}]
    BY <1>5 DEF BeginApply
  <2>2. "old" \notin up' /\ (kind = "backfill" <=> "marker" \notin settings')
    BY <1>1, <1>5 DEF BeginApply, tableVars
  <2>3. ASSUME NEW p \in tx'.rows, Claims(p) PROVE Handled(p.order)'
    <3>1. Handled(p.order)
      BY <1>1, <2>1, <2>2, <2>3, PlanClaims DEF tableVars
    <3> QED BY <1>1, <3>1 DEF Handled, InBag, tableVars
  <2>4. ASSUME kind = "backfill", NEW p \in tx'.rows PROVE p.action \in {"insert", "upgrade"}
    <3>1. p \in BackfillRows
      BY <2>1, <2>4 DEF Plan
    <3> QED BY <3>1 DEF BackfillRows, PlanRow
  <2>5. \A p \in tx'.rows : Claims(p)' = Claims(p)
    BY DEF Claims
  <2> QED BY <2>1, <2>2, <2>3, <2>4, <2>5 DEF PlanOK
<1> QED BY <1>2, <1>3, <1>4, <1>5 DEF Parts

\* A row of a plan leads its order forward, and closes what it closes for a reason.
LEMMA RowWrites ==
  ASSUME IInv, NEW p \in tx.rows, Holds(p)
  PROVE  /\ Written(p).status # "absent"
         /\ Closed(p.order) => Written(p).status \notin {"absent", "received"}
         /\ p.action \in {"insert", "upgrade"} => Written(p).status = "legacy"
         /\ Written(p).origin = "compat" => source[p.order].origin = "compat"
         /\ \/ Written(p).status = "applied"
            \/ Written(p).status = "legacy" /\ Written(p).reason \notin {"event_failed", "event_unfinished"}
            => Handled(p.order)
<1>1. source[p.order] \in SourceRows /\ p.action \in Actions
  BY DEF IInv, TypeOK, PlanRows
<1>2. Claims(p) => Handled(p.order)
  BY DEF IInv, Parts, PlanOK
<1>3. CASE p.action \in {"insert", "upgrade", "link_existing"}
  <2>1. /\ Written(p).status = "legacy" /\ Written(p).origin \in {"backfill", "live"} /\ Written(p).reason = p.reason
    BY <1>3 DEF Written, Source
  <2> QED BY <1>2, <1>3, <2>1 DEF Claims
<1>4. CASE p.action \in {"map_community_only", "replay"}
  <2>1. Written(p).status \in {"community_only", "received"} /\ Written(p).origin = "backfill"
    BY <1>4 DEF Written, Source
  <2>2. ~Closed(p.order)
    BY <1>4 DEF Holds, Present, Closed
  <2> QED BY <1>4, <2>1, <2>2
<1>5. CASE p.action \in {"record_sent_evidence", "recover_bill"}
  <2>1. source[p.order].status = "legacy"
    BY <1>5 DEF Holds
  <2>2. Written(p).status \in {"legacy", "applied"} /\ Written(p).origin = source[p.order].origin
    BY <1>1, <1>5, <2>1 DEF Written, SourceRows
  <2> QED BY <1>2, <1>5, <2>2 DEF Claims
<1> QED BY <1>1, <1>3, <1>4, <1>5 DEF Actions

\* The verification reads every event the old build left: an order that no row of
\* the plan is about has a row, or nothing tells of it.
LEMMA BackfillFinds ==
  ASSUME IInv, "marker" \notin settings, Verified(tx.rows), NEW o \in Orders, Evidence(o), \A p \in tx.rows : p.order # o
  PROVE  Closed(o) \/ o \in row \/ (LiveReceived(o) /\ ~Told(o))
<1> USE DEF IInv, Parts
<1>1. PICK e \in Deliveries : OrderOf[e] = o /\ Unowned(e) /\ event[e] \in {"received", "processed"} \cup Failed
  BY DEF Evidence
<1>2. e \in With(o, {"received", "processed"} \cup Failed)
  BY <1>1 DEF With, EventsOf, Unowned, Failed
<1>3. Present(o) /\ ~(LiveReceived(o) /\ OldHandled(o))
  BY <1>2 DEF Verified
<1>4. LiveReceived(o) /\ Told(o) => o \in row
  <2> SUFFICES ASSUME LiveReceived(o), NEW f \in Deliveries, OrderOf[f] = o, event[f] = "processed" PROVE FALSE
    BY DEF Told
  <2>1. f \in OldDone(o)
    BY DEF OldDone, With, EventsOf, Unowned, Before
  <2> QED BY <1>3, <2>1 DEF OldHandled
<1> QED BY <1>3, <1>4 DEF Present, LiveReceived, Closed, Before

\* A plan is applied.
LEMMA CommitStep == ASSUME IInv, TypeOK', CommitApply PROVE Parts'
<1> USE DEF IInv, Parts
<1>0. /\ UNCHANGED <<community, buildVars, duplicates, job, row, oldWrote, writes, improvised, billVars, run>> /\ tx # NoPlan /\ tx' = NoPlan
      /\ \A p \in tx.rows : Holds(p)
      /\ tx.kind = "backfill" => Verified(tx.rows)
  BY DEF CommitApply
<1>1. "marker" \in settings' /\ \A s : s # "marker" => (s \in settings <=> s \in settings') /\ "old" \notin up
  BY <1>0 DEF CommitApply, PlanOK
<1>2. \A o \in Orders : \/ source'[o] = source[o] /\ \A p \in tx.rows : p.order # o
                        \/ \E p \in tx.rows : p.order = o /\ source'[o] = Written(p)
  <2> SUFFICES ASSUME NEW o \in Orders, NEW q \in tx.rows, q.order = o
               PROVE \E p \in tx.rows : p.order = o /\ source'[o] = Written(p)
    BY DEF CommitApply
  <2> DEFINE of == {p \in tx.rows : p.order = o}
  <2>1. (CHOOSE p \in of : TRUE) \in of
    OBVIOUS
  <2>2. source'[o] = Written(CHOOSE p \in of : TRUE)
    BY DEF CommitApply
  <2> QED BY <2>1, <2>2
<1>3. \A o \in Orders : Handled(o)' = Handled(o) /\ (Present(o) => Present(o)') /\ (Closed(o) => Closed(o)')
  BY <1>0, <1>2, RowWrites DEF Handled, InBag, Present, Closed, bagVars
<1>4. BuildsOK' /\ PlanOK' /\ PageOK'
  <2>1. BuildsOK'
    BY <1>0, <1>1 DEF BuildsOK, buildVars
  <2>2. tx'.rows = {} /\ tx'.kind = "none"
    BY <1>0 DEF NoPlan
  <2> QED BY <1>0, <1>1, <2>1, <2>2 DEF PlanOK, PageOK
<1>5. Before'
  BY <1>1 DEF Before
<1>6. tx.kind # "backfill" => Untold' = Untold
  BY DEF CommitApply, Untold
<1>7. NotLost'
  <2>1. ASSUME NEW o \in OldOrders', "marker" \in settings PROVE o \in row' \/ o \in Untold' \/ Closed(o)'
    <3>1. o \in OldOrders /\ o \in Orders /\ tx.kind # "backfill"
      BY <1>0, <2>1 DEF OldOrders, TypeOK, PlanOK, bagVars
    <3> QED BY <1>0, <1>3, <1>6, <2>1, <3>1 DEF NotLost, bagVars
  <2>2. ASSUME NEW o \in OldOrders', "marker" \notin settings PROVE o \in row' \/ o \in Untold' \/ Closed(o)'
    <3>1. o \in OldOrders /\ o \in Orders /\ Evidence(o) /\ tx.kind = "backfill"
      BY <1>0, <2>2 DEF OldOrders, TypeOK, PlanOK, NotLost, bagVars
    <3>2. CASE \A p \in tx.rows : p.order # o
      <4>1. Closed(o) \/ o \in row \/ (LiveReceived(o) /\ ~Told(o))
        BY <1>0, <2>2, <3>1, <3>2, BackfillFinds
      <4>2. LiveReceived(o) /\ ~Told(o) => o \in Untold'
        BY <3>1 DEF CommitApply, OldOrders, Untold
      <4> QED BY <1>0, <1>3, <3>1, <4>1, <4>2 DEF bagVars
    <3>3. CASE \E p \in tx.rows : p.order = o
      BY <1>0, <1>2, <3>1, <3>3, RowWrites DEF PlanOK, Closed
    <3> QED BY <3>2, <3>3
  <2> QED BY <1>1, <2>1, <2>2 DEF NotLost
<1>8. L3Knows'
  <2>1. "l3" \in up => tx.kind # "backfill"
    BY <1>0 DEF BuildsOK, PlanOK
  <2> QED BY <1>0, <1>3, <1>6, <2>1 DEF L3Knows, OldOrders, TypeOK, bagVars, buildVars
<1>9. SourcesOK'
  <2>1. \A o \in Orders : ~Present(o)' => source'[o].event = 0
    BY <1>0, <1>2, RowWrites DEF SourcesOK, Present
  <2>2. \A o \in Orders : source'[o].origin = "compat" => writes'[o] > 0
    BY <1>0, <1>2, RowWrites DEF SourcesOK, bagVars
  <2> QED BY <1>0, <1>3, <2>1, <2>2 DEF SourcesOK, bagVars
<1>10. HandledIsWritten'
  <2> SUFFICES ASSUME NEW o \in Orders,
                      \/ source'[o].status = "applied"
                      \/ source'[o].status = "legacy" /\ source'[o].reason \notin {"event_failed", "event_unfinished"}
               PROVE Handled(o)'
    BY DEF HandledIsWritten, Handled
  <2>1. CASE source'[o] = source[o]
    BY <1>3, <2>1 DEF HandledIsWritten, Handled
  <2>2. CASE \E p \in tx.rows : p.order = o /\ source'[o] = Written(p)
    BY <1>0, <1>3, <2>2, RowWrites
  <2> QED BY <1>2, <2>1, <2>2
<1> QED BY <1>4, <1>5, <1>7, <1>8, <1>9, <1>10

\* Every step keeps the invariant.
LEMMA Invariance == IInv /\ [Next]_vars => IInv'
<1> SUFFICES ASSUME IInv, [Next]_vars PROVE Parts'
  BY TypeStep DEF IInv
<1>0. TypeOK'
  BY TypeStep DEF IInv
<1>1. ASSUME NEW e \in Deliveries, OldStep(e) \/ Capture(e) PROVE Parts'
  BY <1>0, <1>1, TakeInStep, PersistOldStep, PersistL3Step, JobSteps, CaptureStep DEF OldStep
<1>2. ASSUME NEW r \in Runs, SweepStep(r) PROVE Parts'
  BY <1>0, <1>2, SweepBillsStep, ApplySteps DEF SweepStep
<1>3. ASSUME NEW o \in Orders, Kick(o) PROVE Parts'
  BY <1>0, <1>3, ApplySteps
<1>4. CASE (\E o \in Orders : KickBill(o)) \/ UNCHANGED vars
  BY <1>0, <1>4, SweepBillsStep
<1>5. ASSUME NEW b \in {"old", "new", "l3"}, Deploy(b) \/ Die(b) PROVE Parts'
  BY <1>0, <1>5, DeployStep, DieStep
<1>6. ASSUME Operator PROVE Parts'
  BY <1>0, <1>6, SwitchStep, PlanSteps, CommitStep DEF Operator
<1> QED BY <1>1, <1>2, <1>3, <1>4, <1>5, <1>6 DEF Next

\* The invariant holds of the old build at work.
LEMMA InitInv == Init => IInv
<1> SUFFICES ASSUME Init PROVE IInv
  OBVIOUS
<1> USE DEF Init
<1>1. Absent \in SourceRows /\ NoJob \in Jobs /\ IdleRun \in SweepRows
  BY DEF Absent, Source, SourceRows, Origins, Statuses, Reasons, BillStates, NoJob, Jobs, IdleRun, SweepRows
<1>2. community \subseteq Orders
  BY CutoverAssumption
<1>3. TypeOK
  BY <1>1, <1>2, CutoverAssumption DEF TypeOK, OldBuilds, EventStates, Messages, NoPlan
<1>4. BuildsOK /\ PlanOK /\ PageOK /\ L3Knows /\ NotLost
  BY DEF BuildsOK, PlanOK, NoPlan, PageOK, IdleRun, L3Knows, NotLost, OldOrders
<1>5. \A o \in Orders : source[o].status = "absent" /\ source[o].event = 0 /\ source[o].origin = "none"
  BY DEF Absent, Source
<1>6. Before
  BY <1>5, CutoverAssumption DEF Before, Unowned, Owned, PastBag, NoJob
<1>7. SourcesOK /\ HandledIsWritten
  BY <1>5 DEF SourcesOK, HandledIsWritten, Present
<1> QED BY <1>3, <1>4, <1>6, <1>7 DEF IInv, Parts

-----------------------------------------------------------------------------
(* The theorems. *)

\* Every variable keeps the values the code gives it, in any number of orders,
\* deliveries, sweeps and rollbacks.
THEOREM CutoverTypeCorrect == Spec => []TypeOK
<1>1. IInv => TypeOK
  BY DEF IInv
<1> QED BY InitInv, Invariance, <1>1, PTL DEF Spec

\* What is closed as applied or as handled before the cutover was in fact put
\* into a bag, or had nothing for one (backfill.js:70-94, apply.js:193-210).
THEOREM HandledIsWrittenHolds == Spec => []HandledIsWritten
<1>1. IInv => HandledIsWritten
  BY DEF IInv, Parts
<1> QED BY InitInv, Invariance, <1>1, PTL DEF Spec

\* L3 and the 017 build write an order once between them, and not at all what the
\* old build wrote before the backfill, if it left a row, a processed event or no
\* live source, or what it wrote later, if that left a row and was mapped before
\* L3 came (backfill.js:4-23, 70-94, 121-129; apply.js:193-210).
THEOREM WrittenOnceHolds == Spec => WrittenOnce
<1>1. IInv /\ [Next]_vars => [\A o \in Orders : writes'[o] > writes[o] => writes[o] = 0 /\ (o \in oldWrote => o \in Untold)]_vars
  <2> SUFFICES ASSUME IInv, [Next]_vars, NEW o \in Orders, writes'[o] > writes[o] PROVE writes[o] = 0 /\ (o \in oldWrote => o \in Untold)
    OBVIOUS
  <2> USE DEF IInv, Parts
  <2>0. \A q \in Orders : writes[q] \in Nat
    BY DEF TypeOK
  <2>1. UNCHANGED writes => FALSE
    BY <2>0
  <2>2. ASSUME NEW e \in Deliveries, PersistL3(e) PROVE writes[o] = 0 /\ (o \in oldWrote => o \in Untold)
    <3>1. o = OrderOf[e] /\ ~Present(o)
      <4>1. ~Present(OrderOf[e]) /\ writes' = [writes EXCEPT ![OrderOf[e]] = @ + 1]
        BY <2>1, <2>2 DEF PersistL3
      <4>2. o # OrderOf[e] => writes'[o] = writes[o]
        BY <4>1 DEF TypeOK
      <4> QED BY <2>0, <4>1, <4>2
    <3>2. "l3" \in up
      BY <2>2 DEF PersistL3, JobAt, BuildsOK, NoJob
    <3> QED BY <2>0, <3>1, <3>2 DEF SourcesOK, L3Knows, OldOrders, Present, Closed
  <2>3. ASSUME NEW q \in Orders, ApplyClaimed(q), source[q].status = "received", "marker" \in settings
        PROVE writes[o] = 0 /\ (o \in oldWrote => o \in Untold)
    <3>1. o = q /\ o \notin row
      BY <2>0, <2>1, <2>3 DEF ApplyClaimed, TypeOK
    <3> QED BY <2>0, <2>3, <3>1 DEF SourcesOK, NotLost, OldOrders, Closed
  <2>4. ASSUME NEW q \in Orders, Kick(q) PROVE writes[o] = 0 /\ (o \in oldWrote => o \in Untold)
    BY <2>3, <2>4 DEF Kick, WorkerOn
  <2>5. ASSUME NEW r \in Runs, NEW q \in Orders, Apply(r, q) PROVE writes[o] = 0 /\ (o \in oldWrote => o \in Untold)
    BY <2>1, <2>3, <2>5 DEF Apply, PageOK
  <2>6. ASSUME NEW e \in Deliveries, OldStep(e) \/ Capture(e) PROVE UNCHANGED writes \/ PersistL3(e)
    BY <2>6 DEF OldStep, TakeIn, PersistOld, BillInline, BillUnlogged, NoBill, EndJob, Capture, bagVars
  <2>7. ASSUME NEW r \in Runs, SweepStep(r) PROVE UNCHANGED writes \/ \E q \in Orders : Apply(r, q)
    BY <2>7 DEF SweepStep, Sweep, SelectBills, SweepBills, BillClaim, bagVars
  <2>8. ASSUME NEW b \in {"old", "new", "l3"}, Deploy(b) \/ Die(b) PROVE UNCHANGED writes
    BY <2>8 DEF Deploy, Die, bagVars
  <2>9. ASSUME Operator \/ \E q \in Orders : KickBill(q) PROVE UNCHANGED writes
    BY <2>9 DEF Operator, Activate, Revoke, BeginApply, CommitApply, AbortApply, KickBill, bagVars
  <2>10. UNCHANGED vars => UNCHANGED writes
    BY DEF vars, bagVars
  <2> QED BY <2>1, <2>2, <2>4, <2>5, <2>6, <2>7, <2>8, <2>9, <2>10 DEF Next
<1> QED BY InitInv, Invariance, <1>1, PTL DEF Spec, WrittenOnce

-----------------------------------------------------------------------------
(* A revocation of the bills. *)

\* A sweep has one bill in hand at most, took it when the bills were on, and has
\* begun none since they went off while it has it.
OneInHand ==
  \A r \in Runs :
    /\ run[r].hand = {} \/ \E o \in Orders : run[r].hand = {o}
    /\ BillsOn \/ run[r].hand # {} => run[r].after = 0
    /\ run[r].after \in 0..1

\* One bill at most is sent by a sweep after the switch went off (billing.js:244).
THEOREM OneBillAfterStopHolds == Spec => []OneBillAfterStop
<1>1. Init => OneInHand
  BY DEF Init, IdleRun, OneInHand
<1>2. TypeOK /\ OneInHand /\ [Next]_vars => OneInHand'
  <2> SUFFICES ASSUME TypeOK, OneInHand, [Next]_vars PROVE OneInHand'
    OBVIOUS
  <2>0. run \in [Runs -> SweepRows]
    BY DEF TypeOK
  <2>1. CASE UNCHANGED <<run, settings>>
    BY <2>1 DEF OneInHand, BillsOn
  <2>2. ASSUME NEW r \in Runs, SweepStep(r) PROVE OneInHand'
    <3>0. UNCHANGED settings /\ \A q \in Runs \ {r} : run'[q] = run[q]
      BY <2>0, <2>2 DEF SweepStep, Sweep, SelectBills, SweepBills, BillGate, EndBills, Apply, BillClaim
    <3>1. ASSUME run'[r].hand = run[r].hand, run'[r].after = run[r].after PROVE OneInHand'
      BY <3>0, <3>1 DEF OneInHand, BillsOn
    <3>2. ASSUME run'[r].hand = {}, run'[r].after = 0 PROVE OneInHand'
      BY <3>0, <3>2 DEF OneInHand, BillsOn
    <3>3. CASE Sweep(r)
      BY <2>0, <3>2, <3>3 DEF Sweep
    <3>4. CASE SelectBills(r)
      BY <2>0, <3>1, <3>2, <3>4 DEF SelectBills, IdleRun, SweepRows
    <3>5. CASE EndBills(r)
      BY <2>0, <3>2, <3>5 DEF EndBills, IdleRun
    <3>6. ASSUME NEW o \in Orders, BillGate(r, o) PROVE OneInHand'
      <4>1. /\ run'[r].hand = IF BillsOn THEN {o} ELSE {}
            /\ run'[r].after = run[r].after
        BY <2>0, <3>6 DEF BillGate, Passed, SweepRows
      <4> QED BY <3>0, <4>1 DEF OneInHand, BillsOn
    <3>7. ASSUME NEW o \in Orders, Apply(r, o) PROVE OneInHand'
      BY <2>0, <3>1, <3>7 DEF Apply, SweepRows
    <3>8. ASSUME NEW o \in Orders, BillClaim(r, o) PROVE OneInHand'
      <4>1. /\ run[r].hand = {o} /\ run[r].after = 0
        BY <3>8 DEF BillClaim, OneInHand
      <4>2. /\ run'[r].hand = run[r].hand \ {o}
            /\ run'[r].after = run[r].after \/ run'[r].after = IF BillsOn THEN run[r].after ELSE run[r].after + 1
        BY <2>0, <3>8 DEF BillClaim, SweepRows
      <4> QED BY <3>0, <4>1, <4>2 DEF OneInHand, BillsOn
    <3> QED BY <2>2, <3>3, <3>4, <3>5, <3>6, <3>7, <3>8 DEF SweepStep, SweepBills
  <2>3. ASSUME NEW b \in {"old", "new", "l3"}, Die(b) PROVE OneInHand'
    BY <2>3 DEF Die, IdleRun, OneInHand, BillsOn
  <2>4. ASSUME NEW s \in Switches, Activate(s) PROVE OneInHand'
    <3>1. \A q \in Runs : run'[q].hand = run[q].hand /\ run'[q].after = 0
      BY <2>0, <2>4 DEF Activate, SweepRows
    <3> QED BY <3>1 DEF OneInHand
  <2>5. ASSUME NEW s \in Switches, Revoke(s) PROVE OneInHand'
    BY <2>5 DEF Revoke, OneInHand, BillsOn
  <2>6. ASSUME CommitApply PROVE OneInHand'
    BY <2>6 DEF CommitApply, OneInHand, BillsOn
  <2>7. ASSUME NEW e \in Deliveries, OldStep(e) \/ Capture(e) PROVE UNCHANGED <<run, settings>>
    BY <2>7 DEF OldStep, TakeIn, PersistOld, PersistL3, BillInline, BillUnlogged, NoBill, EndJob, Capture
  <2>8. ASSUME (\E o \in Orders : Kick(o) \/ KickBill(o)) \/ (\E b \in {"old", "new", "l3"} : Deploy(b))
               \/ AbortApply \/ (\E kind \in Kinds : BeginApply(kind)) \/ UNCHANGED vars
        PROVE UNCHANGED <<run, settings>>
    BY <2>8 DEF Kick, KickBill, Deploy, AbortApply, BeginApply, vars
  <2> QED BY <2>1, <2>2, <2>3, <2>4, <2>5, <2>6, <2>7, <2>8 DEF Next, Operator
<1>3. TypeOK /\ OneInHand => OneBillAfterStop
  BY DEF OneInHand, OneBillAfterStop
<1>4. Init => TypeOK
  BY InitInv DEF IInv
<1> QED BY <1>1, <1>2, <1>3, <1>4, TypeStep, PTL DEF Spec

-----------------------------------------------------------------------------
(* One bill for an order of the three builds. *)

\* L3's job on e has saved its order and is about to bill it.
Billing(e) == job[e].build = "l3" /\ job[e].pc = "persisted"

\* Proof that L3 did not bill the order: Meta refused it, or L3 had no bill.
Unbilled(o) == log[o] = "refused" \/ event[source[o].event] = "no_bill"

\* The worker was activated before anything of the 017 build or L3 could bill,
\* and the old build bills its own orders.
Early ==
  /\ "worker" \in settings => "activated" \in settings
  /\ \A r \in Runs : run[r].pc = "sources" /\ run[r].page # {} => "activated" \in settings
  /\ oldReached \subseteq OldOrders

\* A source's status, its bill and its event; a log is of the old build or of L3.
ShapeOf(o) ==
  /\ source[o].status = "received" => source[o].bill = "not_ready"
  /\ source[o].status = "absent" => source[o].bill = "none" /\ source[o].origin = "none"
  /\ source[o].status = "legacy" => source[o].bill = "legacy"
  /\ log[o] # "none" => o \in OldOrders \/ source[o].origin = "compat"
  /\ source[o].event # 0 => OrderOf[source[o].event] = o
  /\ source[o].origin = "compat" => source[o].event # 0
  /\ "activated" \notin settings => reached[o] = 0 /\ source[o].origin # "compat" /\ source[o].bill # "pending"

\* No bill is due to an order of the old build, nor to one whose bill went out.
DueOf(o) ==
  o \notin Untold =>
    /\ o \in OldOrders => reached[o] = 0 /\ source[o].origin # "compat" /\ source[o].bill # "pending"
    /\ reached[o] <= 1
    /\ source[o].bill \in {"none", "not_ready", "pending"} => reached[o] = 0
    /\ source[o].origin = "compat" /\ source[o].status = "legacy" /\ Unbilled(o) => reached[o] = 0

\* A job past the bag is on an order of its build, and L3's about to bill on
\* one that has had no bill.
JobOf(e) ==
  LET o == OrderOf[e] IN
  /\ job[e].build = "old" /\ PastBag(e) => o \in OldOrders
  /\ job[e].build = "l3" /\ job[e].pc = "taken" => event[e] = "received" \/ Present(o)
  /\ Billing(e) =>
       /\ source[o].event = e /\ source[o].origin = "compat"
       /\ o \notin Untold => /\ source[o].status = "legacy" /\ event[e] = "received"
                                /\ reached[o] = 0 /\ log[o] = "none"

\* A row of a plan names an event of its order; a bill that it recovers was
\* proved not to have gone out.
RowOf(p) ==
  /\ p.event # 0 => OrderOf[p.event] = p.order
  /\ p.action = "recover_bill" =>
       /\ source[p.order].origin = "compat" /\ p.event = source[p.order].event
       /\ p.message = "refused" \/ (p.message = "none" /\ p.status = "no_bill")

BillParts ==
  /\ Early
  /\ \A o \in Orders : ShapeOf(o) /\ DueOf(o)
  /\ \A e \in Deliveries : JobOf(e)
  /\ \A p \in tx.rows : RowOf(p)
BillInv == IInv /\ BillParts

\* The facts of IInv that the steps below lean on.
LEMMA Known ==
  ASSUME IInv
  PROVE  /\ "old" \in up => "activated" \notin settings
         /\ "l3" \in up => "activated" \in settings /\ "old" \notin up
         /\ "activated" \in settings => "marker" \in settings
         /\ \A e \in Deliveries : job[e] # NoJob => job[e].build \in up
         /\ OrderOf \in [Deliveries -> Orders] /\ 0 \notin Deliveries
BY CutoverAssumption DEF IInv, Parts, BuildsOK

\* An order that a step leaves alone.
LEMMA OrderKept ==
  ASSUME BillInv, NEW o \in Orders, source'[o] = source[o], reached'[o] = reached[o], log'[o] = log[o],
         OldOrders \subseteq OldOrders', o \in OldOrders' => o \in OldOrders,
         Untold \subseteq Untold', "activated" \in settings => "activated" \in settings',
         source[o].origin = "compat" /\ event'[source[o].event] = "no_bill" => event[source[o].event] = "no_bill"
  PROVE  ShapeOf(o)' /\ DueOf(o)'
<1>1. ShapeOf(o) /\ DueOf(o)
  BY DEF BillInv, BillParts
<1>2. ShapeOf(o)'
  BY <1>1 DEF ShapeOf
<1>3. DueOf(o)'
  BY <1>1 DEF DueOf, Unbilled
<1> QED BY <1>2, <1>3

\* A job that a step leaves alone, or ends, on an order that it leaves alone.
LEMMA JobKept ==
  ASSUME BillInv, NEW e \in Deliveries, job'[e] \in {job[e], NoJob}, event'[e] = event[e],
         source'[OrderOf[e]] = source[OrderOf[e]], reached'[OrderOf[e]] = reached[OrderOf[e]],
         log'[OrderOf[e]] = log[OrderOf[e]], OldOrders \subseteq OldOrders', Untold \subseteq Untold'
  PROVE  JobOf(e)'
<1>1. JobOf(e)
  BY DEF BillInv, BillParts
<1>2. CASE job'[e] = NoJob
  BY <1>2 DEF JobOf, Billing, NoJob
<1>3. CASE job'[e] = job[e]
  BY <1>1, <1>3 DEF JobOf, Billing, PastBag, Present
<1> QED BY <1>2, <1>3

\* The rows of a plan, when the sources of L3 keep their origin and event.
LEMMA RowsKept ==
  ASSUME BillInv, UNCHANGED tx,
         \A o \in Orders : source[o].origin = "compat" => source'[o].origin = "compat" /\ source'[o].event = source[o].event
  PROVE  \A p \in tx'.rows : RowOf(p)'
<1>1. \A p \in tx.rows : RowOf(p) /\ p.order \in Orders
  BY DEF BillInv, BillParts, IInv, TypeOK, PlanRows
<1> QED BY <1>1 DEF RowOf

\* What touches no switch, no sweep and no bill of the old build.
LEMMA EarlyKept ==
  ASSUME BillInv, UNCHANGED <<settings, run>>, OldOrders \subseteq OldOrders',
         \A o \in oldReached' : o \in oldReached \/ o \in OldOrders
  PROVE  Early'
BY DEF BillInv, BillParts, Early

\* A delivery is taken by the old build or by L3.
LEMMA TakeInBill == ASSUME BillInv, NEW e \in Deliveries, NEW b \in OldBuilds, TakeIn(b, e) PROVE BillParts'
<1>1. /\ UNCHANGED <<source, reached, log, oldWrote, improvised, oldReached, Untold, settings, tx, run>>
      /\ \A f \in Deliveries \ {e} : event'[f] = event[f] /\ job'[f] = job[f]
      /\ event'[e] = "received" /\ job'[e] = [build |-> b, pc |-> "taken"]
  BY DEF TakeIn, BillInv, IInv, TypeOK, bagVars, billVars, Untold
<1>2. OldOrders' = OldOrders
  BY <1>1 DEF OldOrders
<1>3. \A o \in Orders : source[o].event = 0 \/ source[o].event \in Deliveries
  BY DEF BillInv, IInv, TypeOK, SourceRows
<1>4. \A o \in Orders : event'[source[o].event] = "no_bill" => event[source[o].event] = "no_bill"
  BY <1>1, <1>3, Known DEF TakeIn, BillInv, IInv, TypeOK
<1>5. \A o \in Orders : ShapeOf(o)' /\ DueOf(o)'
  BY <1>1, <1>2, <1>4, OrderKept
<1>6. \A f \in Deliveries \ {e} : JobOf(f)'
  BY <1>1, <1>2, JobKept
<1>7. JobOf(e)'
  BY <1>1 DEF JobOf, Billing, PastBag
<1>8. Early' /\ \A p \in tx'.rows : RowOf(p)'
  BY <1>1, <1>2, EarlyKept, RowsKept
<1> QED BY <1>5, <1>6, <1>7, <1>8 DEF BillParts

\* The old build writes an order, or fails to: nothing was billed before it.
LEMMA PersistOldBill == ASSUME BillInv, NEW e \in Deliveries, PersistOld(e) PROVE BillParts'
<1> DEFINE o == OrderOf[e]
<1>1. /\ UNCHANGED <<source, event, reached, log, oldReached, settings, tx, run>>
      /\ \A f \in Deliveries \ {e} : job'[f] = job[f]
      /\ job'[e].build = "old" /\ Untold \subseteq Untold'
      /\ OldOrders' = OldOrders \cup {o}
  BY DEF PersistOld, To, RowOrMerge, OldOrders, BillInv, IInv, TypeOK, Jobs, billVars, Untold
<1>2. "activated" \notin settings /\ o \in Orders
  BY Known DEF PersistOld, JobAt, BillInv, NoJob
<1>3. \A q \in Orders \ {o} : ShapeOf(q)' /\ DueOf(q)'
  BY <1>1, OrderKept
<1>4. ShapeOf(o) /\ reached[o] = 0 /\ source[o].origin # "compat" /\ source[o].bill # "pending"
  BY <1>2 DEF BillInv, BillParts, ShapeOf
<1>5. ShapeOf(o)' /\ DueOf(o)'
  BY <1>1, <1>4 DEF ShapeOf, DueOf
<1>6. \A f \in Deliveries \ {e} : JobOf(f)'
  BY <1>1, JobKept
<1>7. JobOf(e)'
  BY <1>1 DEF JobOf, Billing
<1>8. Early' /\ \A p \in tx'.rows : RowOf(p)'
  BY <1>1, EarlyKept, RowsKept
<1> QED BY <1>3, <1>5, <1>6, <1>7, <1>8 DEF BillParts

\* L3 writes an order that has no source: nothing of the old build that is not
\* untold, and nothing that was billed.
LEMMA PersistL3Bill == ASSUME BillInv, NEW e \in Deliveries, PersistL3(e) PROVE BillParts'
<1> DEFINE o == OrderOf[e]
<1>0. /\ job \in [Deliveries -> Jobs] /\ job[e] \in Jobs
      /\ source \in [Orders -> SourceRows]
  BY DEF BillInv, IInv, TypeOK
<1>1. /\ UNCHANGED <<event, reached, log, oldWrote, improvised, oldReached, Untold, settings, tx, run>>
      /\ \A f \in Deliveries \ {e} : job'[f] = job[f]
      /\ job[e].build = "l3" /\ job[e].pc = "taken" /\ job'[e].build = "l3"
  <2>1. PICK pc \in {"billed", "persisted"} : To(e, pc)
    BY DEF PersistL3
  <2>2. job'[e] = [job[e] EXCEPT !.pc = pc] /\ \A f \in Deliveries \ {e} : job'[f] = job[f]
    BY <1>0, <2>1 DEF To
  <2>3. job'[e].build = job[e].build
    BY <1>0, <2>2 DEF Jobs
  <2> QED BY <2>2, <2>3 DEF PersistL3, JobAt, billVars, Untold
<1>2. "l3" \in up /\ "activated" \in settings /\ o \in Orders /\ OldOrders' = OldOrders
  BY <1>1, Known DEF BillInv, NoJob, OldOrders
<1>3. Early'
  BY <1>1, <1>2, EarlyKept
<1>4. CASE Present(o)
  <2>1. UNCHANGED source /\ job'[e].pc = "billed"
    BY <1>4 DEF PersistL3, To, BillInv, IInv, TypeOK, Jobs
  <2>2. \A q \in Orders : ShapeOf(q)' /\ DueOf(q)'
    BY <1>1, <1>2, <2>1, OrderKept
  <2>3. \A f \in Deliveries \ {e} : JobOf(f)'
    BY <1>1, <1>2, <2>1, JobKept
  <2>4. JobOf(e)'
    BY <1>1, <2>1 DEF JobOf, Billing
  <2> QED BY <1>1, <1>3, <2>1, <2>2, <2>3, <2>4, RowsKept DEF BillParts
<1>5. CASE ~Present(o)
  <2>1. /\ job'[e].pc = "persisted"
        /\ source'[o] = Source("compat", "legacy", "compat_inline", "legacy", e, FALSE)
        /\ \A q \in Orders \ {o} : source'[q] = source[q]
    <3>1. To(e, "persisted") /\ source' = [source EXCEPT ![o] = Source("compat", "legacy", "compat_inline", "legacy", e, FALSE)]
      BY <1>5 DEF PersistL3
    <3>2. job'[e].pc = "persisted"
      BY <1>0, <3>1 DEF To, Jobs
    <3> QED BY <1>0, <1>2, <3>1, <3>2
  <2>2. /\ source'[o].origin = "compat" /\ source'[o].status = "legacy" /\ source'[o].bill = "legacy"
        /\ source'[o].event = e
    BY <2>1 DEF Source
  <2>3. source[o].status = "absent" /\ source[o].bill = "none" /\ source[o].origin = "none"
    BY <1>2, <1>5 DEF Present, BillInv, BillParts, ShapeOf
  <2>4. o \notin Untold => o \notin OldOrders /\ reached[o] = 0
    BY <1>2, <1>5, <2>3 DEF BillInv, BillParts, DueOf, IInv, Parts, L3Knows
  <2>5. o \notin Untold => log[o] = "none"
    BY <1>2, <2>3, <2>4 DEF BillInv, BillParts, ShapeOf
  <2>6. ShapeOf(o)' /\ DueOf(o)'
    <3>1. ShapeOf(o)'
      BY <1>1, <1>2, <2>2, Known DEF ShapeOf, BillInv
    <3>2. DueOf(o)'
      BY <1>1, <1>2, <2>2, <2>4 DEF DueOf
    <3> QED BY <3>1, <3>2
  <2>7. \A q \in Orders \ {o} : ShapeOf(q)' /\ DueOf(q)'
    BY <1>1, <1>2, <2>1, OrderKept
  <2>8. JobOf(e)'
    <3>1. event[e] = "received"
      BY <1>1, <1>5 DEF BillInv, BillParts, JobOf
    <3> QED BY <1>1, <2>1, <2>2, <2>4, <2>5, <3>1 DEF JobOf, Billing
  <2>9. ASSUME NEW f \in Deliveries \ {e} PROVE JobOf(f)'
    <3>1. CASE OrderOf[f] # o
      BY <1>1, <1>2, <2>1, <3>1, JobKept, Known DEF BillInv
    <3>2. CASE OrderOf[f] = o
      <4>1. JobOf(f) /\ ~Billing(f)
        BY <2>3, <3>2 DEF BillInv, BillParts, JobOf
      <4> QED BY <1>1, <1>2, <2>2, <3>2, <4>1 DEF JobOf, Billing, PastBag, Present
    <3> QED BY <3>1, <3>2
  <2>10. \A p \in tx'.rows : RowOf(p)'
    BY <1>1, <2>1, <2>3, RowsKept
  <2> QED BY <1>3, <2>6, <2>7, <2>8, <2>9, <2>10 DEF BillParts
<1> QED BY <1>4, <1>5

\* What a job of L3 or the old build that has saved its order is.
LEMMA AtPersisted ==
  ASSUME BillInv, NEW e \in Deliveries, job[e].pc = "persisted"
  PROVE  /\ OrderOf[e] \in Orders
         /\ \/ job[e].build = "old" /\ "activated" \notin settings /\ OrderOf[e] \in OldOrders
            \/ Billing(e) /\ job[e].build = "l3" /\ "activated" \in settings /\ "old" \notin up
<1>1. job[e] # NoJob /\ job[e].build \in OldBuilds \cup {"none"} /\ job[e].build \in up
  BY Known DEF BillInv, IInv, TypeOK, Jobs, NoJob
<1>2. job[e].build \in OldBuilds
  BY <1>1 DEF BillInv, IInv, TypeOK, OldBuilds
<1> QED BY <1>1, <1>2, Known DEF BillInv, BillParts, JobOf, Billing, PastBag, OldBuilds

\* The end of a job changes one event.
LEMMA EventEnds ==
  ASSUME BillInv, NEW e \in Deliveries, NEW status, Ends(e, status)
  PROVE  /\ job'[e] = NoJob /\ event'[e] = status
         /\ \A f \in Deliveries \ {e} : job'[f] = job[f] /\ event'[f] = event[f]
         /\ \A o \in Orders : source[o].event = 0 => event'[source[o].event] = event[source[o].event]
         /\ \A o \in Orders : source[o].event \in Deliveries \cup {0}
         /\ \A o \in Orders : source[o].event = e => o = OrderOf[e]
<1>0. event \in [Deliveries -> EventStates] /\ 0 \notin Deliveries /\ job \in [Deliveries -> Jobs]
  BY Known DEF BillInv, IInv, TypeOK
<1>1. event'[0] = event[0]
  BY <1>0 DEF Ends
<1>2. \A o \in Orders : ShapeOf(o) /\ source[o].event \in Deliveries \cup {0}
  BY DEF BillInv, BillParts, IInv, TypeOK, SourceRows
<1>3. \A o \in Orders : source[o].event = e => o = OrderOf[e]
  BY <1>0, <1>2 DEF ShapeOf
<1> QED BY <1>0, <1>1, <1>2, <1>3 DEF Ends

\* Other jobs, when one job of the same order is L3's about to bill.
LEMMA OtherJob ==
  ASSUME BillInv, NEW e \in Deliveries, Billing(e), NEW f \in Deliveries \ {e},
         UNCHANGED <<source, oldWrote, improvised>>, job'[f] = job[f], event'[f] = event[f], Untold \subseteq Untold',
         OrderOf[f] # OrderOf[e] => reached'[OrderOf[f]] = reached[OrderOf[f]] /\ log'[OrderOf[f]] = log[OrderOf[f]]
  PROVE  JobOf(f)'
<1>1. JobOf(f) /\ JobOf(e)
  BY DEF BillInv, BillParts
<1>2. CASE OrderOf[f] # OrderOf[e]
  BY <1>2, JobKept DEF OldOrders
<1>3. CASE OrderOf[f] = OrderOf[e]
  <2>1. ~Billing(f)
    BY <1>1, <1>3 DEF JobOf
  <2> QED BY <1>1, <1>3, <2>1 DEF JobOf, Billing, PastBag, Present, OldOrders
<1> QED BY <1>2, <1>3

\* A bill that was answered, or lost with its process.
LEMMA InlineBill == ASSUME BillInv, TypeOK', NEW e \in Deliveries, BillInline(e) \/ BillUnlogged(e) PROVE BillParts'
<1> DEFINE o == OrderOf[e]
<1>1. /\ UNCHANGED <<source, oldWrote, improvised, settings, tx, run>> /\ job[e].pc = "persisted" /\ Untold \subseteq Untold'
      /\ OldOrders' = OldOrders
  BY DEF BillInline, BillUnlogged, JobAt, bagVars, OldOrders, Untold
<1>2. \A q \in Orders \ {o} : reached'[q] = reached[q] /\ log'[q] = log[q]
  BY DEF BillInline, BillUnlogged, Reach, BillInv, IInv, TypeOK
<1>3. \A f \in Deliveries \ {e} : job'[f] = job[f] /\ event'[f] = event[f]
  <2>1. CASE BillInline(e)
    BY <2>1 DEF BillInline, To, BillInv, IInv, TypeOK
  <2>2. CASE BillUnlogged(e)
    BY <2>2, EventEnds DEF BillUnlogged
  <2> QED BY <2>1, <2>2
<1>4. \A q \in Orders : event'[source[q].event] = "no_bill" => event[source[q].event] = "no_bill"
  <2>1. CASE BillInline(e)
    BY <2>1 DEF BillInline
  <2>2. CASE BillUnlogged(e)
    BY <2>2, EventEnds DEF BillUnlogged
  <2> QED BY <2>1, <2>2
<1>5. \A q \in Orders \ {o} : ShapeOf(q)' /\ DueOf(q)'
  BY <1>1, <1>2, <1>4, OrderKept
<1>6. \A p \in tx'.rows : RowOf(p)'
  BY <1>1, RowsKept
<1>7. job'[e] = NoJob \/ (job'[e].pc = "billed" /\ job'[e].build = job[e].build)
  <2>1. CASE BillInline(e)
    BY <2>1 DEF BillInline, To, BillInv, IInv, TypeOK, Jobs
  <2>2. CASE BillUnlogged(e)
    BY <2>2, EventEnds DEF BillUnlogged
  <2> QED BY <2>1, <2>2
<1>8. ShapeOf(o) /\ DueOf(o) /\ JobOf(e) /\ reached[o] \in Nat /\ o \in Orders
  BY <1>1, AtPersisted DEF BillInv, BillParts, IInv, TypeOK
<1>9. ASSUME job[e].build = "old", "activated" \notin settings, o \in OldOrders PROVE BillParts'
  <2>1. UNCHANGED reached /\ \A q \in oldReached' : q \in oldReached \/ q = o
    BY <1>9 DEF BillInline, BillUnlogged, Reach
  <2>2. ShapeOf(o)' /\ DueOf(o)'
    <3>1. source[o].origin # "compat" /\ source[o].bill # "pending" /\ reached[o] = 0
      BY <1>8, <1>9 DEF ShapeOf
    <3> QED BY <1>1, <1>8, <1>9, <2>1, <3>1 DEF ShapeOf, DueOf
  <2>3. \A f \in Deliveries \ {e} : JobOf(f)'
    <3> SUFFICES ASSUME NEW f \in Deliveries \ {e} PROVE JobOf(f)'
      OBVIOUS
    <3>1. JobOf(f) /\ ~Billing(f)
      BY <1>9, AtPersisted DEF BillInv, BillParts, Billing
    <3> QED BY <1>1, <1>3, <3>1 DEF JobOf, Billing, PastBag, Present
  <2>4. JobOf(e)'
    BY <1>1, <1>7, <1>9 DEF JobOf, Billing, NoJob
  <2>5. Early'
    BY <1>1, <1>9, <2>1, EarlyKept
  <2> QED BY <1>5, <1>6, <2>2, <2>3, <2>4, <2>5 DEF BillParts
<1>10. ASSUME Billing(e), job[e].build = "l3", "activated" \in settings PROVE BillParts'
  <2>1. UNCHANGED oldReached /\ reached'[o] \in {reached[o], reached[o] + 1}
    BY <1>8, <1>10 DEF BillInline, BillUnlogged, Reach, BillInv, IInv, TypeOK
  <2>2. source[o].origin = "compat" /\ source[o].event = e
    BY <1>8, <1>10 DEF JobOf
  <2>3. o \notin Untold => source[o].status = "legacy" /\ event[e] = "received" /\ reached[o] = 0 /\ log[o] = "none" /\ source[o].bill = "legacy"
    BY <1>8, <1>10 DEF JobOf, ShapeOf
  <2>4. ShapeOf(o)'
    BY <1>1, <1>8, <1>10, <2>2 DEF ShapeOf
  <2>5. o \notin Untold => event'[e] = "received"
    <3>1. CASE BillInline(e)
      BY <2>3, <3>1 DEF BillInline
    <3>2. CASE BillUnlogged(e)
      BY <3>2, EventEnds DEF BillUnlogged
    <3> QED BY <3>1, <3>2
  <2>6. o \notin Untold /\ log'[o] = "refused" => reached'[o] = 0
    <3>1. CASE BillInline(e)
      BY <1>8, <1>10, <2>3, <3>1 DEF BillInline, Reach, BillInv, IInv, TypeOK
    <3>2. CASE BillUnlogged(e)
      BY <2>3, <3>2 DEF BillUnlogged
    <3> QED BY <3>1, <3>2
  <2>7. DueOf(o)'
    <3>1. o \notin Untold => o \notin OldOrders
      BY <1>8, <2>2 DEF DueOf
    <3> QED BY <1>1, <1>8, <2>1, <2>2, <2>3, <2>5, <2>6, <3>1 DEF DueOf, Unbilled
  <2>8. \A f \in Deliveries \ {e} : JobOf(f)'
    BY <1>1, <1>2, <1>3, <1>10, OtherJob, Known DEF BillInv
  <2>9. JobOf(e)'
    BY <1>7, <1>10 DEF JobOf, Billing, NoJob
  <2>10. Early'
    BY <1>1, <2>1, EarlyKept
  <2> QED BY <1>5, <1>6, <2>4, <2>7, <2>8, <2>9, <2>10 DEF BillParts
<1> QED BY <1>1, <1>9, <1>10, AtPersisted

\* L3 finds no bill to send, or a job ends.
LEMMA EndBill == ASSUME BillInv, NEW e \in Deliveries, NoBill(e) \/ EndJob(e) PROVE BillParts'
<1>1. /\ UNCHANGED <<source, reached, log, oldWrote, improvised, Untold, oldReached, settings, tx, run>>
      /\ OldOrders' = OldOrders
  BY DEF NoBill, EndJob, bagVars, billVars, OldOrders, Untold
<1>2. PICK status : Ends(e, status) /\ (status = "no_bill" => NoBill(e))
  BY DEF NoBill, EndJob
<1>3. \A f \in Deliveries : f # e => job'[f] = job[f] /\ event'[f] = event[f]
  BY <1>2, EventEnds
<1>4. job'[e] = NoJob
  BY <1>2, EventEnds
<1>5. Early' /\ \A p \in tx'.rows : RowOf(p)'
  BY <1>1, EarlyKept, RowsKept
<1>6. \A f \in Deliveries \ {e} : JobOf(f)'
  BY <1>1, <1>3, JobKept
<1>7. JobOf(e)'
  BY <1>4 DEF JobOf, Billing, NoJob, PastBag
<1>8. ASSUME NEW q \in Orders PROVE ShapeOf(q)' /\ DueOf(q)'
  <2>1. CASE event'[source[q].event] = "no_bill" => event[source[q].event] = "no_bill"
    BY <1>1, <2>1, OrderKept
  <2>2. CASE event'[source[q].event] = "no_bill" /\ event[source[q].event] # "no_bill"
    <3>1. source[q].event = e /\ NoBill(e) /\ q = OrderOf[e]
      BY <1>2, <2>2, EventEnds
    <3>2. Billing(e) /\ JobOf(e) /\ ShapeOf(q) /\ DueOf(q)
      BY <3>1 DEF NoBill, JobAt, Billing, BillInv, BillParts
    <3>3. ShapeOf(q)'
      BY <1>1, <3>2 DEF ShapeOf
    <3>4. q \notin Untold => reached[q] = 0
      BY <3>1, <3>2 DEF JobOf
    <3>5. DueOf(q)'
      BY <1>1, <3>2, <3>4 DEF DueOf
    <3> QED BY <3>3, <3>5
  <2> QED BY <2>1, <2>2
<1> QED BY <1>5, <1>6, <1>7, <1>8 DEF BillParts

\* The event of a source.
LEMMA EventOfSource ==
  ASSUME BillInv, NEW o \in Orders
  PROVE  /\ source[o].event \in Deliveries \cup {0}
         /\ source[o].event # 0 => OrderOf[source[o].event] = o
         /\ ShapeOf(o) /\ DueOf(o) /\ reached[o] \in Nat
BY DEF BillInv, BillParts, ShapeOf, IInv, TypeOK, SourceRows

\* A delivery reaches the 017 build.
LEMMA CaptureBill == ASSUME BillInv, NEW e \in Deliveries, Capture(e) PROVE BillParts'
<1> DEFINE o == OrderOf[e]
<1>1. /\ UNCHANGED <<reached, log, oldWrote, improvised, Untold, oldReached, settings, tx, run, job>>
      /\ OldOrders' = OldOrders /\ o \in Orders
      /\ \A f \in Deliveries \ {e} : event'[f] = event[f]
      /\ event[e] = "none" /\ event'[e] \in {"ignored", "received"} /\ event'[0] = event[0]
  <2>0. event \in [Deliveries -> EventStates] /\ 0 \notin Deliveries /\ o \in Orders
    BY Known DEF BillInv, IInv, TypeOK
  <2>1. PICK status \in {"ignored", "received"} : event' = [event EXCEPT ![e] = status]
    BY DEF Capture
  <2>2. event'[0] = event[0] /\ event'[e] = status /\ \A f \in Deliveries \ {e} : event'[f] = event[f]
    BY <2>0, <2>1
  <2> QED BY <2>0, <2>2 DEF Capture, bagVars, billVars, OldOrders, Untold
<1>2. \A q \in Orders \ {o} : source'[q] = source[q]
  BY DEF Capture, BillInv, IInv, TypeOK
<1>3. \A q \in Orders : event'[source[q].event] = "no_bill" => event[source[q].event] = "no_bill"
  BY <1>1, EventOfSource
<1>4. source'[o] = source[o] \/ (source[o].status = "absent" /\ source'[o] = Source("live", "received", "none", "not_ready", e, FALSE))
  BY <1>1 DEF Capture, Present, BillInv, IInv, TypeOK
<1>5. \A q \in Orders \ {o} : ShapeOf(q)' /\ DueOf(q)'
  BY <1>1, <1>2, <1>3, OrderKept
<1>6. ShapeOf(o) /\ DueOf(o)
  BY <1>1, EventOfSource
<1>7. ShapeOf(o)' /\ DueOf(o)'
  <2>1. CASE source'[o] = source[o]
    BY <1>1, <1>3, <2>1, OrderKept
  <2>2. CASE source[o].status = "absent" /\ source'[o] = Source("live", "received", "none", "not_ready", e, FALSE)
    <3>1. /\ source'[o].status = "received" /\ source'[o].bill = "not_ready" /\ source'[o].event = e
          /\ source'[o].origin = "live" /\ source[o].bill = "none" /\ source[o].origin = "none"
      BY <1>6, <2>2 DEF Source, ShapeOf
    <3>2. ShapeOf(o)'
      BY <1>1, <1>6, <3>1 DEF ShapeOf
    <3>3. DueOf(o)'
      BY <1>1, <1>6, <3>1 DEF DueOf
    <3> QED BY <3>2, <3>3
  <2> QED BY <1>4, <2>1, <2>2
<1>8. ASSUME NEW f \in Deliveries PROVE JobOf(f)'
  <2>1. JobOf(f)
    BY DEF BillInv, BillParts
  <2>2. source'[OrderOf[f]] = source[OrderOf[f]] \/ (source[OrderOf[f]].origin # "compat" /\ Present(OrderOf[f])')
    <3>1. CASE source[OrderOf[f]].status = "absent" /\ source'[OrderOf[f]] = Source("live", "received", "none", "not_ready", e, FALSE)
      <4>1. OrderOf[f] \in Orders
        BY Known DEF BillInv
      <4> QED BY <3>1, <4>1, EventOfSource DEF Source, ShapeOf, Present
    <3> QED BY <1>2, <1>4, <3>1, Known DEF BillInv
  <2>3. f = e => ~Billing(f) \/ OrderOf[f] \in Untold
    BY <1>1, <2>1 DEF JobOf
  <2>4. CASE job[f].build = "l3" /\ job[f].pc = "taken"
    <3>1. event'[f] = "received" \/ Present(OrderOf[f])'
      BY <1>1, <2>1, <2>2, <2>4 DEF JobOf, Present
    <3> QED BY <1>1, <2>4, <3>1 DEF JobOf, Billing
  <2>5. CASE ~(job[f].build = "l3" /\ job[f].pc = "taken")
    <3>1. CASE Billing(f)
      BY <1>1, <2>1, <2>2, <2>3, <3>1 DEF JobOf, Billing
    <3>2. CASE ~Billing(f)
      BY <1>1, <2>1, <2>5, <3>2 DEF JobOf, Billing, PastBag
    <3> QED BY <3>1, <3>2
  <2> QED BY <2>4, <2>5
<1>9. Early'
  BY <1>1, EarlyKept
<1>10. \A p \in tx'.rows : RowOf(p)'
  <2>1. source[o].origin = "compat" => source'[o] = source[o]
    BY <1>4, <1>6 DEF ShapeOf
  <2> QED BY <1>1, <1>2, <2>1, RowsKept
<1> QED BY <1>5, <1>7, <1>8, <1>9, <1>10 DEF BillParts

\* T1 leaves the bill of an order of the old build alone.
LEMMA ApplyBill ==
  ASSUME BillInv, NEW o \in Orders, source[o].status = "received", ApplyClaimed(o), "marker" \in settings, "activated" \in settings,
         UNCHANGED <<reached, log, oldWrote, improvised, Untold, row, oldReached, settings, tx, job>>
  PROVE  /\ \A q \in Orders : ShapeOf(q)' /\ DueOf(q)'
         /\ \A f \in Deliveries : JobOf(f)'
         /\ \A p \in tx'.rows : RowOf(p)'
<1>1. PICK status, reason, bill :
        /\ status \in {"community_only", "legacy", "review", "applied"}
        /\ ApplyAs(o, status, reason, bill)
        /\ status = "legacy" => bill = "legacy"
        /\ bill = "pending" => o \notin row
        /\ bill \in {"not_required", "legacy", "pending", "failed", "not_ready"}
  BY EventOfSource DEF ApplyClaimed, ShapeOf
<1>2. PICK ended \in {"processed", "ignored", "failed"} : FinishEvent(o, ended)
  BY DEF ApplyClaimed
<1>3. /\ source'[o].status = status /\ source'[o].bill = bill
      /\ source'[o].event = source[o].event /\ source'[o].origin = source[o].origin
      /\ \A q \in Orders \ {o} : source'[q] = source[q]
  BY <1>1 DEF ApplyAs, BillInv, IInv, TypeOK, SourceRows
<1>4. /\ \A f \in Deliveries : f # source[o].event => event'[f] = event[f]
      /\ \A f \in Deliveries \cup {0} : event'[f] = "no_bill" => event[f] = "no_bill"
  BY <1>2, Known DEF FinishEvent, BillInv, IInv, TypeOK
<1>5. OldOrders' = OldOrders
  BY DEF OldOrders
<1>6. \A q \in Orders \ {o} : ShapeOf(q)' /\ DueOf(q)'
  BY <1>3, <1>4, <1>5, EventOfSource, OrderKept
<1>7. ShapeOf(o) /\ DueOf(o) /\ source[o].bill = "not_ready"
  BY EventOfSource DEF ShapeOf
<1>8. o \notin Untold => reached[o] = 0 /\ (bill = "pending" => o \notin OldOrders)
  BY <1>1, <1>7 DEF DueOf, BillInv, IInv, Parts, NotLost, Closed
<1>9. ShapeOf(o)'
  BY <1>1, <1>3, <1>5, <1>7 DEF ShapeOf
<1>10. DueOf(o)'
  BY <1>1, <1>3, <1>5, <1>7, <1>8 DEF DueOf
<1>11. ASSUME NEW f \in Deliveries PROVE JobOf(f)'
  <2>1. JobOf(f) /\ OrderOf[f] \in Orders
    BY Known DEF BillInv, BillParts
  <2>2. CASE OrderOf[f] # o
    <3>1. f # source[o].event
      BY <2>2, EventOfSource, Known DEF BillInv
    <3> QED BY <1>3, <1>4, <1>5, <2>1, <2>2, <3>1, JobKept
  <2>3. CASE OrderOf[f] = o
    <3>1. Present(o)'
      BY <1>1, <1>3 DEF Present
    <3>2. Billing(f) => o \in Untold
      BY <2>1, <2>3 DEF JobOf
    <3> QED BY <1>3, <1>5, <2>1, <2>3, <3>1, <3>2 DEF JobOf, Billing, PastBag
  <2> QED BY <2>2, <2>3
<1>12. \A p \in tx'.rows : RowOf(p)'
  BY <1>3, RowsKept
<1> QED BY <1>6, <1>9, <1>10, <1>11, <1>12

\* T2 to T4 send a bill that is due, and none other is.
LEMMA SendBill ==
  ASSUME BillInv, NEW o \in Orders, source[o].bill = "pending", SendClaimed(o),
         UNCHANGED <<event, log, oldWrote, improvised, Untold, oldReached, settings, tx, job>>
  PROVE  /\ \A q \in Orders : ShapeOf(q)' /\ DueOf(q)'
         /\ \A f \in Deliveries : JobOf(f)'
         /\ \A p \in tx'.rows : RowOf(p)'
<1>0. source \in [Orders -> SourceRows] /\ reached \in [Orders -> Nat]
  BY DEF BillInv, IInv, TypeOK
<1>1. PICK state \in {"sent", "unknown", "pending", "failed"} :
        /\ Bill(o, state) /\ (state \in {"pending", "failed"} => UNCHANGED reached)
        /\ UNCHANGED reached \/ reached' = [reached EXCEPT ![o] = @ + 1]
  BY DEF SendClaimed
<1>2. /\ source'[o].bill = state /\ source'[o].status = source[o].status
      /\ source'[o].event = source[o].event /\ source'[o].origin = source[o].origin
      /\ \A q \in Orders \ {o} : source'[q] = source[q]
  BY <1>0, <1>1 DEF Bill, SourceRows
<1>3. /\ \A q \in Orders \ {o} : reached'[q] = reached[q]
      /\ reached'[o] \in {reached[o], reached[o] + 1}
      /\ state = "pending" => reached'[o] = reached[o]
  BY <1>0, <1>1
<1>4. OldOrders' = OldOrders
  BY DEF OldOrders
<1>5. \A q \in Orders \ {o} : ShapeOf(q)' /\ DueOf(q)'
  BY <1>2, <1>3, <1>4, OrderKept
<1>6. ShapeOf(o) /\ DueOf(o) /\ "activated" \in settings
  BY EventOfSource DEF ShapeOf
<1>7. o \notin Untold => reached[o] = 0 /\ o \notin OldOrders
  BY <1>6 DEF DueOf
<1>8. source[o].status \notin {"absent", "received", "legacy"}
  BY <1>6 DEF ShapeOf
<1>9. ShapeOf(o)'
  BY <1>2, <1>4, <1>6, <1>8 DEF ShapeOf
<1>10. DueOf(o)'
  BY <1>2, <1>3, <1>4, <1>7, <1>8 DEF DueOf
<1>11. ASSUME NEW f \in Deliveries PROVE JobOf(f)'
  <2>1. JobOf(f) /\ OrderOf[f] \in Orders
    BY Known DEF BillInv, BillParts
  <2>2. CASE OrderOf[f] # o
    BY <1>2, <1>3, <1>4, <2>1, <2>2, JobKept
  <2>3. CASE OrderOf[f] = o
    BY <1>2, <1>4, <1>8, <2>1, <2>3 DEF JobOf, Billing, PastBag, Present
  <2> QED BY <2>2, <2>3
<1>12. \A p \in tx'.rows : RowOf(p)'
  BY <1>2, RowsKept
<1> QED BY <1>5, <1>9, <1>10, <1>11, <1>12

\* The sweeps and the kicks.
LEMMA SweepBill ==
  ASSUME BillInv, (\E r \in Runs : SweepStep(r)) \/ (\E o \in Orders : Kick(o) \/ KickBill(o))
  PROVE  BillParts'
<1>0. run \in [Runs -> SweepRows] /\ Early /\ ("activated" \in settings => "marker" \in settings)
  BY Known DEF BillInv, BillParts, IInv, TypeOK
<1>1. ASSUME UNCHANGED <<source, event, reached, log, oldWrote, improvised, Untold, oldReached, settings, tx, job>>
      PROVE  /\ \A q \in Orders : ShapeOf(q)' /\ DueOf(q)'
             /\ \A f \in Deliveries : JobOf(f)'
             /\ \A p \in tx'.rows : RowOf(p)'
  <2>1. OldOrders' = OldOrders
    BY <1>1 DEF OldOrders
  <2> QED BY <1>1, <2>1, OrderKept, JobKept, RowsKept
<1>2. ASSUME UNCHANGED <<settings, oldWrote, improvised, oldReached>>,
             \A r \in Runs : run'[r].pc = "sources" /\ run'[r].page # {} => "activated" \in settings
      PROVE  Early'
  BY <1>0, <1>2 DEF Early, OldOrders
<1>3. ASSUME NEW r \in Runs, Sweep(r) PROVE BillParts'
  <2>1. \A q \in Runs : run'[q].pc = "sources" /\ run'[q].page # {} => "activated" \in settings
    BY <1>0, <1>3 DEF Sweep, WorkerOn, Early
  <2> QED BY <1>1, <1>2, <1>3, <2>1 DEF Sweep, queueVars, bagVars, billVars, BillParts, Untold
<1>4. ASSUME NEW r \in Runs, SelectBills(r) PROVE BillParts'
  <2>1. \A q \in Runs : run'[q].pc = "sources" /\ run'[q].page # {} => "activated" \in settings
    BY <1>0, <1>4 DEF SelectBills, Early, IdleRun, SweepRows
  <2> QED BY <1>1, <1>2, <1>4, <2>1 DEF SelectBills, queueVars, bagVars, billVars, BillParts, Untold
<1>5. ASSUME NEW r \in Runs, SweepBills(r) PROVE BillParts'
  <2>1. \A q \in Runs : run'[q].pc = "sources" /\ run'[q].page # {} => "activated" \in settings
    <3>1. \A q \in Runs : run[q].pc = "sources" /\ run[q].page # {} => "activated" \in settings
      BY <1>0 DEF Early
    <3>2. ASSUME NEW o \in Orders, BillGate(r, o) PROVE run'[r].pc = "bills" /\ \A q \in Runs \ {r} : run'[q] = run[q]
      BY <1>0, <3>2 DEF BillGate, SweepRows
    <3>3. ASSUME EndBills(r) PROVE run'[r].pc = "idle" /\ \A q \in Runs \ {r} : run'[q] = run[q]
      BY <1>0, <3>3 DEF EndBills, IdleRun
    <3>4. run'[r].pc # "sources" /\ \A q \in Runs \ {r} : run'[q] = run[q]
      BY <1>5, <3>2, <3>3 DEF SweepBills
    <3> QED BY <3>1, <3>4
  <2> QED BY <1>1, <1>2, <1>5, <2>1 DEF SweepBills, queueVars, bagVars, billVars, BillParts, Untold
<1>6. ASSUME NEW r \in Runs, NEW o \in Orders, Apply(r, o) PROVE BillParts'
  <2>1. "activated" \in settings
    BY <1>0, <1>6 DEF Apply, Early
  <2>2. \A q \in Runs : run'[q].pc = "sources" /\ run'[q].page # {} => "activated" \in settings
    BY <2>1
  <2>3. UNCHANGED <<reached, log, oldWrote, improvised, Untold, row, oldReached, settings, tx, job>>
    BY <1>6 DEF Apply, billVars, Untold
  <2>4. CASE source[o].status = "received"
    BY <1>0, <1>2, <1>6, <2>1, <2>2, <2>3, <2>4, ApplyBill DEF Apply, BillParts
  <2>5. CASE source[o].status # "received"
    BY <1>1, <1>2, <1>6, <2>2, <2>3, <2>5 DEF Apply, BillParts
  <2> QED BY <2>4, <2>5
<1>7. ASSUME NEW r \in Runs, NEW o \in Orders, BillClaim(r, o) PROVE BillParts'
  <2>1. \A q \in Runs : run'[q].pc = "sources" /\ run'[q].page # {} => "activated" \in settings
    BY <1>0, <1>7 DEF BillClaim, Early, SweepRows
  <2>2. UNCHANGED <<event, log, oldWrote, improvised, Untold, oldReached, settings, tx, job>>
    BY <1>7 DEF BillClaim, queueVars, bagVars, Untold
  <2>3. CASE source[o].bill = "pending"
    BY <1>2, <1>7, <2>1, <2>2, <2>3, SendBill DEF BillClaim, BillParts
  <2>4. CASE source[o].bill # "pending"
    BY <1>1, <1>2, <1>7, <2>1, <2>2, <2>4 DEF BillClaim, BillParts
  <2> QED BY <2>3, <2>4
<1>8. ASSUME NEW o \in Orders, Kick(o) PROVE BillParts'
  <2>1. UNCHANGED <<reached, log, oldWrote, improvised, Untold, row, oldReached, settings, tx, job, run>>
    BY <1>8 DEF Kick, billVars, Untold
  <2>2. "activated" \in settings /\ source[o].status = "received" /\ ApplyClaimed(o)
    BY <1>0, <1>8 DEF Kick, WorkerOn, Early
  <2> QED BY <1>0, <1>2, <2>1, <2>2, ApplyBill DEF BillParts
<1>9. ASSUME NEW o \in Orders, KickBill(o) PROVE BillParts'
  <2>1. UNCHANGED <<event, log, oldWrote, improvised, Untold, oldReached, settings, tx, job, run>>
    BY <1>9 DEF KickBill, queueVars, bagVars, Untold
  <2>2. Early'
    BY <1>0, <1>2, <2>1 DEF Early
  <2> QED BY <1>9, <2>1, <2>2, SendBill DEF KickBill, BillParts
<1> QED BY <1>3, <1>4, <1>5, <1>6, <1>7, <1>8, <1>9 DEF SweepStep

\* Deployments and deaths: a job may end, an order may come to be untold.
LEMMA BuildBill == ASSUME BillInv, NEW b \in {"old", "new", "l3"}, Deploy(b) \/ Die(b) PROVE BillParts'
<1>1. /\ UNCHANGED <<source, event, reached, log, oldWrote, improvised, oldReached, settings, tx>>
      /\ Untold \subseteq Untold' /\ \A e \in Deliveries : job'[e] \in {job[e], NoJob}
  BY DEF Deploy, Die, queueVars, billVars, bagVars, Untold
<1>2. OldOrders' = OldOrders
  BY <1>1 DEF OldOrders
<1>3. \A r \in Runs : run'[r] = run[r] \/ run'[r] = IdleRun
  BY DEF Deploy, Die
<1>4. Early'
  BY <1>1, <1>2, <1>3 DEF BillInv, BillParts, Early, IdleRun
<1>5. \A q \in Orders : ShapeOf(q)' /\ DueOf(q)'
  BY <1>1, <1>2, OrderKept
<1>6. \A f \in Deliveries : JobOf(f)'
  BY <1>1, <1>2, JobKept
<1> QED BY <1>1, <1>4, <1>5, <1>6, RowsKept DEF BillParts

\* An activation or a revocation of a switch.
LEMMA SwitchBill == ASSUME BillInv, NEW s \in Switches, Activate(s) \/ Revoke(s) PROVE BillParts'
<1>1. /\ UNCHANGED <<source, event, job, reached, log, oldWrote, improvised, Untold, oldReached, tx>>
      /\ "activated" \in settings => "activated" \in settings'
  BY DEF Activate, Revoke, Switches, queueVars, bagVars, billVars, Untold
<1>2. OldOrders' = OldOrders
  BY <1>1 DEF OldOrders
<1>3. Early'
  <2>1. "worker" \in settings' => "activated" \in settings'
    BY <1>1 DEF Activate, Revoke, Switches, BillInv, BillParts, Early
  <2>2. \A r \in Runs : run'[r].pc = run[r].pc /\ run'[r].page = run[r].page
    BY DEF Activate, Revoke, BillInv, IInv, TypeOK, SweepRows
  <2> QED BY <1>1, <1>2, <2>1, <2>2 DEF BillInv, BillParts, Early
<1>4. \A q \in Orders : ShapeOf(q)' /\ DueOf(q)'
  BY <1>1, <1>2, OrderKept
<1>5. \A f \in Deliveries : JobOf(f)'
  BY <1>1, <1>2, JobKept
<1> QED BY <1>1, <1>3, <1>4, <1>5, RowsKept DEF BillParts

\* What a plan finds of an order is an event of the order.
LEMMA FoundIsOwn ==
  ASSUME NEW o \in Orders, NEW es \in SUBSET EventsOf(o), First(es) # 0
  PROVE  OrderOf[First(es)] = o
<1>1. es \subseteq Nat /\ (es = {} => First(es) = 0)
  BY CutoverAssumption DEF EventsOf, First
<1>2. First(es) \in es
  BY <1>1, FirstIsIn
<1> QED BY <1>2 DEF EventsOf

\* The rows of a plan, when it is computed.
LEMMA PlanRowsOwn ==
  ASSUME BillInv, NEW kind \in Kinds, NEW rows \in Plan(kind), NEW p \in rows, p.action # "review"
  PROVE  RowOf(p)
<1>1. \A o \in Orders : \A statuses : With(o, statuses) \in SUBSET EventsOf(o)
  BY DEF With
<1>2. \A o \in Orders : OldDone(o) \in SUBSET EventsOf(o) /\ EventsOf(o) \in SUBSET EventsOf(o)
  BY <1>1 DEF OldDone
<1>3. CASE kind = "backfill"
  <2>1. p \in BackfillRows
    BY <1>3 DEF Plan
  <2>2. ASSUME NEW o \in Orders, p = PlanRow(o, "insert", BackfillReason(o), BackfillEvent(o)) PROVE RowOf(p)
    <3>1. PICK es \in SUBSET EventsOf(o) : BackfillEvent(o) = First(es)
      <4>1. CASE BackfillReason(o) = "orders_row"
        BY <1>2, <4>1, Zenon DEF BackfillEvent
      <4>2. CASE BackfillReason(o) = "event_processed_unmapped"
        BY <1>2, <4>2 DEF BackfillEvent
      <4>3. CASE BackfillReason(o) = "event_failed"
        BY <1>1, <4>3 DEF BackfillEvent
      <4>4. CASE BackfillReason(o) \notin {"orders_row", "event_processed_unmapped", "event_failed"}
        BY <1>2, <4>4 DEF BackfillEvent
      <4> QED BY <4>1, <4>2, <4>3, <4>4
    <3>2. p.event = First(es) /\ p.order = o /\ p.action = "insert"
      BY <2>2, <3>1 DEF PlanRow
    <3> QED BY <3>2, FoundIsOwn DEF RowOf
  <2>3. ASSUME NEW o \in Orders, p = PlanRow(o, "upgrade", IF o \in row THEN "persisted_before_cutover" ELSE "event_processed_unmapped", source[o].event)
        PROVE RowOf(p)
    <3>1. p.event = source[o].event /\ p.order = o /\ p.action = "upgrade"
      BY <2>3 DEF PlanRow
    <3> QED BY <3>1, EventOfSource DEF RowOf
  <2> QED BY <2>1, <2>2, <2>3 DEF BackfillRows
<1>4. CASE kind = "window"
  <2>1. PICK o \in Orders, differs \in SUBSET Orders : p = WindowRow(o, differs)
    BY <1>4 DEF Plan
  <2>2. \/ p = PlanRow(o, "review", "none", 0)
        \/ p = PlanRow(o, "link_existing", "orders_row", Selected(o))
        \/ p = PlanRow(o, "map_community_only", "event_processed_unmapped", First(OldDone(o)))
        \/ p = PlanRow(o, "replay", "event_failed", Selected(o))
        \/ p = PlanRow(o, "replay", "event_unfinished", Selected(o))
    BY <2>1 DEF WindowRow
  <2>3. PICK es \in SUBSET EventsOf(o) : Selected(o) = First(es)
    BY <1>1, <1>2 DEF Selected
  <2>4. p.order = o /\ p.action # "recover_bill" /\ (p.event = First(es) \/ p.event = First(OldDone(o)))
    BY <2>2, <2>3 DEF PlanRow
  <2> QED BY <1>2, <2>4, FoundIsOwn DEF RowOf
<1>5. CASE kind = "bills"
  <2>1. PICK o \in Orders : p = PlanRow(o, Classify(o), "none", source[o].event) /\ CompatUnproved(o)
    BY <1>5 DEF Plan
  <2>2. /\ p.order = o /\ p.event = source[o].event /\ p.action = Classify(o) /\ p.message = log[o]
        /\ source[o].event # 0 => p.status = event[source[o].event]
    BY <2>1 DEF PlanRow
  <2>3. source[o].event # 0 /\ source[o].origin = "compat"
    BY <2>1, EventOfSource DEF CompatUnproved, ShapeOf
  <2>4. p.action = "recover_bill" => log[o] = "refused" \/ (log[o] = "none" /\ event[source[o].event] = "no_bill")
    BY <2>2 DEF Classify
  <2> QED BY <2>2, <2>3, <2>4, EventOfSource DEF RowOf
<1> QED BY <1>3, <1>4, <1>5 DEF Kinds

\* A plan is computed, or dropped.
LEMMA PlanBill == ASSUME BillInv, (\E kind \in Kinds : BeginApply(kind)) \/ AbortApply PROVE BillParts'
<1>1. UNCHANGED <<source, event, job, reached, log, oldWrote, improvised, Untold, oldReached, settings, run>>
  BY DEF BeginApply, AbortApply, queueVars, bagVars, billVars, Untold
<1>2. OldOrders' = OldOrders
  BY <1>1 DEF OldOrders
<1>3. Early'
  BY <1>1, <1>2, EarlyKept
<1>4. \A q \in Orders : ShapeOf(q)' /\ DueOf(q)'
  BY <1>1, <1>2, OrderKept
<1>5. \A f \in Deliveries : JobOf(f)'
  BY <1>1, <1>2, JobKept
<1>6. \A p \in tx'.rows : RowOf(p)
  <2>1. CASE AbortApply
    BY <2>1 DEF AbortApply, NoPlan
  <2>2. ASSUME NEW kind \in Kinds, BeginApply(kind) PROVE \A p \in tx'.rows : RowOf(p)
    <3>1. PICK rows \in Plan(kind) : tx' = [kind |-> kind, rows |-> {p \in rows : p.action # "review"}]
      BY <2>2 DEF BeginApply
    <3>2. \A p \in tx'.rows : p \in rows /\ p.action # "review"
      BY <3>1
    <3> QED BY <3>2, PlanRowsOwn
  <2> QED BY <2>1, <2>2
<1>7. \A p \in tx'.rows : RowOf(p)'
  BY <1>1, <1>6 DEF RowOf
<1> QED BY <1>3, <1>4, <1>5, <1>7 DEF BillParts

\* A row that is applied leaves its order with no bill due that went out.
LEMMA WrittenBill ==
  ASSUME BillInv, NEW p \in tx.rows, Holds(p), NEW o \in Orders, p.order = o, source'[o] = Written(p),
         UNCHANGED <<reached, log, oldWrote, improvised>>, UNCHANGED Untold \/ tx.kind = "backfill",
         "activated" \in settings => "activated" \in settings',
         source[o].origin = "compat" /\ event'[source[o].event] = "no_bill" => event[source[o].event] = "no_bill"
  PROVE  /\ ShapeOf(o)' /\ DueOf(o)'
         /\ source[o].origin = "compat" => source'[o].origin = "compat" /\ source'[o].event = source[o].event
<1>1. RowOf(p) /\ ShapeOf(o) /\ DueOf(o) /\ source[o] \in SourceRows /\ p.action \in Actions
  BY EventOfSource DEF BillInv, BillParts, IInv, TypeOK, PlanRows
<1>0. /\ UNCHANGED Untold \/ "activated" \notin settings
      /\ tx.kind = "backfill" => p.action \in {"insert", "upgrade"}
  BY DEF BillInv, IInv, Parts, PlanOK, BuildsOK, NoPlan
<1>2. OldOrders' = OldOrders
  BY DEF OldOrders
<1>3. CASE p.action \in {"insert", "link_existing", "map_community_only", "replay", "upgrade"}
  <2>1. /\ source'[o].origin \in {"backfill", "live"} /\ source'[o].event = p.event
        /\ \/ source'[o].status = "legacy" /\ source'[o].bill = "legacy"
           \/ source'[o].status = "community_only" /\ source'[o].bill = "not_required"
           \/ source'[o].status = "received" /\ source'[o].bill = "not_ready"
    BY <1>3 DEF Written, Source
  <2>2. source[o].bill \in {"none", "not_ready"} /\ source[o].origin # "compat"
    BY <1>1, <1>3 DEF Holds, Present, LiveReceived, ShapeOf
  <2>3. o \notin Untold' => reached[o] = 0
    BY <1>0, <1>1, <2>2 DEF DueOf, ShapeOf
  <2>4. log[o] # "none" => o \in OldOrders
    BY <1>1, <2>2 DEF ShapeOf
  <2>5. ShapeOf(o)'
    BY <1>1, <1>2, <2>1, <2>4 DEF ShapeOf, RowOf
  <2>6. DueOf(o)'
    BY <1>2, <2>1, <2>3 DEF DueOf
  <2> QED BY <2>2, <2>5, <2>6
<1>4. CASE p.action = "record_sent_evidence"
  <2>1. /\ source'[o].origin = source[o].origin /\ source'[o].event = source[o].event
        /\ source'[o].status = source[o].status /\ source'[o].bill = source[o].bill
    BY <1>1, <1>4 DEF Written, SourceRows
  <2>2. ShapeOf(o)'
    BY <1>1, <1>2, <2>1 DEF ShapeOf
  <2>3. DueOf(o)'
    BY <1>0, <1>1, <1>2, <1>4, <2>1 DEF DueOf, Unbilled
  <2> QED BY <2>1, <2>2, <2>3
<1>5. CASE p.action = "recover_bill"
  <2>1. /\ source'[o].origin = source[o].origin /\ source'[o].event = source[o].event
        /\ source'[o].status = "applied" /\ source'[o].bill = "pending"
    BY <1>1, <1>5 DEF Written, SourceRows
  <2>2. source[o].origin = "compat" /\ source[o].status = "legacy" /\ Unbilled(o)
    BY <1>1, <1>5 DEF RowOf, Holds, Unbilled
  <2>3. "activated" \in settings'
    BY <1>1, <2>2 DEF ShapeOf
  <2>4. ShapeOf(o)'
    BY <1>1, <1>2, <2>1, <2>2, <2>3 DEF ShapeOf
  <2>5. DueOf(o)'
    BY <1>0, <1>1, <1>2, <1>5, <2>1, <2>2 DEF DueOf
  <2> QED BY <2>1, <2>4, <2>5
<1> QED BY <1>1, <1>3, <1>4, <1>5 DEF Actions

\* A plan is applied.
LEMMA CommitBill == ASSUME BillInv, CommitApply PROVE BillParts'
<1>0. /\ UNCHANGED Untold \/ tx.kind = "backfill"
      /\ tx.kind = "backfill" => "activated" \notin settings /\ "l3" \notin up /\ \A e \in Deliveries : job[e].build # "l3"
  BY DEF CommitApply, Untold, BillInv, IInv, Parts, PlanOK, BuildsOK, NoPlan, NoJob
<1>1. /\ UNCHANGED <<job, reached, log, oldWrote, improvised, oldReached, run>>
      /\ settings \subseteq settings' /\ ("worker" \in settings' => "worker" \in settings) /\ tx' = NoPlan
      /\ \A p \in tx.rows : Holds(p) /\ RowOf(p)
  BY DEF CommitApply, bagVars, billVars, BillInv, BillParts
<1>2. OldOrders' = OldOrders
  BY <1>1 DEF OldOrders
<1>3. \A o \in Orders : source'[o] = source[o] \/ \E p \in tx.rows : p.order = o /\ source'[o] = Written(p)
  <2> SUFFICES ASSUME NEW o \in Orders, NEW q \in tx.rows, q.order = o
               PROVE \E p \in tx.rows : p.order = o /\ source'[o] = Written(p)
    BY DEF CommitApply
  <2> DEFINE of == {p \in tx.rows : p.order = o}
  <2>1. (CHOOSE p \in of : TRUE) \in of
    OBVIOUS
  <2>2. source'[o] = Written(CHOOSE p \in of : TRUE)
    BY DEF CommitApply
  <2> QED BY <2>1, <2>2
<1>4. \A e \in Deliveries : event'[e] = event[e] \/ \E p \in tx.rows : p.event = e /\ event'[e] = EventAfter(p)
  <2> SUFFICES ASSUME NEW e \in Deliveries, NEW q \in tx.rows, q.event = e
               PROVE \E p \in tx.rows : p.event = e /\ event'[e] = EventAfter(p)
    BY DEF CommitApply
  <2> DEFINE at == {p \in tx.rows : p.event = e}
  <2>1. (CHOOSE p \in at : TRUE) \in at
    OBVIOUS
  <2>2. event'[e] = EventAfter(CHOOSE p \in at : TRUE)
    BY DEF CommitApply
  <2> QED BY <2>1, <2>2
<1>5. \A e \in Deliveries : event'[e] # event[e] =>
        \E p \in tx.rows : p.event = e /\ p.order = OrderOf[e] /\ p.action \in {"upgrade", "replay", "recover_bill"} /\ event'[e] = EventAfter(p)
  BY <1>1, <1>4, Known DEF EventAfter, RowOf, BillInv
<1>6. \A e \in Deliveries : event'[e] = "no_bill" => event[e] = "no_bill"
  BY <1>5 DEF EventAfter
<1>7. \A o \in Orders : source[o].origin = "compat" => source[o].event \in Deliveries /\ source[o].event # 0
  BY EventOfSource DEF ShapeOf
<1>8. ASSUME NEW o \in Orders
      PROVE  /\ ShapeOf(o)' /\ DueOf(o)'
             /\ source[o].origin = "compat" => source'[o].origin = "compat" /\ source'[o].event = source[o].event
  <2>1. source[o].origin = "compat" /\ event'[source[o].event] = "no_bill" => event[source[o].event] = "no_bill"
    BY <1>6, <1>7
  <2>2. CASE source'[o] = source[o]
    <3>1. CASE UNCHANGED Untold
      BY <1>1, <1>2, <2>1, <2>2, <3>1, OrderKept
    <3>2. CASE "activated" \notin settings
      <4>1. ShapeOf(o) /\ reached[o] = 0 /\ source[o].origin # "compat" /\ source[o].bill # "pending"
        BY <3>2, EventOfSource DEF ShapeOf
      <4>2. ShapeOf(o)'
        BY <1>1, <1>2, <2>2, <4>1 DEF ShapeOf
      <4>3. DueOf(o)'
        BY <1>1, <1>2, <2>2, <4>1 DEF DueOf
      <4> QED BY <2>2, <4>1, <4>2, <4>3
    <3> QED BY <1>0, <3>1, <3>2
  <2>3. CASE \E p \in tx.rows : p.order = o /\ source'[o] = Written(p)
    BY <1>0, <1>1, <2>1, <2>3, WrittenBill
  <2> QED BY <1>3, <2>2, <2>3
<1>9. ASSUME NEW f \in Deliveries PROVE JobOf(f)'
  <2> DEFINE o == OrderOf[f]
  <2>1. JobOf(f) /\ o \in Orders
    BY Known DEF BillInv, BillParts
  <2>2. Present(o) => Present(o)'
    BY <1>1, <1>3, <2>1, RowWrites DEF BillInv, Present
  <2>3. job[f].build = "l3" /\ job[f].pc = "taken" => event'[f] = "received" \/ Present(o)'
    <3>1. event'[f] = event[f] \/ event'[f] = "received" \/ Present(o)
      <4> SUFFICES ASSUME event'[f] # event[f], event'[f] # "received" PROVE Present(o)
        OBVIOUS
      <4>1. PICK p \in tx.rows : p.order = o /\ p.action \in {"upgrade", "replay", "recover_bill"} /\ event'[f] = EventAfter(p)
        BY <1>5
      <4>2. Holds(p) /\ p.action \in {"upgrade", "recover_bill"}
        BY <1>1, <4>1 DEF EventAfter
      <4>3. source[o].status \in {"received", "legacy"}
        BY <4>1, <4>2 DEF Holds, LiveReceived
      <4> QED BY <4>3 DEF Present
    <3> QED BY <2>1, <2>2, <3>1 DEF JobOf
  <2>4. ASSUME Billing(f), o \notin Untold PROVE source'[o].status = "legacy" /\ event'[f] = "received"
    <3>1. source[o].event = f /\ source[o].origin = "compat" /\ source[o].status = "legacy" /\ event[f] = "received" /\ log[o] = "none"
      BY <2>1, <2>4 DEF JobOf
    <3>2. \A p \in tx.rows : p.order = o => p.action = "record_sent_evidence"
      <4> SUFFICES ASSUME NEW p \in tx.rows, p.order = o PROVE p.action = "record_sent_evidence"
        OBVIOUS
      <4>1. p.action \in Actions
        BY DEF BillInv, IInv, TypeOK, PlanRows
      <4>2. p.action # "recover_bill"
        <5> SUFFICES ASSUME p.action = "recover_bill" PROVE FALSE
          OBVIOUS
        <5>1. RowOf(p) /\ Holds(p)
          BY <1>1
        <5>2. p.event = f /\ (p.message = "refused" \/ p.status = "no_bill")
          BY <3>1, <5>1 DEF RowOf
        <5>3. event[f] = p.status /\ (p.message # "none" => log[o] = p.message)
          BY <5>1, <5>2 DEF Holds
        <5> QED BY <3>1, <5>2, <5>3
      <4>3. p.action \notin {"insert", "upgrade", "link_existing", "map_community_only", "replay"}
        BY <1>1, <3>1 DEF Holds, Present, LiveReceived
      <4> QED BY <4>1, <4>2, <4>3 DEF Actions
    <3>3. event'[f] = event[f]
      BY <1>5, <3>2
    <3>4. \A p \in tx.rows : p.order = o => Written(p).status = "legacy"
      <4>1. source[o] \in SourceRows
        BY <2>1 DEF BillInv, IInv, TypeOK
      <4> QED BY <3>1, <3>2, <4>1 DEF Written, SourceRows
    <3> QED BY <1>3, <2>1, <3>1, <3>3, <3>4
  <2>5. Billing(f) => UNCHANGED Untold
    BY <1>0 DEF Billing
  <2> QED BY <1>1, <1>2, <1>8, <2>1, <2>3, <2>4, <2>5 DEF JobOf, Billing, PastBag
<1>10. Early'
  BY <1>1, <1>2 DEF BillInv, BillParts, Early
<1> QED BY <1>1, <1>8, <1>9, <1>10 DEF BillParts, NoPlan

\* Every step keeps it.
LEMMA BillInvariance == BillInv /\ [Next]_vars => BillInv'
<1> SUFFICES ASSUME BillInv, [Next]_vars PROVE BillParts'
  BY Invariance DEF BillInv
<1>0. TypeOK'
  BY TypeStep DEF BillInv, IInv
<1>1. ASSUME NEW e \in Deliveries, OldStep(e) \/ Capture(e) PROVE BillParts'
  BY <1>0, <1>1, TakeInBill, PersistOldBill, PersistL3Bill, InlineBill, EndBill, CaptureBill DEF OldStep
<1>2. ASSUME NEW b \in {"old", "new", "l3"}, Deploy(b) \/ Die(b) PROVE BillParts'
  BY <1>2, BuildBill
<1>3. ASSUME Operator PROVE BillParts'
  BY <1>3, SwitchBill, PlanBill, CommitBill DEF Operator
<1>4. CASE UNCHANGED vars
  <2>1. UNCHANGED <<source, event, job, reached, log, oldWrote, improvised, Untold, oldReached, settings, tx, run>> /\ OldOrders' = OldOrders
    BY <1>4 DEF vars, queueVars, bagVars, billVars, OldOrders, Untold
  <2> QED BY <2>1, OrderKept, JobKept, RowsKept, EarlyKept DEF BillParts
<1> QED BY <1>1, <1>2, <1>3, <1>4, SweepBill DEF Next

\* It holds of the old build at work.
LEMMA BillInit == Init => BillInv
<1> SUFFICES ASSUME Init PROVE BillParts
  BY InitInv DEF BillInv
<1> USE DEF Init
<1>1. Early
  BY DEF Early, IdleRun
<1>2. ASSUME NEW o \in Orders PROVE ShapeOf(o) /\ DueOf(o)
  <2>1. /\ source[o].status = "absent" /\ source[o].bill = "none" /\ source[o].origin = "none" /\ source[o].event = 0
        /\ reached[o] = 0 /\ log[o] = "none" /\ OldOrders = {}
    BY DEF Absent, Source, OldOrders
  <2> QED BY <2>1 DEF ShapeOf, DueOf
<1>3. ASSUME NEW e \in Deliveries PROVE JobOf(e)
  BY DEF JobOf, Billing, NoJob
<1> QED BY <1>1, <1>2, <1>3 DEF BillParts, NoPlan

\* The bills of the three builds reach a customer once at most, for every order
\* but those of the old build that the theorem above leaves out
\* (compat-bill-reconcile.js:34-67, 174-182; billing.js:51-61).
THEOREM BilledOnceHolds == Spec => []BilledOnce
<1>1. BillInv => BilledOnce
  <2> SUFFICES ASSUME BillInv, NEW o \in Orders, o \notin Untold PROVE reached[o] + (IF o \in oldReached THEN 1 ELSE 0) <= 1
    BY DEF BilledOnce
  <2>1. reached[o] \in Nat /\ reached[o] <= 1 /\ (o \in oldReached => reached[o] = 0)
    BY EventOfSource DEF DueOf, BillInv, BillParts, Early
  <2> QED BY <2>1
<1> QED BY BillInit, BillInvariance, <1>1, PTL DEF Spec
=============================================================================
