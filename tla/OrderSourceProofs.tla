--------------------------- MODULE OrderSourceProofs ---------------------------
(***************************************************************************)
(* Theorems about OrderSource, for every set of orders, deliveries, lines, *)
(* slots and workers and every attempt budget.                             *)
(***************************************************************************)
EXTENDS OrderSource, TLAPS

\* A run that is not idle works on an order, with a token of a claim that took place.
RunOK == \A w \in Workers : run[w].pc # "idle" => run[w].o \in Orders

Typed == TypeOK /\ RunOK

\* The lines that T1b reads from the first delivery's payload are lines.
LEMMA PayloadLines == ASSUME OrderSourceAssumption, TypeOK, NEW o \in Orders
                      PROVE  Payload(o) \subseteq Lines
BY DEF OrderSourceAssumption, TypeOK, Payload

\* The rows that the backfill leaves, and idle runs, have their types.
LEMMA TypedInit == ASSUME OrderSourceAssumption, Init PROVE Typed
<1>1. TypeOK
  BY DEF OrderSourceAssumption, Init, TypeOK, Run, Idle, NoLease, Events, Statuses, Bills, LegacyEvent,
         BackfillReasons, ReopenReasons
<1>2. RunOK
  BY DEF Init, RunOK, Run, Idle
<1> QED BY <1>1, <1>2 DEF Typed

(***************************************************************************)
(* Types.  The operators that several actions share come first.            *)
(***************************************************************************)

\* The webhook mirror writes an event status.
LEMMA MirrorType == ASSUME TypeOK, NEW o, NEW e \in Events, Mirror(o, e)
                    PROVE  event' \in [Deliveries -> Events]
BY DEF TypeOK, Mirror

\* finishProcessing keeps the types of all it touches, whatever outcome it records.
LEMMA FinishType ==
  ASSUME OrderSourceAssumption, Typed, NEW w \in Workers, run[w].pc \in InT1b,
         NEW s \in Statuses, NEW b \in Bills, NEW e \in Events, Finish(w, s, b, e)
  PROVE  /\ event' \in [Deliveries -> Events] /\ acked' \subseteq Deliveries
         /\ firstEvent' \in [Orders -> Deliveries \cup {NoDelivery}]
         /\ status' \in [Orders -> Statuses] /\ bill' \in [Orders -> Bills]
         /\ attempts' \in [Orders -> Nat] /\ base' \in [Orders -> Nat] /\ lease' \in [Orders -> Nat]
         /\ due' \in [Orders -> BOOLEAN] /\ duplicates' \subseteq Deliveries
         /\ registered' \subseteq Lines /\ intake' \subseteq Orders \X Lines
         /\ run' \in [Workers -> [pc : {"idle", "leased", "open", "checked", "failed"}, o : Orders \cup {NoOrder},
                                  token : Nat, grocery : SUBSET Lines, leak : BOOLEAN]]
         /\ RunOK'
<1>1. event' \in [Deliveries -> Events]
  BY MirrorType DEF Finish, Typed
<1>2. intake' \subseteq Orders \X Lines
  BY PayloadLines DEF InT1b, Finish, CaptureLines, Typed, TypeOK, RunOK
<1>3. /\ run' \in [Workers -> [pc : {"idle", "leased", "open", "checked", "failed"}, o : Orders \cup {NoOrder},
                               token : Nat, grocery : SUBSET Lines, leak : BOOLEAN]]
      /\ RunOK'
  <2>1. PICK seen \in {Idle, Failing(w, FALSE)} : run' = [run EXCEPT ![w] = seen]
    BY DEF Finish, Committed
  <2>2. /\ seen \in [pc : {"idle", "leased", "open", "checked", "failed"}, o : Orders \cup {NoOrder},
                     token : Nat, grocery : SUBSET Lines, leak : BOOLEAN]
        /\ seen.pc # "idle" => seen.o \in Orders
    <3>1. /\ run[w].o \in Orders
          /\ run[w] \in [pc : {"idle", "leased", "open", "checked", "failed"}, o : Orders \cup {NoOrder},
                        token : Nat, grocery : SUBSET Lines, leak : BOOLEAN]
      BY DEF InT1b, Typed, TypeOK, RunOK
    <3>2. CASE seen = Idle
      BY <3>2 DEF Run, Idle, NoLease
    <3>3. CASE seen = Failing(w, FALSE)
      BY <3>1, <3>3 DEF Failing, Run
    <3> QED BY <3>2, <3>3
  <2> QED BY <2>1, <2>2 DEF Typed, TypeOK, RunOK
<1> QED BY <1>1, <1>2, <1>3 DEF Finish, Release, Typed, TypeOK, NoLease

\* recordFailure keeps the types of all it touches.
LEMMA FailAttemptType ==
  ASSUME Typed, NEW o \in Orders, NEW leak \in BOOLEAN, FailAttempt(o, leak),
         run' \in [Workers -> [pc : {"idle", "leased", "open", "checked", "failed"}, o : Orders \cup {NoOrder},
                               token : Nat, grocery : SUBSET Lines, leak : BOOLEAN]]
  PROVE  TypeOK'
<1>1. event' \in [Deliveries -> Events]
  BY MirrorType DEF FailAttempt, Typed, TypeOK, Events
<1> QED BY <1>1 DEF FailAttempt, Release, Typed, TypeOK, Statuses, NoLease, bagVars, lineVars

\* Every step keeps the types, and every busy run has an order.
LEMMA TypedStep == ASSUME OrderSourceAssumption, Typed, [Next]_vars PROVE Typed'
<1> USE DEF Typed
<1>1. ASSUME NEW d \in Deliveries, Deliver(d) PROVE TypeOK' /\ RunOK'
  <2>1. CASE CaptureOwner(d)
    BY <2>1 DEF CaptureOwner, Answered, TypeOK, RunOK, OrderSourceAssumption, Events, Statuses, Bills, bagVars
  <2>2. CASE CaptureDuplicate(d)
    BY <2>2 DEF CaptureDuplicate, Answered, TypeOK, RunOK, Events, sourceVars, bagVars, lineVars
  <2>3. CASE CaptureInvalid(d)
    BY <2>3 DEF CaptureInvalid, Answered, TypeOK, RunOK, Events, sourceVars, bagVars, lineVars
  <2>4. CASE Redelivery(d)
    BY <2>4 DEF Redelivery, TypeOK, RunOK, sourceVars, bagVars, lineVars
  <2> QED BY <1>1, <2>1, <2>2, <2>3, <2>4 DEF Deliver
<1>2. ASSUME NEW w \in Workers, WorkerStep(w) PROVE TypeOK' /\ RunOK'
  <2>1. ASSUME NEW o \in Orders, Claim(w, o) PROVE TypeOK' /\ RunOK'
    BY <2>1 DEF Claim, Run, TypeOK, RunOK, Statuses, eventVars, bagVars, lineVars
  <2>2. CASE LeaseLost(w)
    BY <2>2 DEF LeaseLost, Run, Idle, NoLease, TypeOK, RunOK, eventVars, sourceVars, bagVars, lineVars
  <2>3. CASE BeginApply(w)
    BY <2>3, PayloadLines DEF BeginApply, Run, TypeOK, RunOK, eventVars, sourceVars, bagVars, lineVars
  <2>4. CASE ApplyCommunityOnly(w)
    <3>1. Finish(w, "community_only", "not_required", "processed") /\ run[w].pc \in InT1b
      BY <2>4 DEF ApplyCommunityOnly, InT1b
    <3> QED BY <2>4, <3>1, FinishType DEF ApplyCommunityOnly, TypeOK, Statuses, Bills, Events, bagVars
  <2>5. CASE ApplyNoPhone(w)
    <3>1. Finish(w, "review", bill[run[w].o], "failed") /\ run[w].pc \in InT1b /\ bill[run[w].o] \in Bills
      BY <2>5 DEF ApplyNoPhone, InT1b, TypeOK, RunOK
    <3> QED BY <2>5, <3>1, FinishType DEF ApplyNoPhone, TypeOK, Statuses, Events, bagVars
  <2>6. CASE ApplyAlreadySaved(w)
    <3>1. run[w].pc \in InT1b /\ run[w].o \in Orders /\ bill[run[w].o] \in Bills
      BY <2>6 DEF ApplyAlreadySaved, InT1b, TypeOK, RunOK
    <3>2. CASE Finish(w, "review", bill[run[w].o], "failed") /\ UNCHANGED legacyReason
      BY <2>6, <3>1, <3>2, FinishType DEF ApplyAlreadySaved, TypeOK, Statuses, Events, bagVars
    <3>3. CASE /\ Finish(w, "legacy", "legacy", "ignored")
               /\ legacyReason' = [legacyReason EXCEPT ![run[w].o] = "persisted_before_cutover"]
      BY <2>6, <3>1, <3>3, FinishType DEF ApplyAlreadySaved, TypeOK, Statuses, Bills, Events, bagVars
    <3> QED BY <2>6, <3>2, <3>3 DEF ApplyAlreadySaved
  <2>7. ASSUME NEW composed \in BOOLEAN, ApplyWrite(w, composed) PROVE TypeOK' /\ RunOK'
    <3> DEFINE b == IF bill[run[w].o] = "not_required" THEN bill[run[w].o]
                    ELSE IF composed THEN "pending" ELSE "failed"
    <3>1. /\ run[w].pc \in InT1b /\ run[w].o \in Orders /\ run[w].grocery \subseteq Lines
          /\ run[w].token \in Nat /\ b \in Bills /\ Finish(w, "applied", b, "processed")
      BY <2>7 DEF ApplyWrite, InT1b, TypeOK, RunOK, Bills
    <3>2. written' \subseteq Orders \X Lines \X Nat /\ skipped' \subseteq Orders \X Lines
      BY <2>7, <3>1 DEF ApplyWrite, TypeOK
    <3>3. saved' \subseteq Orders /\ bags' \subseteq Slots /\ snapshot' \subseteq Orders
      BY <2>7, <3>1 DEF ApplyWrite, TypeOK, OrderSourceAssumption
    <3> HIDE DEF b
    <3>4. "applied" \in Statuses /\ "processed" \in Events
      BY DEF Statuses, Events
    <3>5. /\ leakSeen' \in [Orders -> BOOLEAN]
          /\ legacyReason' \in [Orders -> BackfillReasons \cup {"none", "persisted_before_cutover"}]
      BY <2>7 DEF ApplyWrite, TypeOK
    <3> QED BY <3>1, <3>2, <3>3, <3>4, <3>5, FinishType DEF TypeOK
  <2>8. CASE ApplyError(w)
    BY <2>8 DEF ApplyError, InT1b, Failing, Run, TypeOK, RunOK, eventVars, sourceVars, bagVars, lineVars
  <2>9. CASE RecordFailure(w)
    <3>1. /\ run' = [run EXCEPT ![w] = Idle] /\ RunOK'
          /\ run' \in [Workers -> [pc : {"idle", "leased", "open", "checked", "failed"}, o : Orders \cup {NoOrder},
                                   token : Nat, grocery : SUBSET Lines, leak : BOOLEAN]]
      BY <2>9 DEF RecordFailure, Run, Idle, NoLease, TypeOK, RunOK
    <3>2. CASE FailAttempt(run[w].o, run[w].leak)
      <4>1. run[w].o \in Orders
        BY <2>9 DEF RecordFailure, RunOK
      <4>2. run[w].leak \in BOOLEAN
        BY DEF TypeOK
      <4> QED BY <3>1, <3>2, <4>1, <4>2, FailAttemptType
    <3>3. CASE UNCHANGED <<eventVars, sourceVars, bagVars, lineVars, alerts>>
      BY <3>1, <3>3 DEF TypeOK, eventVars, sourceVars, bagVars, lineVars
    <3> QED BY <2>9, <3>2, <3>3 DEF RecordFailure
  <2>10. CASE Crash(w)
    BY <2>10 DEF Crash, Run, Idle, NoLease, TypeOK, RunOK, eventVars, sourceVars, bagVars, lineVars
  <2>11. CASE PassCheck(w)
    <3>1. /\ run' \in [Workers -> [pc : {"idle", "leased", "open", "checked", "failed"}, o : Orders \cup {NoOrder},
                                   token : Nat, grocery : SUBSET Lines, leak : BOOLEAN]]
          /\ RunOK'
      <4> DEFINE R == [pc : {"idle", "leased", "open", "checked", "failed"}, o : Orders \cup {NoOrder},
                       token : Nat, grocery : SUBSET Lines, leak : BOOLEAN]
                 r == [run[w] EXCEPT !.pc = "checked"]
      <4>1. run[w].o \in Orders /\ run' = [run EXCEPT ![w] = r]
        BY <2>11 DEF PassCheck, ReachesWriter, RunOK
      <4>2. r \in R /\ r.o = run[w].o /\ run \in [Workers -> R]
        BY DEF TypeOK
      <4> HIDE DEF R, r
      <4>3. run' \in [Workers -> R] /\ RunOK'
        BY <4>1, <4>2 DEF RunOK
      <4> QED BY <4>3 DEF R
    <3>2. UNCHANGED <<eventVars, sourceVars, bagVars, lineVars>>
      BY <2>11 DEF PassCheck
    <3> QED BY <3>1, <3>2 DEF TypeOK, eventVars, sourceVars, bagVars, lineVars
  <2> QED BY <1>2, <2>1, <2>2, <2>3, <2>4, <2>5, <2>6, <2>7, <2>8, <2>9, <2>10, <2>11 DEF WorkerStep, Commit
<1>3. ASSUME NEW o \in Orders, ExpireLease(o) \/ BackoffElapses(o) \/ OperatorStep(o)
      PROVE TypeOK' /\ RunOK'
  <2>1. CASE ExpireLease(o)
    BY <2>1, FailAttemptType DEF ExpireLease, TypeOK, RunOK
  <2>2. CASE BackoffElapses(o)
    BY <2>2 DEF BackoffElapses, TypeOK, RunOK, eventVars, bagVars, lineVars
  <2>3. CASE Requeue(o)
    <3>1. event' \in [Deliveries -> Events]
      BY <2>3, MirrorType DEF Requeue, Events
    <3> QED BY <2>3, <3>1 DEF Requeue, TypeOK, RunOK, Statuses, bagVars, lineVars
  <2>4. CASE Dismiss(o)
    BY <2>4 DEF Dismiss, TypeOK, RunOK, Statuses, Bills, eventVars, bagVars, lineVars
  <2>5. ASSUME NEW withBill \in BOOLEAN, ReopenLegacy(o, withBill) PROVE TypeOK' /\ RunOK'
    <3>1. event' \in [Deliveries -> Events]
      BY <2>5, MirrorType DEF ReopenLegacy, Events
    <3> QED BY <2>5, <3>1 DEF ReopenLegacy, TypeOK, RunOK, Statuses, Bills, bagVars, lineVars
  <2> QED BY <1>3, <2>1, <2>2, <2>3, <2>4, <2>5 DEF OperatorStep
<1>4. ASSUME StaffStep PROVE TypeOK' /\ RunOK'
  BY <1>4 DEF StaffStep, RegistryChanges, InboxOrder, BagCancelled, TypeOK, RunOK, eventVars, sourceVars,
          bagVars, lineVars
<1>5. CASE UNCHANGED vars
  BY <1>5 DEF vars, TypeOK, RunOK, eventVars, sourceVars, bagVars, lineVars
<1> QED BY <1>1, <1>2, <1>3, <1>4, <1>5 DEF Next

\* Every column, event and run keeps its type, in every step of the pipeline.
THEOREM TypeCorrect == Spec => []TypeOK
<1>1. Init => Typed
  BY OrderSourceAssumption, TypedInit
<1>2. Typed /\ [Next]_vars => Typed'
  BY OrderSourceAssumption, TypedStep
<1>3. Typed => TypeOK
  BY DEF Typed
<1> QED BY <1>1, <1>2, <1>3, PTL DEF Spec

(***************************************************************************)
(* The row lock.  While a transaction applies an order, the source stays   *)
(* in processing under the very lease it was begun with, and no other      *)
(* transaction applies the same order: this is what the token comparison   *)
(* and FOR NO KEY UPDATE of T1b and T1c achieve between them.              *)
(***************************************************************************)
OneApplier ==
  /\ \A w \in Workers : run[w].pc # "idle" => run[w].token # NoLease
  /\ \A w \in Workers : run[w].pc \in InT1b => HoldsLease(w)
  /\ \A v, w \in Workers : run[v].pc \in InT1b /\ run[w].pc \in InT1b /\ run[v].o = run[w].o => v = w

\* Before the first claim no row is locked.
LEMMA OneApplierInit == ASSUME Init PROVE OneApplier
BY DEF Init, OneApplier, InT1b, Run, Idle

\* A step that leaves the runs alone and no open run's row touched.
LEMMA RowsKept ==
  ASSUME Typed, OneApplier, UNCHANGED run,
         \A o \in Orders : RowLocked(o) => status'[o] = status[o] /\ lease'[o] = lease[o]
  PROVE  OneApplier'
BY DEF Typed, RunOK, OneApplier, RowLocked, HoldsLease, InT1b

\* A step of one run that ends it, or takes it out of its transaction.
LEMMA RunLeaves ==
  ASSUME Typed, OneApplier, NEW w \in Workers, NEW r,
         run' = [run EXCEPT ![w] = r],
         r.pc \in {"idle", "failed"}, r.pc = "failed" => r.token # NoLease,
         \A v \in Workers \ {w} : run[v].pc \in InT1b =>
            status'[run[v].o] = status[run[v].o] /\ lease'[run[v].o] = lease[run[v].o]
  PROVE  OneApplier'
BY DEF Typed, TypeOK, OneApplier, HoldsLease, InT1b

\* finishProcessing ends the run's hold on the row, and no other run has one.
LEMMA FinishLeaves ==
  ASSUME Typed, OneApplier, NEW w \in Workers, run[w].pc \in InT1b,
         NEW s, NEW b, NEW e, Finish(w, s, b, e)
  PROVE  OneApplier'
<1>1. PICK seen \in {Idle, Failing(w, FALSE)} : run' = [run EXCEPT ![w] = seen]
  BY DEF Finish, Committed
<1>2. seen.pc \in {"idle", "failed"} /\ (seen.pc = "failed" => seen.token # NoLease)
  <2>1. run[w].token # NoLease
    BY DEF OneApplier, InT1b
  <2>2. CASE seen = Idle
    BY <2>2 DEF Idle, Run
  <2>3. CASE seen = Failing(w, FALSE)
    BY <2>1, <2>3 DEF Failing, Run
  <2> QED BY <2>2, <2>3
<1>3. \A v \in Workers \ {w} : run[v].pc \in InT1b =>
         status'[run[v].o] = status[run[v].o] /\ lease'[run[v].o] = lease[run[v].o]
  BY DEF Finish, Release, OneApplier, InT1b, Typed, TypeOK, RunOK
<1> QED BY <1>1, <1>2, <1>3, RunLeaves

\* At most one run is in T1b of a source, and it holds the row's lease, after every step.
LEMMA OneApplierStep == ASSUME OrderSourceAssumption, Typed, OneApplier, [Next]_vars PROVE OneApplier'
<1>1. ASSUME NEW d \in Deliveries, Deliver(d) PROVE OneApplier'
  <2>1. UNCHANGED run /\ UNCHANGED lease
    BY <1>1 DEF Deliver, CaptureOwner, CaptureDuplicate, CaptureInvalid, Redelivery, sourceVars
  <2>2. \A o \in Orders : status[o] # "none" => status'[o] = status[o]
    BY <1>1 DEF Deliver, CaptureOwner, CaptureDuplicate, CaptureInvalid, Redelivery, sourceVars, Typed, TypeOK
  <2> QED BY <2>1, <2>2, RowsKept DEF RowLocked, OneApplier, HoldsLease
<1>2. ASSUME NEW w \in Workers, WorkerStep(w) PROVE OneApplier'
  <2>1. ASSUME NEW o \in Orders, Claim(w, o) PROVE OneApplier'
    BY <2>1 DEF Claim, Claimable, Run, Typed, TypeOK, RunOK, OneApplier, InT1b, HoldsLease, NoLease
  <2>2. CASE LeaseLost(w)
    BY <2>2, RunLeaves DEF LeaseLost, Run, Idle, sourceVars
  <2>3. CASE BeginApply(w)
    BY <2>3 DEF BeginApply, Run, RowLocked, Typed, TypeOK, RunOK, OneApplier, InT1b, HoldsLease, sourceVars
  <2>4. CASE ApplyCommunityOnly(w)
    BY <2>4, FinishLeaves DEF ApplyCommunityOnly, InT1b
  <2>5. CASE ApplyNoPhone(w)
    BY <2>5, FinishLeaves DEF ApplyNoPhone, InT1b
  <2>6. CASE ApplyAlreadySaved(w)
    BY <2>6, FinishLeaves DEF ApplyAlreadySaved, InT1b
  <2>7. ASSUME NEW composed \in BOOLEAN, ApplyWrite(w, composed) PROVE OneApplier'
    <3>1. PICK b : Finish(w, "applied", b, "processed")
      BY <2>7 DEF ApplyWrite
    <3> QED BY <2>7, <3>1, FinishLeaves DEF ApplyWrite, InT1b
  <2>8. CASE ApplyError(w)
    <3>1. PICK leak \in BOOLEAN : run' = [run EXCEPT ![w] = Failing(w, leak)]
      BY <2>8 DEF ApplyError
    <3>2. Failing(w, leak).pc = "failed" /\ Failing(w, leak).token # NoLease
      BY <2>8 DEF ApplyError, InT1b, Failing, Run, OneApplier
    <3> QED BY <2>8, <3>1, <3>2, RunLeaves DEF ApplyError, sourceVars
  <2>9. CASE RecordFailure(w)
    <3>1. run' = [run EXCEPT ![w] = Idle] /\ Idle.pc = "idle"
      BY <2>9 DEF RecordFailure, Run, Idle
    <3>2. CASE UNCHANGED sourceVars
      BY <3>1, <3>2, RunLeaves DEF sourceVars
    <3>3. CASE ~RowLocked(run[w].o) /\ FailAttempt(run[w].o, run[w].leak)
      <4>1. /\ status' = [status EXCEPT ![run[w].o] = status'[run[w].o]]
            /\ lease' = [lease EXCEPT ![run[w].o] = NoLease]
        <5>1. \E s : status' = [status EXCEPT ![run[w].o] = s]
          BY <3>3 DEF FailAttempt
        <5>2. run[w].o \in Orders
          BY <2>9 DEF RecordFailure, Typed, RunOK
        <5> QED BY <3>3, <5>1, <5>2 DEF FailAttempt, Release, Typed, TypeOK
      <4>2. \A v \in Workers : run[v].pc \in InT1b => run[v].o # run[w].o /\ run[v].o \in Orders
        BY <3>3 DEF RowLocked, Typed, RunOK, InT1b
      <4>3. \A v \in Workers \ {w} : run[v].pc \in InT1b =>
              status'[run[v].o] = status[run[v].o] /\ lease'[run[v].o] = lease[run[v].o]
        BY <4>1, <4>2 DEF Typed, TypeOK
      <4> QED BY <3>1, <4>3, RunLeaves
    <3> QED BY <2>9, <3>2, <3>3 DEF RecordFailure
  <2>10. CASE Crash(w)
    BY <2>10, RunLeaves DEF Crash, Run, Idle, sourceVars
  <2>11. CASE PassCheck(w)
    BY <2>11 DEF PassCheck, ReachesWriter, Typed, TypeOK, OneApplier, InT1b, HoldsLease, sourceVars
  <2> QED BY <1>2, <2>1, <2>2, <2>3, <2>4, <2>5, <2>6, <2>7, <2>8, <2>9, <2>10, <2>11 DEF WorkerStep, Commit
<1>3. ASSUME NEW o \in Orders, ExpireLease(o) PROVE OneApplier'
  BY <1>3, RowsKept DEF ExpireLease, FailAttempt, Release, Typed, TypeOK
<1>4. ASSUME NEW o \in Orders, BackoffElapses(o) \/ OperatorStep(o) PROVE OneApplier'
  <2>1. UNCHANGED run /\ UNCHANGED lease
    BY <1>4 DEF BackoffElapses, OperatorStep, Requeue, Dismiss, ReopenLegacy, sourceVars
  <2>2. \A p \in Orders : status[p] = "processing" => status'[p] = status[p]
    BY <1>4 DEF BackoffElapses, OperatorStep, Requeue, Dismiss, ReopenLegacy, Typed, TypeOK
  <2> QED BY <2>1, <2>2, RowsKept DEF RowLocked, OneApplier, HoldsLease
<1>5. CASE StaffStep \/ UNCHANGED vars
  BY <1>5, RowsKept DEF StaffStep, RegistryChanges, InboxOrder, BagCancelled, vars, sourceVars
<1> QED BY <1>1, <1>2, <1>3, <1>4, <1>5 DEF Next

(***************************************************************************)
(* Applied once.  Each bag write of a claim belongs to an applied source   *)
(* and each write of the old code to a saved order, so whoever is about to *)
(* write finds neither.                                                    *)
(***************************************************************************)
WrittenBy == \A t \in written :
  IF t[3] = NoLease THEN t[1] \in saved ELSE status[t[1]] = "applied"

\* The lines left out belong to applied sources too.
SkippedBy == \A t \in skipped : status[t[1]] = "applied"

AppliedInv == Typed /\ OneApplier /\ WrittenBy /\ SkippedBy /\ AppliedOnce

\* What the old code wrote is already saved, under no lease.
LEMMA AppliedInvInit == ASSUME OrderSourceAssumption, Init PROVE AppliedInv
<1>1. /\ \A t \in written : t[1] \in saved /\ t[3] = NoLease
      /\ skipped = {}
  BY DEF Init
<1> QED BY <1>1, TypedInit, OneApplierInit DEF AppliedInv, WrittenBy, SkippedBy, AppliedOnce

\* An applied source stays applied, and a saved order saved.
LEMMA AppliedStays == ASSUME Typed, OneApplier, [Next]_vars
                      PROVE  /\ saved \subseteq saved'
                             /\ \A o \in Orders : status[o] = "applied" => status'[o] = "applied"
<1> DEFINE Stays == /\ saved \subseteq saved'
                    /\ \A o \in Orders : status[o] = "applied" => status'[o] = "applied"
<1> USE DEF Typed, TypeOK
<1>1. ASSUME NEW d \in Deliveries, Deliver(d) PROVE Stays
  BY <1>1 DEF Deliver, CaptureOwner, CaptureDuplicate, CaptureInvalid, Redelivery, sourceVars, bagVars
<1>2. ASSUME NEW w \in Workers, run[w].pc \in InT1b, Commit(w) PROVE Stays
  <2>1. status[run[w].o] = "processing"
    BY <1>2 DEF OneApplier, HoldsLease
  <2>2. \A o \in Orders : status[o] = "applied" => status'[o] = "applied"
    BY <1>2, <2>1 DEF Commit, ApplyCommunityOnly, ApplyNoPhone, ApplyAlreadySaved, ApplyWrite, Finish
  <2> QED BY <1>2, <2>2 DEF Commit, ApplyCommunityOnly, ApplyNoPhone, ApplyAlreadySaved, ApplyWrite, bagVars
<1>3. ASSUME NEW w \in Workers, WorkerStep(w), ~Commit(w) PROVE Stays
  BY <1>3 DEF WorkerStep, Claim, Claimable, LeaseLost, BeginApply, PassCheck, ApplyError, RecordFailure, Crash,
              HoldsLease, FailAttempt, sourceVars, bagVars
<1>4. ASSUME NEW o \in Orders, ExpireLease(o) \/ BackoffElapses(o) \/ OperatorStep(o) PROVE Stays
  BY <1>4 DEF ExpireLease, FailAttempt, BackoffElapses, OperatorStep, Requeue, Dismiss, ReopenLegacy, bagVars
<1>5. CASE StaffStep \/ UNCHANGED vars
  BY <1>5 DEF StaffStep, RegistryChanges, InboxOrder, BagCancelled, vars, sourceVars, bagVars
<1>6. \A w \in Workers : Commit(w) => run[w].pc \in InT1b
  BY DEF Commit, ApplyCommunityOnly, ApplyNoPhone, ApplyAlreadySaved, ApplyWrite, InT1b
<1> QED BY <1>1, <1>2, <1>3, <1>4, <1>5, <1>6 DEF Next

\* Only one action writes, and all it writes carries its own token.
LEMMA WritesAreOneClaim ==
  ASSUME [Next]_vars
  PROVE  \/ UNCHANGED <<written, skipped>>
         \/ \E w \in Workers, composed \in BOOLEAN : ApplyWrite(w, composed)
BY DEF Next, Deliver, CaptureOwner, CaptureDuplicate, CaptureInvalid, Redelivery, WorkerStep, Claim, LeaseLost,
       BeginApply, PassCheck, Commit, ApplyCommunityOnly, ApplyNoPhone, ApplyAlreadySaved, ApplyError, RecordFailure,
       FailAttempt, Crash, ExpireLease, BackoffElapses, OperatorStep, Requeue, Dismiss, ReopenLegacy,
       StaffStep, RegistryChanges, InboxOrder, BagCancelled, vars, bagVars

\* No step writes for an order that has been written before.
LEMMA AppliedInvStep == ASSUME OrderSourceAssumption, AppliedInv, [Next]_vars PROVE AppliedInv'
<1> USE DEF AppliedInv
<1>1. Typed' /\ OneApplier'
  BY TypedStep, OneApplierStep
<1>2. /\ saved \subseteq saved'
      /\ \A o \in Orders : status[o] = "applied" => status'[o] = "applied"
  BY AppliedStays
<1>3. CASE UNCHANGED <<written, skipped>>
  BY <1>1, <1>2, <1>3 DEF WrittenBy, SkippedBy, AppliedOnce, Typed, TypeOK
<1>4. ASSUME NEW w \in Workers, NEW composed \in BOOLEAN, ApplyWrite(w, composed)
      PROVE  WrittenBy' /\ SkippedBy' /\ AppliedOnce'
  <2> DEFINE o == run[w].o
             new == {<<o, l, run[w].token>> : l \in run[w].grocery \cap Priced}
             out == {<<o, l>> : l \in run[w].grocery \ Priced}
  <2>1. /\ written' = written \cup new /\ skipped' = skipped \cup out /\ o \in Orders /\ o \notin saved
        /\ status[o] = "processing" /\ status'[o] = "applied" /\ run[w].token # NoLease
    BY <1>4 DEF ApplyWrite, AlreadySaved, Finish, OneApplier, InT1b, HoldsLease, Typed, TypeOK, RunOK
  <2>2. \A t \in written : t[1] # o
    BY <2>1 DEF WrittenBy
  <2>3. (\A t \in new : t[1] = o /\ t[3] = run[w].token) /\ (\A t \in out : t[1] = o)
    OBVIOUS
  <2> HIDE DEF new, out
  <2>4. WrittenBy'
    BY <1>2, <2>1, <2>3 DEF WrittenBy, Typed, TypeOK
  <2>5. AppliedOnce'
    BY <2>1, <2>2, <2>3 DEF AppliedOnce
  <2>6. SkippedBy'
    BY <1>2, <2>1, <2>3 DEF SkippedBy, Typed, TypeOK
  <2> QED BY <2>4, <2>5, <2>6
<1> QED BY <1>1, <1>3, <1>4, WritesAreOneClaim

\* No Shopify order reaches the bags by two claims, or by a claim and the old
\* code, however many runs, crashes, expired leases, requeues and reopenings.
THEOREM AppliedOnceHolds == Spec => []AppliedOnce
<1>1. Init => AppliedInv
  BY OrderSourceAssumption, AppliedInvInit
<1>2. AppliedInv /\ [Next]_vars => AppliedInv'
  BY OrderSourceAssumption, AppliedInvStep
<1>3. AppliedInv => AppliedOnce
  BY DEF AppliedInv
<1> QED BY <1>1, <1>2, <1>3, PTL DEF Spec

(***************************************************************************)
(* The attempt budget.  A source that has never been claimed has not used  *)
(* any of it: that is so of the orders still to come and of the backfilled *)
(* ones that an operator may reopen.                                       *)
(***************************************************************************)
Unused == \A o \in Orders :
  \/ status[o] = "none"
  \/ status[o] = "legacy" /\ legacyReason[o] \in ReopenReasons
  => attempts[o] = 0 /\ base[o] = 0

BudgetInv == Typed /\ OneApplier /\ Unused /\ BudgetBound

\* No source has used an attempt yet.
LEMMA BudgetInvInit == ASSUME OrderSourceAssumption, Init PROVE BudgetInv
<1>1. Unused /\ BudgetBound
  BY DEF OrderSourceAssumption, Init, Unused, BudgetBound, Used
<1> QED BY <1>1, TypedInit, OneApplierInit DEF BudgetInv

\* A step that claims nothing and makes no row claimable.
LEMMA BudgetKept ==
  ASSUME Typed, Unused, BudgetBound, attempts' = attempts, base' = base,
         \A o \in Orders : /\ status'[o] \in {"received", "retryable_error"} => status'[o] = status[o]
                           /\ status'[o] = "none" => status[o] = "none"
                           /\ status'[o] = "legacy" /\ legacyReason'[o] \in ReopenReasons =>
                                status[o] = "legacy" /\ legacyReason[o] \in ReopenReasons
  PROVE  Unused' /\ BudgetBound'
BY DEF Unused, BudgetBound, Used

\* recordFailure leaves a source claimable only while the budget lasts.
LEMMA FailAttemptBudget ==
  ASSUME OrderSourceAssumption, Typed, Unused, BudgetBound, NEW o \in Orders, status[o] = "processing",
         NEW leak, FailAttempt(o, leak)
  PROVE  Unused' /\ BudgetBound'
<1>1. /\ attempts' = attempts /\ base' = base /\ legacyReason' = legacyReason
      /\ status' = [status EXCEPT ![o] = IF OutOfBudget(o) \/ (leak /\ leakSeen[o]) THEN "review" ELSE "retryable_error"]
  BY DEF FailAttempt
<1>2. status'[o] = "retryable_error" => Used(o) < MaxAttempts
  BY <1>1 DEF OutOfBudget, Used, Typed, TypeOK, OrderSourceAssumption
<1> QED BY <1>1, <1>2 DEF Unused, BudgetBound, Used, Typed, TypeOK

\* Claims, failures, requeues and reopenings keep the budget.
LEMMA BudgetInvStep == ASSUME OrderSourceAssumption, BudgetInv, [Next]_vars PROVE BudgetInv'
<1> USE DEF BudgetInv
<1>1. Typed' /\ OneApplier'
  BY TypedStep, OneApplierStep
<1> SUFFICES Unused' /\ BudgetBound'
  BY <1>1
<1> USE DEF Typed
<1>2. ASSUME NEW d \in Deliveries, Deliver(d) PROVE Unused' /\ BudgetBound'
  <2>1. CASE CaptureOwner(d)
    BY <2>1 DEF CaptureOwner, Unused, BudgetBound, Used, TypeOK, OrderSourceAssumption
  <2>2. CASE UNCHANGED sourceVars
    BY <2>2, BudgetKept DEF sourceVars
  <2> QED BY <1>2, <2>1, <2>2 DEF Deliver, CaptureDuplicate, CaptureInvalid, Redelivery
<1>3. ASSUME NEW w \in Workers, WorkerStep(w) PROVE Unused' /\ BudgetBound'
  <2>1. ASSUME NEW o \in Orders, Claim(w, o) PROVE Unused' /\ BudgetBound'
    <3>1. /\ status[o] \in {"received", "retryable_error"} /\ base' = base /\ legacyReason' = legacyReason
          /\ status' = [status EXCEPT ![o] = "processing"] /\ attempts' = [attempts EXCEPT ![o] = @ + 1]
      BY <2>1 DEF Claim, Claimable
    <3>2. base[o] <= attempts[o] + 1 /\ (attempts[o] + 1) - base[o] <= MaxAttempts
      BY <3>1 DEF BudgetBound, Used, TypeOK, OrderSourceAssumption
    <3> QED BY <3>1, <3>2 DEF Unused, BudgetBound, Used, TypeOK
  <2>2. CASE Commit(w)
    <3>1. status[run[w].o] = "processing" /\ run[w].o \in Orders
      BY <2>2 DEF Commit, ApplyCommunityOnly, ApplyNoPhone, ApplyAlreadySaved, ApplyWrite,
                  OneApplier, InT1b, HoldsLease, RunOK
    <3>2. PICK s, b, e : s \in {"community_only", "review", "legacy", "applied"} /\ Finish(w, s, b, e)
      BY <2>2 DEF Commit, ApplyCommunityOnly, ApplyNoPhone, ApplyAlreadySaved, ApplyWrite
    <3>3. /\ attempts' = attempts /\ base' = base /\ status' = [status EXCEPT ![run[w].o] = s]
      BY <3>2 DEF Finish
    <3>4. \A o \in Orders : o # run[w].o => legacyReason'[o] = legacyReason[o]
      BY <2>2 DEF Commit, ApplyCommunityOnly, ApplyNoPhone, ApplyAlreadySaved, ApplyWrite, TypeOK
    <3>5. status'[run[w].o] = "legacy" => legacyReason'[run[w].o] \notin ReopenReasons
      BY <2>2, <3>1 DEF Commit, ApplyCommunityOnly, ApplyNoPhone, ApplyAlreadySaved, ApplyWrite, Finish, TypeOK, ReopenReasons
    <3> QED BY <3>1, <3>2, <3>3, <3>4, <3>5, BudgetKept DEF TypeOK
  <2>3. CASE RecordFailure(w)
    BY <2>3, FailAttemptBudget, BudgetKept DEF RecordFailure, HoldsLease, RunOK, sourceVars
  <2>4. CASE UNCHANGED sourceVars
    BY <2>4, BudgetKept DEF sourceVars
  <2> QED BY <1>3, <2>1, <2>2, <2>3, <2>4 DEF WorkerStep, LeaseLost, BeginApply, PassCheck, ApplyError, Crash
<1>4. ASSUME NEW o \in Orders, ExpireLease(o) \/ BackoffElapses(o) \/ OperatorStep(o)
      PROVE  Unused' /\ BudgetBound'
  <2>1. CASE ExpireLease(o)
    BY <2>1, FailAttemptBudget DEF ExpireLease
  <2>2. CASE BackoffElapses(o)
    BY <2>2, BudgetKept DEF BackoffElapses
  <2>3. CASE Requeue(o)
    BY <2>3 DEF Requeue, Unused, BudgetBound, Used, TypeOK, OrderSourceAssumption
  <2>4. CASE Dismiss(o)
    BY <2>4, BudgetKept DEF Dismiss, TypeOK
  <2>5. ASSUME NEW withBill \in BOOLEAN, ReopenLegacy(o, withBill) PROVE Unused' /\ BudgetBound'
    BY <2>5 DEF ReopenLegacy, Reopenable, Unused, BudgetBound, Used, TypeOK, OrderSourceAssumption
  <2> QED BY <1>4, <2>1, <2>2, <2>3, <2>4, <2>5 DEF OperatorStep
<1>5. CASE StaffStep \/ UNCHANGED vars
  BY <1>5, BudgetKept DEF StaffStep, RegistryChanges, InboxOrder, BagCancelled, vars, sourceVars
<1> QED BY <1>2, <1>3, <1>4, <1>5 DEF Next

\* However a source is failed, expired, requeued and reopened, no claim goes
\* beyond the budget its operator gave it, and a claimable row has budget left.
THEOREM BudgetHolds == Spec => []BudgetBound
<1>1. Init => BudgetInv
  BY OrderSourceAssumption, BudgetInvInit
<1>2. BudgetInv /\ [Next]_vars => BudgetInv'
  BY OrderSourceAssumption, BudgetInvStep
<1>3. BudgetInv => BudgetBound
  BY DEF BudgetInv
<1> QED BY <1>1, <1>2, <1>3, PTL DEF Spec

(***************************************************************************)
(* The rows of the table.  Four facts of one source, kept by each step     *)
(* that touches it: its first delivery is its own (so that a mirror never  *)
(* writes on another source's event), the CHECKs of the table, what its    *)
(* bill may be while it waits, and the event its status is mirrored to.    *)
(***************************************************************************)
FirstOwn(o) == IF status[o] = "none" THEN firstEvent[o] = NoDelivery
               ELSE firstEvent[o] \in Deliveries /\ OrderOf[firstEvent[o]] = o

\* Only a source that an operator reopened without a bill waits without one.
BillWaits(o) ==
  /\ status[o] # "none" => bill[o] # "none"
  /\ status[o] \in {"received", "processing", "retryable_error", "review"} /\ legacyReason[o] = "none"
       => bill[o] = "not_ready"

Mirrored(o) == status[o] # "none" => EventAgrees(o, event[firstEvent[o]])

RowOK(o) == FirstOwn(o) /\ RowChecks(o) /\ BillWaits(o) /\ Mirrored(o)
RowsOK == \A o \in Orders : RowOK(o)

RowInv == Typed /\ OneApplier /\ RowsOK

\* What the backfill leaves is in order.
LEMMA RowsInit == ASSUME OrderSourceAssumption, Init PROVE RowsOK
<1> SUFFICES ASSUME NEW o \in Orders PROVE RowOK(o)
  BY DEF RowsOK
<1>1. PICK old \in [Orders -> BackfillReasons \cup {"none"}], first \in [Orders -> Deliveries \cup {NoDelivery}] :
        /\ \A p \in Orders : IF old[p] = "none" THEN first[p] = NoDelivery
                                               ELSE first[p] \in Deliveries /\ OrderOf[first[p]] = p
        /\ legacyReason = old /\ firstEvent = first
        /\ status = [p \in Orders |-> IF old[p] = "none" THEN "none" ELSE "legacy"]
        /\ bill = [p \in Orders |-> IF old[p] = "none" THEN "none" ELSE "legacy"]
        /\ event = [d \in Deliveries |-> IF \E p \in Orders : first[p] = d
                                         THEN LegacyEvent(old[OrderOf[d]]) ELSE "absent"]
  BY DEF Init
<1>2. lease[o] = NoLease
  BY DEF Init
<1>3. FirstOwn(o) /\ RowChecks(o) /\ BillWaits(o)
  BY <1>1, <1>2 DEF FirstOwn, RowChecks, BillWaits
<1>4. Mirrored(o)
  BY <1>1 DEF Mirrored, EventAgrees, LegacyEvent, BackfillReasons
<1> QED BY <1>3, <1>4 DEF RowOK

\* Nothing of a row that a step leaves alone changes: its columns, nor the event of its own first delivery.
LEMMA RowKept ==
  ASSUME RowsOK, NEW p \in Orders,
         status'[p] = status[p], lease'[p] = lease[p], bill'[p] = bill[p], legacyReason'[p] = legacyReason[p],
         firstEvent'[p] = firstEvent[p], snapshot \subseteq snapshot',
         status[p] # "none" => event'[firstEvent[p]] = event[firstEvent[p]]
  PROVE  RowOK(p)'
BY DEF RowsOK, RowOK, FirstOwn, RowChecks, BillWaits, Mirrored, EventAgrees

\* A mirror writes on the event of its own source only.
LEMMA MirrorOwn ==
  ASSUME Typed, RowsOK, NEW o \in Orders, status[o] # "none", NEW e, Mirror(o, e)
  PROVE  /\ event'[firstEvent[o]] = e
         /\ \A p \in Orders : p # o /\ status[p] # "none" => event'[firstEvent[p]] = event[firstEvent[p]]
BY DEF Typed, TypeOK, RowsOK, RowOK, FirstOwn, Mirror

\* The outcomes of T1b: the four ways in which finishProcessing is called.
LEMMA FinishRows ==
  ASSUME RowInv, NEW w \in Workers, run[w].pc \in InT1b, NEW o, o = run[w].o,
         NEW s, NEW b, NEW e, Finish(w, s, b, e), snapshot \subseteq snapshot',
         \A p \in Orders : p # o => legacyReason'[p] = legacyReason[p],
         \/ /\ s = "community_only" /\ b = "not_required" /\ e = "processed"
            /\ legacyReason'[o] = legacyReason[o]
         \/ /\ s = "review" /\ b = bill[o] /\ e = "failed"
            /\ legacyReason'[o] = legacyReason[o]
         \/ /\ s = "legacy" /\ b = "legacy" /\ e = "ignored"
            /\ legacyReason'[o] = "persisted_before_cutover"
         \/ /\ s = "applied" /\ e = "processed"
            /\ b \in {"pending", "failed", "not_required"} /\ (b = "pending" => o \in snapshot')
            /\ legacyReason'[o] = legacyReason[o]
  PROVE  RowsOK'
<1>1. o \in Orders /\ status[o] = "processing"
  BY DEF RowInv, Typed, RunOK, OneApplier, InT1b, HoldsLease
<1>2. /\ status' = [status EXCEPT ![o] = s] /\ bill' = [bill EXCEPT ![o] = b]
      /\ lease' = [lease EXCEPT ![o] = NoLease] /\ firstEvent' = firstEvent /\ Mirror(o, e)
  BY DEF Finish, Release
<1>3. /\ event'[firstEvent[o]] = e
      /\ \A p \in Orders : p # o /\ status[p] # "none" => event'[firstEvent[p]] = event[firstEvent[p]]
  BY <1>1, <1>2, MirrorOwn DEF RowInv
<1>4. /\ status'[o] = s /\ bill'[o] = b /\ lease'[o] = NoLease /\ firstEvent'[o] = firstEvent[o]
      /\ \A p \in Orders : p # o => status'[p] = status[p] /\ bill'[p] = bill[p] /\ lease'[p] = lease[p]
                                    /\ firstEvent'[p] = firstEvent[p]
  BY <1>1, <1>2 DEF RowInv, Typed, TypeOK
<1>5. RowOK(o)
  BY <1>1 DEF RowInv, RowsOK
<1>6. FirstOwn(o)' /\ RowChecks(o)' /\ BillWaits(o)'
  BY <1>1, <1>4, <1>5 DEF RowOK, FirstOwn, RowChecks, BillWaits
<1>7. Mirrored(o)'
  BY <1>1, <1>3, <1>4 DEF Mirrored, EventAgrees
<1>8. \A p \in Orders : p # o => RowOK(p)'
  BY <1>3, <1>4, RowKept DEF RowInv
<1> QED BY <1>6, <1>7, <1>8 DEF RowsOK, RowOK

\* recordFailure leaves a row that waits, or one in review.
LEMMA FailAttemptRows ==
  ASSUME RowInv, NEW o \in Orders, status[o] = "processing", NEW leak, FailAttempt(o, leak)
  PROVE  RowsOK'
<1> DEFINE s == IF OutOfBudget(o) \/ (leak /\ leakSeen[o]) THEN "review" ELSE "retryable_error"
<1>1. /\ status' = [status EXCEPT ![o] = s] /\ lease' = [lease EXCEPT ![o] = NoLease]
      /\ UNCHANGED <<bill, legacyReason, firstEvent, snapshot>>
      /\ IF s = "review" THEN Mirror(o, "failed") ELSE event' = event
  BY DEF FailAttempt, Release
<1>2. s \in {"review", "retryable_error"}
  OBVIOUS
<1> HIDE DEF s
<1>3. /\ status'[o] = s /\ lease'[o] = NoLease
      /\ \A p \in Orders : p # o => status'[p] = status[p] /\ lease'[p] = lease[p]
  BY <1>1 DEF RowInv, Typed, TypeOK
<1>4. RowOK(o)
  BY DEF RowInv, RowsOK
<1>5. /\ event'[firstEvent[o]] = IF s = "review" THEN "failed" ELSE event[firstEvent[o]]
      /\ \A p \in Orders : p # o /\ status[p] # "none" => event'[firstEvent[p]] = event[firstEvent[p]]
  BY <1>1, MirrorOwn DEF RowInv
<1>6. FirstOwn(o)' /\ RowChecks(o)' /\ BillWaits(o)'
  BY <1>1, <1>2, <1>3, <1>4 DEF RowOK, FirstOwn, RowChecks, BillWaits
<1>7. Mirrored(o)'
  <2>1. event[firstEvent[o]] = "received"
    BY <1>4 DEF RowOK, Mirrored, EventAgrees
  <2>2. event'[firstEvent'[o]] = IF s = "review" THEN "failed" ELSE "received"
    BY <1>1, <1>5, <2>1
  <2> QED BY <1>2, <1>3, <2>2 DEF Mirrored, EventAgrees
<1>8. \A p \in Orders : p # o => RowOK(p)'
  BY <1>1, <1>3, <1>5, RowKept DEF RowInv
<1> QED BY <1>6, <1>7, <1>8 DEF RowsOK, RowOK

\* A delivery that is captured changes one row at most, and no event that a row is mirrored to.
LEMMA DeliverRows == ASSUME OrderSourceAssumption, RowInv, NEW d \in Deliveries, Deliver(d) PROVE RowsOK'
<1>1. CASE CaptureOwner(d)
  <2> DEFINE own == OrderOf[d]
  <2>1. PICK o \in Orders : o = own
    BY <1>1 DEF CaptureOwner
  <2>2. /\ event[d] = "absent" /\ status[o] = "none"
        /\ event' = [event EXCEPT ![d] = "received"]
        /\ firstEvent' = [firstEvent EXCEPT ![o] = d]
        /\ status' = [status EXCEPT ![o] = "received"] /\ bill' = [bill EXCEPT ![o] = "not_ready"]
        /\ UNCHANGED <<legacyReason, lease, snapshot>>
    BY <1>1, <2>1 DEF CaptureOwner
  <2>3. RowOK(o)'
    <3>1. /\ event'[d] = "received" /\ firstEvent'[o] = d /\ status'[o] = "received" /\ bill'[o] = "not_ready"
          /\ lease'[o] = NoLease
      BY <2>2 DEF RowInv, Typed, TypeOK, RowsOK, RowOK, RowChecks
    <3> QED BY <2>1, <3>1 DEF RowOK, FirstOwn, RowChecks, BillWaits, Mirrored, EventAgrees
  <2>4. ASSUME NEW p \in Orders, p # o PROVE RowOK(p)'
    <3>1. status[p] # "none" => firstEvent[p] \in Deliveries /\ firstEvent[p] # d
      BY <2>1, <2>4 DEF RowInv, RowsOK, RowOK, FirstOwn
    <3> QED BY <2>2, <2>4, <3>1, RowKept DEF RowInv, Typed, TypeOK
  <2> QED BY <2>3, <2>4 DEF RowsOK
<1>2. ASSUME event[d] = "absent", NEW e, event' = [event EXCEPT ![d] = e], UNCHANGED <<firstEvent, sourceVars>>
      PROVE  RowsOK'
  <2> SUFFICES ASSUME NEW p \in Orders PROVE RowOK(p)'
    BY DEF RowsOK
  <2>1. status[p] # "none" => firstEvent[p] # d
    BY <1>2 DEF RowInv, RowsOK, RowOK, RowChecks, Mirrored, EventAgrees, Typed, TypeOK, Statuses
  <2> QED BY <1>2, <2>1, RowKept DEF RowInv, Typed, TypeOK, sourceVars
<1>3. CASE Redelivery(d)
  BY <1>3, RowKept DEF Redelivery, RowInv, RowsOK, sourceVars
<1> QED BY <1>1, <1>2, <1>3 DEF Deliver, CaptureDuplicate, CaptureInvalid, RowInv, Typed, TypeOK

\* Whatever a run does, the rows stay in order.
LEMMA WorkerRows == ASSUME OrderSourceAssumption, RowInv, NEW w \in Workers, WorkerStep(w) PROVE RowsOK'
<1>1. ASSUME NEW o \in Orders, Claim(w, o) PROVE RowsOK'
  <2>1. /\ status[o] \in {"received", "retryable_error"}
        /\ status' = [status EXCEPT ![o] = "processing"] /\ lease' = [lease EXCEPT ![o] = attempts[o] + 1]
        /\ UNCHANGED <<event, firstEvent, bill, legacyReason, snapshot>>
    BY <1>1 DEF Claim, Claimable, eventVars
  <2>2. /\ status'[o] = "processing" /\ lease'[o] # NoLease
        /\ \A p \in Orders : p # o => status'[p] = status[p] /\ lease'[p] = lease[p]
    BY <2>1 DEF RowInv, Typed, TypeOK, NoLease
  <2>3. RowOK(o)'
    BY <2>1, <2>2 DEF RowInv, RowsOK, RowOK, FirstOwn, RowChecks, BillWaits, Mirrored, EventAgrees
  <2>4. \A p \in Orders : p # o => RowOK(p)'
    BY <2>1, <2>2, RowKept DEF RowInv
  <2> QED BY <2>3, <2>4 DEF RowsOK
<1>2. CASE UNCHANGED <<eventVars, sourceVars>>
  BY <1>2, RowKept DEF RowInv, RowsOK, eventVars, sourceVars
<1>3. CASE Commit(w)
  <2>1. run[w].pc \in InT1b /\ run[w].o \in Orders
    BY <1>3 DEF Commit, ApplyCommunityOnly, ApplyNoPhone, ApplyAlreadySaved, ApplyWrite, InT1b, RowInv, Typed, RunOK
  <2>2. PICK o \in Orders : o = run[w].o
    BY <2>1
  <2>3. /\ status[o] = "processing" /\ RowOK(o)
    BY <2>1, <2>2 DEF RowInv, OneApplier, HoldsLease, RowsOK
  <2>4. CASE ApplyCommunityOnly(w)
    BY <2>1, <2>2, <2>4, FinishRows DEF ApplyCommunityOnly
  <2>5. CASE ApplyNoPhone(w)
    BY <2>1, <2>2, <2>5, FinishRows DEF ApplyNoPhone
  <2>6. CASE ApplyAlreadySaved(w)
    <3>1. CASE Finish(w, "review", bill[o], "failed") /\ UNCHANGED legacyReason
      BY <2>1, <2>2, <2>6, <3>1, FinishRows DEF ApplyAlreadySaved
    <3>2. CASE /\ Finish(w, "legacy", "legacy", "ignored")
               /\ legacyReason' = [legacyReason EXCEPT ![o] = "persisted_before_cutover"]
      <4>1. /\ legacyReason'[o] = "persisted_before_cutover"
            /\ \A p \in Orders : p # o => legacyReason'[p] = legacyReason[p]
        BY <3>2 DEF RowInv, Typed, TypeOK
      <4> QED BY <2>1, <2>2, <2>6, <3>2, <4>1, FinishRows DEF ApplyAlreadySaved
    <3> QED BY <2>2, <2>6, <3>1, <3>2 DEF ApplyAlreadySaved
  <2>7. ASSUME NEW composed \in BOOLEAN, ApplyWrite(w, composed) PROVE RowsOK'
    <3> DEFINE b == IF bill[o] = "not_required" THEN bill[o] ELSE IF composed THEN "pending" ELSE "failed"
    <3>1. /\ Finish(w, "applied", b, "processed") /\ legacyReason' = legacyReason
          /\ snapshot' = IF composed THEN snapshot \cup {o} ELSE snapshot
      BY <2>2, <2>7 DEF ApplyWrite
    <3>2. b \in {"pending", "failed", "not_required"} /\ (b = "pending" => o \in snapshot')
      BY <3>1
    <3> HIDE DEF b
    <3> QED BY <2>1, <2>2, <3>1, <3>2, FinishRows
  <2> QED BY <1>3, <2>4, <2>5, <2>6, <2>7 DEF Commit
<1>4. CASE RecordFailure(w)
  BY <1>2, <1>4, FailAttemptRows DEF RecordFailure, HoldsLease, RowInv, Typed, RunOK
<1> QED BY <1>1, <1>2, <1>3, <1>4 DEF WorkerStep, LeaseLost, BeginApply, PassCheck, ApplyError, Crash

\* An operator's action on one source keeps its row in order, and touches no other.
LEMMA OperatorRows == ASSUME RowInv, NEW o \in Orders, OperatorStep(o) PROVE RowsOK'
<1>1. status[o] \in {"review", "legacy"} /\ RowOK(o)
  BY DEF OperatorStep, Requeue, Dismiss, ReopenLegacy, RowInv, RowsOK
<1>2. /\ \A p \in Orders : p # o => status'[p] = status[p] /\ bill'[p] = bill[p]
      /\ UNCHANGED <<firstEvent, lease, legacyReason, snapshot>>
  BY DEF OperatorStep, Requeue, Dismiss, ReopenLegacy, eventVars, RowInv, Typed, TypeOK
<1>3. \A p \in Orders : p # o /\ status[p] # "none" => event'[firstEvent[p]] = event[firstEvent[p]]
  BY <1>1, MirrorOwn DEF OperatorStep, Requeue, Dismiss, ReopenLegacy, eventVars, RowInv
<1>4. \A p \in Orders : p # o => RowOK(p)'
  BY <1>2, <1>3, RowKept DEF RowInv
<1>5. RowOK(o)'
  <2>1. CASE Requeue(o)
    <3>1. status'[o] = "received" /\ bill'[o] = bill[o] /\ event'[firstEvent[o]] = "received" /\ status[o] = "review"
      BY <1>1, <2>1, MirrorOwn DEF Requeue, RowInv, Typed, TypeOK
    <3> QED BY <1>1, <1>2, <3>1 DEF RowOK, FirstOwn, RowChecks, BillWaits, Mirrored, EventAgrees
  <2>2. CASE Dismiss(o)
    <3>1. status'[o] = "dismissed" /\ bill'[o] = "not_required" /\ event' = event /\ status[o] = "review"
      BY <2>2 DEF Dismiss, RowInv, Typed, TypeOK, eventVars
    <3> QED BY <1>1, <1>2, <3>1 DEF RowOK, FirstOwn, RowChecks, BillWaits, Mirrored, EventAgrees
  <2>3. ASSUME NEW withBill \in BOOLEAN, ReopenLegacy(o, withBill) PROVE RowOK(o)'
    <3>1. /\ status'[o] = "received" /\ bill'[o] = (IF withBill THEN "not_ready" ELSE "not_required")
          /\ event'[firstEvent[o]] = "received" /\ status[o] = "legacy" /\ legacyReason[o] # "none"
      BY <1>1, <2>3, MirrorOwn DEF ReopenLegacy, Reopenable, ReopenReasons, RowInv, Typed, TypeOK
    <3> QED BY <1>1, <1>2, <3>1 DEF RowOK, FirstOwn, RowChecks, BillWaits, Mirrored, EventAgrees
  <2> QED BY <2>1, <2>2, <2>3 DEF OperatorStep
<1> QED BY <1>4, <1>5 DEF RowsOK

\* After every step every row is in order.
LEMMA RowInvStep == ASSUME OrderSourceAssumption, RowInv, [Next]_vars PROVE RowInv'
<1>1. Typed' /\ OneApplier'
  BY TypedStep, OneApplierStep DEF RowInv
<1>2. ASSUME UNCHANGED <<event, firstEvent, status, legacyReason, lease, bill, snapshot>> PROVE RowsOK'
  <2>1. \A p \in Orders : RowOK(p)'
    BY <1>2, RowKept DEF RowInv
  <2> QED BY <2>1 DEF RowsOK
<1>3. ASSUME NEW o \in Orders, ExpireLease(o) PROVE RowsOK'
  BY <1>3, FailAttemptRows DEF ExpireLease
<1>4. ASSUME StaffStep \/ UNCHANGED vars \/ \E o \in Orders : BackoffElapses(o) PROVE RowsOK'
  BY <1>2, <1>4 DEF BackoffElapses, StaffStep, RegistryChanges, InboxOrder, BagCancelled, vars, eventVars, sourceVars
<1>5. RowsOK'
  BY <1>3, <1>4, DeliverRows, WorkerRows, OperatorRows DEF Next
<1> QED BY <1>1, <1>5 DEF RowInv

\* The rows are in order in every state.
LEMMA RowInvHolds == Spec => []RowInv
<1>1. Init => RowInv
  BY OrderSourceAssumption, TypedInit, OneApplierInit, RowsInit DEF RowInv
<1>2. RowInv /\ [Next]_vars => RowInv'
  BY OrderSourceAssumption, RowInvStep
<1> QED BY <1>1, <1>2, PTL DEF Spec

\* No step of the pipeline leaves a row that a CHECK of the table would refuse, and so none
\* of its transactions is rolled back by one: claims, outcomes, failures and the operator together.
THEOREM TableChecksHold == Spec => []TableChecks
<1>1. RowInv => TableChecks
  BY DEF RowInv, RowsOK, RowOK, TableChecks
<1> QED BY <1>1, RowInvHolds, PTL

\* After every transaction the first delivery's event shows what became of its source,
\* and no source is ever shown on another one's event.
THEOREM EventMirrorsSourceHolds == Spec => []EventMirrorsSource
<1>1. RowInv => EventMirrorsSource
  BY DEF RowInv, RowsOK, RowOK, Mirrored, EventMirrorsSource
<1> QED BY <1>1, RowInvHolds, PTL

(***************************************************************************)
(* Reviews.  An alert row is inserted by the very statement sequence that  *)
(* parks an order, and its key is the attempt, which does not move while   *)
(* the order is parked.                                                    *)
(***************************************************************************)
ReviewInv == Typed /\ OneApplier /\ ReviewIsAlerted

\* A step that parks nothing, or raises the alert of what it parks.
LEMMA ReviewKept ==
  ASSUME ReviewIsAlerted, alerts \subseteq alerts',
         \A o \in Orders : status'[o] = "review" =>
            attempts'[o] = attempts[o] /\ (status[o] = "review" \/ ReviewAlert(o) \in alerts')
  PROVE  ReviewIsAlerted'
BY DEF ReviewIsAlerted, ReviewAlert

\* recordFailure raises the alert in the transaction that gives the order up.
LEMMA FailAttemptAlerts ==
  ASSUME ReviewInv, NEW o \in Orders, NEW leak, FailAttempt(o, leak)
  PROVE  ReviewIsAlerted'
BY ReviewKept DEF FailAttempt, RaiseReview, ReviewInv, Typed, TypeOK

\* The forms in which T1b ends: what it writes on the row, and why.
Outcome(w, s, b, e) ==
  /\ Finish(w, s, b, e) /\ s \in {"community_only", "review", "legacy", "applied"}
  /\ \/ b = bill[run[w].o]
     \/ b = "not_required" /\ s = "community_only"
     \/ b = "legacy" /\ legacyReason[run[w].o] = "none"
     \/ b \in {"pending", "failed"} /\ s = "applied" /\ bill[run[w].o] # "not_required"
  /\ \A q \in Orders : legacyReason'[q] # legacyReason[q] => q = run[w].o /\ legacyReason[q] = "none"
  /\ alerts \subseteq alerts' /\ (s = "review" => ReviewAlert(run[w].o) \in alerts')

\* Each commit of T1b has one of these forms.
LEMMA CommitForm == ASSUME Typed, NEW w \in Workers, Commit(w) PROVE \E s, b, e : Outcome(w, s, b, e)
<1>1. CASE ApplyCommunityOnly(w)
  <2>1. Outcome(w, "community_only", "not_required", "processed")
    BY <1>1 DEF ApplyCommunityOnly, Outcome
  <2> QED BY <2>1
<1>2. CASE ApplyNoPhone(w)
  <2>1. Outcome(w, "review", bill[run[w].o], "failed")
    BY <1>2 DEF ApplyNoPhone, RaiseReview, Outcome
  <2> QED BY <2>1
<1>3. CASE ApplyAlreadySaved(w)
  <2>1. CASE Finish(w, "review", bill[run[w].o], "failed") /\ RaiseReview(run[w].o) /\ UNCHANGED legacyReason
    <3>1. Outcome(w, "review", bill[run[w].o], "failed")
      BY <2>1 DEF RaiseReview, Outcome
    <3> QED BY <3>1
  <2>2. CASE /\ legacyReason[run[w].o] = "none" /\ Finish(w, "legacy", "legacy", "ignored")
             /\ legacyReason' = [legacyReason EXCEPT ![run[w].o] = "persisted_before_cutover"] /\ UNCHANGED alerts
    <3>1. \A q \in Orders : legacyReason'[q] # legacyReason[q] => q = run[w].o /\ legacyReason[q] = "none"
      BY <2>2 DEF Typed, TypeOK
    <3>2. Outcome(w, "legacy", "legacy", "ignored")
      BY <2>2, <3>1 DEF Outcome
    <3> QED BY <3>2
  <2> QED BY <1>3, <2>1, <2>2 DEF ApplyAlreadySaved
<1>4. ASSUME NEW composed \in BOOLEAN, ApplyWrite(w, composed) PROVE \E s, b, e : Outcome(w, s, b, e)
  <2> DEFINE bb == IF bill[run[w].o] = "not_required" THEN bill[run[w].o]
                   ELSE IF composed THEN "pending" ELSE "failed"
  <2>1. /\ Finish(w, "applied", bb, "processed") /\ alerts \subseteq alerts' /\ legacyReason' = legacyReason
    BY <1>4 DEF ApplyWrite
  <2>2. bb = bill[run[w].o] \/ (bb \in {"pending", "failed"} /\ bill[run[w].o] # "not_required")
    OBVIOUS
  <2> HIDE DEF bb
  <2>3. Outcome(w, "applied", bb, "processed")
    BY <2>1, <2>2 DEF Outcome
  <2> QED BY <2>3
<1> QED BY <1>1, <1>2, <1>3, <1>4 DEF Commit

\* No step parks an order in silence.
LEMMA ReviewInvStep == ASSUME OrderSourceAssumption, ReviewInv, [Next]_vars PROVE ReviewInv'
<1> USE DEF ReviewInv
<1>1. Typed' /\ OneApplier'
  BY TypedStep, OneApplierStep
<1> SUFFICES ReviewIsAlerted'
  BY <1>1
<1> USE DEF Typed, TypeOK
<1>2. CASE UNCHANGED <<status, attempts>> /\ alerts \subseteq alerts'
  BY <1>2, ReviewKept
<1>3. ASSUME NEW d \in Deliveries, Deliver(d) PROVE ReviewIsAlerted'
  BY <1>3, ReviewKept DEF Deliver, CaptureOwner, CaptureDuplicate, CaptureInvalid, Redelivery, sourceVars
<1>4. ASSUME NEW w \in Workers, WorkerStep(w) PROVE ReviewIsAlerted'
  <2>1. ASSUME NEW o \in Orders, Claim(w, o) PROVE ReviewIsAlerted'
    BY <2>1, ReviewKept DEF Claim
  <2>2. CASE Commit(w)
    <3>1. PICK s, b, e : Outcome(w, s, b, e)
      BY <2>2, CommitForm
    <3>2. /\ attempts' = attempts /\ status' = [status EXCEPT ![run[w].o] = s] /\ alerts \subseteq alerts'
          /\ s = "review" => ReviewAlert(run[w].o) \in alerts'
      BY <3>1 DEF Outcome, Finish
    <3> QED BY <3>2, ReviewKept
  <2>3. CASE RecordFailure(w)
    BY <1>2, <2>3, FailAttemptAlerts DEF RecordFailure, HoldsLease, RunOK, sourceVars
  <2>4. CASE UNCHANGED <<sourceVars, alerts>>
    BY <1>2, <2>4 DEF sourceVars
  <2> QED BY <1>4, <2>1, <2>2, <2>3, <2>4 DEF WorkerStep, LeaseLost, BeginApply, PassCheck, ApplyError, Crash
<1>5. ASSUME NEW o \in Orders, ExpireLease(o) \/ BackoffElapses(o) \/ OperatorStep(o) PROVE ReviewIsAlerted'
  <2>1. CASE ExpireLease(o)
    BY <2>1, FailAttemptAlerts DEF ExpireLease
  <2>2. CASE BackoffElapses(o)
    BY <1>2, <2>2 DEF BackoffElapses
  <2>3. CASE OperatorStep(o)
    BY <2>3, ReviewKept DEF OperatorStep, Requeue, Dismiss, ReopenLegacy
  <2> QED BY <1>5, <2>1, <2>2, <2>3
<1>6. CASE StaffStep \/ UNCHANGED vars
  BY <1>2, <1>6 DEF StaffStep, RegistryChanges, InboxOrder, BagCancelled, vars, sourceVars
<1> QED BY <1>3, <1>4, <1>5, <1>6 DEF Next

\* Whenever an order waits for a person, the alert of that very attempt is in the outbox,
\* however it got there and however often it was sent back.
THEOREM ReviewIsAlertedHolds == Spec => []ReviewIsAlerted
<1>1. Init => ReviewInv
  <2>1. Init => ReviewIsAlerted
    BY DEF Init, ReviewIsAlerted
  <2> QED BY <2>1, OrderSourceAssumption, TypedInit, OneApplierInit DEF ReviewInv
<1>2. ReviewInv /\ [Next]_vars => ReviewInv'
  BY OrderSourceAssumption, ReviewInvStep
<1>3. ReviewInv => ReviewIsAlerted
  BY DEF ReviewInv
<1> QED BY <1>1, <1>2, <1>3, PTL DEF Spec

(***************************************************************************)
(* What a step may never do.                                               *)
(***************************************************************************)

\* A row that a step leaves alone, but for what the guard does not look at.
LEMMA GuardIdle ==
  ASSUME Typed, NEW o \in Orders,
         status'[o] = status[o], bill'[o] = bill[o], legacyReason'[o] = legacyReason[o],
         firstEvent'[o] = firstEvent[o], attempts'[o] = attempts[o], base'[o] = base[o]
  PROVE  GuardAccepts(o)
BY DEF GuardAccepts, Typed, TypeOK

\* The updates of T1b, T1c and the claim.
LEMMA GuardWorker ==
  ASSUME OrderSourceAssumption, RowInv, NEW w \in Workers, WorkerStep(w), NEW p \in Orders
  PROVE  GuardAccepts(p)
<1> USE DEF RowInv, Typed, TypeOK
<1>1. ASSUME NEW o \in Orders, Claim(w, o) PROVE GuardAccepts(p)
  <2>1. CASE p = o
    BY <1>1, <2>1 DEF Claim, Claimable, GuardAccepts, StatusEdges, eventVars
  <2>2. CASE p # o
    BY <1>1, <2>2, GuardIdle DEF Claim, eventVars
  <2> QED BY <2>1, <2>2
<1>2. CASE UNCHANGED <<eventVars, sourceVars>>
  BY <1>2, GuardIdle DEF eventVars, sourceVars
<1>3. CASE Commit(w)
  <2>1. PICK o \in Orders : o = run[w].o /\ status[o] = "processing" /\ RowOK(o)
    BY <1>3 DEF Commit, ApplyCommunityOnly, ApplyNoPhone, ApplyAlreadySaved, ApplyWrite, OneApplier, InT1b,
                HoldsLease, RunOK, RowsOK
  <2>2. PICK s, b, e : Outcome(w, s, b, e)
    BY <1>3, CommitForm
  <2>3. /\ status' = [status EXCEPT ![o] = s] /\ bill' = [bill EXCEPT ![o] = b]
        /\ UNCHANGED <<firstEvent, attempts, base>>
    BY <2>1, <2>2 DEF Outcome, Finish
  <2>4. CASE p = o
    <3>1. bill[o] \in {"not_ready", "not_required"} /\ (legacyReason[o] = "none" => bill[o] = "not_ready")
      BY <2>1 DEF RowOK, RowChecks, BillWaits, Bills
    <3> QED BY <2>1, <2>2, <2>3, <2>4, <3>1 DEF Outcome, GuardAccepts, StatusEdges, BillEdges
  <2>5. CASE p # o
    BY <2>1, <2>2, <2>3, <2>5, GuardIdle DEF Outcome
  <2> QED BY <2>4, <2>5
<1>4. ASSUME NEW o \in Orders, NEW leak, status[o] = "processing", FailAttempt(o, leak) PROVE GuardAccepts(p)
  <2>1. CASE p = o
    BY <1>4, <2>1 DEF FailAttempt, GuardAccepts, StatusEdges
  <2>2. CASE p # o
    BY <1>4, <2>2, GuardIdle DEF FailAttempt
  <2> QED BY <2>1, <2>2
<1>5. CASE RecordFailure(w)
  BY <1>2, <1>4, <1>5 DEF RecordFailure, HoldsLease, RunOK
<1> QED BY <1>1, <1>2, <1>3, <1>5 DEF WorkerStep, LeaseLost, BeginApply, PassCheck, ApplyError, Crash

\* The operator's updates and the sweeper's.
LEMMA GuardOperator ==
  ASSUME RowInv, BudgetBound, NEW o \in Orders, ExpireLease(o) \/ BackoffElapses(o) \/ OperatorStep(o), NEW p \in Orders
  PROVE  GuardAccepts(p)
<1> USE DEF RowInv, Typed, TypeOK
<1>1. CASE p # o
  BY <1>1, GuardIdle DEF ExpireLease, FailAttempt, BackoffElapses, OperatorStep, Requeue, Dismiss, ReopenLegacy, eventVars
<1>2. CASE p = o
  <2>1. RowOK(o) /\ base[o] <= attempts[o]
    BY DEF RowsOK, BudgetBound
  <2>2. CASE ExpireLease(o)
    BY <1>2, <2>2 DEF ExpireLease, FailAttempt, GuardAccepts, StatusEdges
  <2>3. CASE BackoffElapses(o)
    BY <2>3, GuardIdle DEF BackoffElapses, eventVars
  <2>4. CASE Requeue(o)
    BY <1>2, <2>1, <2>4 DEF Requeue, GuardAccepts, StatusEdges
  <2>5. CASE Dismiss(o)
    <3>1. bill[o] \in {"not_ready", "not_required"} /\ status[o] = "review"
      BY <2>1, <2>5 DEF Dismiss, RowOK, RowChecks, BillWaits, Bills
    <3> QED BY <1>2, <2>5, <3>1 DEF Dismiss, GuardAccepts, StatusEdges, BillEdges, eventVars
  <2>6. ASSUME NEW withBill \in BOOLEAN, ReopenLegacy(o, withBill) PROVE GuardAccepts(o)
    <3>1. bill[o] = "legacy" /\ status[o] = "legacy" /\ legacyReason[o] \in ReopenReasons
      BY <2>1, <2>6 DEF ReopenLegacy, Reopenable, RowOK, RowChecks
    <3> QED BY <2>6, <3>1 DEF ReopenLegacy, GuardAccepts, StatusEdges, BillEdges
  <2> QED BY <1>2, <2>2, <2>3, <2>4, <2>5, <2>6 DEF OperatorStep
<1> QED BY <1>1, <1>2

\* The guard trigger refuses no update of the pipeline: every change of a live row follows
\* its edges, keeps its first delivery and its reason, and never takes an attempt back.
THEOREM SourceGuardHolds == Spec => SourceGuard
<1>1. ASSUME RowInv, BudgetInv, [Next]_vars, NEW p \in Orders, status[p] # "none", ~UNCHANGED vars
      PROVE  GuardAccepts(p)
  <2>1. ASSUME NEW d \in Deliveries, Deliver(d) PROVE GuardAccepts(p)
    BY <1>1, <2>1, GuardIdle DEF Deliver, CaptureOwner, CaptureDuplicate, CaptureInvalid, Redelivery, sourceVars,
                                 RowInv, Typed, TypeOK
  <2>2. ASSUME StaffStep PROVE GuardAccepts(p)
    BY <1>1, <2>2, GuardIdle DEF StaffStep, RegistryChanges, InboxOrder, BagCancelled, eventVars, sourceVars, RowInv
  <2> QED BY <1>1, <2>1, <2>2, OrderSourceAssumption, GuardWorker, GuardOperator DEF Next, BudgetInv
<1>2. RowInv /\ BudgetInv /\ [Next]_vars => [\A o \in Orders : status[o] # "none" => GuardAccepts(o)]_vars
  BY <1>1
<1>3. Spec => []BudgetInv
  <2>1. Init => BudgetInv
    BY OrderSourceAssumption, BudgetInvInit
  <2>2. BudgetInv /\ [Next]_vars => BudgetInv'
    BY OrderSourceAssumption, BudgetInvStep
  <2> QED BY <2>1, <2>2, PTL DEF Spec
<1> QED BY <1>2, <1>3, RowInvHolds, PTL DEF Spec, SourceGuard

(***************************************************************************)
(* The promise.  OrderSource implements OrderPromise: the capture of an    *)
(* order opens it, one of T1b's outcomes applies it, all that T1 and the   *)
(* operator do otherwise sets it aside, and every other step stutters.     *)
(* Beside the invariants above this needs to know that Community never     *)
(* took a line that is not in the payload, and that what a transaction     *)
(* split off for the bag is.                                               *)
(***************************************************************************)
TakenFromPayload == \A o \in Orders, l \in Lines : <<o, l>> \in intake => l \in Payload(o)
SplitFromPayload == \A w \in Workers : run[w].pc \in InT1b =>
  /\ run[w].grocery \subseteq Payload(run[w].o)
  /\ \A l \in run[w].grocery : <<run[w].o, l>> \notin intake

PromiseInv == AppliedInv /\ RowInv /\ TakenFromPayload /\ SplitFromPayload

\* A payload stays what it is once its order is known.
LEMMA PayloadStays ==
  ASSUME RowInv, [Next]_vars, NEW o \in Orders, status[o] # "none"
  PROVE  firstEvent'[o] = firstEvent[o]
<1>1. CASE UNCHANGED firstEvent
  BY <1>1
<1>2. ASSUME NEW d \in Deliveries, CaptureOwner(d) PROVE firstEvent'[o] = firstEvent[o]
  BY <1>2 DEF CaptureOwner, RowInv, Typed, TypeOK
<1> QED BY <1>1, <1>2 DEF Next, Deliver, CaptureDuplicate, CaptureInvalid, Redelivery, WorkerStep, Claim, LeaseLost,
       BeginApply, PassCheck, Commit, ApplyCommunityOnly, ApplyNoPhone, ApplyAlreadySaved, ApplyWrite, Finish, ApplyError,
       RecordFailure, FailAttempt, Crash, ExpireLease, BackoffElapses, OperatorStep, Requeue, Dismiss, ReopenLegacy,
       StaffStep, RegistryChanges, InboxOrder, BagCancelled, vars, eventVars

\* Only a capture, from the payload it brings, and an outcome of T1b, from the payload it
\* split, give lines to Community.
LEMMA IntakeGrows ==
  ASSUME RowInv, SplitFromPayload, [Next]_vars
  PROVE  \/ UNCHANGED intake
         \/ \E d \in Deliveries : CaptureOwner(d)
         \/ \E w \in Workers : Commit(w) /\ CaptureLines(w)
<1>1. ASSUME NEW d \in Deliveries, Deliver(d) PROVE UNCHANGED intake \/ CaptureOwner(d)
  BY <1>1 DEF Deliver, CaptureDuplicate, CaptureInvalid, Redelivery, lineVars
<1>2. ASSUME NEW w \in Workers, WorkerStep(w) PROVE UNCHANGED intake \/ (Commit(w) /\ CaptureLines(w))
  <2>1. CASE Commit(w)
    <3>1. PICK s, b, e : Outcome(w, s, b, e)
      BY <2>1, CommitForm DEF RowInv
    <3> QED BY <2>1, <3>1 DEF Outcome, Finish
  <2>2. CASE ~Commit(w)
    BY <1>2, <2>2 DEF WorkerStep, Claim, LeaseLost, BeginApply, PassCheck, ApplyError, RecordFailure, FailAttempt, Crash,
                      lineVars
  <2> QED BY <2>1, <2>2
<1>3. ASSUME NEW o \in Orders, ExpireLease(o) \/ BackoffElapses(o) \/ OperatorStep(o) PROVE UNCHANGED intake
  BY <1>3 DEF ExpireLease, FailAttempt, BackoffElapses, OperatorStep, Requeue, Dismiss, ReopenLegacy, lineVars
<1>4. CASE StaffStep \/ UNCHANGED vars
  BY <1>4 DEF StaffStep, RegistryChanges, InboxOrder, BagCancelled, vars, lineVars
<1> QED BY <1>1, <1>2, <1>3, <1>4 DEF Next

\* Community's lines stay lines of the payload.
LEMMA TakenStep == ASSUME OrderSourceAssumption, PromiseInv, [Next]_vars PROVE TakenFromPayload'
<1> SUFFICES ASSUME NEW o \in Orders, NEW l \in Lines, <<o, l>> \in intake' PROVE l \in Payload(o)'
  BY DEF TakenFromPayload
<1>1. ASSUME <<o, l>> \in intake PROVE l \in Payload(o)'
  <2>1. l \in Payload(o)
    BY <1>1 DEF PromiseInv, TakenFromPayload
  <2>2. status[o] # "none"
    BY <2>1 DEF PromiseInv, RowInv, RowsOK, RowOK, FirstOwn, Payload
  <2> QED BY <2>1, <2>2, PayloadStays DEF PromiseInv, Payload
<1>2. ASSUME <<o, l>> \notin intake, NEW d \in Deliveries, CaptureOwner(d) PROVE l \in Payload(o)'
  <2>1. /\ firstEvent' = [firstEvent EXCEPT ![OrderOf[d]] = d] /\ OrderOf[d] \in Orders
        /\ intake' = intake \cup {<<OrderOf[d], k>> : k \in {m \in LinesOf[d] : IsCommunity(OrderOf[d], m)}}
    BY <1>2 DEF CaptureOwner
  <2>2. o = OrderOf[d] /\ l \in LinesOf[d]
    BY <1>2, <2>1
  <2>3. firstEvent'[o] = d /\ d # NoDelivery
    BY <2>1, <2>2, OrderSourceAssumption DEF OrderSourceAssumption, PromiseInv, RowInv, Typed, TypeOK
  <2> QED BY <2>2, <2>3 DEF Payload
<1>3. ASSUME <<o, l>> \notin intake, NEW w \in Workers, Commit(w), CaptureLines(w) PROVE l \in Payload(o)'
  <2>1. o = run[w].o /\ l \in Payload(o)
    BY <1>3 DEF CaptureLines
  <2>2. status[o] # "none"
    BY <2>1 DEF PromiseInv, RowInv, RowsOK, RowOK, FirstOwn, Payload
  <2> QED BY <2>1, <2>2, PayloadStays DEF PromiseInv, Payload
<1> QED BY <1>1, <1>2, <1>3, IntakeGrows DEF PromiseInv

\* An outcome of T1b ends the run's transaction.
LEMMA CommitEnds == ASSUME Typed, NEW w \in Workers, Commit(w) PROVE run'[w].pc \notin InT1b
<1>1. PICK s, b, e : Outcome(w, s, b, e)
  BY CommitForm
<1>2. run' = [run EXCEPT ![w] = Idle] \/ run' = [run EXCEPT ![w] = Failing(w, FALSE)]
  BY <1>1 DEF Outcome, Finish, Committed
<1>3. Failing(w, FALSE).pc = "failed" /\ Idle.pc = "idle"
  BY DEF Failing, Idle, Run
<1> QED BY <1>2, <1>3 DEF Typed, TypeOK, InT1b

\* While a transaction applies an order, Community takes no line of it.
LEMMA IntakeHeld ==
  ASSUME PromiseInv, [Next]_vars, NEW w \in Workers, run[w].pc \in InT1b, run'[w].pc \in InT1b,
         NEW l, <<run[w].o, l>> \in intake'
  PROVE  <<run[w].o, l>> \in intake
<1> USE DEF PromiseInv, RowInv
<1>1. status[run[w].o] = "processing"
  BY DEF OneApplier, HoldsLease
<1>2. ASSUME NEW d \in Deliveries, CaptureOwner(d) PROVE <<run[w].o, l>> \in intake
  <2>1. OrderOf[d] # run[w].o
    BY <1>1, <1>2 DEF CaptureOwner
  <2>2. intake' = intake \cup {<<OrderOf[d], k>> : k \in {m \in LinesOf[d] : IsCommunity(OrderOf[d], m)}}
    BY <1>2 DEF CaptureOwner
  <2> QED BY <2>1, <2>2
<1>3. ASSUME NEW v \in Workers, Commit(v), CaptureLines(v) PROVE <<run[w].o, l>> \in intake
  <2>1. v # w
    BY <1>3, CommitEnds
  <2>2. run[v].pc \in InT1b
    BY <1>3 DEF Commit, ApplyCommunityOnly, ApplyNoPhone, ApplyAlreadySaved, ApplyWrite, InT1b
  <2>3. run[v].o # run[w].o
    BY <2>1, <2>2 DEF OneApplier
  <2> QED BY <1>3, <2>3 DEF CaptureLines
<1> QED BY <1>2, <1>3, IntakeGrows

\* What an open transaction split off for the bag stays within the payload, and out of Community's hands.
LEMMA SplitStep == ASSUME OrderSourceAssumption, PromiseInv, [Next]_vars PROVE SplitFromPayload'
<1> SUFFICES ASSUME NEW w \in Workers, run'[w].pc \in InT1b
             PROVE  /\ run'[w].grocery \subseteq (Payload(run[w].o))'
                    /\ \A l \in run'[w].grocery : <<run'[w].o, l>> \notin intake'
  BY DEF SplitFromPayload, InT1b, Payload
<1> USE DEF PromiseInv, RowInv, Typed
<1>1. ASSUME run[w].pc \in InT1b, run'[w].o = run[w].o, run'[w].grocery = run[w].grocery
      PROVE  /\ run'[w].grocery \subseteq (Payload(run[w].o))'
             /\ \A l \in run'[w].grocery : <<run'[w].o, l>> \notin intake'
  <2>1. /\ run[w].o \in Orders /\ status[run[w].o] = "processing" /\ run[w].grocery \subseteq Payload(run[w].o)
        /\ \A l \in run[w].grocery : <<run[w].o, l>> \notin intake
    BY <1>1 DEF SplitFromPayload, OneApplier, InT1b, HoldsLease, RunOK
  <2>2. \A l \in run[w].grocery : <<run[w].o, l>> \notin intake'
    BY <1>1, <2>1, IntakeHeld
  <2>3. firstEvent'[run[w].o] = firstEvent[run[w].o]
    BY <2>1, PayloadStays
  <2> QED BY <1>1, <2>1, <2>2, <2>3 DEF Payload
<1>2. CASE BeginApply(w)
  BY <1>2 DEF BeginApply, Run, TypeOK, Payload, IsCommunity, eventVars, lineVars
<1>4. CASE run'[w] = run[w]
  BY <1>1, <1>4
<1>5. CASE PassCheck(w)
  BY <1>1, <1>5 DEF PassCheck, ReachesWriter, InT1b, TypeOK
<1>3. run'[w] = run[w] \/ BeginApply(w) \/ PassCheck(w)
  <2>1. ASSUME NEW v \in Workers, WorkerStep(v) PROVE run'[w] = run[w] \/ BeginApply(w) \/ PassCheck(w)
    <3>1. CASE v # w
      <4>1. CASE Commit(v)
        <5>1. PICK s, b, e : Outcome(v, s, b, e)
          BY <4>1, CommitForm
        <5>2. PICK seen : run' = [run EXCEPT ![v] = seen]
          BY <5>1 DEF Outcome, Finish, Committed
        <5> QED BY <3>1, <5>2 DEF TypeOK
      <4>2. ASSUME NEW r, run' = [run EXCEPT ![v] = r] PROVE run'[w] = run[w]
        BY <3>1, <4>2 DEF TypeOK
      <4>3. CASE LeaseLost(v) \/ RecordFailure(v) \/ Crash(v) \/ BeginApply(v)
        BY <4>2, <4>3 DEF LeaseLost, RecordFailure, Crash, BeginApply
      <4>4. CASE ApplyError(v) \/ \E o \in Orders : Claim(v, o)
        BY <4>2, <4>4 DEF ApplyError, Claim
      <4>5. CASE PassCheck(v)
        BY <3>1, <4>5 DEF PassCheck, TypeOK
      <4> QED BY <2>1, <4>1, <4>3, <4>4, <4>5 DEF WorkerStep
    <3>2. CASE v = w /\ ~BeginApply(w) /\ ~PassCheck(w)
      <4>1. \A leak \in BOOLEAN : Failing(w, leak).pc = "failed"
        BY DEF Failing, Run
      <4>2. Idle.pc = "idle" /\ \A o \in Orders : Run("leased", o, attempts[o] + 1, {}, FALSE).pc = "leased"
        BY DEF Idle, Run
      <4>3. CASE \E o \in Orders : Claim(w, o)
        BY <4>2, <4>3 DEF Claim, TypeOK, InT1b
      <4>4. CASE Commit(w)
        BY <4>4, CommitEnds
      <4>5. CASE ApplyError(w)
        BY <4>1, <4>5 DEF ApplyError, TypeOK, InT1b
      <4>6. CASE LeaseLost(w) \/ RecordFailure(w) \/ Crash(w)
        BY <4>2, <4>6 DEF LeaseLost, RecordFailure, Crash, TypeOK, InT1b
      <4> QED BY <2>1, <3>2, <4>3, <4>4, <4>5, <4>6 DEF WorkerStep
    <3> QED BY <3>1, <3>2
  <2>2. CASE UNCHANGED run
    BY <2>2
  <2> QED BY <2>1, <2>2 DEF Next, Deliver, CaptureOwner, CaptureDuplicate, CaptureInvalid, Redelivery, ExpireLease,
        BackoffElapses, OperatorStep, Requeue, Dismiss, ReopenLegacy, StaffStep, RegistryChanges, InboxOrder,
        BagCancelled, vars
<1> QED BY <1>2, <1>3, <1>4, <1>5

\* A step that OrderPromise does not see.
LEMMA Unseen ==
  ASSUME \A o \in Orders : PhaseOf(o)' = PhaseOf(o), \A o \in Orders : Payload(o)' = Payload(o),
         UNCHANGED <<intake, written, skipped>>
  PROVE  UNCHANGED Promise!vars
<1>1. UNCHANGED phaseBar /\ UNCHANGED contentBar
  BY DEF phaseBar, contentBar
<1>2. UNCHANGED communityBar /\ UNCHANGED baggedBar /\ UNCHANGED skippedBar
  BY DEF communityBar, baggedBar, skippedBar
<1> QED BY <1>1, <1>2 DEF Promise!vars

\* Lines given to Community for one order.
LEMMA Taking ==
  ASSUME NEW o \in Orders, NEW S, intake' = intake \cup {<<o, l>> : l \in S}, TakenFromPayload'
  PROVE  Promise!Take(o)
<1>1. communityBar[o] \subseteq (communityBar')[o]
  BY DEF communityBar
<1>2. (communityBar')[o] \subseteq (contentBar')[o]
  BY DEF communityBar, contentBar, TakenFromPayload
<1>3. communityBar' = [communityBar EXCEPT ![o] = (communityBar')[o]]
  <2>1. ASSUME NEW p \in Orders, p # o PROVE (communityBar')[p] = communityBar[p]
    BY <2>1 DEF communityBar
  <2> QED BY <2>1 DEF communityBar
<1> QED BY <1>1, <1>2, <1>3 DEF Promise!Take

\* A step that takes one order out of its phase, or leaves it there, and changes no other's.
LEMMA OnePhase ==
  ASSUME NEW o \in Orders, NEW q, PhaseOf(o)' = q, \A p \in Orders : p # o => PhaseOf(p)' = PhaseOf(p)
  PROVE  phaseBar' = [phaseBar EXCEPT ![o] = q] /\ (phaseBar')[o] = q
BY DEF phaseBar

\* An order is set aside: a try without effect on the bag, or its end.
LEMMA Aside ==
  ASSUME NEW o \in Orders, PhaseOf(o) = "open", PhaseOf(o)' \in {"open", "closed"},
         \A p \in Orders : p # o => PhaseOf(p)' = PhaseOf(p), \A p \in Orders : Payload(p)' = Payload(p),
         UNCHANGED <<written, skipped>>, NEW S, intake' = intake \cup {<<o, l>> : l \in S}, TakenFromPayload'
  PROVE  Promise!SetAside(o)
<1>1. phaseBar[o] = "open"
  BY DEF phaseBar
<1>2. phaseBar' \in {phaseBar, [phaseBar EXCEPT ![o] = "closed"]}
  <2>1. CASE PhaseOf(o)' = "open"
    BY <2>1 DEF phaseBar
  <2>2. CASE PhaseOf(o)' = "closed"
    BY <2>2, OnePhase
  <2> QED BY <2>1, <2>2
<1>3. UNCHANGED contentBar /\ UNCHANGED baggedBar /\ UNCHANGED skippedBar
  BY DEF contentBar, baggedBar, skippedBar
<1>4. Promise!Take(o)
  BY Taking
<1> QED BY <1>1, <1>2, <1>3, <1>4 DEF Promise!SetAside

\* A captured order is opened with the payload of its first delivery.
LEMMA Opening ==
  ASSUME OrderSourceAssumption, PromiseInv, TakenFromPayload', NEW d \in Deliveries, CaptureOwner(d)
  PROVE  Promise!Next
<1>1. PICK o \in Orders : o = OrderOf[d]
  BY DEF CaptureOwner
<1>2. /\ status[o] = "none" /\ status' = [status EXCEPT ![o] = "received"]
      /\ firstEvent' = [firstEvent EXCEPT ![o] = d] /\ UNCHANGED <<legacyReason, written, skipped>>
      /\ intake' = intake \cup {<<o, l>> : l \in {k \in LinesOf[d] : IsCommunity(o, k)}}
  BY <1>1 DEF CaptureOwner, bagVars
<1>3. phaseBar[o] = "unknown" /\ phaseBar' = [phaseBar EXCEPT ![o] = "open"]
  <2>1. PhaseOf(o) = "unknown" /\ PhaseOf(o)' = "open" /\ \A p \in Orders : p # o => PhaseOf(p)' = PhaseOf(p)
    BY <1>2 DEF PhaseOf, PromiseInv, RowInv, Typed, TypeOK
  <2> QED BY <2>1, OnePhase DEF phaseBar
<1>4. contentBar' = [contentBar EXCEPT ![o] = (contentBar')[o]] /\ (contentBar')[o] \subseteq Lines
  <2>1. /\ \A p \in Orders : p # o => Payload(p)' = Payload(p)
        /\ Payload(o)' \subseteq Lines
    BY <1>2, OrderSourceAssumption DEF Payload, PromiseInv, RowInv, Typed, TypeOK, OrderSourceAssumption
  <2> QED BY <2>1 DEF contentBar
<1>5. UNCHANGED baggedBar /\ UNCHANGED skippedBar
  BY <1>2 DEF baggedBar, skippedBar
<1>6. Promise!Take(o)
  BY <1>2, Taking
<1> QED BY <1>3, <1>4, <1>5, <1>6 DEF Promise!Next, Promise!Open

\* The outcome that writes: each line that Community does not have, once.
LEMMA Applying ==
  ASSUME OrderSourceAssumption, PromiseInv, TakenFromPayload', NEW w \in Workers, NEW composed \in BOOLEAN,
         ApplyWrite(w, composed), \A p \in Orders : Payload(p)' = Payload(p)
  PROVE  Promise!Next
<1>1. PICK o \in Orders : o = run[w].o
  BY DEF ApplyWrite, PromiseInv, RowInv, Typed, RunOK
<1>2. PICK token : token = run[w].token
  OBVIOUS
<1>3. PICK grocery : grocery = run[w].grocery
  OBVIOUS
<1>4. /\ status[o] = "processing" /\ token # NoLease /\ grocery \subseteq Payload(o)
      /\ status' = [status EXCEPT ![o] = "applied"] /\ legacyReason' = legacyReason
      /\ written' = written \cup {<<o, l, token>> : l \in grocery \cap Priced}
      /\ skipped' = skipped \cup {<<o, l>> : l \in grocery \ Priced}
      /\ intake' = intake \cup {<<o, l>> : l \in Payload(o) \ grocery}
      /\ \A l \in grocery : <<o, l>> \notin intake
  BY <1>1, <1>2, <1>3 DEF ApplyWrite, InT1b, Finish, CaptureLines, PromiseInv, RowInv, OneApplier,
                          HoldsLease, SplitFromPayload
<1>5. phaseBar[o] = "open" /\ phaseBar' = [phaseBar EXCEPT ![o] = "applied"]
  <2>1. PhaseOf(o) = "open" /\ PhaseOf(o)' = "applied" /\ \A p \in Orders : p # o => PhaseOf(p)' = PhaseOf(p)
    BY <1>4 DEF PhaseOf, PromiseInv, RowInv, Typed, TypeOK
  <2> QED BY <2>1, OnePhase DEF phaseBar
<1> DEFINE bag == grocery \cap Priced
<1>6. (baggedBar')[o] = {<<l, token>> : l \in bag}
  <2>1. \A t \in written : t[1] = o => t[3] = NoLease
    BY <1>4 DEF PromiseInv, AppliedInv, WrittenBy
  <2>2. {u \in written' : u[1] = o /\ u[3] # NoLease} = {<<o, l, token>> : l \in bag}
    BY <1>4, <2>1
  <2> HIDE DEF bag
  <2>3. (baggedBar')[o] = {<<t[2], t[3]>> : t \in {u \in written' : u[1] = o /\ u[3] # NoLease}}
    BY DEF baggedBar
  <2>4. {<<t[2], t[3]>> : t \in {<<o, l, token>> : l \in bag}} = {<<l, token>> : l \in bag}
    <3>1. ASSUME NEW l \in bag PROVE <<l, token>> \in {<<t[2], t[3]>> : t \in {<<o, k, token>> : k \in bag}}
      <4>1. <<o, l, token>> \in {<<o, k, token>> : k \in bag}
        OBVIOUS
      <4>2. <<o, l, token>>[2] = l /\ <<o, l, token>>[3] = token
        OBVIOUS
      <4> QED BY <4>1, <4>2
    <3>2. ASSUME NEW t \in {<<o, k, token>> : k \in bag} PROVE <<t[2], t[3]>> \in {<<l, token>> : l \in bag}
      OBVIOUS
    <3> QED BY <3>1, <3>2
  <2> QED BY <2>2, <2>3, <2>4
<1>7. baggedBar' = [baggedBar EXCEPT ![o] = (baggedBar')[o]]
  <2>1. ASSUME NEW p \in Orders, p # o PROVE (baggedBar')[p] = baggedBar[p]
    BY <1>4, <2>1 DEF baggedBar
  <2> QED BY <2>1 DEF baggedBar
<1>8. (communityBar')[o] = Payload(o) \ grocery
  <2>1. Payload(o) \subseteq Lines
    BY PayloadLines, OrderSourceAssumption DEF PromiseInv, RowInv, Typed
  <2>2. \A l \in Lines : <<o, l>> \in intake => l \in Payload(o) \ grocery
    BY <1>4 DEF PromiseInv, TakenFromPayload
  <2> QED BY <1>4, <2>1, <2>2 DEF communityBar
<1>9. {c[1] : c \in (baggedBar')[o]} = (contentBar[o] \ (communityBar')[o]) \cap Priced
  <2>1. {c[1] : c \in {<<l, token>> : l \in bag}} = bag
    <3> HIDE DEF bag
    <3>1. ASSUME NEW l \in bag PROVE l \in {c[1] : c \in {<<k, token>> : k \in bag}}
      <4>1. <<l, token>> \in {<<k, token>> : k \in bag} /\ <<l, token>>[1] = l
        OBVIOUS
      <4> QED BY <4>1
    <3> QED BY <3>1
  <2>2. grocery = contentBar[o] \ (communityBar')[o]
    BY <1>4, <1>8 DEF contentBar
  <2> QED BY <1>6, <2>1, <2>2
<1>10. \A c, e \in (baggedBar')[o] : c[1] = e[1] => c = e
  BY <1>6
<1>11. UNCHANGED contentBar /\ Promise!Take(o)
  BY <1>4, Taking DEF contentBar
<1>12. skippedBar' = [skippedBar EXCEPT ![o] = (contentBar[o] \ (communityBar')[o]) \ Priced]
  <2>1. \A t \in skipped : t[1] # o
    BY <1>4 DEF PromiseInv, AppliedInv, SkippedBy
  <2>2. grocery = contentBar[o] \ (communityBar')[o] /\ grocery \subseteq Lines
    BY <1>4, <1>8, PayloadLines, OrderSourceAssumption DEF contentBar, PromiseInv, RowInv, Typed
  <2>3. (skippedBar')[o] = grocery \ Priced
    BY <1>4, <2>1, <2>2 DEF skippedBar
  <2>4. ASSUME NEW p \in Orders, p # o PROVE (skippedBar')[p] = skippedBar[p]
    BY <1>4, <2>4 DEF skippedBar
  <2> QED BY <2>2, <2>3, <2>4 DEF skippedBar
<1> QED BY <1>5, <1>7, <1>9, <1>10, <1>11, <1>12 DEF Promise!Next, Promise!Apply

\* The outcomes of T1b, as OrderPromise sees them.
LEMMA CommitRefines ==
  ASSUME OrderSourceAssumption, PromiseInv, TakenFromPayload', NEW w \in Workers, Commit(w),
         \A p \in Orders : Payload(p)' = Payload(p)
  PROVE  Promise!Next
<1>1. PICK o \in Orders : o = run[w].o /\ status[o] = "processing"
  BY DEF Commit, ApplyCommunityOnly, ApplyNoPhone, ApplyAlreadySaved, ApplyWrite, PromiseInv, RowInv, Typed,
         RunOK, OneApplier, InT1b, HoldsLease
<1>2. ASSUME NEW s, NEW b, NEW e, Finish(w, s, b, e), UNCHANGED <<written, skipped>>,
             \A p \in Orders : p # o => legacyReason'[p] = legacyReason[p],
             s \in {"community_only", "review"} \/ (s = "legacy" /\ legacyReason'[o] \notin ReopenReasons)
      PROVE  Promise!SetAside(o)
  <2>1. status' = [status EXCEPT ![o] = s] /\ intake' = intake \cup {<<o, l>> : l \in Payload(o) \ run[w].grocery}
    BY <1>1, <1>2 DEF Finish, CaptureLines
  <2>2. /\ PhaseOf(o) = "open" /\ PhaseOf(o)' \in {"open", "closed"}
        /\ \A p \in Orders : p # o => PhaseOf(p)' = PhaseOf(p)
    BY <1>1, <1>2, <2>1 DEF PhaseOf, PromiseInv, RowInv, Typed, TypeOK
  <2> QED BY <1>2, <2>1, <2>2, Aside
<1>3. CASE ApplyCommunityOnly(w)
  BY <1>2, <1>3 DEF ApplyCommunityOnly, bagVars, Promise!Next
<1>4. CASE ApplyNoPhone(w)
  BY <1>2, <1>4 DEF ApplyNoPhone, bagVars, Promise!Next
<1>5. CASE ApplyAlreadySaved(w)
  <2>1. CASE Finish(w, "review", bill[o], "failed") /\ UNCHANGED legacyReason
    BY <1>2, <1>5, <2>1 DEF ApplyAlreadySaved, bagVars, Promise!Next
  <2>2. CASE /\ Finish(w, "legacy", "legacy", "ignored")
             /\ legacyReason' = [legacyReason EXCEPT ![o] = "persisted_before_cutover"]
    <3>1. legacyReason'[o] \notin ReopenReasons /\ \A p \in Orders : p # o => legacyReason'[p] = legacyReason[p]
      BY <2>2 DEF ReopenReasons, PromiseInv, RowInv, Typed, TypeOK
    <3> QED BY <1>2, <1>5, <2>2, <3>1 DEF ApplyAlreadySaved, bagVars, Promise!Next
  <2> QED BY <1>1, <1>5, <2>1, <2>2 DEF ApplyAlreadySaved
<1> QED BY <1>3, <1>4, <1>5, Applying DEF Commit

\* Every step of the pipeline opens, applies or sets aside one order, or OrderPromise does not see it.
LEMMA PromiseRefined ==
  ASSUME OrderSourceAssumption, PromiseInv, TakenFromPayload', [Next]_vars PROVE [Promise!Next]_(Promise!vars)
<1> USE DEF PromiseInv, RowInv, Typed, TypeOK
<1>1. ASSUME NEW d \in Deliveries, CaptureOwner(d) PROVE Promise!Next
  BY <1>1, Opening
<1>2. ASSUME UNCHANGED firstEvent PROVE \A p \in Orders : Payload(p)' = Payload(p)
  BY <1>2 DEF Payload
<1>3. ASSUME NEW w \in Workers, Commit(w) PROVE Promise!Next
  <2>1. PICK s, b, e : Outcome(w, s, b, e)
    BY <1>3, CommitForm
  <2> QED BY <1>2, <1>3, <2>1, CommitRefines DEF Outcome, Finish
<1>4. ASSUME UNCHANGED <<firstEvent, status, legacyReason, intake, written, skipped>> PROVE UNCHANGED Promise!vars
  <2>1. \A p \in Orders : PhaseOf(p)' = PhaseOf(p)
    BY <1>4 DEF PhaseOf
  <2> QED BY <1>2, <1>4, <2>1, Unseen
<1>5. ASSUME NEW o \in Orders, PhaseOf(o) = "open", PhaseOf(o)' = "open", NEW s, status' = [status EXCEPT ![o] = s],
             UNCHANGED <<firstEvent, legacyReason, intake, written, skipped>>
      PROVE  UNCHANGED Promise!vars
  <2>1. \A p \in Orders : PhaseOf(p)' = PhaseOf(p)
    BY <1>5 DEF PhaseOf
  <2> QED BY <1>2, <1>5, <2>1, Unseen
<1>6. ASSUME NEW o \in Orders, status[o] = "processing", NEW leak, FailAttempt(o, leak) PROVE UNCHANGED Promise!vars
  <2>1. PICK s \in {"review", "retryable_error"} : status' = [status EXCEPT ![o] = s]
    BY <1>6 DEF FailAttempt
  <2>2. PhaseOf(o) = "open" /\ PhaseOf(o)' = "open"
    BY <1>6, <2>1 DEF PhaseOf
  <2> QED BY <1>5, <1>6, <2>1, <2>2 DEF FailAttempt, bagVars, lineVars
<1>7. ASSUME NEW d \in Deliveries, Deliver(d) PROVE [Promise!Next]_(Promise!vars)
  BY <1>1, <1>4, <1>7 DEF Deliver, CaptureDuplicate, CaptureInvalid, Redelivery, sourceVars, bagVars, lineVars
<1>8. ASSUME NEW w \in Workers, WorkerStep(w) PROVE [Promise!Next]_(Promise!vars)
  <2>1. ASSUME NEW o \in Orders, Claim(w, o) PROVE UNCHANGED Promise!vars
    <3>1. PhaseOf(o) = "open" /\ PhaseOf(o)' = "open"
      BY <2>1 DEF Claim, Claimable, PhaseOf
    <3> QED BY <1>5, <2>1, <3>1 DEF Claim, eventVars, bagVars, lineVars
  <2>2. CASE RecordFailure(w)
    BY <1>4, <1>6, <2>2 DEF RecordFailure, HoldsLease, RunOK, eventVars, sourceVars, bagVars, lineVars
  <2>3. CASE LeaseLost(w) \/ BeginApply(w) \/ PassCheck(w) \/ ApplyError(w) \/ Crash(w)
    BY <1>4, <2>3 DEF LeaseLost, BeginApply, PassCheck, ApplyError, Crash, eventVars, sourceVars, bagVars, lineVars
  <2> QED BY <1>3, <1>8, <2>1, <2>2, <2>3 DEF WorkerStep
<1>9. ASSUME NEW o \in Orders, OperatorStep(o) PROVE [Promise!Next]_(Promise!vars)
  <2>1. CASE Requeue(o)
    <3>1. PhaseOf(o) = "open" /\ PhaseOf(o)' = "open"
      BY <2>1 DEF Requeue, PhaseOf
    <3> QED BY <1>5, <2>1, <3>1 DEF Requeue, bagVars, lineVars
  <2>2. CASE Dismiss(o)
    <3>1. /\ PhaseOf(o) = "open" /\ PhaseOf(o)' = "closed"
          /\ \A p \in Orders : p # o => PhaseOf(p)' = PhaseOf(p)
      BY <2>2 DEF Dismiss, PhaseOf
    <3>2. \A p \in Orders : Payload(p)' = Payload(p)
      BY <1>2, <2>2 DEF Dismiss, eventVars
    <3>3. intake' = intake \cup {<<o, l>> : l \in {}} /\ UNCHANGED <<written, skipped>>
      BY <2>2 DEF Dismiss, bagVars, lineVars
    <3> QED BY <3>1, <3>2, <3>3, Aside DEF Promise!Next
  <2>3. ASSUME NEW withBill \in BOOLEAN, ReopenLegacy(o, withBill) PROVE UNCHANGED Promise!vars
    <3>1. PhaseOf(o) = "open" /\ PhaseOf(o)' = "open"
      BY <2>3 DEF ReopenLegacy, Reopenable, PhaseOf
    <3> QED BY <1>5, <2>3, <3>1 DEF ReopenLegacy, bagVars, lineVars
  <2> QED BY <1>9, <2>1, <2>2, <2>3 DEF OperatorStep
<1>10. ASSUME NEW o \in Orders, ExpireLease(o) \/ BackoffElapses(o) PROVE UNCHANGED Promise!vars
  BY <1>4, <1>6, <1>10 DEF ExpireLease, BackoffElapses, eventVars, bagVars, lineVars
<1>11. CASE StaffStep \/ UNCHANGED vars
  BY <1>4, <1>11 DEF StaffStep, RegistryChanges, InboxOrder, BagCancelled, vars, eventVars, sourceVars, bagVars, lineVars
<1> QED BY <1>7, <1>8, <1>9, <1>10, <1>11 DEF Next

\* The backfilled orders, as OrderPromise sees them.
LEMMA PromiseInit == ASSUME OrderSourceAssumption, Init PROVE Promise!Init /\ TakenFromPayload
<1>1. TakenFromPayload
  <2>1. \A o \in Orders : legacyReason[o] # "none" => firstEvent[o] \in Deliveries
    BY DEF Init
  <2>2. \A p \in intake : legacyReason[p[1]] \in ReopenReasons /\ p[2] \in LinesOf[firstEvent[p[1]]]
    BY DEF Init
  <2>3. ASSUME NEW o \in Orders, NEW l \in Lines, <<o, l>> \in intake PROVE l \in Payload(o)
    <3>1. legacyReason[o] \in ReopenReasons /\ l \in LinesOf[firstEvent[o]]
      BY <2>2, <2>3
    <3>2. firstEvent[o] # NoDelivery
      BY <2>1, <3>1, OrderSourceAssumption DEF ReopenReasons
    <3> QED BY <3>1, <3>2 DEF Payload
  <2> QED BY <2>3 DEF TakenFromPayload
<1>2. phaseBar \in [Orders -> {"unknown", "open", "closed"}]
  <2>1. \A o \in Orders : status[o] # "applied"
    BY DEF Init
  <2> QED BY <2>1 DEF phaseBar, PhaseOf
<1>3. contentBar \in [Orders -> SUBSET Lines]
  BY TypedInit, PayloadLines DEF Typed, contentBar
<1>4. communityBar \in [Orders -> SUBSET Lines] /\ \A o \in Orders : communityBar[o] \subseteq contentBar[o]
  BY <1>1 DEF communityBar, contentBar, TakenFromPayload
<1>5. baggedBar = [o \in Orders |-> {}]
  <2>1. \A t \in written : t[3] = NoLease
    BY DEF Init
  <2> QED BY <2>1 DEF baggedBar
<1>6. skippedBar = [o \in Orders |-> {}]
  BY DEF Init, skippedBar
<1> QED BY <1>1, <1>2, <1>3, <1>4, <1>5, <1>6 DEF Promise!Init

\* The pipeline keeps its promise: one of an order's payloads is its content, and at one moment, once, each
\* of its lines is with Community, goes into the bag, or is put on record as a line without a price, whatever
\* runs, leases, failures and operators do.
THEOREM KeepsPromiseHolds == Spec => KeepsPromise
<1>1. Init => PromiseInv /\ Promise!Init
  <2>1. Init => SplitFromPayload
    BY DEF Init, SplitFromPayload, InT1b, Run, Idle
  <2> QED BY <2>1, OrderSourceAssumption, PromiseInit, AppliedInvInit, TypedInit, OneApplierInit, RowsInit
          DEF PromiseInv, RowInv
<1>2. PromiseInv /\ [Next]_vars => PromiseInv'
  BY OrderSourceAssumption, AppliedInvStep, RowInvStep, TakenStep, SplitStep DEF PromiseInv
<1>3. PromiseInv /\ PromiseInv' /\ [Next]_vars => [Promise!Next]_(Promise!vars)
  BY OrderSourceAssumption, PromiseRefined DEF PromiseInv
<1> QED BY <1>1, <1>2, <1>3, PTL DEF Spec, KeepsPromise, Promise!Spec

(***************************************************************************)
(* One home.  A source's lines are written by the outcome that makes it    *)
(* applied, which gives the others to Community; after that no capture and *)
(* no outcome concerns it.                                                 *)
(***************************************************************************)

\* What is in a bag stays out of Community's hands, and the other way round.
LEMMA OneHomeStep == ASSUME OrderSourceAssumption, PromiseInv, OneHome, [Next]_vars PROVE OneHome'
<1> SUFFICES ASSUME NEW t \in written', t[3] # NoLease, <<t[1], t[2]>> \in intake' PROVE FALSE
  BY DEF OneHome
<1> USE DEF PromiseInv, RowInv
<1>1. CASE t \in written
  <2>1. <<t[1], t[2]>> \notin intake /\ status[t[1]] = "applied"
    BY <1>1 DEF OneHome, AppliedInv, WrittenBy
  <2>2. ASSUME NEW d \in Deliveries, CaptureOwner(d) PROVE FALSE
    <3>1. /\ status[OrderOf[d]] = "none"
          /\ intake' = intake \cup {<<OrderOf[d], k>> : k \in {m \in LinesOf[d] : IsCommunity(OrderOf[d], m)}}
      BY <2>2 DEF CaptureOwner
    <3> QED BY <2>1, <3>1
  <2>3. ASSUME NEW w \in Workers, Commit(w), CaptureLines(w) PROVE FALSE
    <3>1. status[run[w].o] = "processing"
      BY <2>3 DEF Commit, ApplyCommunityOnly, ApplyNoPhone, ApplyAlreadySaved, ApplyWrite, InT1b, OneApplier, HoldsLease
    <3> QED BY <2>1, <2>3, <3>1 DEF CaptureLines
  <2> QED BY <2>1, <2>2, <2>3, IntakeGrows
<1>2. ASSUME t \notin written, NEW w \in Workers, NEW composed \in BOOLEAN, ApplyWrite(w, composed) PROVE FALSE
  <2>1. /\ run[w].pc \in InT1b /\ \E l \in run[w].grocery : t = <<run[w].o, l, run[w].token>>
        /\ intake' = intake \cup {<<run[w].o, l>> : l \in Payload(run[w].o) \ run[w].grocery}
    BY <1>2 DEF ApplyWrite, Finish, CaptureLines, InT1b
  <2>2. \A l \in run[w].grocery : <<run[w].o, l>> \notin intake
    BY <2>1 DEF SplitFromPayload
  <2> QED BY <2>1, <2>2
<1> QED BY <1>1, <1>2, WritesAreOneClaim

\* No line of an order is both in a bag and with Community, whatever becomes of the registry
\* between the capture, the tries and the write.
THEOREM OneHomeHolds == Spec => []OneHome
<1>1. Init => PromiseInv /\ OneHome
  <2>1. Init => SplitFromPayload /\ OneHome
    BY DEF Init, SplitFromPayload, InT1b, Run, Idle, OneHome
  <2> QED BY <2>1, OrderSourceAssumption, PromiseInit, AppliedInvInit, TypedInit, OneApplierInit, RowsInit
          DEF PromiseInv, RowInv
<1>2. PromiseInv /\ OneHome /\ [Next]_vars => PromiseInv' /\ OneHome'
  BY OrderSourceAssumption, AppliedInvStep, RowInvStep, TakenStep, SplitStep, OneHomeStep DEF PromiseInv
<1> QED BY <1>1, <1>2, PTL DEF Spec
=============================================================================
