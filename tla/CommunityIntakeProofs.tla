------------------------- MODULE CommunityIntakeProofs -------------------------
(***************************************************************************)
(* Theorems about CommunityIntake, for every registry, every set of lines  *)
(* and processes, and every number of attempts.                            *)
(***************************************************************************)
EXTENDS CommunityIntake, TLAPS

\* A process that is not idle has a line in hand.
InHand == \A w \in Workers : sweep[w].pc # "idle" => sweep[w].line \in Lines

\* A line that is not decided has attempts left.
AttemptsLeft == \A l \in Lines : intake[l].status \notin Decided => intake[l].attempts < MAX_ATTEMPTS

\* The row lock of an attempt: the line is pending until the attempt ends, and
\* in no other process's hands.
Holds(w) == sweep[w].pc \in {"open", "looked"}
LockHolds ==
  \A w \in Workers : Holds(w) =>
    /\ intake[sweep[w].line].status \in Pending
    /\ \A u \in Workers \ {w} : Holds(u) => sweep[u].line # sweep[w].line

Typed == TypeOK /\ InHand /\ AttemptsLeft /\ LockHolds

\* The registry and the intake start empty.
LEMMA TypedInit == ASSUME CommunityAssumption, Init PROVE Typed
<1>1. /\ product \in [Products -> Product]
      /\ variant \in [Variants -> Variant]
      /\ audited \in [Products \cup Variants -> AuditActions]
      /\ registering \subseteq Products
  BY DEF CommunityAssumption, Init, Product, Variant, AuditActions, ShopStatuses
<1>2. /\ intake \in [Lines -> Intake]
      /\ due \subseteq Lines
      /\ requeued \in [Lines -> 0..MaxRequeues]
      /\ faults \in 0..MaxFaults
  BY DEF CommunityAssumption, Init, Intake, Statuses, Reasons
<1>3. sweep \in [Workers -> Sweep] /\ InHand
  BY DEF Init, Sweep, NoSweep, Steps, InHand
<1>4. AttemptsLeft
  BY DEF CommunityAssumption, Init, AttemptsLeft
<1>5. LockHolds
  BY DEF Init, LockHolds, Holds, NoSweep
<1> QED BY <1>1, <1>2, <1>3, <1>4, <1>5 DEF Typed, TypeOK

(***************************************************************************)
(* Types, one action at a time.                                            *)
(***************************************************************************)

\* The registry's actions leave lines and sweeps alone.
LEMMA RegistryOnly ==
  ASSUME CommunityAssumption, Typed, UNCHANGED <<intake, due, sweep, requeued, faults>>,
         product' \in [Products -> Product], variant' \in [Variants -> Variant],
         audited' \in [Products \cup Variants -> AuditActions], registering' \subseteq Products
  PROVE  Typed'
BY DEF Typed, TypeOK, InHand, AttemptsLeft, LockHolds, Holds

LEMMA UpsertTyped ==
  ASSUME CommunityAssumption, Typed, NEW p \in Products, NEW existing \in BOOLEAN, NEW marked \in BOOLEAN,
         NEW st \in {"listed", "archived"}, NEW missing \in BOOLEAN,
         NEW listed \in SUBSET VariantsOf(p), NEW sku \in [listed -> Skus],
         UpsertProduct(p, existing, marked, st, sku, listed, missing)
  PROVE  Typed'
<1> DEFINE signals == marked \/ \E v \in listed : sku[v] \in CommunitySkus
<1>1. signals \in BOOLEAN
  OBVIOUS
<1>2. product' \in [Products -> Product]
  <2>1. product' = [product EXCEPT ![p] = [known |-> TRUE, active |-> Active(product[p].active, signals),
                                           signals |-> signals, status |-> st]]
    BY DEF UpsertProduct
  <2>2. Active(product[p].active, signals) \in BOOLEAN
    BY <1>1 DEF Active
  <2>3. [known |-> TRUE, active |-> Active(product[p].active, signals), signals |-> signals, status |-> st] \in Product
    BY <1>1, <2>2 DEF Product, ShopStatuses
  <2> QED BY <2>1, <2>3 DEF Typed, TypeOK
<1>3. variant' \in [Variants -> Variant]
  <2> SUFFICES ASSUME NEW v \in Variants PROVE variant'[v] \in Variant
    BY DEF UpsertProduct
  <2>1. variant[v] \in Variant
    BY DEF Typed, TypeOK
  <2>2. CASE v \in listed
    BY <2>1, <2>2 DEF UpsertProduct, Variant
  <2>3. CASE v \notin listed
    <3>1. variant'[v] = [variant[v] EXCEPT !.present = variant[v].present /\ ~(missing /\ ProductOf[v] = p)]
      BY <2>3 DEF UpsertProduct
    <3> QED BY <2>1, <3>1 DEF Variant
  <2> QED BY <2>2, <2>3
<1>4. audited' \in [Products \cup Variants -> AuditActions]
  BY DEF UpsertProduct, Typed, TypeOK, AuditActions
<1>5. registering' \subseteq Products
  BY DEF UpsertProduct, Typed, TypeOK
<1>6. UNCHANGED <<intake, due, sweep, requeued, faults>>
  BY DEF UpsertProduct
<1> QED BY <1>2, <1>3, <1>4, <1>5, <1>6, RegistryOnly

LEMMA DeleteTyped ==
  ASSUME CommunityAssumption, Typed, NEW p \in Products, MarkProductDeleted(p)
  PROVE  Typed'
<1>1. product' \in [Products -> Product]
  <2>1. product[p] \in Product /\ product' = [product EXCEPT ![p] = [product[p] EXCEPT !.status = "deleted"]]
    BY DEF MarkProductDeleted, Typed, TypeOK
  <2>2. [product[p] EXCEPT !.status = "deleted"] \in Product
    BY <2>1 DEF Product, ShopStatuses
  <2> QED BY <2>1, <2>2 DEF Typed, TypeOK
<1>2. variant' \in [Variants -> Variant]
  <2> SUFFICES ASSUME NEW v \in Variants PROVE variant'[v] \in Variant
    BY DEF MarkProductDeleted
  <2>1. variant[v] \in Variant /\ variant'[v] = [variant[v] EXCEPT !.present = variant[v].present /\ ProductOf[v] # p]
    BY DEF MarkProductDeleted, Typed, TypeOK
  <2> QED BY <2>1 DEF Variant
<1> QED BY <1>1, <1>2, RegistryOnly DEF MarkProductDeleted, Typed, TypeOK

\* Switching a product or a variant on or off keeps the registry's types.
LEMMA SwitchedProduct ==
  ASSUME TypeOK, NEW p \in Products, NEW b \in BOOLEAN, product' = [product EXCEPT ![p].active = b]
  PROVE  product' \in [Products -> Product]
<1>1. product[p] \in Product /\ product' = [product EXCEPT ![p] = [product[p] EXCEPT !.active = b]]
  BY DEF TypeOK
<1>2. [product[p] EXCEPT !.active = b] \in Product
  BY <1>1 DEF Product
<1> QED BY <1>1, <1>2 DEF TypeOK

LEMMA SwitchedVariant ==
  ASSUME TypeOK, NEW v \in Variants, NEW b \in BOOLEAN, variant' = [variant EXCEPT ![v].active = b]
  PROVE  variant' \in [Variants -> Variant]
<1>1. variant[v] \in Variant /\ variant' = [variant EXCEPT ![v] = [variant[v] EXCEPT !.active = b]]
  BY DEF TypeOK
<1>2. [variant[v] EXCEPT !.active = b] \in Variant
  BY <1>1 DEF Variant
<1> QED BY <1>1, <1>2 DEF TypeOK

\* So does the audit row of an action.
LEMMA Audited ==
  ASSUME TypeOK, NEW x, NEW a \in AuditActions, audited' = [audited EXCEPT ![x] = a]
  PROVE  audited' \in [Products \cup Variants -> AuditActions]
BY DEF TypeOK

\* The intake's actions leave the registry alone.
LEMMA IntakeOnly ==
  ASSUME CommunityAssumption, Typed, UNCHANGED registryVars,
         intake' \in [Lines -> Intake], due' \subseteq Lines, sweep' \in [Workers -> Sweep],
         requeued' \in [Lines -> 0..MaxRequeues], faults' \in 0..MaxFaults,
         InHand', AttemptsLeft', LockHolds'
  PROVE  Typed'
BY DEF Typed, TypeOK, registryVars

\* One row of the intake is written by a step that takes or leaves no line.
LEMMA RowWritten ==
  ASSUME Typed, NEW l \in Lines, NEW row \in Intake, intake' = [intake EXCEPT ![l] = row],
         row.status \notin Decided => row.attempts < MAX_ATTEMPTS
  PROVE  intake' \in [Lines -> Intake] /\ AttemptsLeft'
BY DEF Typed, TypeOK, AttemptsLeft

LEMMA CaptureTyped ==
  ASSUME CommunityAssumption, Typed, NEW l \in Lines, Capture(l) PROVE Typed'
<1> DEFINE row == [intake[l] EXCEPT !.status = "received"]
<1>1. intake' = [intake EXCEPT ![l] = row] /\ intake[l] \in Intake
  BY DEF Capture, Typed, TypeOK
<1>2. row \in Intake
  BY <1>1 DEF Intake, Statuses
<1>3. row.attempts < MAX_ATTEMPTS
  BY <1>1 DEF Capture, Typed, AttemptsLeft, Decided, Intake
<1>4. intake' \in [Lines -> Intake] /\ AttemptsLeft'
  BY <1>1, <1>2, <1>3, RowWritten
<1>5. LockHolds'
  BY <1>1 DEF Capture, Typed, TypeOK, LockHolds, Holds, Pending, InHand, Sweep
<1>6. InHand' /\ due' \subseteq Lines
  BY DEF Capture, Typed, TypeOK, InHand
<1> QED BY <1>4, <1>5, <1>6, IntakeOnly DEF Capture, Typed, TypeOK

LEMMA RequeueTyped ==
  ASSUME CommunityAssumption, Typed, NEW l \in Lines, Requeue(l) PROVE Typed'
<1> DEFINE row == [status |-> "received", reason |-> "none", attempts |-> 0]
<1>1. intake' = [intake EXCEPT ![l] = row]
  BY DEF Requeue
<1>2. row \in Intake /\ row.attempts < MAX_ATTEMPTS
  BY DEF CommunityAssumption, Intake, Statuses, Reasons
<1>3. intake' \in [Lines -> Intake] /\ AttemptsLeft'
  BY <1>1, <1>2, RowWritten
<1>4. LockHolds'
  BY <1>1 DEF Requeue, Typed, TypeOK, LockHolds, Holds, Pending, InHand
<1>5. requeued' \in [Lines -> 0..MaxRequeues]
  BY DEF Requeue, Typed, TypeOK, CommunityAssumption
<1>6. InHand' /\ due' \subseteq Lines
  BY DEF Requeue, Typed, TypeOK, InHand
<1> QED BY <1>3, <1>4, <1>5, <1>6, IntakeOnly DEF Requeue, Typed, TypeOK

LEMMA BackoffTyped ==
  ASSUME CommunityAssumption, Typed, NEW l \in Lines, BackoffEnds(l) PROVE Typed'
<1>1. InHand' /\ AttemptsLeft' /\ LockHolds' /\ due' \subseteq Lines
  BY DEF BackoffEnds, Typed, TypeOK, InHand, AttemptsLeft, LockHolds, Holds
<1> QED BY <1>1, IntakeOnly DEF BackoffEnds, Typed, TypeOK

\* The state of a sweep that a step writes is well-typed, and so is every other.
LEMMA SweepWritten ==
  ASSUME Typed, NEW w \in Workers, NEW s \in Sweep, sweep' = [sweep EXCEPT ![w] = s],
         s.pc # "idle" => s.line \in Lines
  PROVE  sweep' \in [Workers -> Sweep] /\ InHand'
BY DEF Typed, TypeOK, InHand

\* A process that holds no line after its step disturbs no lock, as long as it
\* decides no line but the one it held.
LEMMA NothingHeld ==
  ASSUME Typed, NEW w \in Workers, NEW s, sweep' = [sweep EXCEPT ![w] = s],
         s.pc \notin {"open", "looked"},
         \A u \in Workers \ {w} : Holds(u) => intake'[sweep[u].line].status \in Pending
  PROVE  LockHolds'
BY DEF Typed, TypeOK, LockHolds, Holds

LEMMA RunOnceTyped ==
  ASSUME CommunityAssumption, Typed, NEW w \in Workers, RunOnce(w) PROVE Typed'
<1> DEFINE s == [sweep[w] EXCEPT !.todo = Due]
<1>0. sweep[w] \in Sweep /\ sweep[w].pc = "idle" /\ Due \subseteq Lines
  BY DEF RunOnce, At, Due, Typed, TypeOK
<1>1. sweep' = [sweep EXCEPT ![w] = s] /\ s \in Sweep /\ s.pc = "idle"
  <2>1. sweep' = [sweep EXCEPT ![w].todo = Due] /\ w \in DOMAIN sweep
    BY DEF RunOnce, Typed, TypeOK
  <2>2. s \in Sweep /\ s.pc = "idle"
    BY <1>0 DEF Sweep
  <2> QED BY <2>1, <2>2
<1>2. sweep' \in [Workers -> Sweep] /\ InHand'
  BY <1>1, SweepWritten
<1>3. LockHolds'
  BY <1>1, NothingHeld DEF RunOnce, Typed, LockHolds
<1> QED BY <1>2, <1>3, IntakeOnly DEF RunOnce, Typed, TypeOK, AttemptsLeft

LEMMA ClaimTyped ==
  ASSUME CommunityAssumption, Typed, NEW w \in Workers, NEW l \in Lines, Claim(w, l) PROVE Typed'
<1>1. CASE Claimable(l)
  <2> DEFINE s == [sweep[w] EXCEPT !.todo = sweep[w].todo \ {l}, !.pc = "open", !.line = l]
  <2>0. sweep[w] \in Sweep /\ sweep[w].pc = "idle"
    BY DEF Claim, Next1, At, Typed, TypeOK
  <2>1. sweep' = [sweep EXCEPT ![w] = s] /\ s \in Sweep /\ s.line = l /\ ~Holds(w)
    <3>1. sweep' = [sweep EXCEPT ![w] = s]
      BY <1>1 DEF Claim
    <3>2. s \in Sweep /\ s.line = l /\ ~Holds(w)
      BY <2>0 DEF Sweep, Steps, Holds
    <3> QED BY <3>1, <3>2
  <2>2. sweep' \in [Workers -> Sweep] /\ InHand'
    BY <2>1, SweepWritten
  <2>3. LockHolds'
    BY <1>1, <2>1 DEF Claim, Claimable, Locked, Typed, TypeOK, LockHolds, Holds
  <2> QED BY <2>2, <2>3, IntakeOnly DEF Claim, Typed, TypeOK, AttemptsLeft
<1>2. CASE ~Claimable(l)
  <2> DEFINE s == [sweep[w] EXCEPT !.todo = sweep[w].todo \ {l}, !.pc = "idle", !.line = NoLine]
  <2>0. sweep[w] \in Sweep
    BY DEF Typed, TypeOK
  <2>1. sweep' = [sweep EXCEPT ![w] = s] /\ s \in Sweep /\ s.pc = "idle"
    <3>1. sweep' = [sweep EXCEPT ![w] = s]
      BY <1>2 DEF Claim
    <3>2. s \in Sweep /\ s.pc = "idle"
      BY <2>0 DEF Sweep, Steps
    <3> QED BY <3>1, <3>2
  <2>2. sweep' \in [Workers -> Sweep] /\ InHand'
    BY <2>1, SweepWritten
  <2>3. LockHolds'
    BY <2>1, NothingHeld DEF Claim, Typed, LockHolds
  <2> QED BY <2>2, <2>3, IntakeOnly DEF Claim, Typed, TypeOK, AttemptsLeft
<1> QED BY <1>1, <1>2

LEMMA LookTyped ==
  ASSUME CommunityAssumption, Typed, NEW w \in Workers, Look(w) PROVE Typed'
<1> DEFINE s == [sweep[w] EXCEPT !.pc = "looked", !.fit = Fit(sweep[w].line)]
<1>1. Fit(sweep[w].line) \in BOOLEAN
  BY DEF Fit
<1>0. sweep[w] \in Sweep
  BY DEF Typed, TypeOK
<1>2. sweep' = [sweep EXCEPT ![w] = s] /\ s \in Sweep /\ s.line = sweep[w].line /\ Holds(w)
  <2>1. sweep' = [sweep EXCEPT ![w] = s] /\ Holds(w)
    BY DEF Look, At, Holds
  <2>2. s \in Sweep /\ s.line = sweep[w].line
    BY <1>0, <1>1 DEF Sweep, Steps
  <2> QED BY <2>1, <2>2
<1>3. sweep' \in [Workers -> Sweep] /\ InHand'
  BY <1>2, SweepWritten DEF Typed, InHand, Holds
<1>4. LockHolds'
  BY <1>2 DEF Look, Typed, TypeOK, LockHolds, Holds
<1> QED BY <1>3, <1>4, IntakeOnly DEF Look, Typed, TypeOK, AttemptsLeft

\* What Free writes.
LEMMA Freed ==
  ASSUME Typed, NEW w \in Workers, sweep' = Free(w)
  PROVE  \E s \in Sweep : sweep' = [sweep EXCEPT ![w] = s] /\ s.pc = "idle"
<1> DEFINE s == [sweep[w] EXCEPT !.pc = "idle", !.line = NoLine, !.fit = FALSE]
<1>1. sweep' = [sweep EXCEPT ![w] = s] /\ s \in Sweep /\ s.pc = "idle"
  BY DEF Free, Typed, TypeOK, Sweep, Steps
<1> QED BY <1>1

LEMMA CommitTyped ==
  ASSUME CommunityAssumption, Typed, NEW w \in Workers, Commit(w) PROVE Typed'
<1> DEFINE l == sweep[w].line
           row == [status |-> IF sweep[w].fit THEN "resolved" ELSE "review",
                   reason |-> IF sweep[w].fit THEN "none" ELSE "checked",
                   attempts |-> intake[l].attempts + 1]
<1>1. l \in Lines /\ intake[l] \in Intake /\ Holds(w)
  BY DEF Commit, At, Holds, Typed, TypeOK, InHand
<1>2. intake' = [intake EXCEPT ![l] = row]
  BY DEF Commit
<1>3. intake[l].attempts < MAX_ATTEMPTS
  BY <1>1 DEF Typed, LockHolds, AttemptsLeft, Pending, Decided
<1>4. row \in Intake /\ row.status \in Decided
  BY <1>1, <1>3 DEF CommunityAssumption, Intake, Statuses, Reasons, Decided
<1>5. intake' \in [Lines -> Intake] /\ AttemptsLeft'
  BY <1>1, <1>2, <1>4, RowWritten
<1>6. PICK s \in Sweep : sweep' = [sweep EXCEPT ![w] = s] /\ s.pc = "idle"
  BY Freed DEF Commit
<1>7. sweep' \in [Workers -> Sweep] /\ InHand'
  BY <1>6, SweepWritten
<1>8. \A u \in Workers \ {w} : Holds(u) => intake'[sweep[u].line].status \in Pending
  BY <1>1, <1>2 DEF Typed, TypeOK, LockHolds
<1>9. LockHolds'
  BY <1>6, <1>8, NothingHeld
<1> QED BY <1>5, <1>7, <1>9, IntakeOnly DEF Commit, Typed, TypeOK

LEMMA FailTyped ==
  ASSUME CommunityAssumption, Typed, NEW w \in Workers, Fail(w) PROVE Typed'
<1>1. PICK s \in Sweep : sweep' = [sweep EXCEPT ![w] = s] /\ s.pc = "failed" /\ s.line \in Lines
  <2>1. CASE Holds(w) /\ sweep' = [sweep EXCEPT ![w].pc = "failed", ![w].fit = FALSE]
    <3> DEFINE s == [sweep[w] EXCEPT !.pc = "failed", !.fit = FALSE]
    <3>1. sweep' = [sweep EXCEPT ![w] = s] /\ sweep[w] \in Sweep /\ sweep[w].line \in Lines
      BY <2>1 DEF Typed, TypeOK, InHand, Holds
    <3>2. s \in Sweep /\ s.pc = "failed" /\ s.line \in Lines
      BY <3>1 DEF Sweep, Steps
    <3> QED BY <3>1, <3>2
  <2>2. CASE \E l \in Lines : /\ Next1(w, l)
                             /\ sweep' = [sweep EXCEPT ![w].pc = "failed", ![w].line = l, ![w].todo = @ \ {l}]
    <3>1. PICK l \in Lines : /\ Next1(w, l)
                            /\ sweep' = [sweep EXCEPT ![w].pc = "failed", ![w].line = l, ![w].todo = @ \ {l}]
      BY <2>2
    <3> DEFINE s == [sweep[w] EXCEPT !.pc = "failed", !.line = l, !.todo = sweep[w].todo \ {l}]
    <3>2. sweep' = [sweep EXCEPT ![w] = s] /\ sweep[w] \in Sweep
      BY <3>1 DEF Typed, TypeOK
    <3>3. s \in Sweep /\ s.pc = "failed" /\ s.line \in Lines
      BY <3>2 DEF Sweep, Steps
    <3> QED BY <3>2, <3>3
  <2> QED BY <2>1, <2>2 DEF Fail, Holds
<1>2. sweep' \in [Workers -> Sweep] /\ InHand'
  BY <1>1, SweepWritten
<1>3. LockHolds'
  BY <1>1, NothingHeld DEF Fail, Typed, LockHolds
<1> QED BY <1>2, <1>3, IntakeOnly DEF Fail, Typed, TypeOK, AttemptsLeft

LEMMA RecordTyped ==
  ASSUME CommunityAssumption, Typed, NEW w \in Workers, Record(w) PROVE Typed'
<1> DEFINE l == sweep[w].line
<1>1. l \in Lines /\ intake[l] \in Intake /\ ~Locked(l)
  BY DEF Record, At, Typed, TypeOK, InHand
<1>2. PICK s \in Sweep : sweep' = [sweep EXCEPT ![w] = s] /\ s.pc = "idle"
  BY Freed DEF Record
<1>3. sweep' \in [Workers -> Sweep] /\ InHand'
  BY <1>2, SweepWritten
<1>4. CASE Recordable(l)
  <2>1. intake' = [intake EXCEPT ![l] = Failed(intake[l])] /\ due' = due \ {l}
    BY <1>4 DEF Record
  <2>2. intake[l].attempts < MAX_ATTEMPTS
    BY <1>1, <1>4 DEF Recordable, Pending, Decided, Typed, AttemptsLeft
  <2>3. Failed(intake[l]) \in Intake
    BY <1>1, <2>2 DEF CommunityAssumption, Failed, Exhausted, Intake, Statuses, Reasons
  <2>4. Failed(intake[l]).status \notin Decided => Failed(intake[l]).attempts < MAX_ATTEMPTS
    BY <1>1, <2>2 DEF CommunityAssumption, Failed, Exhausted, Intake, Decided
  <2>5. intake' \in [Lines -> Intake] /\ AttemptsLeft'
    BY <1>1, <2>1, <2>3, <2>4, RowWritten
  <2>6. \A u \in Workers \ {w} : Holds(u) => intake'[sweep[u].line].status \in Pending
    BY <1>1, <2>1 DEF Locked, Holds, Typed, TypeOK, LockHolds
  <2>7. LockHolds'
    BY <1>2, <2>6, NothingHeld
  <2> QED BY <1>3, <2>1, <2>5, <2>7, IntakeOnly DEF Record, Typed, TypeOK
<1>5. CASE ~Recordable(l)
  <2>1. UNCHANGED <<intake, due>>
    BY <1>5 DEF Record
  <2>2. LockHolds'
    BY <1>2, <2>1, NothingHeld DEF Typed, LockHolds
  <2> QED BY <1>3, <2>1, <2>2, IntakeOnly DEF Record, Typed, TypeOK, AttemptsLeft
<1> QED BY <1>4, <1>5

LEMMA DiesTyped ==
  ASSUME CommunityAssumption, Typed, NEW w \in Workers, SweepDies(w) PROVE Typed'
<1>1. sweep' = [sweep EXCEPT ![w] = NoSweep] /\ NoSweep \in Sweep /\ NoSweep.pc = "idle"
  BY DEF SweepDies, NoSweep, Sweep, Steps
<1>2. sweep' \in [Workers -> Sweep] /\ InHand'
  BY <1>1, SweepWritten
<1>3. LockHolds'
  BY <1>1, NothingHeld DEF SweepDies, Typed, LockHolds
<1>4. faults' \in 0..MaxFaults
  BY DEF SweepDies, Typed, TypeOK, CommunityAssumption
<1> QED BY <1>2, <1>3, <1>4, IntakeOnly DEF SweepDies, Typed, TypeOK, AttemptsLeft

LEMMA StutterTyped == ASSUME Typed, UNCHANGED vars PROVE Typed'
BY DEF vars, registryVars, Typed, TypeOK, InHand, AttemptsLeft, LockHolds, Holds

LEMMA TypedNext == ASSUME CommunityAssumption, Typed, [Next]_vars PROVE Typed'
<1>1. CASE ShopifyStep
  <2>1. ASSUME NEW p \in Products, FindNoRow(p) PROVE Typed'
    BY <2>1, RegistryOnly DEF FindNoRow, Typed, TypeOK
  <2>2. ASSUME NEW p \in Products, MarkProductDeleted(p) PROVE Typed'
    BY <2>2, DeleteTyped
  <2>3. ASSUME NEW l \in Lines, Capture(l) PROVE Typed'
    BY <2>3, CaptureTyped
  <2>4. ASSUME NEW p \in Products, NEW existing \in BOOLEAN, NEW marked \in BOOLEAN,
               NEW st \in {"listed", "archived"}, NEW missing \in BOOLEAN,
               NEW listed \in SUBSET VariantsOf(p), NEW sku \in [listed -> Skus],
               UpsertProduct(p, existing, marked, st, sku, listed, missing)
        PROVE  Typed'
    BY <2>4, UpsertTyped
  <2> QED BY <1>1, <2>1, <2>2, <2>3, <2>4 DEF ShopifyStep
<1>2. CASE OperatorStep
  <2>1. ASSUME NEW p \in Products, DeactivateProduct(p) \/ ReactivateProduct(p) PROVE Typed'
    BY <2>1, RegistryOnly, SwitchedProduct, Audited
       DEF DeactivateProduct, ReactivateProduct, Typed, TypeOK, AuditActions
  <2>2. ASSUME NEW v \in Variants, DeactivateVariant(v) \/ ReactivateVariant(v) PROVE Typed'
    BY <2>2, RegistryOnly, SwitchedVariant, Audited
       DEF DeactivateVariant, ReactivateVariant, Typed, TypeOK, AuditActions
  <2>3. ASSUME NEW l \in Lines, Requeue(l) PROVE Typed'
    BY <2>3, RequeueTyped
  <2> QED BY <1>2, <2>1, <2>2, <2>3 DEF OperatorStep
<1>3. ASSUME NEW w \in Workers, WorkerStep(w) \/ Fail(w) \/ SweepDies(w) PROVE Typed'
  BY <1>3, RunOnceTyped, ClaimTyped, LookTyped, CommitTyped, RecordTyped, FailTyped, DiesTyped
     DEF WorkerStep, ClaimNext
<1>4. ASSUME NEW l \in Lines, BackoffEnds(l) PROVE Typed'
  BY <1>4, BackoffTyped
<1> QED BY <1>1, <1>2, <1>3, <1>4, StutterTyped DEF Next

\* Every state has its declared type, and the columns stay in their CHECKs
\* (016:110-173): among them, no line is tried more than MAX_ATTEMPTS times.
THEOREM CommunityTypeCorrect == Spec => []TypeOK
<1>1. Init => Typed
  BY CommunityAssumption, TypedInit
<1>2. Typed /\ [Next]_vars => Typed'
  BY CommunityAssumption, TypedNext
<1>3. Typed => TypeOK
  BY DEF Typed
<1> QED BY <1>1, <1>2, <1>3, PTL DEF Spec

(***************************************************************************)
(* The registry.                                                           *)
(***************************************************************************)

\* A webhook's upsert: signals switch the product on, and only an upsert that
\* finds it off writes about it in the audit log.
LEMMA UpsertClosed ==
  ASSUME CommunityAssumption, Typed, RegistryFailsClosed, NEW p \in Products, NEW existing \in BOOLEAN,
         NEW marked \in BOOLEAN, NEW st, NEW missing \in BOOLEAN,
         NEW listed \in SUBSET VariantsOf(p), NEW sku \in [listed -> Skus],
         UpsertProduct(p, existing, marked, st, sku, listed, missing)
  PROVE  RegistryFailsClosed'
<1> DEFINE signals == marked \/ \E v \in listed : sku[v] \in CommunitySkus
<1>1. /\ product' = [product EXCEPT ![p] = [known |-> TRUE, active |-> Active(product[p].active, signals),
                                           signals |-> signals, status |-> st]]
      /\ audited' = IF Reaudit(p, existing, signals) THEN [audited EXCEPT ![p] = "auto_reactivate"] ELSE audited
  BY DEF UpsertProduct
<1>2. ASSUME NEW q \in Products
      PROVE  (product'[q].signals => product'[q].active) /\ (~product'[q].active => audited'[q] = "deactivate")
  <2>1. CASE q = p
    <3>1. product'[q].active = Active(product[p].active, signals) /\ product'[q].signals = signals
      BY <1>1, <2>1 DEF Typed, TypeOK
    <3>2. ~Active(product[p].active, signals) => ~product[p].active /\ ~Reaudit(p, existing, signals)
      BY DEF Active, Reaudit
    <3>3. ~Active(product[p].active, signals) => audited'[q] = "deactivate"
      BY <1>1, <2>1, <3>2 DEF RegistryFailsClosed
    <3>4. signals => Active(product[p].active, signals)
      BY DEF Active
    <3> QED BY <3>1, <3>3, <3>4
  <2>2. CASE q # p
    <3>1. product'[q] = product[q] /\ audited'[q] = audited[q]
      BY <1>1, <2>2 DEF Typed, TypeOK
    <3> QED BY <3>1 DEF RegistryFailsClosed
  <2> QED BY <2>1, <2>2
<1>3. ASSUME NEW v \in Variants PROVE variant'[v].active <=> audited'[v] # "deactivate"
  <2>1. variant'[v].active = variant[v].active
    <3>1. variant[v] \in Variant
      BY DEF Typed, TypeOK
    <3>2. CASE v \in listed
      BY <3>1, <3>2 DEF UpsertProduct, Variant
    <3>3. CASE v \notin listed
      BY <3>1, <3>3 DEF UpsertProduct, Variant
    <3> QED BY <3>2, <3>3
  <2>2. audited'[v] = audited[v]
    BY <1>1 DEF CommunityAssumption, Typed, TypeOK
  <2> QED BY <2>1, <2>2 DEF RegistryFailsClosed
<1> QED BY <1>2, <1>3 DEF RegistryFailsClosed

LEMMA DeleteClosed ==
  ASSUME CommunityAssumption, Typed, RegistryFailsClosed, NEW p \in Products, MarkProductDeleted(p)
  PROVE  RegistryFailsClosed'
<1>1. ASSUME NEW q \in Products
      PROVE  product'[q].active = product[q].active /\ product'[q].signals = product[q].signals
  BY DEF MarkProductDeleted, Typed, TypeOK, Product
<1>2. ASSUME NEW v \in Variants PROVE variant'[v].active = variant[v].active
  BY DEF MarkProductDeleted, Typed, TypeOK, Variant
<1> QED BY <1>1, <1>2 DEF MarkProductDeleted, RegistryFailsClosed

LEMMA OperatorClosed ==
  ASSUME CommunityAssumption, Typed, RegistryFailsClosed,
         \/ \E p \in Products : DeactivateProduct(p) \/ ReactivateProduct(p)
         \/ \E v \in Variants : DeactivateVariant(v) \/ ReactivateVariant(v)
  PROVE  RegistryFailsClosed'
<1>1. ASSUME NEW p \in Products, NEW b \in BOOLEAN, NEW a, a = "deactivate" <=> ~b,
             ~b => ~product[p].signals,
             product' = [product EXCEPT ![p].active = b], audited' = [audited EXCEPT ![p] = a], variant' = variant
      PROVE  RegistryFailsClosed'
  <2>1. ASSUME NEW q \in Products
        PROVE  (product'[q].signals => product'[q].active) /\ (~product'[q].active => audited'[q] = "deactivate")
    <3>1. CASE q = p
      BY <1>1, <3>1 DEF Typed, TypeOK, Product
    <3>2. CASE q # p
      <4>1. product'[q] = product[q] /\ audited'[q] = audited[q]
        BY <1>1, <3>2 DEF Typed, TypeOK
      <4> QED BY <4>1 DEF RegistryFailsClosed
    <3> QED BY <3>1, <3>2
  <2>2. ASSUME NEW v \in Variants PROVE audited'[v] = audited[v]
    BY <1>1 DEF CommunityAssumption, Typed, TypeOK
  <2> QED BY <1>1, <2>1, <2>2 DEF RegistryFailsClosed
<1>2. ASSUME NEW v \in Variants, NEW b \in BOOLEAN, NEW a, a = "deactivate" <=> ~b,
             variant' = [variant EXCEPT ![v].active = b], audited' = [audited EXCEPT ![v] = a], product' = product
      PROVE  RegistryFailsClosed'
  <2>1. ASSUME NEW u \in Variants PROVE variant'[u].active <=> audited'[u] # "deactivate"
    <3>1. CASE u = v
      BY <1>2, <3>1 DEF Typed, TypeOK, Variant
    <3>2. CASE u # v
      <4>1. variant'[u] = variant[u] /\ audited'[u] = audited[u]
        BY <1>2, <3>2 DEF Typed, TypeOK
      <4> QED BY <4>1 DEF RegistryFailsClosed
    <3> QED BY <3>1, <3>2
  <2>2. ASSUME NEW q \in Products PROVE audited'[q] = audited[q]
    BY <1>2 DEF CommunityAssumption, Typed, TypeOK
  <2> QED BY <1>2, <2>1, <2>2 DEF RegistryFailsClosed
<1>3. ASSUME NEW p \in Products, DeactivateProduct(p) PROVE RegistryFailsClosed'
  BY <1>1, <1>3 DEF DeactivateProduct, MayDeactivate
<1>4. ASSUME NEW p \in Products, ReactivateProduct(p) PROVE RegistryFailsClosed'
  BY <1>1, <1>4 DEF ReactivateProduct
<1>5. ASSUME NEW v \in Variants, DeactivateVariant(v) PROVE RegistryFailsClosed'
  BY <1>2, <1>5 DEF DeactivateVariant
<1>6. ASSUME NEW v \in Variants, ReactivateVariant(v) PROVE RegistryFailsClosed'
  BY <1>2, <1>6 DEF ReactivateVariant
<1> QED BY <1>3, <1>4, <1>5, <1>6

\* What does not touch products, variants and the audit log does not open it.
LEMMA UntouchedClosed ==
  ASSUME RegistryFailsClosed, UNCHANGED <<product, variant, audited>> PROVE RegistryFailsClosed'
BY DEF RegistryFailsClosed

LEMMA ClosedNext ==
  ASSUME CommunityAssumption, Typed, RegistryFailsClosed, [Next]_vars PROVE RegistryFailsClosed'
<1>1. CASE ShopifyStep
  <2>1. ASSUME NEW p \in Products, FindNoRow(p) PROVE RegistryFailsClosed'
    BY <2>1, UntouchedClosed DEF FindNoRow
  <2>2. ASSUME NEW l \in Lines, Capture(l) PROVE RegistryFailsClosed'
    BY <2>2, UntouchedClosed DEF Capture, registryVars
  <2>3. ASSUME NEW p \in Products, NEW existing \in BOOLEAN, NEW marked \in BOOLEAN,
               NEW st \in {"listed", "archived"}, NEW missing \in BOOLEAN,
               NEW listed \in SUBSET VariantsOf(p), NEW sku \in [listed -> Skus],
               UpsertProduct(p, existing, marked, st, sku, listed, missing)
        PROVE  RegistryFailsClosed'
    BY <2>3, UpsertClosed
  <2> QED BY <1>1, <2>1, <2>2, <2>3, DeleteClosed DEF ShopifyStep
<1>2. CASE OperatorStep
  <2>1. ASSUME NEW l \in Lines, Requeue(l) PROVE RegistryFailsClosed'
    BY <2>1, UntouchedClosed DEF Requeue, registryVars
  <2> QED BY <1>2, <2>1, OperatorClosed DEF OperatorStep
<1>3. ASSUME NEW w \in Workers, WorkerStep(w) \/ Fail(w) \/ SweepDies(w) PROVE RegistryFailsClosed'
  BY <1>3, UntouchedClosed
     DEF WorkerStep, ClaimNext, RunOnce, Claim, Look, Commit, Record, Fail, SweepDies, registryVars
<1>4. ASSUME NEW l \in Lines, BackoffEnds(l) PROVE RegistryFailsClosed'
  BY <1>4, UntouchedClosed DEF BackoffEnds, registryVars
<1>5. CASE UNCHANGED vars
  BY <1>5, UntouchedClosed DEF vars, registryVars
<1> QED BY <1>1, <1>2, <1>3, <1>4, <1>5 DEF Next

\* Whatever operators and webhooks do and in whichever order, a product that
\* Shopify marks Community is active, and what is not active was switched off
\* by an operator, who is in the audit log (registry.js:113-121, 164-175, 257-344).
THEOREM RegistryFailsClosedHolds == Spec => []RegistryFailsClosed
<1>1. Init => Typed /\ RegistryFailsClosed
  <2>1. ASSUME Init PROVE RegistryFailsClosed
    <3>1. \A p \in Products : ~product[p].signals /\ product[p].active
      BY <2>1 DEF Init
    <3>2. ASSUME NEW v \in Variants PROVE variant[v].active /\ audited[v] = "none"
      <4>1. variant[v] \in [known : {FALSE}, active : {TRUE}, present : {FALSE}, sku : Skus \ CommunitySkus]
        BY <2>1 DEF Init
      <4> QED BY <2>1, <4>1 DEF Init
    <3> QED BY <3>1, <3>2 DEF RegistryFailsClosed
  <2> QED BY <2>1, CommunityAssumption, TypedInit
<1>2. Typed /\ RegistryFailsClosed /\ [Next]_vars => (Typed /\ RegistryFailsClosed)'
  BY CommunityAssumption, TypedNext, ClosedNext
<1> QED BY <1>1, <1>2, PTL DEF Spec

(***************************************************************************)
(* Decisions.                                                              *)
(***************************************************************************)

\* What a step may do to the status of a decided line.
Stands == \A l \in Lines : Moves(l) /\ intake[l].status \in Decided =>
            /\ intake[l].status = "review" /\ intake'[l].status = "received"
            /\ requeued'[l] = requeued[l] + 1

LEMMA StandsNext == ASSUME CommunityAssumption, Typed, [Next]_vars PROVE Stands
<1> USE DEF Stands, Moves
<1>1. CASE intake' = intake
  BY <1>1
<1>2. ASSUME NEW l \in Lines, Capture(l) PROVE Stands
  BY <1>2 DEF Capture, Typed, TypeOK, Decided
<1>3. ASSUME NEW l \in Lines, Requeue(l) PROVE Stands
  BY <1>3 DEF Requeue, Typed, TypeOK
<1>4. ASSUME NEW w \in Workers, Commit(w) PROVE Stands
  <2>1. intake[sweep[w].line].status \in Pending
    BY <1>4 DEF Commit, At, Typed, LockHolds, Holds
  <2>2. \A l \in Lines : l # sweep[w].line => intake'[l] = intake[l]
    BY <1>4 DEF Commit, Typed, TypeOK
  <2> QED BY <2>1, <2>2 DEF Pending, Decided
<1>5. ASSUME NEW w \in Workers, Record(w) PROVE Stands
  <2>1. CASE Recordable(sweep[w].line)
    <3>1. \A l \in Lines : l # sweep[w].line => intake'[l] = intake[l]
      BY <1>5, <2>1 DEF Record, Typed, TypeOK
    <3> QED BY <2>1, <3>1 DEF Recordable, Pending, Decided
  <2>2. CASE ~Recordable(sweep[w].line)
    BY <1>5, <2>2 DEF Record
  <2> QED BY <2>1, <2>2
<1>6. CASE ShopifyStep
  <2>1. ASSUME NEW p \in Products, FindNoRow(p) \/ MarkProductDeleted(p) PROVE Stands
    BY <1>1, <2>1 DEF FindNoRow, MarkProductDeleted
  <2>2. ASSUME NEW p \in Products, NEW existing \in BOOLEAN, NEW marked \in BOOLEAN,
               NEW status \in {"listed", "archived"}, NEW missing \in BOOLEAN,
               NEW listed \in SUBSET VariantsOf(p), NEW sku \in [listed -> Skus],
               UpsertProduct(p, existing, marked, status, sku, listed, missing)
        PROVE Stands
    <3>1. intake' = intake
      BY <2>2 DEF UpsertProduct
    <3> QED BY <1>1, <3>1
  <2> HIDE DEF Stands, Moves
  <2> QED BY <1>2, <1>6, <2>1, <2>2 DEF ShopifyStep
<1>7. CASE OperatorStep
  BY <1>1, <1>3, <1>7
     DEF OperatorStep, DeactivateProduct, ReactivateProduct, DeactivateVariant, ReactivateVariant
<1>8. ASSUME NEW w \in Workers, WorkerStep(w) \/ Fail(w) \/ SweepDies(w) PROVE Stands
  BY <1>1, <1>4, <1>5, <1>8 DEF WorkerStep, ClaimNext, RunOnce, Claim, Look, Fail, SweepDies
<1>9. CASE (\E l \in Lines : BackoffEnds(l)) \/ UNCHANGED vars
  BY <1>1, <1>9 DEF BackoffEnds, vars
<1> QED BY <1>6, <1>7, <1>8, <1>9 DEF Next

\* No attempt, however late it commits or fails, undoes a decision: a decided
\* line moves only by an operator's re-queue (worker.js:101-118, 016:198-205).
THEOREM DecisionStandsHolds == Spec => DecisionStands
<1>1. Init => Typed
  BY CommunityAssumption, TypedInit
<1>2. Typed /\ [Next]_vars => Typed'
  BY CommunityAssumption, TypedNext
<1>3. Typed /\ [Next]_vars => [Stands]_vars
  BY CommunityAssumption, StandsNext
<1>4. Spec => [][Stands]_vars
  BY <1>1, <1>2, <1>3, PTL DEF Spec
<1> QED BY <1>4 DEF DecisionStands, Stands
=============================================================================
