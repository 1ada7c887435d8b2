-------------------------- MODULE CommunityIntake --------------------------
(***************************************************************************)
(* community/ (migration 016): the registry of Community products and      *)
(* variants, the order lines captured because of it, and the worker that   *)
(* resolves each captured line or sends it to a person.                    *)
(*                                                                         *)
(* Actors: Shopify (product webhooks, order webhooks), the operator (the   *)
(* registry and review commands), and one sweeper per process.  An attempt *)
(* at a line is a transaction that locks the row, reads the registry       *)
(* without locking it, and writes the verdict; its failure is recorded by  *)
(* a statement of its own, after the rollback has released the row.        *)
(* Operators named Faulty... are mistakes the properties must notice.      *)
(***************************************************************************)
EXTENDS Naturals

CONSTANTS
  Products, Variants,
  ProductOf,      \* the product a variant belongs to
  Skus,
  CommunitySkus,  \* those that start with ASB-COM-
  Lines,          \* community_intake ids: a line per id, in capture order
  Facts,          \* what was ordered: variant, sku, and whether quantity is 1
  Workers,        \* processes, each with its sweeper
  MAX_ATTEMPTS,
  MaxRequeues,    \* bound of the model: re-queues of a line
  MaxFaults,      \* bound of the model: deaths of a process or of a record
  NoLine

ASSUME CommunityAssumption ==
  /\ ProductOf \in [Variants -> Products]
  /\ Products \cap Variants = {} \* community_audit.target_type tells them apart
  /\ CommunitySkus \subseteq Skus
  /\ Lines \subseteq Nat /\ NoLine \notin Lines
  /\ Facts \in [Lines -> [variant : Variants, sku : Skus, one : BOOLEAN]]
  /\ MAX_ATTEMPTS \in Nat \ {0} /\ MaxRequeues \in Nat /\ MaxFaults \in Nat

VARIABLES
  product,   \* community_products
  variant,   \* community_variants
  audited,   \* the last community_audit row of each product and variant
  registering, \* products a webhook found no row of, and has not inserted yet
  intake,    \* community_intake
  due,       \* lines with next_attempt_at <= now()
  sweep,     \* the sweep of each process: rows listed, row in hand, step
  requeued, faults

registryVars == <<product, variant, audited, registering>>
vars == <<registryVars, intake, due, sweep, requeued, faults>>

ShopStatuses == {"listed", "archived", "deleted"}
Statuses == {"none", "received", "retryable_error", "resolved", "review"}
Pending == {"received", "retryable_error"}
Decided == {"resolved", "review"}
Reasons == {"none", "checked", "max_attempts_exceeded"}
AuditActions == {"none", "deactivate", "reactivate", "auto_reactivate"}
Steps == {"idle", "open", "looked", "failed"}

Product == [known : BOOLEAN, active : BOOLEAN, signals : BOOLEAN, status : ShopStatuses]
Variant == [known : BOOLEAN, active : BOOLEAN, present : BOOLEAN, sku : Skus]
Intake == [status : Statuses, reason : Reasons, attempts : 0..MAX_ATTEMPTS]
Sweep == [pc : Steps, todo : SUBSET Lines, line : Lines \cup {NoLine}, fit : BOOLEAN]

NoSweep == [pc |-> "idle", todo |-> {}, line |-> NoLine, fit |-> FALSE]
VariantsOf(p) == {v \in Variants : ProductOf[v] = p}

TypeOK ==
  /\ product \in [Products -> Product]
  /\ variant \in [Variants -> Variant]
  /\ audited \in [Products \cup Variants -> AuditActions]
  /\ registering \subseteq Products
  /\ intake \in [Lines -> Intake]
  /\ due \subseteq Lines
  /\ sweep \in [Workers -> Sweep]
  /\ requeued \in [Lines -> 0..MaxRequeues]
  /\ faults \in 0..MaxFaults

Init ==
  /\ product = [p \in Products |-> [known |-> FALSE, active |-> TRUE, signals |-> FALSE, status |-> "listed"]]
  /\ variant \in [Variants -> [known : {FALSE}, active : {TRUE}, present : {FALSE}, sku : Skus \ CommunitySkus]]
  /\ audited = [x \in Products \cup Variants |-> "none"]
  /\ registering = {}
  /\ intake = [l \in Lines |-> [status |-> "none", reason |-> "none", attempts |-> 0]]
  /\ due = {}
  /\ sweep = [w \in Workers |-> NoSweep]
  /\ requeued = [l \in Lines |-> 0]
  /\ faults = 0

------------------------------------------------------------------------------
(* The registry.                                                           *)

\* Community signals in Shopify win over a deactivation.
Active(old, signals) == old \/ signals
Reaudit(p, existing, signals) == existing /\ ~product[p].active /\ signals

\* A webhook looks for the row and locks it; a row that is not there cannot be
\* locked, and others may insert and change it before the webhook goes on.
FindNoRow(p) ==
  /\ ~product[p].known /\ p \notin registering
  /\ registering' = registering \cup {p}
  /\ UNCHANGED <<product, variant, audited, intake, due, sweep, requeued, faults>>

\* One transaction, which found the row (existing) or did not: the product, the
\* variants it lists (sku is what the payload says of each), those no longer listed.
UpsertProduct(p, existing, marked, status, sku, listed, markMissingAbsent) ==
  LET signals == marked \/ \E v \in listed : sku[v] \in CommunitySkus
  IN /\ existing = product[p].known \/ (~existing /\ p \in registering)
     /\ listed # {} /\ (signals \/ existing)
     /\ registering' = IF existing = product[p].known THEN registering ELSE registering \ {p}
     /\ product' = [product EXCEPT ![p] =
          [known |-> TRUE, active |-> Active(@.active, signals), signals |-> signals, status |-> status]]
     /\ variant' = [v \in Variants |->
          IF v \in listed
          THEN [variant[v] EXCEPT !.known = TRUE, !.present = TRUE, !.sku = sku[v]]
          ELSE [variant[v] EXCEPT !.present = @ /\ ~(markMissingAbsent /\ ProductOf[v] = p)]]
     /\ audited' = IF Reaudit(p, existing, signals)
                   THEN [audited EXCEPT ![p] = "auto_reactivate"] ELSE audited
     /\ UNCHANGED <<intake, due, sweep, requeued, faults>>

MarkProductDeleted(p) ==
  /\ product[p].known
  /\ product' = [product EXCEPT ![p].status = "deleted"]
  /\ variant' = [v \in Variants |-> [variant[v] EXCEPT !.present = @ /\ ProductOf[v] # p]]
  /\ UNCHANGED <<audited, registering, intake, due, sweep, requeued, faults>>

\* Allowed once Shopify no longer marks the product Community.
FaultyMayDeactivate(p) == product[p].known /\ product[p].active
MayDeactivate(p) == product[p].known /\ product[p].active /\ ~product[p].signals

DeactivateProduct(p) ==
  /\ MayDeactivate(p)
  /\ product' = [product EXCEPT ![p].active = FALSE]
  /\ audited' = [audited EXCEPT ![p] = "deactivate"]
  /\ UNCHANGED <<variant, registering, intake, due, sweep, requeued, faults>>

DeactivateVariant(v) ==
  /\ variant[v].known /\ variant[v].active
  /\ variant' = [variant EXCEPT ![v].active = FALSE]
  /\ audited' = [audited EXCEPT ![v] = "deactivate"]
  /\ UNCHANGED <<product, registering, intake, due, sweep, requeued, faults>>

ReactivateProduct(p) ==
  /\ product[p].known /\ ~product[p].active
  /\ product' = [product EXCEPT ![p].active = TRUE]
  /\ audited' = [audited EXCEPT ![p] = "reactivate"]
  /\ UNCHANGED <<variant, registering, intake, due, sweep, requeued, faults>>

ReactivateVariant(v) ==
  /\ variant[v].known /\ ~variant[v].active
  /\ variant' = [variant EXCEPT ![v].active = TRUE]
  /\ audited' = [audited EXCEPT ![v] = "reactivate"]
  /\ UNCHANGED <<product, registering, intake, due, sweep, requeued, faults>>

------------------------------------------------------------------------------
(* Capture.                                                                *)

\* Any signal diverts a line from the grocery pipeline.
ActiveProduct(p) == product[p].known /\ product[p].active
ActiveVariant(v) == variant[v].known /\ variant[v].active /\ ActiveProduct(ProductOf[v])
Classified(l) ==
  \/ ActiveVariant(Facts[l].variant) \/ ActiveProduct(ProductOf[Facts[l].variant])
  \/ Facts[l].sku \in CommunitySkus

Capture(l) ==
  /\ intake[l].status = "none" /\ Classified(l)
  /\ intake' = [intake EXCEPT ![l].status = "received"]
  /\ due' = due \cup {l}
  /\ UNCHANGED <<registryVars, sweep, requeued, faults>>

------------------------------------------------------------------------------
(* The worker.                                                             *)

\* Resolved by the exact registered variant, when nothing speaks against it.
Fit(l) ==
  LET f == Facts[l]
      v == variant[f.variant]
      p == product[ProductOf[f.variant]]
  IN /\ f.one /\ v.known
     /\ p.active /\ v.active /\ p.signals /\ p.status = "listed" /\ v.present
     /\ f.sku = v.sku

At(w, pc) == sweep[w].pc = pc
Locked(l) == \E w \in Workers : sweep[w].line = l /\ sweep[w].pc \in {"open", "looked"}
Free(w) == [sweep EXCEPT ![w].pc = "idle", ![w].line = NoLine, ![w].fit = FALSE]

FaultyDue == {l \in due : intake[l].status = "received"}
Due == {l \in due : intake[l].status \in Pending}

\* The rows of a sweep are listed once; next_attempt_at is not read again.
RunOnce(w) ==
  /\ At(w, "idle") /\ sweep[w].todo = {} /\ Due # {}
  /\ sweep' = [sweep EXCEPT ![w].todo = Due]
  /\ UNCHANGED <<registryVars, intake, due, requeued, faults>>

\* The next row of the list is locked, or skipped: decided, or in other hands.
Next1(w, l) == At(w, "idle") /\ l \in sweep[w].todo /\ \A k \in sweep[w].todo : l <= k
Claimable(l) == intake[l].status \in Pending /\ ~Locked(l)

Claim(w, l) ==
  /\ Next1(w, l)
  /\ sweep' = [sweep EXCEPT ![w].todo = @ \ {l},
                            ![w].pc = IF Claimable(l) THEN "open" ELSE "idle",
                            ![w].line = IF Claimable(l) THEN l ELSE NoLine]
  /\ UNCHANGED <<registryVars, intake, due, requeued, faults>>

Look(w) ==
  /\ At(w, "open")
  /\ sweep' = [sweep EXCEPT ![w].pc = "looked", ![w].fit = Fit(sweep[w].line)]
  /\ UNCHANGED <<registryVars, intake, due, requeued, faults>>

Commit(w) ==
  LET l == sweep[w].line
  IN /\ At(w, "looked")
     /\ intake' = [intake EXCEPT ![l] =
          [status |-> IF sweep[w].fit THEN "resolved" ELSE "review",
           reason |-> IF sweep[w].fit THEN "none" ELSE "checked",
           attempts |-> @.attempts + 1]]
     /\ sweep' = Free(w)
     /\ UNCHANGED <<registryVars, due, requeued, faults>>

\* Any query of the attempt fails, its claim too: the transaction rolls back.
Fail(w) ==
  /\ \/ /\ sweep[w].pc \in {"open", "looked"}
        /\ sweep' = [sweep EXCEPT ![w].pc = "failed", ![w].fit = FALSE]
     \/ \E l \in Lines :
          /\ Next1(w, l)
          /\ sweep' = [sweep EXCEPT ![w].pc = "failed", ![w].line = l, ![w].todo = @ \ {l}]
  /\ UNCHANGED <<registryVars, intake, due, requeued, faults>>

\* The failure is counted, on a row that is still pending when nobody holds it.
FaultyRecordable(l) == TRUE
Recordable(l) == intake[l].status \in Pending
Exhausted(attempts) == attempts >= MAX_ATTEMPTS

Failed(row) ==
  [status |-> IF Exhausted(row.attempts + 1) THEN "review" ELSE "retryable_error",
   reason |-> IF Exhausted(row.attempts + 1) THEN "max_attempts_exceeded" ELSE row.reason,
   attempts |-> row.attempts + 1]

Record(w) ==
  LET l == sweep[w].line
  IN /\ At(w, "failed") /\ ~Locked(l)
     /\ IF Recordable(l)
        THEN intake' = [intake EXCEPT ![l] = Failed(@)] /\ due' = due \ {l}
        ELSE UNCHANGED <<intake, due>>
     /\ sweep' = Free(w)
     /\ UNCHANGED <<registryVars, requeued, faults>>

\* The process dies anywhere, or the failure cannot be recorded: the sweep ends.
SweepDies(w) ==
  /\ sweep[w] # NoSweep /\ faults < MaxFaults
  /\ sweep' = [sweep EXCEPT ![w] = NoSweep]
  /\ faults' = faults + 1
  /\ UNCHANGED <<registryVars, intake, due, requeued>>

BackoffEnds(l) ==
  /\ l \notin due /\ intake[l].status \in Pending
  /\ due' = due \cup {l}
  /\ UNCHANGED <<registryVars, intake, sweep, requeued, faults>>

Requeue(l) ==
  /\ intake[l].status = "review" /\ requeued[l] < MaxRequeues
  /\ intake' = [intake EXCEPT ![l] = [status |-> "received", reason |-> "none", attempts |-> 0]]
  /\ due' = due \cup {l}
  /\ requeued' = [requeued EXCEPT ![l] = @ + 1]
  /\ UNCHANGED <<registryVars, sweep, faults>>

------------------------------------------------------------------------------
ShopifyStep ==
  \/ \E p \in Products : FindNoRow(p)
  \/ \E p \in Products, existing \in BOOLEAN, marked \in BOOLEAN, status \in {"listed", "archived"}, missing \in BOOLEAN :
       \E listed \in SUBSET VariantsOf(p) : \E sku \in [listed -> Skus] :
         UpsertProduct(p, existing, marked, status, sku, listed, missing)
  \/ \E p \in Products : MarkProductDeleted(p)
  \/ \E l \in Lines : Capture(l)

OperatorStep ==
  \/ \E p \in Products : DeactivateProduct(p) \/ ReactivateProduct(p)
  \/ \E v \in Variants : DeactivateVariant(v) \/ ReactivateVariant(v)
  \/ \E l \in Lines : Requeue(l)

ClaimNext(w) == \E l \in Lines : Claim(w, l)
WorkerStep(w) == RunOnce(w) \/ ClaimNext(w) \/ Look(w) \/ Commit(w) \/ Record(w)

Next ==
  \/ ShopifyStep \/ OperatorStep
  \/ \E w \in Workers : WorkerStep(w) \/ Fail(w) \/ SweepDies(w)
  \/ \E l \in Lines : BackoffEnds(l)

Spec == Init /\ [][Next]_vars

\* The sweeper's timer, the queries of an attempt that come back, and time.
FairSpec ==
  /\ Spec
  /\ \A w \in Workers : WF_vars(WorkerStep(w))
  /\ \A l \in Lines : WF_vars(BackoffEnds(l))

------------------------------------------------------------------------------
(* Properties.                                                             *)

\* The registry fails closed: a product that Shopify marks Community is active
\* whatever operators and webhooks did and in whichever order; a product that is
\* not active has an operator's deactivation as its last word in the audit log,
\* and a variant is active exactly when it has not (registry.js:113-121,
\* 164-175, 257-344).
RegistryFailsClosed ==
  /\ \A p \in Products : product[p].signals => product[p].active
  /\ \A p \in Products : ~product[p].active => audited[p] = "deactivate"
  /\ \A v \in Variants : variant[v].active <=> audited[v] # "deactivate"

\* A late failure of one sweep never undoes what another decided: a decided row
\* moves only by the operator's re-queue, and only out of review
\* (worker.js:101-118, 016:198-205).
Moves(l) == intake[l].status # intake'[l].status
DecisionStands ==
  [][\A l \in Lines : Moves(l) /\ intake[l].status \in Decided =>
       /\ intake[l].status = "review" /\ intake'[l].status = "received"
       /\ requeued'[l] = requeued[l] + 1]_vars

\* Every captured line is resolved or in front of a person in the end, whatever
\* fails meanwhile and wherever a sweep dies (worker.js:101-159).
EveryLineDecided == \A l \in Lines : intake[l].status \in Pending ~> intake[l].status \in Decided
=============================================================================
