---------------------------- MODULE AlertOutbox ----------------------------
(***************************************************************************)
(* grocery/alerts.js, the loop of grocery/worker.js and push.js: alerts    *)
(* are rows committed with what they report; afterwards they are pushed to *)
(* the phones that subscribed, and retried by the sweeper.                 *)
(*                                                                         *)
(* Actors: in each server the tasks that commit alerts and dispatch them   *)
(* at once (a webhook, a kick), its sweeper, which does the same and ends  *)
(* each pass with a dispatch of all that is due; the phones.               *)
(*                                                                         *)
(* A dispatch holds no lock and no claim on what it read: its steps are    *)
(* the read of a page, the start of a delivery (switch, mark, keys, list   *)
(* of phones), one push with its bookkeeping, and the record of the        *)
(* result.  Operators named Faulty... are mistakes the properties must     *)
(* notice.                                                                 *)
(***************************************************************************)
EXTENDS Naturals, FiniteSets

CONSTANTS
  Servers,      \* server instances
  Kicks,        \* dispatching tasks of a server, beside its sweeper
  Sweeper,
  Alerts,       \* grocery_alerts.id
  Devices,      \* push endpoints
  PageLimit,    \* LIMIT 50
  MaxAttempts,  \* GROCERY_ALERT_MAX_ATTEMPTS
  MaxFailures,  \* refusals after which a phone is forgotten: 20
  MaxFaults,    \* bound of the model: failed queries and process deaths
  Gone          \* a device without a push_subscriptions row

ASSUME AlertAssumption ==
  /\ Alerts \subseteq Nat /\ IsFiniteSet(Alerts)
  /\ IsFiniteSet(Servers) /\ IsFiniteSet(Kicks)
  /\ PageLimit \in Nat \ {0} /\ MaxAttempts \in Nat \ {0}
  /\ MaxFailures \in Nat \ {0} /\ MaxFaults \in Nat
  /\ Gone \notin Nat /\ Sweeper \notin Kicks

VARIABLES
  alert,     \* the rows; due: next_attempt_at <= now()
  device,    \* push_subscriptions.failures
  rehearsal, \* app_settings asb_environment = 'rehearsal'
  up,        \* servers that are up
  pushOn,    \* their GROCERY_ALERT_PUSH
  run,       \* the dispatch of each task, or none
  again,     \* worker.js: again
  faults,    \* failed queries and process deaths so far
  unserved,  \* servers whose sweep was asked for, and no pass began since
  threw,     \* servers whose last pass threw
  pushes,    \* deliveries of an alert that reached a phone
  slips,     \* its deliveries that reached a phone and whose result was lost
  shared,    \* alerts two tasks held at the same time
  tries      \* its deliveries that ended without a push booked as accepted

askedVars == <<unserved, threw>>
ghostVars == <<pushes, slips, shared, tries>>
vars == <<alert, device, rehearsal, up, pushOn, run, again, faults, askedVars, ghostVars>>

States == {"none", "pending", "sent", "gave_up"}
Runs == Servers \X (Kicks \cup {Sweeper})
Server(r) == r[1]
IsSweep(r) == r[2] = Sweeper
Steps == {"idle", "work", "read", "next", "push"}

\* ids: what to dispatch; last: of all alerts, at the end of a sweeper's pass.
Run(pc, ids, last) ==
  [pc |-> pc, ids |-> ids, last |-> last, page |-> {}, phones |-> {}, reached |-> FALSE, ok |-> FALSE]
NoRun == Run("idle", {}, FALSE)
Work == Run("work", {}, FALSE)
At(r, pc) == run[r].pc = pc

First(a, ids) == a \in ids /\ \A b \in ids : a <= b
Delivering(r, a) == At(r, "push") /\ First(a, run[r].page)
Holders(a) == {r \in Runs : a \in run[r].page}
Subscribed == {d \in Devices : device[d] # Gone}

TypeOK ==
  /\ alert \in [Alerts -> [state : States, attempts : 0..MaxAttempts, due : BOOLEAN]]
  /\ device \in [Devices -> 0..(MaxFailures - 1) \cup {Gone}]
  /\ rehearsal \in BOOLEAN
  /\ up \subseteq Servers
  /\ pushOn \in [Servers -> BOOLEAN]
  /\ run \in [Runs -> [pc : Steps, ids : SUBSET Alerts, last : BOOLEAN, page : SUBSET Alerts,
                       phones : SUBSET Devices, reached : BOOLEAN, ok : BOOLEAN]]
  /\ again \in [Servers -> BOOLEAN]
  /\ faults \in 0..MaxFaults
  /\ unserved \subseteq Servers /\ threw \subseteq Servers
  /\ pushes \in [Alerts -> Nat] /\ slips \in [Alerts -> Nat] /\ tries \in [Alerts -> Nat]
  /\ shared \subseteq Alerts

Init ==
  /\ alert = [a \in Alerts |-> [state |-> "none", attempts |-> 0, due |-> TRUE]]
  /\ device \in [Devices -> {0, Gone}]
  /\ rehearsal = FALSE
  /\ up = Servers
  /\ pushOn \in [Servers -> BOOLEAN]
  /\ run = [r \in Runs |-> NoRun]
  /\ again = [s \in Servers |-> FALSE]
  /\ faults = 0
  /\ unserved = {} /\ threw = {}
  /\ pushes = [a \in Alerts |-> 0] /\ slips = [a \in Alerts |-> 0] /\ tries = [a \in Alerts |-> 0]
  /\ shared = {}

------------------------------------------------------------------------------
(* The sweeper: one pass at a time in a process.                           *)

SweepOf(s) == <<s, Sweeper>>

\* At boot and every GROCERY_SWEEP_MS.
Request(s) ==
  /\ s \in up
  /\ IF At(SweepOf(s), "idle")
       THEN /\ run' = [run EXCEPT ![SweepOf(s)] = Work]
            /\ again' = [again EXCEPT ![s] = FALSE]
            /\ unserved' = unserved \ {s} /\ threw' = threw \ {s}
       ELSE /\ again' = [again EXCEPT ![s] = TRUE]
            /\ unserved' = unserved \cup {s}
            /\ UNCHANGED <<run, threw>>
  /\ UNCHANGED <<alert, device, rehearsal, up, pushOn, faults, ghostVars>>

\* What comes before it in a pass commits alerts (Commit), or throws.
LastDispatch(s) ==
  /\ At(SweepOf(s), "work")
  /\ run' = [run EXCEPT ![SweepOf(s)] = Run("read", Alerts, TRUE)]
  /\ UNCHANGED <<alert, device, rehearsal, up, pushOn, again, faults, askedVars, ghostVars>>

Fault == faults < MaxFaults /\ faults' = faults + 1

\* The throw ends the loop: a request that came during the pass waits for the
\* next one.
SweepFails(s) ==
  /\ At(SweepOf(s), "work") /\ Fault
  /\ run' = [run EXCEPT ![SweepOf(s)] = NoRun]
  /\ threw' = threw \cup {s}
  /\ UNCHANGED <<alert, device, rehearsal, up, pushOn, again, unserved, ghostVars>>

------------------------------------------------------------------------------
(* A dispatch.                                                             *)

\* A transaction with alerts commits; its task dispatches them next.
Commit(r, ids) ==
  /\ Server(r) \in up
  /\ IF IsSweep(r) THEN At(r, "work") ELSE At(r, "idle")
  /\ ids # {} /\ \A a \in ids : alert[a].state = "none"
  /\ alert' = [a \in Alerts |-> IF a \in ids THEN [alert[a] EXCEPT !.state = "pending"] ELSE alert[a]]
  /\ run' = [run EXCEPT ![r] = Run("read", ids, FALSE)]
  /\ UNCHANGED <<device, rehearsal, up, pushOn, again, faults, askedVars, ghostVars>>

\* Back to the caller. A pass that ends here begins anew if asked to.
FaultyLoopsAgain(s) == FALSE
LoopsAgain(s) == again[s]

Return(r) ==
  LET s == Server(r)
      another == run[r].last /\ LoopsAgain(s)
  IN /\ run' = [run EXCEPT ![r] = IF IsSweep(r) /\ (another \/ ~run[r].last) THEN Work ELSE NoRun]
     /\ again' = IF another THEN [again EXCEPT ![s] = FALSE] ELSE again
     /\ unserved' = IF another THEN unserved \ {s} ELSE unserved
     /\ UNCHANGED threw

FaultyDue(ids) == {a \in ids : alert[a].state # "none" /\ alert[a].due}
FaultyDueOnce(ids) == {a \in ids : alert[a].state = "pending" /\ alert[a].due /\ alert[a].attempts = 0}
Due(ids) == {a \in ids : alert[a].state = "pending" /\ alert[a].due}
Page(ids) == {a \in Due(ids) : Cardinality({b \in Due(ids) : b < a}) < PageLimit}

Read(r) ==
  /\ At(r, "read")
  /\ \/ /\ ~pushOn[Server(r)] /\ Return(r)
        /\ UNCHANGED <<faults, shared>>
     \/ /\ pushOn[Server(r)] /\ Fault /\ Return(r)
        /\ UNCHANGED shared
     \/ LET page == Page(run[r].ids)
        IN /\ pushOn[Server(r)]
           /\ run' = [run EXCEPT ![r].pc = "next", ![r].ids = {}, ![r].page = page]
           /\ shared' = shared \cup {a \in page : Holders(a) # {}}
           /\ UNCHANGED <<faults, again, askedVars>>
  /\ UNCHANGED <<alert, device, rehearsal, up, pushOn, pushes, slips, tries>>

EndPage(r) ==
  /\ At(r, "next") /\ run[r].page = {}
  /\ Return(r)
  /\ UNCHANGED <<alert, device, rehearsal, up, pushOn, faults, ghostVars>>

\* Suppressed, by the mark or because it cannot be read: the rest of the page is left.
Suppressed(r) ==
  /\ At(r, "next") /\ run[r].page # {}
  /\ (rehearsal /\ UNCHANGED faults) \/ Fault
  /\ Return(r)
  /\ UNCHANGED <<alert, device, rehearsal, up, pushOn, ghostVars>>

\* The first of the page: the list of phones; or a failed query, and no phone.
Deliver(r) ==
  /\ At(r, "next") /\ run[r].page # {} /\ ~rehearsal
  /\ \E phones \in {Subscribed, {}} :
       /\ IF phones = Subscribed THEN UNCHANGED faults ELSE Fault
       /\ run' = [run EXCEPT ![r].pc = "push", ![r].phones = phones, ![r].reached = FALSE, ![r].ok = FALSE]
  /\ UNCHANGED <<alert, device, rehearsal, up, pushOn, again, askedVars, ghostVars>>

\* A phone that refuses is counted, and forgotten at the limit.
Counted(n) == IF n = Gone \/ n + 1 >= MaxFailures THEN Gone ELSE n + 1

\* One push. Its bookkeeping may fail: a push that was accepted is then taken
\* for refused; if the count fails too, the whole delivery is.
Push(r, d, a, answer) ==
  LET accepted == answer = "accepted"
      reached == run[r].reached \/ accepted
      Result(n, phones, ok) ==
        /\ device' = [device EXCEPT ![d] = n]
        /\ run' = [run EXCEPT ![r].phones = phones, ![r].reached = reached, ![r].ok = ok]
      left == run[r].phones \ {d}
      booked == CASE accepted          -> IF device[d] = Gone THEN Gone ELSE 0
                  [] answer = "gone"   -> Gone
                  [] answer = "failed" -> Counted(device[d])
  IN /\ Delivering(r, a) /\ d \in run[r].phones
     /\ \/ Result(booked, left, run[r].ok \/ accepted) /\ UNCHANGED faults
        \/ accepted /\ Fault /\ Result(Counted(device[d]), left, run[r].ok)
        \/ Fault /\ Result(device[d], {}, FALSE)
     /\ pushes' = IF reached /\ ~run[r].reached THEN [pushes EXCEPT ![a] = @ + 1] ELSE pushes
     /\ UNCHANGED <<alert, rehearsal, up, pushOn, again, askedVars, slips, shared, tries>>

Sent(row) == [row EXCEPT !.state = "sent", !.attempts = @ + 1]

Refused(row) ==
  [row EXCEPT !.attempts = @ + 1, !.due = FALSE, !.state = IF row.attempts + 1 >= MaxAttempts THEN "gave_up" ELSE "pending"]

\* WHERE state = 'pending', and the guard of migration 017.
FaultyRecordedAny(row, ok) == IF row.state = "pending" THEN Sent(row) ELSE row
Recorded(row, ok) == IF row.state # "pending" THEN row ELSE IF ok THEN Sent(row) ELSE Refused(row)

\* No phone is left to push to: the result, if it can be recorded.
Record(r, a) ==
  LET ok == run[r].ok
  IN /\ Delivering(r, a) /\ run[r].phones = {}
     /\ run' = [run EXCEPT ![r].pc = "next", ![r].page = @ \ {a}, ![r].reached = FALSE, ![r].ok = FALSE]
     /\ tries' = IF ok THEN tries ELSE [tries EXCEPT ![a] = @ + 1]
     /\ \/ /\ alert' = [alert EXCEPT ![a] = Recorded(@, ok)]
           /\ slips' = IF run[r].reached /\ ~ok THEN [slips EXCEPT ![a] = @ + 1] ELSE slips
           /\ UNCHANGED faults
        \/ /\ Fault /\ UNCHANGED alert
           /\ slips' = IF run[r].reached THEN [slips EXCEPT ![a] = @ + 1] ELSE slips
     /\ UNCHANGED <<device, rehearsal, up, pushOn, again, askedVars, pushes, shared>>

------------------------------------------------------------------------------
(* Time, the phones, the rehearsal mark, restarts.                         *)

BackoffEnds(a) ==
  /\ ~alert[a].due /\ alert[a].state = "pending"
  /\ alert' = [alert EXCEPT ![a].due = TRUE]
  /\ UNCHANGED <<device, rehearsal, up, pushOn, run, again, faults, askedVars, ghostVars>>

Subscribe(d) ==
  /\ device' = [device EXCEPT ![d] = 0]
  /\ UNCHANGED <<alert, rehearsal, up, pushOn, run, again, faults, askedVars, ghostVars>>

Unsubscribe(d) ==
  /\ device' = [device EXCEPT ![d] = Gone]
  /\ UNCHANGED <<alert, rehearsal, up, pushOn, run, again, faults, askedVars, ghostVars>>

Mark(on) ==
  /\ rehearsal' = on
  /\ UNCHANGED <<alert, device, up, pushOn, run, again, faults, askedVars, ghostVars>>

Crash(s) ==
  /\ s \in up /\ Fault
  /\ up' = up \ {s}
  /\ run' = [r \in Runs |-> IF Server(r) = s THEN NoRun ELSE run[r]]
  /\ again' = [again EXCEPT ![s] = FALSE]
  /\ unserved' = unserved \ {s} /\ threw' = threw \ {s}
  /\ slips' = [a \in Alerts |-> slips[a] +
                 Cardinality({r \in Runs : Server(r) = s /\ Delivering(r, a) /\ run[r].reached})]
  /\ UNCHANGED <<alert, device, rehearsal, pushOn, pushes, shared, tries>>

Boot(s, on) ==
  /\ s \notin up
  /\ up' = up \cup {s}
  /\ pushOn' = [pushOn EXCEPT ![s] = on]
  /\ UNCHANGED <<alert, device, rehearsal, run, again, faults, askedVars, ghostVars>>

------------------------------------------------------------------------------
Answers == {"accepted", "gone", "failed"}

DispatchStep(r) ==
  \/ Read(r) \/ EndPage(r) \/ Suppressed(r) \/ Deliver(r)
  \/ \E a \in Alerts : Record(r, a) \/ \E d \in Devices, answer \in Answers : Push(r, d, a, answer)

Next ==
  \/ \E r \in Runs : DispatchStep(r) \/ \E ids \in SUBSET Alerts : Commit(r, ids)
  \/ \E s \in Servers :
       Request(s) \/ LastDispatch(s) \/ SweepFails(s) \/ Crash(s) \/ \E on \in BOOLEAN : Boot(s, on)
  \/ \E a \in Alerts : BackoffEnds(a)
  \/ \E d \in Devices : Subscribe(d) \/ Unsubscribe(d)
  \/ \E on \in BOOLEAN : Mark(on)

Spec == Init /\ [][Next]_vars

\* The interval asks again, what a sweeper awaits comes back, a backoff ends.
\* Nothing is asked of the other tasks: they may hang.
FairSpec ==
  /\ Spec
  /\ \A s \in Servers : /\ WF_vars(Request(s)) /\ WF_vars(LastDispatch(s))
                        /\ WF_vars(DispatchStep(SweepOf(s)))
                        /\ WF_vars(Boot(s, TRUE))
  /\ \A a \in Alerts : WF_vars(BackoffEnds(a))

------------------------------------------------------------------------------
(* Properties.                                                             *)

\* An alert reaches the phones once, but for the times its result was lost (a
\* record or a bookkeeping that failed, a process that died). One that two tasks
\* held at the same time, for a dispatch has no claim on its page, may reach
\* them once per task (alerts.js:65-81; push.js:83-105).
PushedOnce ==
  \A a \in Alerts : pushes[a] <= slips[a] + (IF a \in shared THEN Cardinality(Runs) ELSE 1)

\* 'sent' means a phone accepted it, and 'gave_up', of an alert no two tasks
\* held, that each push which did arrive had its result lost (alerts.js:57-59).
StateIsHonest ==
  \A a \in Alerts : /\ alert[a].state = "sent" => pushes[a] > 0
                    /\ alert[a].state = "gave_up" /\ a \notin shared => pushes[a] <= slips[a]

\* Each attempt an alert is charged is a delivery that ended with no push booked
\* as accepted (none was, or the bookkeeping of one failed, push.js:90), however
\* many tasks share it; it is given up at MaxAttempts of them, and a suppressed
\* push, or the switch, costs it nothing (alerts.js:59, 62, 77, 86-91).
AttemptsAreTries ==
  \A a \in Alerts : /\ alert[a].state \in {"pending", "gave_up"} => alert[a].attempts <= tries[a]
                    /\ alert[a].state = "gave_up" => alert[a].attempts = MaxAttempts

\* A sweep that is asked for during a pass is remembered until a pass begins, and
\* while it is due the sweeper is running, unless the pass threw: then it waits
\* for the next request, an interval away (worker.js:85-97).
RequestIsKept ==
  \A s \in unserved : s \in up /\ again[s] /\ (~At(SweepOf(s), "idle") \/ s \in threw)

\* A delivery that comes late changes nothing: an alert that is sent or given
\* up stays so, with its count (alerts.js:81, 91; migration 017:506-517).
SettledForGood ==
  [][\A a \in Alerts : alert[a].state \in {"sent", "gave_up"} => alert'[a] = alert[a]]_alert

\* Every alert is sent or given up, though its own dispatch dies, suppressed
\* pushes come in between, and others wait for the same page: if some server
\* stays up with the switch on, and the database is not marked (worker.js:78).
CanPush == ~rehearsal /\ \E s \in up : pushOn[s]
AlertSettles ==
  <>[]CanPush => \A a \in Alerts : alert[a].state = "pending" ~> alert[a].state \in {"sent", "gave_up"}
=============================================================================
