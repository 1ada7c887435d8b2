------------------------- MODULE AlertOutboxProofs -------------------------
(***************************************************************************)
(* Theorems about AlertOutbox, for any number of servers, tasks, alerts    *)
(* and phones, any page, limits and number of faults.                      *)
(***************************************************************************)
EXTENDS AlertOutbox, FiniteSetTheorems, TLAPS

RunType == [pc : Steps, ids : SUBSET Alerts, last : BOOLEAN, page : SUBSET Alerts,
            phones : SUBSET Devices, reached : BOOLEAN, ok : BOOLEAN]
RowType == [state : States, attempts : 0..MaxAttempts, due : BOOLEAN]

\* A row that can still be tried has an attempt left.
Open(row) == row.state \in {"none", "pending"} => row.attempts < MaxAttempts
RowsOpen == \A a \in Alerts : Open(alert[a])

\* Only a sweeper's run is a last dispatch, only a server that is up runs, and
\* a request that came during a pass is remembered until the loop, or the next
\* request after a pass that threw, sees it.
SweepOK ==
  /\ \A r \in Runs : run[r].last => IsSweep(r)
  /\ \A r \in Runs : ~At(r, "idle") => Server(r) \in up
  /\ \A s \in unserved : again[s] /\ s \in up /\ (~At(SweepOf(s), "idle") \/ s \in threw)

Base == TypeOK /\ RowsOpen /\ SweepOK

LEMMA RunTypes ==
  /\ \A pc \in Steps, ids \in SUBSET Alerts, last \in BOOLEAN :
        /\ Run(pc, ids, last) \in RunType
        /\ Run(pc, ids, last).pc = pc /\ Run(pc, ids, last).last = last
  /\ NoRun \in RunType /\ NoRun.pc = "idle" /\ NoRun.last = FALSE
  /\ Work \in RunType /\ Work.pc = "work" /\ Work.last = FALSE
BY DEF Run, RunType, NoRun, Work, Steps

LEMMA RunsAre ==
  /\ \A s \in Servers : SweepOf(s) \in Runs /\ Server(SweepOf(s)) = s /\ IsSweep(SweepOf(s))
  /\ \A r \in Runs : Server(r) \in Servers
  /\ \A r \in Runs : IsSweep(r) => r = SweepOf(Server(r))
BY AlertAssumption DEF Runs, SweepOf, Server, IsSweep

LEMMA RecordedRow ==
  ASSUME AlertAssumption, NEW row \in RowType, Open(row), NEW ok \in BOOLEAN
  PROVE  /\ Recorded(row, ok) \in RowType
         /\ Open(Recorded(row, ok))
         /\ row.state # "pending" => Recorded(row, ok) = row
<1>1. CASE row.state # "pending"
  BY <1>1 DEF Recorded
<1>2. CASE row.state = "pending"
  <2>1. row.attempts \in Nat /\ row.attempts + 1 <= MaxAttempts /\ MaxAttempts \in Nat /\ row.due \in BOOLEAN
    BY <1>2 DEF AlertAssumption, RowType, Open
  <2>2. row.attempts + 1 \in 0..MaxAttempts
    BY <2>1
  <2>3. /\ Sent(row) \in RowType
        /\ Sent(row).state = "sent"
    BY <2>2 DEF RowType, Sent, States
  <2>4. /\ Refused(row) \in RowType
        /\ Refused(row).state = "pending" => Refused(row).attempts < MaxAttempts
        /\ Refused(row).state # "none"
    <3> DEFINE state == IF row.attempts + 1 >= MaxAttempts THEN "gave_up" ELSE "pending"
    <3>1. state \in States /\ state # "none" /\ (state = "pending" => row.attempts + 1 < MaxAttempts)
      BY <2>1 DEF States
    <3> HIDE DEF state
    <3>2. [row EXCEPT !.attempts = row.attempts + 1, !.due = FALSE, !.state = state] \in RowType
      BY <2>2, <3>1 DEF RowType
    <3> QED BY <3>1, <3>2 DEF Refused, state, RowType
  <2> QED BY <1>2, <2>3, <2>4 DEF Recorded, Open
<1> QED BY <1>1, <1>2

LEMMA BaseInit == ASSUME AlertAssumption, Init PROVE Base
<1>1. alert \in [Alerts -> RowType] /\ RowsOpen
  BY DEF Init, RowType, States, AlertAssumption, RowsOpen, Open
<1>2. run \in [Runs -> RunType]
  BY RunTypes DEF Init
<1>3. device \in [Devices -> 0..(MaxFailures - 1) \cup {Gone}] /\ 0 \in 0..MaxFaults
  BY DEF Init, AlertAssumption
<1>4. TypeOK
  BY <1>1, <1>2, <1>3 DEF Init, TypeOK, RowType, RunType
<1>5. SweepOK
  BY RunTypes DEF Init, SweepOK, At
<1> QED BY <1>1, <1>4, <1>5 DEF Base

------------------------------------------------------------------------------
(* Each step keeps the base.                                               *)

\* What a step of a dispatch does to the run it belongs to.
LEMMA ReturnKeeps ==
  ASSUME AlertAssumption, Base, NEW r \in Runs, ~At(r, "idle"), Return(r), UNCHANGED up
  PROVE  /\ run' \in [Runs -> RunType] /\ again' \in [Servers -> BOOLEAN]
         /\ unserved' \subseteq Servers /\ threw' \subseteq Servers /\ SweepOK'
<1> USE RunsAre DEF Base
<1> DEFINE s == Server(r)
<1>1. s \in Servers /\ s \in up
  BY DEF SweepOK
<1>2. run \in [Runs -> RunType] /\ again \in [Servers -> BOOLEAN] /\ unserved \subseteq Servers /\ threw \subseteq Servers
  BY DEF TypeOK, RunType
<1>3. /\ run' \in [Runs -> RunType] /\ again' \in [Servers -> BOOLEAN]
      /\ unserved' \subseteq Servers /\ threw' \subseteq Servers
  BY <1>1, <1>2, RunTypes DEF Return
<1>4. \A q \in Runs : run'[q].last => IsSweep(q)
  BY <1>2, RunTypes DEF Return, SweepOK
<1>5. \A q \in Runs : run'[q].pc # "idle" => Server(q) \in up'
  BY <1>1, <1>2, RunTypes DEF Return, SweepOK, At
<1>6. ASSUME NEW t \in unserved' PROVE again'[t] /\ t \in up' /\ (run'[SweepOf(t)].pc # "idle" \/ t \in threw')
  <2>1. /\ t \in unserved /\ again[t] /\ t \in up /\ t \in Servers
        /\ run[SweepOf(t)].pc # "idle" \/ t \in threw'
    BY <1>2 DEF Return, SweepOK, At
  <2>2. CASE r # SweepOf(t)
    <3>1. ~run[r].last \/ t # s
      BY <2>2 DEF SweepOK
    <3> QED BY <1>2, <2>1, <2>2, <3>1 DEF Return
  <2>3. CASE r = SweepOf(t)
    <3>1. t = s /\ IsSweep(r)
      BY <2>1, <2>3
    <3>2. ~(run[r].last /\ LoopsAgain(s))
      BY <3>1 DEF Return
    <3>3. ~run[r].last
      BY <2>1, <3>1, <3>2 DEF LoopsAgain
    <3>4. run'[r] = Work /\ again' = again
      BY <1>2, <3>1, <3>3 DEF Return
    <3> QED BY <2>1, <2>3, <3>4, RunTypes
  <2> QED BY <2>2, <2>3
<1> QED BY <1>3, <1>4, <1>5, <1>6 DEF SweepOK, At

\* A step of a run that goes on: it is not idle afterwards, and not a new last dispatch.
LEMMA GoesOn ==
  ASSUME AlertAssumption, Base, NEW r \in Runs, NEW v \in RunType,
         run' = [run EXCEPT ![r] = v], v.pc # "idle", v.last => IsSweep(r), Server(r) \in up,
         UNCHANGED <<up, again, askedVars>>
  PROVE  run' \in [Runs -> RunType] /\ SweepOK'
<1>1. run \in [Runs -> RunType]
  BY DEF Base, TypeOK, RunType
<1>2. \A q \in Runs : run'[q] = IF q = r THEN v ELSE run[q]
  BY <1>1
<1>3. \A t \in unserved : SweepOf(t) \in Runs
  BY RunsAre DEF Base, TypeOK
<1> QED BY <1>1, <1>2, <1>3 DEF Base, SweepOK, At, askedVars

LEMMA FaultType == ASSUME AlertAssumption, TypeOK, Fault PROVE faults' \in 0..MaxFaults
BY DEF AlertAssumption, TypeOK, Fault

\* The types of everything but the run and its server's flags.
Rest ==
  /\ alert \in [Alerts -> RowType]
  /\ device \in [Devices -> 0..(MaxFailures - 1) \cup {Gone}]
  /\ rehearsal \in BOOLEAN
  /\ up \subseteq Servers
  /\ pushOn \in [Servers -> BOOLEAN]
  /\ faults \in 0..MaxFaults
  /\ pushes \in [Alerts -> Nat] /\ slips \in [Alerts -> Nat] /\ tries \in [Alerts -> Nat]
  /\ shared \subseteq Alerts

Flags ==
  /\ run \in [Runs -> RunType]
  /\ again \in [Servers -> BOOLEAN]
  /\ unserved \subseteq Servers /\ threw \subseteq Servers

LEMMA TypeParts == TypeOK <=> Rest /\ Flags
BY DEF TypeOK, Rest, Flags, RowType, RunType

LEMMA TypePartsPrime == TypeOK' <=> Rest' /\ Flags'
BY DEF TypeOK, Rest, Flags, RowType, RunType

LEMMA RequestStep == ASSUME AlertAssumption, Base, NEW s \in Servers, Request(s) PROVE Base'
<1> USE DEF Request, ghostVars, askedVars
<1>1. Rest' /\ RowsOpen'
  BY TypeParts DEF Base, Rest, RowsOpen
<1>2. run \in [Runs -> RunType] /\ again \in [Servers -> BOOLEAN] /\ unserved \subseteq Servers /\ threw \subseteq Servers
  BY TypeParts DEF Base, Flags
<1>3. Flags'
  <2>1. run' \in [Runs -> RunType]
    <3>1. run' = run \/ run' = [run EXCEPT ![SweepOf(s)] = Work]
      OBVIOUS
    <3> QED BY <1>2, <3>1, RunTypes
  <2>2. again' \in [Servers -> BOOLEAN]
    <3>1. again' = [again EXCEPT ![s] = FALSE] \/ again' = [again EXCEPT ![s] = TRUE]
      OBVIOUS
    <3> QED BY <1>2, <3>1
  <2>3. unserved' \subseteq Servers /\ threw' \subseteq Servers
    <3>1. unserved' \subseteq unserved \cup {s} /\ threw' \subseteq threw
      OBVIOUS
    <3> QED BY <1>2, <3>1
  <2> QED BY <2>1, <2>2, <2>3 DEF Flags
<1>4. SweepOK'
  <2>1. CASE At(SweepOf(s), "idle")
    <3>1. \A q \in Runs : run'[q] = IF q = SweepOf(s) THEN Work ELSE run[q]
      BY <1>2, <2>1
    <3>2. unserved' = unserved \ {s} /\ threw' = threw \ {s} /\ again' = [again EXCEPT ![s] = FALSE]
      BY <2>1
    <3> QED BY <1>2, <2>1, <3>1, <3>2, RunTypes, RunsAre DEF Base, SweepOK, At
  <2>2. CASE ~At(SweepOf(s), "idle")
    BY <1>2, <2>2 DEF Base, SweepOK, At
  <2> QED BY <2>1, <2>2
<1> QED BY <1>1, <1>3, <1>4, TypePartsPrime DEF Base

LEMMA LastDispatchStep == ASSUME AlertAssumption, Base, NEW s \in Servers, LastDispatch(s) PROVE Base'
<1> USE DEF LastDispatch, ghostVars, askedVars
<1>1. Rest' /\ RowsOpen'
  BY TypeParts DEF Base, Rest, RowsOpen
<1>2. SweepOf(s) \in Runs /\ IsSweep(SweepOf(s)) /\ Server(SweepOf(s)) \in up
  BY RunsAre DEF Base, SweepOK, At
<1>3. Run("read", Alerts, TRUE) \in RunType /\ Run("read", Alerts, TRUE).pc = "read"
  BY RunTypes DEF Steps
<1>4. run' \in [Runs -> RunType] /\ SweepOK'
  BY <1>2, <1>3, GoesOn
<1> QED BY <1>1, <1>4, TypeParts, TypePartsPrime DEF Base, Flags

LEMMA SweepFailsStep == ASSUME AlertAssumption, Base, NEW s \in Servers, SweepFails(s) PROVE Base'
<1>1. Rest' /\ RowsOpen'
  BY TypeParts, FaultType DEF Base, Rest, RowsOpen, SweepFails, ghostVars
<1>2. run \in [Runs -> RunType] /\ again \in [Servers -> BOOLEAN] /\ unserved \subseteq Servers /\ threw \subseteq Servers
  BY TypeParts DEF Base, Flags
<1>3. \A q \in Runs : run'[q] = IF q = SweepOf(s) THEN NoRun ELSE run[q]
  BY <1>2 DEF SweepFails
<1>4. Flags'
  BY <1>2, RunTypes DEF Flags, SweepFails
<1>5. unserved' = unserved /\ threw' = threw \cup {s} /\ UNCHANGED <<again, up>>
  BY DEF SweepFails
<1>6. \A t \in unserved : t # s => SweepOf(t) # SweepOf(s) /\ SweepOf(t) \in Runs
  BY <1>2, RunsAre DEF SweepOf
<1>7. SweepOK'
  BY <1>3, <1>5, <1>6, RunTypes DEF Base, SweepOK, At
<1> QED BY <1>1, <1>4, <1>7, TypePartsPrime DEF Base

LEMMA CommitStep ==
  ASSUME AlertAssumption, Base, NEW r \in Runs, NEW ids \in SUBSET Alerts, Commit(r, ids) PROVE Base'
<1> USE DEF Commit, ghostVars, askedVars
<1>1. alert' \in [Alerts -> RowType] /\ RowsOpen'
  BY TypeParts DEF Base, Rest, RowType, States, RowsOpen, Open
<1>2. Rest'
  BY <1>1, TypeParts DEF Base, Rest
<1>3. Run("read", ids, FALSE) \in RunType /\ Run("read", ids, FALSE).pc = "read" /\ Run("read", ids, FALSE).last = FALSE
  BY RunTypes DEF Steps
<1>4. run' \in [Runs -> RunType] /\ SweepOK'
  BY <1>3, GoesOn
<1> QED BY <1>1, <1>2, <1>4, TypeParts, TypePartsPrime DEF Base, Flags

\* What a dispatch may do to one row: record a result, or nothing.
LEMMA RowsRecorded ==
  ASSUME AlertAssumption, Base, NEW a \in Alerts, NEW ok \in BOOLEAN,
         alert' = [alert EXCEPT ![a] = Recorded(@, ok)]
  PROVE  alert' \in [Alerts -> RowType] /\ RowsOpen'
<1>1. alert \in [Alerts -> RowType] /\ \A b \in Alerts : Open(alert[b])
  BY TypeParts DEF Base, Rest, RowsOpen
<1>2. Recorded(alert[a], ok) \in RowType /\ Open(Recorded(alert[a], ok))
  BY <1>1, RecordedRow
<1> QED BY <1>1, <1>2 DEF RowsOpen

LEMMA ReadStep == ASSUME AlertAssumption, Base, NEW r \in Runs, Read(r) PROVE Base'
<1> USE RunsAre DEF ghostVars
<1>1. ~At(r, "idle") /\ Server(r) \in up /\ (run[r].last => IsSweep(r)) /\ run[r] \in RunType
  BY TypeParts DEF Read, At, Base, SweepOK, Flags
<1>2. UNCHANGED <<alert, device, rehearsal, up, pushOn, pushes, slips, tries>>
  BY DEF Read
<1>3. RowsOpen'
  BY <1>2 DEF Base, RowsOpen
<1>4. CASE Return(r)
  <2>1. faults' \in 0..MaxFaults /\ shared' \subseteq Alerts
    BY <1>1, TypeParts, FaultType DEF Read, Base, Rest, Page, Due, RunType
  <2>2. Rest'
    BY <1>2, <2>1, TypeParts DEF Base, Rest
  <2> QED BY <1>1, <1>2, <1>3, <1>4, <2>2, ReturnKeeps, TypePartsPrime DEF Base, Flags
<1>5. CASE ~Return(r)
  <2> DEFINE v == [run[r] EXCEPT !.pc = "next", !.ids = {}, !.page = Page(run[r].ids)]
  <2>1. run' = [run EXCEPT ![r] = v] /\ UNCHANGED <<faults, again, askedVars>>
    BY <1>5, TypeParts DEF Read, Base, Flags
  <2>2. Page(run[r].ids) \subseteq Alerts
    BY <1>1 DEF Page, Due, RunType
  <2>3. v \in RunType /\ v.pc = "next" /\ v.last = run[r].last
    BY <1>1, <2>2 DEF RunType, Steps
  <2>4. run' \in [Runs -> RunType] /\ SweepOK'
    <3> HIDE DEF v
    <3> QED BY <1>1, <1>2, <2>1, <2>3, GoesOn
  <2>5. shared' \subseteq Alerts
    BY <1>5, <2>2, TypeParts DEF Read, Base, Rest
  <2>6. Rest'
    BY <1>2, <2>1, <2>5, TypeParts DEF Base, Rest
  <2> QED BY <1>3, <2>1, <2>4, <2>6, TypeParts, TypePartsPrime DEF Base, Flags, askedVars
<1> QED BY <1>4, <1>5

LEMMA ReturnStep ==
  ASSUME AlertAssumption, Base, NEW r \in Runs, EndPage(r) \/ Suppressed(r) PROVE Base'
<1>1. ~At(r, "idle") /\ Return(r) /\ UNCHANGED <<alert, device, rehearsal, up, pushOn, ghostVars>>
  BY DEF EndPage, Suppressed, At
<1>2. faults' \in 0..MaxFaults
  BY TypeParts, FaultType DEF EndPage, Suppressed, Base, Rest
<1>3. Rest' /\ RowsOpen'
  BY <1>1, <1>2, TypeParts DEF Base, Rest, RowsOpen, ghostVars
<1> QED BY <1>1, <1>3, ReturnKeeps, TypePartsPrime DEF Base, Flags

LEMMA DeliverStep == ASSUME AlertAssumption, Base, NEW r \in Runs, Deliver(r) PROVE Base'
<1>1. ~At(r, "idle") /\ Server(r) \in up /\ (run[r].last => IsSweep(r)) /\ run[r] \in RunType
  BY TypeParts DEF Deliver, At, Base, SweepOK, Flags
<1>2. PICK phones \in {Subscribed, {}} :
        /\ IF phones = Subscribed THEN UNCHANGED faults ELSE Fault
        /\ run' = [run EXCEPT ![r].pc = "push", ![r].phones = phones, ![r].reached = FALSE, ![r].ok = FALSE]
  BY DEF Deliver
<1> DEFINE v == [run[r] EXCEPT !.pc = "push", !.phones = phones, !.reached = FALSE, !.ok = FALSE]
<1>3. phones \subseteq Devices
  BY DEF Subscribed
<1>4. v \in RunType /\ v.pc = "push" /\ v.last = run[r].last
  BY <1>1, <1>3 DEF RunType, Steps
<1>5. run' = [run EXCEPT ![r] = v] /\ UNCHANGED <<up, again, askedVars>>
  BY <1>2, TypeParts DEF Deliver, Base, Flags
<1>6. run' \in [Runs -> RunType] /\ SweepOK'
  <2> HIDE DEF v
  <2> QED BY <1>1, <1>4, <1>5, GoesOn
<1>7. faults' \in 0..MaxFaults
  BY <1>2, TypeParts, FaultType DEF Base, Rest
<1>8. Rest' /\ RowsOpen'
  BY <1>7, TypeParts DEF Deliver, Base, Rest, RowsOpen, ghostVars
<1> QED BY <1>5, <1>6, <1>8, TypeParts, TypePartsPrime DEF Base, Flags, askedVars

LEMMA CountedType ==
  ASSUME AlertAssumption, NEW n \in 0..(MaxFailures - 1) \cup {Gone}
  PROVE  Counted(n) \in 0..(MaxFailures - 1) \cup {Gone}
BY DEF AlertAssumption, Counted

LEMMA PushStep ==
  ASSUME AlertAssumption, Base, NEW r \in Runs, NEW d \in Devices, NEW a \in Alerts, NEW answer \in Answers,
         Push(r, d, a, answer)
  PROVE  Base'
<1> DEFINE FailureType == 0..(MaxFailures - 1) \cup {Gone}
<1>1. ~At(r, "idle") /\ Server(r) \in up /\ (run[r].last => IsSweep(r)) /\ run[r] \in RunType
  BY TypeParts DEF Push, Delivering, At, Base, SweepOK, Flags
<1>2. device \in [Devices -> FailureType] /\ 0 \in FailureType /\ Gone \in FailureType
  BY TypeParts DEF Base, Rest, AlertAssumption
<1>3. /\ Counted(device[d]) \in FailureType
      /\ (IF device[d] = Gone THEN Gone ELSE 0) \in FailureType
  <2>1. device[d] \in FailureType
    BY <1>2
  <2> HIDE DEF FailureType
  <2>2. (IF device[d] = Gone THEN Gone ELSE 0) \in FailureType
    BY <1>2
  <2>3. Counted(device[d]) \in FailureType
    BY <2>1, CountedType DEF FailureType
  <2> QED BY <2>2, <2>3
<1>4. PICK n \in FailureType, phones \in SUBSET Devices, reached \in BOOLEAN, ok \in BOOLEAN :
        /\ device' = [device EXCEPT ![d] = n]
        /\ run' = [run EXCEPT ![r].phones = phones, ![r].reached = reached, ![r].ok = ok]
        /\ faults' = faults \/ Fault
  <2> DEFINE accepted == answer = "accepted"
             reached == run[r].reached \/ accepted
             left == run[r].phones \ {d}
             booked == CASE accepted -> IF device[d] = Gone THEN Gone ELSE 0
                         [] answer = "gone" -> Gone
                         [] answer = "failed" -> Counted(device[d])
             R(n, phones, ok) ==
               /\ device' = [device EXCEPT ![d] = n]
               /\ run' = [run EXCEPT ![r].phones = phones, ![r].reached = reached, ![r].ok = ok]
  <2>1. booked \in FailureType
    BY <1>2, <1>3 DEF Answers
  <2>2. left \in SUBSET Devices /\ {} \in SUBSET Devices /\ reached \in BOOLEAN
    BY <1>1 DEF RunType
  <2>3. \/ R(booked, left, run[r].ok \/ accepted) /\ UNCHANGED faults
        \/ Fault /\ R(Counted(device[d]), left, run[r].ok)
        \/ Fault /\ R(device[d], {}, FALSE)
    BY DEF Push
  <2>4. (run[r].ok \/ accepted) \in BOOLEAN /\ run[r].ok \in BOOLEAN /\ device[d] \in FailureType
    BY <1>1, <1>2 DEF RunType
  <2> HIDE DEF booked, left, reached, accepted, FailureType
  <2> QED BY <1>3, <2>1, <2>2, <2>3, <2>4
<1> DEFINE v == [run[r] EXCEPT !.phones = phones, !.reached = reached, !.ok = ok]
<1>5. v \in RunType /\ v.pc # "idle" /\ v.last = run[r].last
  BY <1>1 DEF RunType, At
<1>6. run' = [run EXCEPT ![r] = v] /\ UNCHANGED <<up, again, askedVars>>
  BY <1>4, TypeParts DEF Push, Base, Flags
<1>7. run' \in [Runs -> RunType] /\ SweepOK'
  <2> HIDE DEF v
  <2> QED BY <1>1, <1>5, <1>6, GoesOn
<1>8. device' \in [Devices -> FailureType] /\ faults' \in 0..MaxFaults
  BY <1>2, <1>4, TypeParts, FaultType DEF Base, Rest
<1>9. pushes' \in [Alerts -> Nat]
  BY TypeParts DEF Push, Base, Rest
<1>10. Rest' /\ RowsOpen'
  BY <1>8, <1>9, TypeParts DEF Push, Base, Rest, RowsOpen
<1> QED BY <1>6, <1>7, <1>10, TypeParts, TypePartsPrime DEF Base, Flags, askedVars

LEMMA RecordStep ==
  ASSUME AlertAssumption, Base, NEW r \in Runs, NEW a \in Alerts, Record(r, a) PROVE Base'
<1>1. ~At(r, "idle") /\ Server(r) \in up /\ (run[r].last => IsSweep(r)) /\ run[r] \in RunType
  BY TypeParts DEF Record, Delivering, At, Base, SweepOK, Flags
<1> DEFINE v == [run[r] EXCEPT !.pc = "next", !.page = @ \ {a}, !.reached = FALSE, !.ok = FALSE]
<1>2. v \in RunType /\ v.pc # "idle" /\ v.last = run[r].last
  BY <1>1 DEF RunType, Steps
<1>3. run' = [run EXCEPT ![r] = v] /\ UNCHANGED <<up, again, askedVars>>
  BY TypeParts DEF Record, Base, Flags
<1>4. run' \in [Runs -> RunType] /\ SweepOK'
  <2> HIDE DEF v
  <2> QED BY <1>1, <1>2, <1>3, GoesOn
<1>5. alert' \in [Alerts -> RowType] /\ RowsOpen'
  <2>1. run[r].ok \in BOOLEAN
    BY <1>1 DEF RunType
  <2>2. CASE alert' = alert
    BY <2>2, TypeParts DEF Base, Rest, RowsOpen
  <2> QED BY <2>1, <2>2, RowsRecorded DEF Record
<1>6. faults' \in 0..MaxFaults
  BY TypeParts, FaultType DEF Record, Base, Rest
<1>7. slips' \in [Alerts -> Nat] /\ tries' \in [Alerts -> Nat]
  BY TypeParts DEF Record, Base, Rest
<1>8. Rest'
  BY <1>5, <1>6, <1>7, TypeParts DEF Record, Base, Rest
<1> QED BY <1>3, <1>4, <1>5, <1>8, TypeParts, TypePartsPrime DEF Base, Flags, askedVars

LEMMA RunsFinite == ASSUME AlertAssumption PROVE IsFiniteSet(Runs) /\ \A S \in SUBSET Runs : Cardinality(S) \in Nat
<1>1. IsFiniteSet(Kicks \cup {Sweeper})
  BY FS_AddElement DEF AlertAssumption
<1>2. IsFiniteSet(Runs)
  BY <1>1, FS_Product DEF AlertAssumption, Runs
<1> QED BY <1>2, FS_Subset, FS_CardinalityType

LEMMA CrashStep == ASSUME AlertAssumption, Base, NEW s \in Servers, Crash(s) PROVE Base'
<1>1. slips' \in [Alerts -> Nat]
  <2>1. slips \in [Alerts -> Nat]
    BY TypeParts DEF Base, Rest
  <2>2. \A a \in Alerts :
          Cardinality({r \in Runs : Server(r) = s /\ Delivering(r, a) /\ run[r].reached}) \in Nat
    BY RunsFinite
  <2> QED BY <2>1, <2>2 DEF Crash
<1>2. Rest' /\ RowsOpen'
  BY <1>1, TypeParts, FaultType DEF Crash, Base, Rest, RowsOpen
<1>3. run \in [Runs -> RunType] /\ again \in [Servers -> BOOLEAN] /\ unserved \subseteq Servers /\ threw \subseteq Servers
  BY TypeParts DEF Base, Flags
<1>4. \A q \in Runs : run'[q] = IF Server(q) = s THEN NoRun ELSE run[q]
  BY DEF Crash
<1>5. Flags'
  BY <1>3, RunTypes DEF Crash, Flags
<1>6. SweepOK'
  BY <1>3, <1>4, RunTypes, RunsAre DEF Crash, Base, SweepOK, At
<1> QED BY <1>2, <1>5, <1>6, TypePartsPrime DEF Base

LEMMA OutsideStep ==
  ASSUME AlertAssumption, Base,
         \/ UNCHANGED vars
         \/ \E a \in Alerts : BackoffEnds(a)
         \/ \E d \in Devices : Subscribe(d) \/ Unsubscribe(d)
         \/ \E on \in BOOLEAN : Mark(on)
         \/ \E s \in Servers, on \in BOOLEAN : Boot(s, on)
  PROVE  Base'
<1>1. Rest /\ Flags /\ RowsOpen /\ SweepOK
  BY TypeParts DEF Base
<1>2. CASE UNCHANGED vars
  BY <1>1, <1>2, TypePartsPrime DEF vars, ghostVars, askedVars, Base, Rest, Flags, RowsOpen, SweepOK, At
<1>3. ASSUME NEW a \in Alerts, BackoffEnds(a) PROVE Base'
  <2>1. alert' \in [Alerts -> RowType] /\ RowsOpen'
    <3>1. alert \in [Alerts -> RowType] /\ \A b \in Alerts : Open(alert[b])
      BY <1>1 DEF Rest, RowsOpen
    <3> DEFINE row == [alert[a] EXCEPT !.due = TRUE]
    <3>2. row \in RowType /\ Open(row)
      BY <3>1 DEF RowType, Open
    <3>3. alert' = [alert EXCEPT ![a] = row]
      BY <1>3, <3>1 DEF BackoffEnds
    <3> HIDE DEF row
    <3> QED BY <3>1, <3>2, <3>3 DEF RowsOpen
  <2> QED BY <1>1, <1>3, <2>1, TypePartsPrime DEF BackoffEnds, ghostVars, askedVars, Base, Rest, Flags, SweepOK, At
<1>4. ASSUME NEW d \in Devices, Subscribe(d) \/ Unsubscribe(d) PROVE Base'
  <2>1. device' \in [Devices -> 0..(MaxFailures - 1) \cup {Gone}]
    BY <1>1, <1>4 DEF Subscribe, Unsubscribe, Rest, AlertAssumption
  <2> QED BY <1>1, <1>4, <2>1, TypePartsPrime
          DEF Subscribe, Unsubscribe, ghostVars, askedVars, Base, Rest, Flags, RowsOpen, SweepOK, At
<1>5. ASSUME NEW on \in BOOLEAN, Mark(on) PROVE Base'
  BY <1>1, <1>5, TypePartsPrime DEF Mark, ghostVars, askedVars, Base, Rest, Flags, RowsOpen, SweepOK, At
<1>6. ASSUME NEW s \in Servers, NEW on \in BOOLEAN, Boot(s, on) PROVE Base'
  BY <1>1, <1>6, TypePartsPrime DEF Boot, ghostVars, askedVars, Base, Rest, Flags, RowsOpen, SweepOK, At
<1> QED BY <1>2, <1>3, <1>4, <1>5, <1>6

LEMMA BaseStep == ASSUME AlertAssumption, Base, [Next]_vars PROVE Base'
<1>1. ASSUME NEW r \in Runs, DispatchStep(r) PROVE Base'
  BY <1>1, ReadStep, ReturnStep, DeliverStep, PushStep, RecordStep DEF DispatchStep
<1>2. ASSUME NEW s \in Servers,
             Request(s) \/ LastDispatch(s) \/ SweepFails(s) \/ Crash(s)
      PROVE  Base'
  BY <1>2, RequestStep, LastDispatchStep, SweepFailsStep, CrashStep
<1> QED BY <1>1, <1>2, CommitStep, OutsideStep DEF Next

\* The rows, the phones and the runs keep their types (alerts.js:61-97;
\* migration 017:268-281).
THEOREM AlertTypeCorrect == Spec => []TypeOK
<1>1. Init => Base
  BY AlertAssumption, BaseInit
<1>2. Base /\ [Next]_vars => Base'
  BY AlertAssumption, BaseStep
<1>3. Base => TypeOK
  BY DEF Base
<1> QED BY <1>1, <1>2, <1>3, PTL DEF Spec

\* A request for a sweep is remembered, and while it is due the sweeper runs or
\* its last pass threw, whatever else dispatches, fails or restarts
\* (worker.js:85-97).
THEOREM RequestIsKeptHolds == Spec => []RequestIsKept
<1>1. Init => Base
  BY AlertAssumption, BaseInit
<1>2. Base /\ [Next]_vars => Base'
  BY AlertAssumption, BaseStep
<1>3. Base => RequestIsKept
  BY DEF Base, SweepOK, RequestIsKept
<1> QED BY <1>1, <1>2, <1>3, PTL DEF Spec

------------------------------------------------------------------------------
(* Settled rows and attempts.                                              *)

\* What a step does to the rows.
LEMMA RowsStep ==
  ASSUME AlertAssumption, Base, [Next]_vars
  PROVE  \/ alert' = alert
         \/ \E ids \in SUBSET Alerts :
              /\ \A a \in ids : alert[a].state = "none"
              /\ alert' = [a \in Alerts |-> IF a \in ids THEN [alert[a] EXCEPT !.state = "pending"] ELSE alert[a]]
              /\ tries' = tries
         \/ \E a \in Alerts : /\ alert[a].state = "pending" /\ tries' = tries
                              /\ alert' = [alert EXCEPT ![a].due = TRUE]
         \/ \E a \in Alerts, ok \in BOOLEAN :
              /\ alert' = [alert EXCEPT ![a] = Recorded(@, ok)]
              /\ tries' = IF ok THEN tries ELSE [tries EXCEPT ![a] = @ + 1]
<1>1. ASSUME NEW r \in Runs, NEW a \in Alerts, Record(r, a), alert' # alert
      PROVE  \E ok \in BOOLEAN :
               /\ alert' = [alert EXCEPT ![a] = Recorded(@, ok)]
               /\ tries' = IF ok THEN tries ELSE [tries EXCEPT ![a] = @ + 1]
  <2>1. run[r].ok \in BOOLEAN
    BY TypeParts DEF Base, Flags, RunType
  <2> QED BY <1>1, <2>1 DEF Record
<1>2. ASSUME NEW r \in Runs, DispatchStep(r), \A a \in Alerts : ~Record(r, a) PROVE alert' = alert
  BY <1>2 DEF DispatchStep, Read, EndPage, Suppressed, Deliver, Push
<1>3. ASSUME NEW s \in Servers,
             Request(s) \/ LastDispatch(s) \/ SweepFails(s) \/ Crash(s) \/ \E on \in BOOLEAN : Boot(s, on)
      PROVE  alert' = alert
  BY <1>3 DEF Request, LastDispatch, SweepFails, Crash, Boot
<1>4. ASSUME (\E d \in Devices : Subscribe(d) \/ Unsubscribe(d)) \/ (\E on \in BOOLEAN : Mark(on)) \/ UNCHANGED vars
      PROVE  alert' = alert
  BY <1>4 DEF Subscribe, Unsubscribe, Mark, vars
<1>5. ASSUME NEW r \in Runs, NEW ids \in SUBSET Alerts, Commit(r, ids)
      PROVE  /\ \A a \in ids : alert[a].state = "none"
             /\ alert' = [a \in Alerts |-> IF a \in ids THEN [alert[a] EXCEPT !.state = "pending"] ELSE alert[a]]
             /\ tries' = tries
  BY <1>5 DEF Commit, ghostVars
<1>6. ASSUME NEW a \in Alerts, BackoffEnds(a)
      PROVE  alert[a].state = "pending" /\ tries' = tries /\ alert' = [alert EXCEPT ![a].due = TRUE]
  BY <1>6 DEF BackoffEnds, ghostVars
<1>7. CASE \E r \in Runs : DispatchStep(r)
  BY <1>1, <1>2, <1>7 DEF DispatchStep
<1>8. CASE \E r \in Runs, ids \in SUBSET Alerts : Commit(r, ids)
  BY <1>5, <1>8
<1>9. CASE \E a \in Alerts : BackoffEnds(a)
  BY <1>6, <1>9
<1> QED BY <1>3, <1>4, <1>7, <1>8, <1>9 DEF Next

\* And to the tries.
LEMMA TriesStep ==
  ASSUME [Next]_vars PROVE tries' = tries \/ \E a \in Alerts : tries' = [tries EXCEPT ![a] = @ + 1]
<1>1. ASSUME NEW r \in Runs, Read(r) \/ EndPage(r) \/ Suppressed(r) \/ Deliver(r) PROVE tries' = tries
  BY <1>1 DEF Read, EndPage, Suppressed, Deliver, ghostVars
<1>2. ASSUME NEW r \in Runs, NEW d \in Devices, NEW a \in Alerts, NEW answer \in Answers, Push(r, d, a, answer)
      PROVE  tries' = tries
  BY <1>2 DEF Push
<1>3. ASSUME NEW r \in Runs, NEW a \in Alerts, Record(r, a)
      PROVE  tries' = tries \/ tries' = [tries EXCEPT ![a] = @ + 1]
  BY <1>3 DEF Record
<1>4. ASSUME NEW r \in Runs, NEW ids \in SUBSET Alerts, Commit(r, ids) PROVE tries' = tries
  BY <1>4 DEF Commit, ghostVars
<1>5. ASSUME NEW s \in Servers,
             Request(s) \/ LastDispatch(s) \/ SweepFails(s) \/ Crash(s) \/ \E on \in BOOLEAN : Boot(s, on)
      PROVE  tries' = tries
  BY <1>5 DEF Request, LastDispatch, SweepFails, Crash, Boot, ghostVars
<1>6. ASSUME \/ \E d \in Devices : Subscribe(d) \/ Unsubscribe(d)
             \/ \E on \in BOOLEAN : Mark(on)
             \/ \E a \in Alerts : BackoffEnds(a)
             \/ UNCHANGED vars
      PROVE  tries' = tries
  BY <1>6 DEF Subscribe, Unsubscribe, Mark, BackoffEnds, vars, ghostVars
<1> QED BY <1>1, <1>2, <1>3, <1>4, <1>5, <1>6 DEF Next, DispatchStep

\* An alert that is sent or given up never changes again, however late another
\* task records its own delivery (alerts.js:81, 91; migration 017:506-517).
THEOREM SettledForGoodHolds == Spec => SettledForGood
<1> DEFINE Kept == \A a \in Alerts : alert[a].state \in {"sent", "gave_up"} => alert'[a] = alert[a]
<1>1. Init => Base
  BY AlertAssumption, BaseInit
<1>2. Base /\ [Next]_vars => Base'
  BY AlertAssumption, BaseStep
<1>3. Base /\ [Next]_vars => Kept
  <2> SUFFICES ASSUME Base, [Next]_vars PROVE Kept
    OBVIOUS
  <2>1. alert \in [Alerts -> RowType]
    BY TypeParts DEF Base, Rest
  <2> QED BY <2>1, AlertAssumption, RowsStep DEF Recorded
<1>4. Kept => [Kept]_alert
  OBVIOUS
<1> HIDE DEF Kept
<1>5. Spec => [][Kept]_alert
  BY <1>1, <1>2, <1>3, <1>4, PTL DEF Spec
<1> QED BY <1>5 DEF SettledForGood, Kept

\* Rows that nobody was refused for have no attempts.
Tried ==
  /\ AttemptsAreTries
  /\ \A a \in Alerts : alert[a].state = "none" => alert[a].attempts = 0

LEMMA TriedStep == ASSUME AlertAssumption, Base, Tried, [Next]_vars PROVE Tried'
<1> DEFINE T(row, n) == /\ row.state \in {"pending", "gave_up"} => row.attempts <= n
                        /\ row.state = "gave_up" => row.attempts = MaxAttempts
                        /\ row.state = "none" => row.attempts = 0
<1>1. alert \in [Alerts -> RowType] /\ tries \in [Alerts -> Nat] /\ \A a \in Alerts : Open(alert[a])
  BY TypeParts DEF Base, Rest, RowsOpen
<1>2. \A a \in Alerts : T(alert[a], tries[a])
  BY DEF Tried, AttemptsAreTries
<1>3. SUFFICES ASSUME NEW a \in Alerts PROVE T(alert'[a], tries'[a])
  BY DEF Tried, AttemptsAreTries
<1> DEFINE row == alert[a]
           n == tries[a]
<1>4. row \in RowType /\ n \in Nat /\ T(row, n) /\ Open(row)
  BY <1>1, <1>2
<1>5. row.attempts \in Nat /\ MaxAttempts \in Nat
  BY <1>4, AlertAssumption DEF RowType
<1>6. \A ok \in BOOLEAN, m \in Nat : m >= n /\ (~ok => m = n + 1) => T(Recorded(row, ok), m)
  <2> SUFFICES ASSUME NEW ok \in BOOLEAN, NEW m \in Nat, m >= n, ~ok => m = n + 1
               PROVE  T(Recorded(row, ok), m)
    OBVIOUS
  <2>1. CASE row.state # "pending"
    BY <1>4, <1>5, <2>1 DEF Recorded
  <2>2. CASE row.state = "pending" /\ ok
    <3>1. Recorded(row, ok).state = "sent"
      BY <1>4, <2>2 DEF Recorded, Sent, RowType
    <3> QED BY <3>1
  <2>3. CASE row.state = "pending" /\ ~ok
    <3>1. /\ Recorded(row, ok).attempts = row.attempts + 1
          /\ Recorded(row, ok).state = IF row.attempts + 1 >= MaxAttempts THEN "gave_up" ELSE "pending"
      BY <1>4, <2>3 DEF Recorded, Refused, RowType
    <3>2. row.attempts < MaxAttempts /\ row.attempts <= n
      BY <1>4, <2>3 DEF Open
    <3> HIDE DEF row, n
    <3> QED BY <1>4, <1>5, <2>3, <3>1, <3>2
  <2> QED BY <2>1, <2>2, <2>3
<1>7. CASE alert' = alert
  <2>1. tries'[a] \in Nat /\ tries'[a] >= n
    <3>1. tries' = tries \/ \E b \in Alerts : tries' = [tries EXCEPT ![b] = @ + 1]
      BY TriesStep
    <3> QED BY <1>1, <3>1
  <2> QED BY <1>4, <1>5, <1>7, <2>1
<1>8. ASSUME NEW ids \in SUBSET Alerts, \A b \in ids : alert[b].state = "none", tries' = tries,
             alert' = [b \in Alerts |-> IF b \in ids THEN [alert[b] EXCEPT !.state = "pending"] ELSE alert[b]]
      PROVE  T(alert'[a], tries'[a])
  BY <1>4, <1>5, <1>8 DEF RowType
<1>9. ASSUME NEW b \in Alerts, tries' = tries, alert' = [alert EXCEPT ![b].due = TRUE]
      PROVE  T(alert'[a], tries'[a])
  BY <1>1, <1>4, <1>9 DEF RowType
<1>10. ASSUME NEW b \in Alerts, NEW ok \in BOOLEAN, alert' = [alert EXCEPT ![b] = Recorded(@, ok)],
              tries' = IF ok THEN tries ELSE [tries EXCEPT ![b] = @ + 1]
       PROVE  T(alert'[a], tries'[a])
  <2>1. CASE a = b
    <3>1. tries'[a] = IF ok THEN n ELSE n + 1
      BY <1>1, <1>10, <2>1
    <3>2. alert'[a] = Recorded(row, ok)
      BY <1>1, <1>10, <2>1
    <3> QED BY <1>4, <1>6, <3>1, <3>2
  <2>2. CASE a # b
    BY <1>1, <1>4, <1>10, <2>2
  <2> QED BY <2>1, <2>2
<1> QED BY <1>7, <1>8, <1>9, <1>10, RowsStep

\* An alert is given up with exactly MaxAttempts attempts, and has never more of
\* them than deliveries that ended without a push booked as accepted: none was, or
\* the bookkeeping of one failed. Several tasks and suppressed pushes add none
\* (alerts.js:59, 77, 86-91; push.js:90).
THEOREM AttemptsAreTriesHolds == Spec => []AttemptsAreTries
<1>1. Init => Base /\ Tried
  <2>1. Init => Tried
    BY DEF Init, Tried, AttemptsAreTries
  <2> QED BY <2>1, AlertAssumption, BaseInit
<1>2. Base /\ Tried /\ [Next]_vars => Base' /\ Tried'
  BY AlertAssumption, BaseStep, TriedStep
<1>3. Tried => AttemptsAreTries
  BY DEF Tried
<1> QED BY <1>1, <1>2, <1>3, PTL DEF Spec

------------------------------------------------------------------------------
(* How often an alert reaches the phones.                                  *)
(*                                                                         *)
(* Reached(a) are the tasks whose delivery of a has reached a phone and is *)
(* not recorded yet, Unreached(a) the others that hold a.  While a can     *)
(* still be tried, every push of it is lost or in Reached(a); once it is   *)
(* settled, only the tasks in Unreached(a) can push it again.              *)

ReachedIn(v, a) == v.pc = "push" /\ First(a, v.page) /\ v.reached
Reached(a) == {r \in Runs : ReachedIn(run[r], a)}
Unreached(a) == {r \in Runs : a \in run[r].page /\ ~ReachedIn(run[r], a)}
Settled(a) == alert[a].state \in {"sent", "gave_up"}

Potential(a) ==
  IF Settled(a) THEN pushes[a] + Cardinality(Unreached(a)) <= slips[a] + Cardinality(Runs)
                ELSE pushes[a] <= slips[a] + Cardinality(Reached(a))

\* An alert no two tasks held is settled by the only one that held it.
Alone(a) ==
  a \notin shared =>
    /\ \A r, q \in Holders(a) : r = q
    /\ Settled(a) => /\ Holders(a) = {}
                     /\ pushes[a] <= slips[a] + (IF alert[a].state = "sent" THEN 1 ELSE 0)

Heard(a) == alert[a].state = "sent" \/ Reached(a) # {} => pushes[a] > 0

Held(a) == Holders(a) # {} => alert[a].state # "none"

Account(a) == Potential(a) /\ Alone(a) /\ Heard(a) /\ Held(a)

\* Only a run that delivers has reached a phone, and only its page is not empty.
RunOK(v) ==
  /\ v.page # {} => v.pc \in {"next", "push"}
  /\ v.reached => v.pc = "push"
  /\ v.ok => v.reached

Accounts == (\A r \in Runs : RunOK(run[r])) /\ \A a \in Alerts : Account(a)

LEMMA Sizes ==
  ASSUME AlertAssumption, NEW a
  PROVE  /\ IsFiniteSet(Reached(a)) /\ IsFiniteSet(Unreached(a)) /\ IsFiniteSet(Runs)
         /\ Cardinality(Reached(a)) \in Nat /\ Cardinality(Unreached(a)) \in Nat /\ Cardinality(Runs) \in Nat
         /\ Cardinality(Reached(a)) + Cardinality(Unreached(a)) <= Cardinality(Runs)
<1>1. Reached(a) \subseteq Runs /\ Unreached(a) \subseteq Runs /\ Reached(a) \cap Unreached(a) = {}
  BY DEF Reached, Unreached
<1>2. IsFiniteSet(Reached(a)) /\ IsFiniteSet(Unreached(a)) /\ IsFiniteSet(Runs)
  BY <1>1, RunsFinite, FS_Subset
<1>3. Cardinality(Reached(a)) \in Nat /\ Cardinality(Unreached(a)) \in Nat /\ Cardinality(Runs) \in Nat
  BY <1>2, FS_CardinalityType
<1>4. Cardinality(Reached(a) \cup Unreached(a)) = Cardinality(Reached(a)) + Cardinality(Unreached(a))
  <2>1. Cardinality(Reached(a) \cap Unreached(a)) = 0
    BY <1>1, FS_EmptySet
  <2>2. Cardinality(Reached(a) \cup Unreached(a))
          = Cardinality(Reached(a)) + Cardinality(Unreached(a)) - Cardinality(Reached(a) \cap Unreached(a))
    BY <1>2, FS_Union
  <2> QED BY <1>3, <2>1, <2>2
<1>5. Cardinality(Reached(a) \cup Unreached(a)) <= Cardinality(Runs)
  <2>1. (Reached(a) \cup Unreached(a)) \in SUBSET Runs
    BY <1>1
  <2> QED BY <1>2, <2>1, FS_Subset
<1> QED BY <1>2, <1>3, <1>4, <1>5

\* A step that leaves the row, its pushes and who reached it, and by which no
\* task takes the alert, keeps its account.
LEMMA QuietKeeps ==
  ASSUME AlertAssumption, NEW a \in Alerts, Account(a), pushes \in [Alerts -> Nat], slips \in [Alerts -> Nat],
         alert'[a].state = alert[a].state \/ (alert[a].state = "none" /\ alert'[a].state = "pending"),
         pushes'[a] = pushes[a], slips'[a] = slips[a], shared \subseteq shared',
         Holders(a)' \subseteq Holders(a), Reached(a)' = Reached(a)
  PROVE  Account(a)'
<1>1. Unreached(a) = Holders(a) \ Reached(a) /\ Unreached(a)' = Holders(a)' \ Reached(a)'
  BY DEF Unreached, Holders, Reached
<1>2. Unreached(a)' \subseteq Unreached(a)
  BY <1>1
<1>3. Cardinality(Unreached(a)') <= Cardinality(Unreached(a)) /\ Cardinality(Unreached(a)') \in Nat
  BY <1>2, Sizes, FS_Subset, FS_CardinalityType
<1>4. Settled(a)' <=> Settled(a)
  BY DEF Settled
<1>5. Potential(a)'
  <2>1. CASE Settled(a)
    <3>1. pushes[a] + Cardinality(Unreached(a)) <= slips[a] + Cardinality(Runs)
      BY <2>1 DEF Account, Potential
    <3>2. Cardinality(Unreached(a)) \in Nat /\ Cardinality(Runs) \in Nat /\ pushes[a] \in Nat /\ slips[a] \in Nat
      BY Sizes
    <3>3. pushes[a] + Cardinality(Unreached(a)') <= slips[a] + Cardinality(Runs)
      BY <1>3, <3>1, <3>2
    <3> QED BY <1>4, <2>1, <3>3 DEF Potential
  <2>2. CASE ~Settled(a)
    BY <1>4, <2>2 DEF Account, Potential
  <2> QED BY <2>1, <2>2
<1>6. Alone(a)'
  BY <1>4 DEF Account, Alone, Settled
<1>7. Heard(a)'
  BY DEF Account, Heard
<1>8. Held(a)'
  BY DEF Account, Held
<1> QED BY <1>5, <1>6, <1>7, <1>8 DEF Account

\* Of the runs only r changes, from an account's point of view not at all, or to
\* let go of the alert before any phone was reached.
LEMMA QuietRun ==
  ASSUME run \in [Runs -> RunType], NEW r \in Runs, NEW v, run' = [run EXCEPT ![r] = v], NEW a \in Alerts,
         a \in v.page => a \in run[r].page, ReachedIn(v, a) <=> ReachedIn(run[r], a)
  PROVE  Holders(a)' \subseteq Holders(a) /\ Reached(a)' = Reached(a)
<1>1. \A q \in Runs : run'[q] = IF q = r THEN v ELSE run[q]
  OBVIOUS
<1>2. Holders(a)' \subseteq Holders(a)
  BY <1>1 DEF Holders
<1>3. \A q \in Runs : ReachedIn(run'[q], a) <=> ReachedIn(run[q], a)
  BY <1>1
<1>4. Reached(a)' = {q \in Runs : ReachedIn(run'[q], a)}
  BY DEF Reached, ReachedIn
<1> QED BY <1>2, <1>3, <1>4 DEF Reached

LEMMA AccountParts ==
  ASSUME Base
  PROVE  /\ run \in [Runs -> RunType] /\ alert \in [Alerts -> RowType] /\ shared \subseteq Alerts
         /\ pushes \in [Alerts -> Nat] /\ slips \in [Alerts -> Nat]
         /\ \A r \in Runs : run[r] \in RunType
BY TypeParts DEF Base, Rest, Flags

LEMMA FirstIsOne == ASSUME AlertAssumption, NEW page \in SUBSET Alerts, NEW a, NEW b, First(a, page), First(b, page) PROVE a = b
BY DEF AlertAssumption, First

LEMMA EmptyRuns ==
  /\ \A pc, ids, last : /\ Run(pc, ids, last).page = {} /\ ~Run(pc, ids, last).reached /\ ~Run(pc, ids, last).ok
                        /\ RunOK(Run(pc, ids, last)) /\ \A a : ~ReachedIn(Run(pc, ids, last), a)
  /\ NoRun.page = {} /\ RunOK(NoRun) /\ \A a : ~ReachedIn(NoRun, a)
  /\ Work.page = {} /\ RunOK(Work) /\ \A a : ~ReachedIn(Work, a)
BY DEF Run, NoRun, Work, RunOK, ReachedIn

\* Steps that replace a run that holds nothing it has reached by an empty one.
LEMMA EmptiedAccounts ==
  ASSUME AlertAssumption, Base, Accounts, NEW r \in Runs, NEW v, run' = [run EXCEPT ![r] = v],
         v.page = {}, RunOK(v), run[r].pc # "push", shared \subseteq shared', UNCHANGED <<pushes, slips>>,
         \A a \in Alerts : alert'[a].state = alert[a].state \/ (alert[a].state = "none" /\ alert'[a].state = "pending")
  PROVE  Accounts'
<1>1. \A q \in Runs : RunOK(run'[q])
  BY AccountParts DEF Accounts
<1>2. ASSUME NEW a \in Alerts PROVE Account(a)'
  <2>1. ~ReachedIn(v, a) /\ ~ReachedIn(run[r], a) /\ a \notin v.page
    BY DEF ReachedIn, First
  <2>2. Holders(a)' \subseteq Holders(a) /\ Reached(a)' = Reached(a)
    BY <2>1, QuietRun, AccountParts
  <2> QED BY <2>2, QuietKeeps, AccountParts DEF Accounts
<1> QED BY <1>1, <1>2 DEF Accounts

\* Steps of which the runs are no part.
LEMMA IdleAccounts ==
  ASSUME AlertAssumption, Base, Accounts, UNCHANGED <<run, pushes, slips, shared>>,
         \A a \in Alerts : alert'[a].state = alert[a].state
  PROVE  Accounts'
<1>1. ASSUME NEW a \in Alerts PROVE Account(a)'
  <2>1. Holders(a)' \subseteq Holders(a) /\ Reached(a)' = Reached(a)
    BY DEF Holders, Reached, ReachedIn
  <2> QED BY <2>1, QuietKeeps, AccountParts DEF Accounts
<1> QED BY <1>1 DEF Accounts

LEMMA ReturnAccounts ==
  ASSUME AlertAssumption, Base, Accounts, NEW r \in Runs, Return(r), ~At(r, "push"),
         shared \subseteq shared', UNCHANGED <<alert, pushes, slips>>
  PROVE  Accounts'
<1>1. PICK v \in {Work, NoRun} : run' = [run EXCEPT ![r] = v]
  BY DEF Return
<1> QED BY <1>1, EmptyRuns, EmptiedAccounts DEF At

LEMMA ReadAccounts == ASSUME AlertAssumption, Base, Accounts, NEW r \in Runs, Read(r) PROVE Accounts'
<1>1. run[r].pc = "read" /\ run[r].page = {} /\ UNCHANGED <<alert, pushes, slips>>
  BY DEF Read, At, Accounts, RunOK
<1>2. CASE Return(r)
  <2>1. shared \subseteq shared'
    BY DEF Read
  <2> QED BY <1>1, <1>2, <2>1, ReturnAccounts DEF At
<1>3. CASE ~Return(r)
  <2> DEFINE page == Page(run[r].ids)
             v == [run[r] EXCEPT !.pc = "next", !.ids = {}, !.page = page]
  <2>1. run' = [run EXCEPT ![r] = v] /\ shared' = shared \cup {a \in page : Holders(a) # {}}
    BY <1>3, AccountParts DEF Read
  <2>2. v.page = page /\ v.pc = "next" /\ ~v.reached /\ ~v.ok
    BY <1>1, AccountParts DEF RunType, Accounts, RunOK
  <2>3. \A a \in Alerts : ~ReachedIn(v, a) /\ ~ReachedIn(run[r], a)
    BY <1>1, <2>2 DEF ReachedIn
  <2>4. \A q \in Runs : RunOK(run'[q])
    <3>1. RunOK(v)
      BY <2>2 DEF RunOK
    <3> HIDE DEF v
    <3> QED BY <2>1, <3>1, AccountParts DEF Accounts
  <2>5. ASSUME NEW a \in Alerts, a \notin page PROVE Account(a)'
    <3>1. Holders(a)' \subseteq Holders(a) /\ Reached(a)' = Reached(a)
      <4>1. a \in v.page => a \in run[r].page
        BY <2>2, <2>5
      <4> HIDE DEF v, page
      <4> QED BY <2>1, <2>3, <4>1, QuietRun, AccountParts
    <3> QED BY <1>1, <2>1, <3>1, QuietKeeps, AccountParts DEF Accounts
  <2>6. ASSUME NEW a \in Alerts, a \in page PROVE Account(a)'
    <3>1. alert[a].state = "pending" /\ ~Settled(a) /\ ~Settled(a)'
      BY <1>1, <2>6 DEF Page, Due, Settled
    <3>2. Reached(a)' = Reached(a)
      <4> HIDE DEF v, page
      <4>1. \A q \in Runs : ReachedIn(run'[q], a) <=> ReachedIn(run[q], a)
        BY <2>1, <2>3, AccountParts
      <4>2. Reached(a)' = {q \in Runs : ReachedIn(run'[q], a)}
        BY DEF Reached, ReachedIn
      <4> QED BY <4>1, <4>2 DEF Reached
    <3>3. Potential(a)'
      BY <1>1, <3>1, <3>2 DEF Accounts, Account, Potential
    <3>4. Alone(a)'
      <4>1. SUFFICES ASSUME a \notin shared' PROVE \A p, q \in Holders(a)' : p = q
        BY <3>1 DEF Alone
      <4>2. Holders(a) = {}
        BY <2>1, <2>6, <4>1
      <4> HIDE DEF v, page
      <4> QED BY <2>1, <4>2, AccountParts DEF Holders
    <3>5. Heard(a)' /\ Held(a)'
      BY <1>1, <3>1, <3>2 DEF Accounts, Account, Heard, Held
    <3> QED BY <3>3, <3>4, <3>5 DEF Account
  <2> QED BY <2>4, <2>5, <2>6 DEF Accounts
<1> QED BY <1>2, <1>3

LEMMA DeliverAccounts == ASSUME AlertAssumption, Base, Accounts, NEW r \in Runs, Deliver(r) PROVE Accounts'
<1>1. PICK phones \in {Subscribed, {}} :
        run' = [run EXCEPT ![r].pc = "push", ![r].phones = phones, ![r].reached = FALSE, ![r].ok = FALSE]
  BY DEF Deliver
<1> DEFINE v == [run[r] EXCEPT !.pc = "push", !.phones = phones, !.reached = FALSE, !.ok = FALSE]
<1>2. /\ run' = [run EXCEPT ![r] = v] /\ run[r].pc = "next"
      /\ UNCHANGED <<alert, pushes, slips, shared>>
  BY <1>1, AccountParts DEF Deliver, At, ghostVars
<1>3. v.page = run[r].page /\ v.pc = "push" /\ ~v.reached /\ ~v.ok
  BY AccountParts DEF RunType
<1> HIDE DEF v
<1>4. \A q \in Runs : RunOK(run'[q])
  BY <1>2, <1>3, AccountParts DEF Accounts, RunOK
<1>5. ASSUME NEW a \in Alerts PROVE Account(a)'
  <2>1. ~ReachedIn(v, a) /\ ~ReachedIn(run[r], a)
    BY <1>2, <1>3 DEF ReachedIn
  <2>2. Holders(a)' \subseteq Holders(a) /\ Reached(a)' = Reached(a)
    BY <1>2, <1>3, <2>1, QuietRun, AccountParts
  <2> QED BY <1>2, <2>2, QuietKeeps, AccountParts DEF Accounts
<1> QED BY <1>4, <1>5 DEF Accounts

\* One push: the run only gets from not reached to reached, and then counts.
LEMMA PushedRun ==
  ASSUME Base, Accounts, NEW r \in Runs, NEW d, NEW a \in Alerts, NEW answer, Push(r, d, a, answer)
  PROVE  \E v : /\ run' = [run EXCEPT ![r] = v]
                /\ v.page = run[r].page /\ v.pc = "push" /\ RunOK(v)
                /\ v.reached \in BOOLEAN /\ (run[r].reached => v.reached)
                /\ pushes' = IF v.reached /\ ~run[r].reached THEN [pushes EXCEPT ![a] = @ + 1] ELSE pushes
<1> DEFINE reached == run[r].reached \/ answer = "accepted"
<1>1. \E phones, ok :
        /\ run' = [run EXCEPT ![r].phones = phones, ![r].reached = reached, ![r].ok = ok]
        /\ ok => reached
  <2> DEFINE R(phones, ok) == run' = [run EXCEPT ![r].phones = phones, ![r].reached = reached, ![r].ok = ok]
  <2>1. run[r].ok => run[r].reached
    BY DEF Accounts, RunOK
  <2>2. \/ R(run[r].phones \ {d}, run[r].ok \/ answer = "accepted")
        \/ R(run[r].phones \ {d}, run[r].ok)
        \/ R({}, FALSE)
    BY DEF Push
  <2>3. CASE R(run[r].phones \ {d}, run[r].ok \/ answer = "accepted")
    BY <2>1, <2>3
  <2>4. CASE R(run[r].phones \ {d}, run[r].ok)
    <3> DEFINE phones == run[r].phones \ {d}
               ok == run[r].ok
    <3>1. R(phones, ok) /\ (ok => reached)
      BY <2>1, <2>4
    <3> HIDE DEF phones, ok, reached
    <3> WITNESS phones, ok
    <3> QED BY <3>1
  <2>5. CASE R({}, FALSE)
    BY <2>5
  <2> QED BY <2>2, <2>3, <2>4, <2>5
<1>2. PICK phones, ok :
        /\ run' = [run EXCEPT ![r].phones = phones, ![r].reached = reached, ![r].ok = ok]
        /\ ok => reached
  BY <1>1
<1> DEFINE v == [run[r] EXCEPT !.phones = phones, !.reached = reached, !.ok = ok]
<1>3. run' = [run EXCEPT ![r] = v]
  BY <1>2, AccountParts
<1>4. run[r].pc = "push"
  BY DEF Push, Delivering, At
<1>5. v.page = run[r].page /\ v.pc = "push" /\ v.reached = reached /\ v.ok = ok
  BY <1>4, AccountParts DEF RunType
<1>6. pushes' = IF reached /\ ~run[r].reached THEN [pushes EXCEPT ![a] = @ + 1] ELSE pushes
  BY DEF Push
<1> HIDE DEF v
<1>7. RunOK(v)
  BY <1>2, <1>5 DEF RunOK
<1> WITNESS v
<1> QED BY <1>3, <1>5, <1>6, <1>7

LEMMA PushAccounts ==
  ASSUME AlertAssumption, Base, Accounts, NEW r \in Runs, NEW d, NEW a \in Alerts, NEW answer, Push(r, d, a, answer)
  PROVE  Accounts'
<1>1. PICK v : /\ run' = [run EXCEPT ![r] = v]
               /\ v.page = run[r].page /\ v.pc = "push" /\ RunOK(v)
               /\ v.reached \in BOOLEAN /\ (run[r].reached => v.reached)
               /\ pushes' = IF v.reached /\ ~run[r].reached THEN [pushes EXCEPT ![a] = @ + 1] ELSE pushes
  BY PushedRun
<1>2. /\ UNCHANGED <<alert, slips, shared>>
      /\ run[r].pc = "push" /\ First(a, run[r].page)
  BY DEF Push, Delivering, At
<1>3. \A q \in Runs : RunOK(run'[q])
  BY <1>1, AccountParts DEF Accounts
<1>4. \A b \in Alerts : Holders(b)' = Holders(b)
  BY <1>1, AccountParts DEF Holders
<1>5. ASSUME NEW b \in Alerts, b # a \/ run[r].reached \/ ~v.reached PROVE Account(b)'
  <2>1. ReachedIn(v, b) <=> ReachedIn(run[r], b)
    <3>1. CASE b = a
      BY <1>1, <1>2, <1>5, <3>1 DEF ReachedIn
    <3>2. CASE b # a
      <4>1. ~First(b, run[r].page)
        BY <1>2, <3>2, FirstIsOne, AccountParts DEF RunType
      <4> QED BY <1>1, <4>1 DEF ReachedIn
    <3> QED BY <3>1, <3>2
  <2>2. Holders(b)' \subseteq Holders(b) /\ Reached(b)' = Reached(b)
    BY <1>1, <2>1, QuietRun, AccountParts
  <2>3. pushes'[b] = pushes[b]
    BY <1>1, <1>5, AccountParts
  <2> QED BY <1>2, <2>2, <2>3, QuietKeeps, AccountParts DEF Accounts
<1>6. ASSUME ~run[r].reached, v.reached PROVE Account(a)'
  <2>1. Account(a) /\ pushes'[a] = pushes[a] + 1 /\ pushes[a] \in Nat /\ slips[a] \in Nat
    BY <1>1, <1>6, AccountParts DEF Accounts
  <2>2. r \notin Reached(a) /\ r \in Unreached(a) /\ ReachedIn(v, a)
    BY <1>1, <1>2, <1>6 DEF Reached, Unreached, ReachedIn, First
  <2>3. /\ \A q \in Runs : ReachedIn(run'[q], a) <=> (q = r \/ ReachedIn(run[q], a))
        /\ \A q \in Runs : a \in run'[q].page <=> a \in run[q].page
    BY <1>1, <2>2, AccountParts
  <2>4. /\ Reached(a)' = {q \in Runs : ReachedIn(run'[q], a)}
        /\ Unreached(a)' = {q \in Runs : a \in run'[q].page /\ ~ReachedIn(run'[q], a)}
    BY DEF Reached, Unreached, ReachedIn
  <2>5. Reached(a)' = Reached(a) \cup {r} /\ Unreached(a)' = Unreached(a) \ {r}
    BY <2>3, <2>4 DEF Reached, Unreached
  <2>6. /\ Cardinality(Reached(a)') = Cardinality(Reached(a)) + 1
        /\ Cardinality(Unreached(a)') = Cardinality(Unreached(a)) - 1
    <3>1. IsFiniteSet(Reached(a)) /\ IsFiniteSet(Unreached(a))
      BY Sizes
    <3>2. Cardinality(Reached(a) \cup {r}) = Cardinality(Reached(a)) + 1
      BY <2>2, <3>1, FS_AddElement
    <3>3. Cardinality(Unreached(a) \ {r}) = Cardinality(Unreached(a)) - 1
      BY <2>2, <3>1, FS_RemoveElement
    <3> QED BY <2>5, <3>2, <3>3
  <2>7. Cardinality(Reached(a)) \in Nat /\ Cardinality(Unreached(a)) \in Nat /\ Cardinality(Runs) \in Nat
    BY Sizes
  <2>8. Potential(a)'
    <3>1. CASE Settled(a)
      <4>1. pushes[a] + Cardinality(Unreached(a)) <= slips[a] + Cardinality(Runs)
        BY <2>1, <3>1 DEF Account, Potential
      <4>2. pushes'[a] + Cardinality(Unreached(a)') <= slips[a] + Cardinality(Runs)
        BY <2>1, <2>6, <2>7, <4>1
      <4> QED BY <1>2, <3>1, <4>2 DEF Potential, Settled
    <3>2. CASE ~Settled(a)
      <4>1. pushes[a] <= slips[a] + Cardinality(Reached(a))
        BY <2>1, <3>2 DEF Account, Potential
      <4>2. pushes'[a] <= slips[a] + Cardinality(Reached(a)')
        BY <2>1, <2>6, <2>7, <4>1
      <4> QED BY <1>2, <3>2, <4>2 DEF Potential, Settled
    <3> QED BY <3>1, <3>2
  <2>9. Alone(a)'
    <3>1. r \in Holders(a)
      BY <1>2 DEF Holders, First
    <3> QED BY <1>2, <1>4, <2>1, <3>1 DEF Account, Alone, Settled
  <2>10. Heard(a)'
    BY <2>1 DEF Heard
  <2>11. Held(a)'
    BY <1>2, <1>4, <2>1 DEF Account, Held
  <2> QED BY <2>8, <2>9, <2>10, <2>11 DEF Account
<1> QED BY <1>1, <1>3, <1>5, <1>6 DEF Accounts

\* What a record does to the row and to the count of the results that were lost.
LEMMA RecordedResult ==
  ASSUME AlertAssumption, Base, Accounts, NEW r \in Runs, NEW a \in Alerts, Record(r, a), alert[a].state = "pending"
  PROVE  \/ /\ alert'[a].state = "sent" /\ run[r].reached
            /\ slips'[a] = slips[a]
         \/ /\ alert'[a].state \in {"pending", "gave_up"}
            /\ slips'[a] = slips[a] + (IF run[r].reached THEN 1 ELSE 0)
<1>1. alert[a] \in RowType /\ slips[a] \in Nat /\ (run[r].ok => run[r].reached)
  BY AccountParts DEF Accounts, RunOK
<1>2. \A ok \in BOOLEAN : /\ ok => Recorded(alert[a], ok).state = "sent"
                         /\ ~ok => Recorded(alert[a], ok).state \in {"pending", "gave_up"}
  BY <1>1 DEF Recorded, Sent, Refused, RowType
<1>3. CASE /\ alert' = [alert EXCEPT ![a] = Recorded(@, run[r].ok)]
           /\ slips' = IF run[r].reached /\ ~run[r].ok THEN [slips EXCEPT ![a] = @ + 1] ELSE slips
  <2>1. run[r].ok \in BOOLEAN
    BY AccountParts DEF RunType
  <2>2. /\ alert'[a] = Recorded(alert[a], run[r].ok)
        /\ slips'[a] = IF run[r].reached /\ ~run[r].ok THEN slips[a] + 1 ELSE slips[a]
    BY <1>3, AccountParts
  <2>3. CASE run[r].ok
    <3>1. alert'[a] = Sent(alert[a])
      BY <2>2, <2>3 DEF Recorded
    <3>2. alert'[a].state = "sent"
      BY <1>1, <3>1 DEF Sent, RowType
    <3>3. slips'[a] = slips[a]
      BY <2>2, <2>3
    <3> QED BY <1>1, <2>3, <3>2, <3>3
  <2>4. CASE ~run[r].ok
    <3>1. alert'[a].state \in {"pending", "gave_up"}
      BY <1>2, <2>1, <2>2, <2>4
    <3>2. slips'[a] = IF run[r].reached THEN slips[a] + 1 ELSE slips[a]
      BY <2>2, <2>4
    <3> QED BY <1>1, <3>1, <3>2
  <2> QED BY <2>3, <2>4
<1>4. CASE alert' = alert /\ slips' = IF run[r].reached THEN [slips EXCEPT ![a] = @ + 1] ELSE slips
  <2>1. slips'[a] = IF run[r].reached THEN slips[a] + 1 ELSE slips[a]
    BY <1>4, AccountParts
  <2> QED BY <1>1, <1>4, <2>1
<1> QED BY <1>3, <1>4 DEF Record

LEMMA RecordAccounts ==
  ASSUME AlertAssumption, Base, Accounts, NEW r \in Runs, NEW a \in Alerts, Record(r, a) PROVE Accounts'
<1> DEFINE v == [run[r] EXCEPT !.pc = "next", !.page = @ \ {a}, !.reached = FALSE, !.ok = FALSE]
<1>1. /\ run' = [run EXCEPT ![r] = v] /\ run[r].pc = "push" /\ First(a, run[r].page)
      /\ UNCHANGED <<pushes, shared>>
  BY AccountParts DEF Record, Delivering, At
<1>2. v.page = run[r].page \ {a} /\ v.pc = "next" /\ ~v.reached /\ ~v.ok
  BY AccountParts DEF RunType
<1> HIDE DEF v
<1>3. \A q \in Runs : RunOK(run'[q])
  BY <1>1, <1>2, AccountParts DEF Accounts, RunOK
<1>4. ASSUME NEW b \in Alerts, b # a PROVE Account(b)'
  <2>1. ~ReachedIn(v, b) /\ ~ReachedIn(run[r], b)
    BY <1>1, <1>2, <1>4, FirstIsOne, AccountParts DEF ReachedIn, RunType
  <2>2. Holders(b)' \subseteq Holders(b) /\ Reached(b)' = Reached(b)
    BY <1>1, <1>2, <2>1, QuietRun, AccountParts
  <2>3. alert'[b] = alert[b] /\ slips'[b] = slips[b]
    BY <1>4, AccountParts DEF Record
  <2> QED BY <1>1, <2>2, <2>3, QuietKeeps, AccountParts DEF Accounts
<1>5. Account(a)'
  <2>1. Account(a) /\ pushes[a] \in Nat /\ slips[a] \in Nat /\ pushes'[a] = pushes[a]
    BY <1>1, AccountParts DEF Accounts
  <2>2. /\ \A q \in Runs : ReachedIn(run'[q], a) <=> (q # r /\ ReachedIn(run[q], a))
        /\ \A q \in Runs : a \in run'[q].page <=> (q # r /\ a \in run[q].page)
    BY <1>1, <1>2, AccountParts DEF ReachedIn
  <2>3. /\ Reached(a)' = {q \in Runs : ReachedIn(run'[q], a)}
        /\ Unreached(a)' = {q \in Runs : a \in run'[q].page /\ ~ReachedIn(run'[q], a)}
        /\ Holders(a)' = {q \in Runs : a \in run'[q].page}
    BY DEF Reached, Unreached, ReachedIn, Holders
  <2>4. /\ Reached(a)' = Reached(a) \ {r} /\ Unreached(a)' = Unreached(a) \ {r}
        /\ Holders(a)' = Holders(a) \ {r} /\ r \in Holders(a) /\ Reached(a) \subseteq Holders(a)
        /\ r \in Reached(a) <=> run[r].reached
    BY <1>1, <2>2, <2>3 DEF Reached, Unreached, Holders, ReachedIn, First
  <2> DEFINE was == IF run[r].reached THEN 1 ELSE 0
             R == Cardinality(Reached(a))
             U == Cardinality(Unreached(a))
             N == Cardinality(Runs)
             U1 == Cardinality(Unreached(a)')
             R1 == Cardinality(Reached(a)')
  <2>5. R \in Nat /\ U \in Nat /\ N \in Nat /\ R + U <= N
    BY Sizes
  <2>6. R1 = R - was /\ R1 \in Nat
    <3>1. IsFiniteSet(Reached(a))
      BY Sizes
    <3>2. Cardinality(Reached(a) \ {r}) = IF r \in Reached(a) THEN R - 1 ELSE R
      BY <3>1, FS_RemoveElement
    <3>3. IsFiniteSet(Reached(a) \ {r})
      BY <3>1, FS_RemoveElement
    <3>4. R1 \in Nat
      BY <2>4, <3>3, FS_CardinalityType
    <3> QED BY <2>4, <2>5, <3>2, <3>4
  <2>7. U1 \in Nat /\ U1 <= U
    <3>1. IsFiniteSet(Unreached(a)) /\ Unreached(a)' \in SUBSET Unreached(a)
      BY <2>4, Sizes
    <3> QED BY <3>1, FS_Subset, FS_CardinalityType
  <2>8. CASE Settled(a)
    <3>1. alert'[a] = alert[a]
      <4>1. \A ok : Recorded(alert[a], ok) = alert[a]
        BY <2>8 DEF Settled, Recorded
      <4> QED BY <4>1, AccountParts DEF Record
    <3>2. slips'[a] \in Nat /\ slips'[a] >= slips[a]
      BY <2>1, AccountParts DEF Record
    <3>3. pushes[a] + U <= slips[a] + N
      BY <2>1, <2>8 DEF Account, Potential
    <3>4. pushes'[a] + U1 <= slips'[a] + N
      BY <2>1, <2>5, <2>7, <3>2, <3>3
    <3>5. Potential(a)'
      BY <2>8, <3>1, <3>4 DEF Potential, Settled
    <3>6. a \in shared
      BY <2>1, <2>4, <2>8 DEF Account, Alone
    <3>7. Alone(a)' /\ Heard(a)' /\ Held(a)'
      BY <1>1, <2>1, <2>4, <3>1, <3>6 DEF Account, Alone, Heard, Held
    <3> QED BY <3>5, <3>7 DEF Account
  <2>9. CASE ~Settled(a)
    <3>1. alert[a].state = "pending"
      BY <2>1, <2>4, <2>9, AccountParts DEF Account, Held, Settled, RowType, States
    <3>2. pushes[a] <= slips[a] + R
      BY <2>1, <2>9 DEF Account, Potential
    <3>3. a \notin shared => Holders(a)' = {} /\ R1 = 0
      <4>1. a \notin shared => Holders(a)' = {} /\ Reached(a)' = {}
        BY <2>1, <2>4 DEF Account, Alone
      <4> QED BY <4>1, FS_EmptySet
    <3>4. Held(a)'
      BY <3>1, RecordedResult DEF Held
    <3>5. CASE alert'[a].state = "sent" /\ run[r].reached /\ slips'[a] = slips[a]
      <4>1. pushes'[a] + U1 <= slips'[a] + N
        BY <2>1, <2>5, <2>7, <3>2, <3>5
      <4>2. Potential(a)'
        BY <3>5, <4>1 DEF Potential, Settled
      <4>3. a \notin shared => pushes'[a] <= slips'[a] + 1
        BY <2>1, <2>5, <2>6, <3>2, <3>3, <3>5
      <4>4. Alone(a)'
        BY <1>1, <3>3, <3>5, <4>3 DEF Alone
      <4>5. Heard(a)'
        BY <2>1, <2>4, <3>5 DEF Account, Heard
      <4> QED BY <3>4, <4>2, <4>4, <4>5 DEF Account
    <3>6. CASE alert'[a].state \in {"pending", "gave_up"} /\ slips'[a] = slips[a] + was
      <4>1. pushes'[a] <= slips'[a] + R1
        BY <2>1, <2>5, <2>6, <3>2, <3>6
      <4>2. pushes'[a] + U1 <= slips'[a] + N
        BY <2>1, <2>5, <2>7, <3>2, <3>6
      <4>3. Potential(a)'
        BY <4>1, <4>2 DEF Potential
      <4>4. a \notin shared => pushes'[a] <= slips'[a]
        BY <2>1, <3>3, <3>6, <4>1
      <4>5. Alone(a)'
        <5>1. slips'[a] \in Nat /\ alert'[a].state # "sent" /\ shared' = shared
          BY <1>1, <2>1, <3>6
        <5>2. pushes'[a] <= slips'[a] <=> pushes'[a] <= slips'[a] + 0
          BY <5>1
        <5>3. a \notin shared' => /\ \A q, p \in Holders(a)' : q = p
                                 /\ Holders(a)' = {} /\ pushes'[a] <= slips'[a] + 0
          BY <3>3, <4>4, <5>1, <5>2
        <5> QED BY <5>1, <5>3 DEF Alone
      <4>6. Heard(a)'
        BY <2>1, <2>4, <3>6 DEF Account, Heard
      <4> QED BY <3>4, <4>3, <4>5, <4>6 DEF Account
    <3> QED BY <3>1, <3>5, <3>6, RecordedResult
  <2> QED BY <2>8, <2>9
<1> QED BY <1>3, <1>4, <1>5 DEF Accounts

LEMMA CrashAccounts == ASSUME AlertAssumption, Base, Accounts, NEW s \in Servers, Crash(s) PROVE Accounts'
<1>1. /\ \A q \in Runs : run'[q] = IF Server(q) = s THEN NoRun ELSE run[q]
      /\ UNCHANGED <<alert, pushes, shared>>
  BY DEF Crash
<1>2. \A q \in Runs : RunOK(run'[q])
  BY <1>1, EmptyRuns DEF Accounts
<1>3. ASSUME NEW a \in Alerts PROVE Account(a)'
  <2> DEFINE X == {r \in Runs : Server(r) = s /\ Delivering(r, a) /\ run[r].reached}
             R == Cardinality(Reached(a))
             U == Cardinality(Unreached(a))
             N == Cardinality(Runs)
             x == Cardinality(X)
             R1 == Cardinality(Reached(a)')
             U1 == Cardinality(Unreached(a)')
  <2>1. Account(a) /\ pushes[a] \in Nat /\ slips[a] \in Nat /\ slips'[a] = slips[a] + x
    BY AccountParts DEF Accounts, Crash
  <2>2. X = {r \in Reached(a) : Server(r) = s}
    BY DEF Reached, ReachedIn, Delivering, At
  <2>3. /\ \A q \in Runs : ReachedIn(run'[q], a) <=> (Server(q) # s /\ ReachedIn(run[q], a))
        /\ \A q \in Runs : a \in run'[q].page <=> (Server(q) # s /\ a \in run[q].page)
    BY <1>1, EmptyRuns
  <2>4. /\ Reached(a)' = {q \in Runs : ReachedIn(run'[q], a)}
        /\ Unreached(a)' = {q \in Runs : a \in run'[q].page /\ ~ReachedIn(run'[q], a)}
        /\ Holders(a)' = {q \in Runs : a \in run'[q].page}
    BY DEF Reached, Unreached, ReachedIn, Holders
  <2>5. /\ Reached(a)' = Reached(a) \ X /\ X \subseteq Reached(a)
        /\ Unreached(a)' \subseteq Unreached(a) /\ Holders(a)' \subseteq Holders(a)
    BY <2>2, <2>3, <2>4 DEF Reached, Unreached, Holders
  <2>6. IsFiniteSet(Reached(a)) /\ IsFiniteSet(Unreached(a)) /\ R \in Nat /\ U \in Nat /\ N \in Nat
    BY Sizes
  <2>7. x \in Nat
    BY <2>5, <2>6, FS_Subset, FS_CardinalityType
  <2>8. R1 = R - x /\ R1 \in Nat
    <3>1. X \in SUBSET Reached(a) /\ IsFiniteSet(X)
      BY <2>5, <2>6, FS_Subset
    <3>2. Reached(a) \cap X = X
      BY <3>1
    <3>3. Cardinality(Reached(a) \ X) = R - Cardinality(Reached(a) \cap X) /\ IsFiniteSet(Reached(a) \ X)
      BY <2>6, <3>1, FS_Difference
    <3>4. Cardinality(Reached(a) \ X) \in Nat
      BY <3>3, FS_CardinalityType
    <3> QED BY <2>5, <3>2, <3>3, <3>4
  <2>9. U1 \in Nat /\ U1 <= U
    BY <2>5, <2>6, FS_Subset, FS_CardinalityType
  <2>10. Potential(a)'
    <3>1. CASE Settled(a)
      <4>1. pushes[a] + U <= slips[a] + N
        BY <2>1, <3>1 DEF Account, Potential
      <4>2. pushes'[a] + U1 <= slips'[a] + N
        <5> HIDE DEF U, N, x, U1
        <5> QED BY <1>1, <2>1, <2>6, <2>7, <2>9, <4>1
      <4> QED BY <1>1, <3>1, <4>2 DEF Potential, Settled
    <3>2. CASE ~Settled(a)
      <4>1. pushes[a] <= slips[a] + R
        BY <2>1, <3>2 DEF Account, Potential
      <4>2. pushes'[a] <= slips'[a] + R1
        <5> HIDE DEF R, x, R1
        <5> QED BY <1>1, <2>1, <2>6, <2>7, <2>8, <4>1
      <4> QED BY <1>1, <3>2, <4>2 DEF Potential, Settled
    <3> QED BY <3>1, <3>2
  <2>11. Alone(a)'
    <3>1. slips'[a] >= slips[a] /\ slips'[a] \in Nat
      <4> HIDE DEF x
      <4> QED BY <2>1, <2>7
    <3>2. SUFFICES ASSUME a \notin shared
          PROVE  /\ \A r, q \in Holders(a)' : r = q
                 /\ Settled(a) => /\ Holders(a)' = {}
                                  /\ pushes[a] <= slips'[a] + (IF alert[a].state = "sent" THEN 1 ELSE 0)
      BY <1>1 DEF Alone, Settled
    <3>3. Settled(a) => pushes[a] <= slips[a] + (IF alert[a].state = "sent" THEN 1 ELSE 0)
      BY <2>1, <3>2 DEF Account, Alone
    <3>4. Settled(a) => pushes[a] <= slips'[a] + (IF alert[a].state = "sent" THEN 1 ELSE 0)
      BY <2>1, <3>1, <3>3
    <3> QED BY <2>1, <2>5, <3>2, <3>4 DEF Account, Alone
  <2>12. Heard(a)' /\ Held(a)'
    BY <1>1, <2>1, <2>5 DEF Account, Heard, Held
  <2> QED BY <2>10, <2>11, <2>12 DEF Account
<1> QED BY <1>2, <1>3 DEF Accounts

LEMMA AccountsStep == ASSUME AlertAssumption, Base, Accounts, [Next]_vars PROVE Accounts'
<1>1. ASSUME NEW r \in Runs, EndPage(r) \/ Suppressed(r) PROVE Accounts'
  <2>1. Return(r) /\ ~At(r, "push") /\ UNCHANGED <<alert, pushes, slips, shared>>
    BY <1>1 DEF EndPage, Suppressed, At, ghostVars
  <2> QED BY <2>1, ReturnAccounts
<1>2. ASSUME NEW r \in Runs, DispatchStep(r) PROVE Accounts'
  BY <1>1, <1>2, ReadAccounts, DeliverAccounts, PushAccounts, RecordAccounts DEF DispatchStep
<1>3. ASSUME NEW s \in Servers, Request(s) PROVE Accounts'
  <2>1. CASE run' = run
    BY <1>3, <2>1, IdleAccounts DEF Request, ghostVars
  <2>2. CASE run' # run
    <3>1. /\ SweepOf(s) \in Runs /\ run' = [run EXCEPT ![SweepOf(s)] = Work] /\ run[SweepOf(s)].pc = "idle"
          /\ UNCHANGED <<alert, pushes, slips, shared>>
      BY <1>3, <2>2, RunsAre DEF Request, At, ghostVars
    <3> QED BY <3>1, EmptyRuns, EmptiedAccounts
  <2> QED BY <2>1, <2>2
<1>4. ASSUME NEW s \in Servers, LastDispatch(s) \/ SweepFails(s) PROVE Accounts'
  <2>1. PICK v \in {Run("read", Alerts, TRUE), NoRun} : run' = [run EXCEPT ![SweepOf(s)] = v]
    BY <1>4 DEF LastDispatch, SweepFails
  <2>2. SweepOf(s) \in Runs /\ run[SweepOf(s)].pc = "work" /\ UNCHANGED <<alert, pushes, slips, shared>>
    BY <1>4, RunsAre DEF LastDispatch, SweepFails, At, ghostVars
  <2>3. v.page = {} /\ RunOK(v)
    BY <2>1 DEF Run, NoRun, RunOK
  <2> QED BY <2>1, <2>2, <2>3, EmptiedAccounts
<1>5. ASSUME NEW r \in Runs, NEW ids \in SUBSET Alerts, Commit(r, ids) PROVE Accounts'
  <2>1. /\ run' = [run EXCEPT ![r] = Run("read", ids, FALSE)] /\ run[r].pc # "push"
        /\ UNCHANGED <<pushes, slips, shared>>
    BY <1>5 DEF Commit, At, ghostVars
  <2>2. \A a \in Alerts : alert'[a].state = alert[a].state \/ (alert[a].state = "none" /\ alert'[a].state = "pending")
    BY <1>5, AccountParts DEF Commit, RowType
  <2> QED BY <2>1, <2>2, EmptyRuns, EmptiedAccounts
<1>6. ASSUME NEW a \in Alerts, BackoffEnds(a) PROVE Accounts'
  <2>1. \A b \in Alerts : alert'[b].state = alert[b].state
    BY <1>6, AccountParts DEF BackoffEnds, RowType
  <2> QED BY <1>6, <2>1, IdleAccounts DEF BackoffEnds, ghostVars
<1>7. ASSUME \/ \E d \in Devices : Subscribe(d) \/ Unsubscribe(d)
             \/ \E on \in BOOLEAN : Mark(on)
             \/ \E s \in Servers, on \in BOOLEAN : Boot(s, on)
             \/ UNCHANGED vars
      PROVE  Accounts'
  BY <1>7, IdleAccounts DEF Subscribe, Unsubscribe, Mark, Boot, vars, ghostVars
<1> QED BY <1>2, <1>3, <1>4, <1>5, <1>6, <1>7, CrashAccounts DEF Next

LEMMA AccountsInit == ASSUME AlertAssumption, Init PROVE Accounts
<1>1. \A r \in Runs : RunOK(run[r]) /\ run[r].page = {} /\ \A a : ~ReachedIn(run[r], a)
  BY EmptyRuns DEF Init
<1>2. ASSUME NEW a \in Alerts PROVE Account(a)
  <2>1. Reached(a) = {} /\ Holders(a) = {} /\ alert[a].state = "none" /\ pushes[a] = 0 /\ slips[a] = 0
    BY <1>1 DEF Init, Reached, Holders
  <2>2. Cardinality(Reached(a)) = 0
    BY <2>1, FS_EmptySet
  <2> QED BY <2>1, <2>2 DEF Account, Potential, Alone, Heard, Held, Settled
<1> QED BY <1>1, <1>2 DEF Accounts

LEMMA AccountsHold == Spec => [](Base /\ Accounts)
<1>1. Init => Base /\ Accounts
  BY AlertAssumption, BaseInit, AccountsInit
<1>2. Base /\ Accounts /\ [Next]_vars => (Base /\ Accounts)'
  BY AlertAssumption, BaseStep, AccountsStep
<1> QED BY <1>1, <1>2, PTL DEF Spec

\* An alert reaches the phones once, but for lost results; and once per task at
\* most if two tasks held it together (alerts.js:65-81; push.js:83-105).
THEOREM PushedOnceHolds == Spec => []PushedOnce
<1>1. Base /\ Accounts => PushedOnce
  <2> SUFFICES ASSUME Base, Accounts, NEW a \in Alerts
               PROVE  pushes[a] <= slips[a] + (IF a \in shared THEN Cardinality(Runs) ELSE 1)
    BY DEF PushedOnce
  <2> DEFINE R == Cardinality(Reached(a))
             U == Cardinality(Unreached(a))
             N == Cardinality(Runs)
  <2>1. R \in Nat /\ U \in Nat /\ N \in Nat /\ R + U <= N
    BY AlertAssumption, Sizes
  <2>2. pushes[a] \in Nat /\ slips[a] \in Nat /\ Account(a)
    BY AccountParts DEF Accounts
  <2>3. CASE a \in shared
    <3>1. Settled(a) => pushes[a] + U <= slips[a] + N
      BY <2>2 DEF Account, Potential
    <3>2. ~Settled(a) => pushes[a] <= slips[a] + R
      BY <2>2 DEF Account, Potential
    <3> HIDE DEF R, U, N
    <3>3. pushes[a] <= slips[a] + N
      BY <2>1, <2>2, <3>1, <3>2
    <3> QED BY <2>3, <3>3 DEF N
  <2>4. CASE a \notin shared /\ Settled(a)
    BY <2>2, <2>4 DEF Account, Alone
  <2>5. CASE a \notin shared /\ ~Settled(a)
    <3>1. \A r, q \in Reached(a) : r = q
      BY <2>2, <2>5 DEF Account, Alone, Reached, ReachedIn, Holders, First
    <3>2. Reached(a) = {} \/ \E r : Reached(a) = {r}
      BY <3>1
    <3>3. R = 0 \/ R = 1
      <4>1. CASE Reached(a) = {}
        BY <4>1, FS_EmptySet
      <4>2. ASSUME NEW r, Reached(a) = {r} PROVE R = 1
        BY <4>2, FS_Singleton
      <4> QED BY <3>2, <4>1, <4>2
    <3>4. pushes[a] <= slips[a] + R
      BY <2>2, <2>5 DEF Account, Potential
    <3> HIDE DEF R
    <3> QED BY <2>1, <2>2, <2>5, <3>3, <3>4
  <2> QED BY <2>3, <2>4, <2>5
<1> QED BY <1>1, AccountsHold, PTL

\* What the row says of an alert is what happened to it (alerts.js:57-59).
THEOREM StateIsHonestHolds == Spec => []StateIsHonest
<1>1. Base /\ Accounts => StateIsHonest
  <2> SUFFICES ASSUME Base, Accounts, NEW a \in Alerts
               PROVE  /\ alert[a].state = "sent" => pushes[a] > 0
                      /\ alert[a].state = "gave_up" /\ a \notin shared => pushes[a] <= slips[a]
    BY DEF StateIsHonest
  <2>1. Account(a) /\ slips[a] \in Nat
    BY AccountParts DEF Accounts
  <2> QED BY <2>1 DEF Account, Heard, Alone, Settled
<1> QED BY <1>1, AccountsHold, PTL
=============================================================================
