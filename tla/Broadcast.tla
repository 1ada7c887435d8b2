----------------------------- MODULE Broadcast -----------------------------
(***************************************************************************)
(* broadcast.js and migration 013: the rate-list poster, sent to a list of *)
(* recipients by a loop in the web process.                                *)
(*                                                                         *)
(* Actors: the inbox (create and start, stop), customers (STOP and START), *)
(* the run of each server instance, and the restarts of the instances: one *)
(* may boot, and resume, while the old one still sends.                    *)
(*                                                                         *)
(* A run is a step per query or call it awaits, but that the status it     *)
(* re-reads and the recipient it picks are one step.  Any of its queries   *)
(* may fail: the run ends there and the process goes on (RunDies).         *)
(* Operators named Faulty... are mistakes the properties must notice.      *)
(***************************************************************************)
EXTENDS Naturals, FiniteSets

CONSTANTS
  Servers,             \* server instances
  Casts,               \* broadcast ids, in the order they are created
  Phones,              \* numbers, in the order the loop picks them
  Errors,              \* texts of Meta's refusals
  StopAfterSameErrors, \* STOP_AFTER_SAME_ERRORS
  MaxRestarts,         \* bound of the model: process deaths
  NoCast, NoError

ASSUME BroadcastAssumption ==
  /\ Casts \subseteq Nat /\ Phones \subseteq Nat \ {0}
  /\ IsFiniteSet(Servers) /\ Servers # {} /\ IsFiniteSet(Phones)
  /\ StopAfterSameErrors \in Nat \ {0} /\ MaxRestarts \in Nat
  /\ NoCast \notin Casts /\ NoError \notin Errors

VARIABLES
  cast,       \* broadcasts.status, "none" before it is created
  recipient,  \* broadcast_recipients.status, "none" if not on the list
  counted,    \* broadcasts.sent and broadcasts.failed
  optedOut,   \* marketing_opt_outs
  up,         \* instances that are up
  booting,    \* those that have not asked yet what to resume
  posted,     \* broadcasts an instance has created and not yet started
  run,        \* the run of each instance; run[s].cast is its "running"
  restarts,   \* process deaths so far
  starts,     \* how many runs each broadcast has had
  got,        \* how many posters of a broadcast went out to a number
  died,       \* broadcasts with a run that died although its process went on
  missed,     \* broadcasts 'sending' that no run and no boot was left to go on with
  barred      \* numbers on the opt-out list when the broadcast was created

tableVars == <<cast, recipient, counted, optedOut>>
hostVars == <<up, booting, posted, restarts>>
ghostVars == <<starts, got, barred, died, missed>>
vars == <<tableVars, hostVars, run, ghostVars>>

Statuses == {"none", "queued", "sending", "done", "stopped"}
RecipientStatuses == {"none", "pending", "sent", "failed", "skipped"}
Over == {"done", "stopped"}
Steps == {"idle", "begin", "set", "pick", "send", "mark", "count", "brake", "finish"}

Run(pc, c, phone, error, same) ==
  [pc |-> pc, cast |-> c, phone |-> phone, error |-> error, same |-> same]
NoRun == Run("idle", NoCast, 0, NoError, 0)
At(s, pc) == run[s].pc = pc
Goto(s, pc) == [run EXCEPT ![s].pc = pc]
Pending(c) == {p \in Phones : recipient[c][p] = "pending"}
Rows(c, status) == {p \in Phones : recipient[c][p] = status}

TypeOK ==
  /\ cast \in [Casts -> Statuses]
  /\ recipient \in [Casts -> [Phones -> RecipientStatuses]]
  /\ counted \in [Casts -> [sent : Nat, failed : Nat]]
  /\ optedOut \subseteq Phones
  /\ booting \subseteq up /\ up \subseteq Servers
  /\ posted \in [Servers -> SUBSET Casts]
  /\ run \in [Servers -> [pc : Steps, cast : Casts \cup {NoCast}, phone : Phones \cup {0},
                          error : Errors \cup {NoError}, same : 0..StopAfterSameErrors]]
  /\ restarts \in 0..MaxRestarts
  /\ starts \in [Casts -> Nat]
  /\ got \in [Casts -> [Phones -> Nat]]
  /\ barred \in [Casts -> SUBSET Phones]
  /\ died \subseteq Casts /\ missed \subseteq Casts

\* Which one is up at first makes no difference.
FirstUp == CHOOSE s \in Servers : TRUE

Init ==
  /\ cast = [c \in Casts |-> "none"]
  /\ recipient = [c \in Casts |-> [p \in Phones |-> "none"]]
  /\ counted = [c \in Casts |-> [sent |-> 0, failed |-> 0]]
  /\ optedOut \in SUBSET Phones
  /\ up = {FirstUp} /\ booting = {}
  /\ posted = [s \in Servers |-> {}]
  /\ run = [s \in Servers |-> NoRun]
  /\ restarts = 0
  /\ starts = [c \in Casts |-> 0]
  /\ got = [c \in Casts |-> [p \in Phones |-> 0]]
  /\ barred = [c \in Casts |-> {}]
  /\ died = {} /\ missed = {}

------------------------------------------------------------------------------
(* Create and start, stop, opt out.                                        *)

FaultyFirstStatus(p) == "pending"
FirstStatus(p) == IF p \in optedOut THEN "skipped" ELSE "pending"

\* The route asks its own process whether a broadcast is running, then creates.
Create(s, c, list) ==
  /\ s \in up /\ run[s].cast = NoCast
  /\ cast[c] = "none" /\ \A d \in Casts : d < c => cast[d] # "none"
  /\ list # {}
  /\ cast' = [cast EXCEPT ![c] = "queued"]
  /\ recipient' = [recipient EXCEPT ![c] = [p \in Phones |-> IF p \in list THEN FirstStatus(p) ELSE "none"]]
  /\ posted' = [posted EXCEPT ![s] = @ \cup {c}]
  /\ barred' = [barred EXCEPT ![c] = optedOut]
  /\ UNCHANGED <<counted, optedOut, up, booting, run, restarts, starts, got, died, missed>>

\* The run of broadcast c, in this process, unless another one is running.
StartRun(s, c) ==
  /\ run' = IF run[s].cast = NoCast THEN [run EXCEPT ![s] = Run("begin", c, 0, NoError, 0)] ELSE run
  /\ starts' = IF run[s].cast = NoCast THEN [starts EXCEPT ![c] = @ + 1] ELSE starts

\* A broadcast that finds another one running stays 'queued': the caller is
\* told 409, and nothing starts it later.
Start(s, c) ==
  /\ c \in posted[s]
  /\ StartRun(s, c)
  /\ posted' = [posted EXCEPT ![s] = @ \ {c}]
  /\ UNCHANGED <<tableVars, up, booting, restarts, got, barred, died, missed>>

Stop(c) ==
  /\ cast[c] \in {"queued", "sending"}
  /\ cast' = [cast EXCEPT ![c] = "stopped"]
  /\ UNCHANGED <<recipient, counted, optedOut, hostVars, run, ghostVars>>

\* The list is read at creation only: no opt word after the last one (a bound).
OptWord(p) ==
  /\ \E c \in Casts : cast[c] = "none"
  /\ optedOut' = IF p \in optedOut THEN optedOut \ {p} ELSE optedOut \cup {p}
  /\ UNCHANGED <<cast, recipient, counted, hostVars, run, ghostVars>>

------------------------------------------------------------------------------
(* The run.                                                                *)

Return(s) == [run EXCEPT ![s] = NoRun]

Begin(s) ==
  /\ At(s, "begin")
  /\ run' = IF cast[run[s].cast] \in Over THEN Return(s) ELSE Goto(s, "set")
  /\ UNCHANGED <<tableVars, hostVars, ghostVars>>

\* Whatever the status has become since it was read.
SetSending(s) ==
  /\ At(s, "set")
  /\ cast' = [cast EXCEPT ![run[s].cast] = "sending"]
  /\ run' = Goto(s, "pick")
  /\ UNCHANGED <<recipient, counted, optedOut, hostVars, ghostVars>>

\* The loop picks the first number, the boot the first id.
First(p, phones) == p \in phones /\ \A q \in phones : p <= q

Pick(s) ==
  LET c == run[s].cast
  IN /\ At(s, "pick")
     /\ \/ cast[c] # "sending" /\ run' = Return(s)
        \/ cast[c] = "sending" /\ Pending(c) = {} /\ run' = Goto(s, "finish")
        \/ \E p \in Phones :
             /\ cast[c] = "sending" /\ First(p, Pending(c))
             /\ run' = [run EXCEPT ![s].pc = "send", ![s].phone = p]
     /\ UNCHANGED <<tableVars, hostVars, ghostVars>>

\* Meta accepts, or refuses; or the answer is lost, after the poster went out
\* or before, which the run takes for a refusal.
Send(s, error, wentOut) ==
  LET r == run[s]
  IN /\ At(s, "send")
     /\ error = NoError => wentOut
     /\ run' = [run EXCEPT ![s].pc = "mark", ![s].error = error,
                           ![s].same = IF error = NoError THEN 0 ELSE IF error = r.error THEN r.same + 1 ELSE 1]
     /\ got' = IF wentOut THEN [got EXCEPT ![r.cast][r.phone] = @ + 1] ELSE got
     /\ UNCHANGED <<tableVars, hostVars, starts, barred, died, missed>>

FaultyAnswered(error) == IF error = NoError THEN "sent" ELSE "pending"
FaultyAllSent(error) == "sent"
Answered(error) == IF error = NoError THEN "sent" ELSE "failed"

Mark(s) ==
  /\ At(s, "mark")
  /\ recipient' = [recipient EXCEPT ![run[s].cast][run[s].phone] = Answered(run[s].error)]
  /\ run' = Goto(s, "count")
  /\ UNCHANGED <<cast, counted, optedOut, hostVars, ghostVars>>

FaultyCount(n, error) == [n EXCEPT !.sent = @ + 1]
CountAnswer(n, error) ==
  IF error = NoError THEN [n EXCEPT !.sent = @ + 1] ELSE [n EXCEPT !.failed = @ + 1]

\* The same refusal, again and again: the next query stops the broadcast.
Braked(r) == r.error # NoError /\ r.same >= StopAfterSameErrors

\* The counters, the message's row in the customer's thread, and the pause.
Count(s) ==
  LET r == run[s]
  IN /\ At(s, "count")
     /\ counted' = [counted EXCEPT ![r.cast] = CountAnswer(@, r.error)]
     /\ run' = IF Braked(r) THEN Goto(s, "brake") ELSE [run EXCEPT ![s].pc = "pick", ![s].phone = 0]
     /\ UNCHANGED <<cast, recipient, optedOut, hostVars, ghostVars>>

Brake(s) ==
  /\ At(s, "brake")
  /\ cast' = [cast EXCEPT ![run[s].cast] = "stopped"]
  /\ run' = Return(s)
  /\ UNCHANGED <<recipient, counted, optedOut, hostVars, ghostVars>>

Finish(s) ==
  /\ At(s, "finish")
  /\ cast' = [cast EXCEPT ![run[s].cast] = "done"]
  /\ run' = Return(s)
  /\ UNCHANGED <<recipient, counted, optedOut, hostVars, ghostVars>>

RunDies(s) ==
  /\ ~At(s, "idle") /\ ~At(s, "send")
  /\ run' = Return(s)
  /\ died' = died \cup {run[s].cast}
  /\ UNCHANGED <<tableVars, hostVars, starts, got, barred, missed>>

------------------------------------------------------------------------------
(* Restarts.                                                               *)

FaultyInterrupted == {c \in Casts : cast[c] = "queued"}
Interrupted == {c \in Casts : cast[c] = "sending"}

\* What is 'sending' and left to no run of these instances.
Left(servers, runs) == {c \in Casts : cast[c] = "sending"} \ {runs[s].cast : s \in servers}

Crash(s) ==
  LET rest == up \ {s}
  IN /\ s \in up /\ restarts < MaxRestarts
     /\ up' = rest /\ booting' = booting \ {s}
     /\ posted' = [posted EXCEPT ![s] = {}]
     /\ run' = Return(s)
     /\ restarts' = restarts + 1
     /\ missed' = IF rest = {} \/ booting' # {} THEN missed ELSE missed \cup Left(rest, run)
     /\ UNCHANGED <<tableVars, starts, got, barred, died>>

\* It listens first: a broadcast may start before resumeAll has its answer.
Boot(s) ==
  /\ s \notin up
  /\ up' = up \cup {s} /\ booting' = booting \cup {s}
  /\ UNCHANGED <<tableVars, posted, restarts, run, ghostVars>>

\* The first broadcast that is 'sending', and only that one, goes on, unless the
\* instance runs another by now; none does if the query fails.
Resume(s) ==
  /\ s \in booting
  /\ booting' = booting \ {s}
  /\ \/ Interrupted = {} /\ UNCHANGED <<run, starts, missed>>
     \/ \E c \in Casts :
          /\ First(c, Interrupted) /\ StartRun(s, c)
          /\ missed' = (missed \ {run'[s].cast}) \cup Left(up, run')
     \/ UNCHANGED <<run, starts>> /\ missed' = missed \cup Left(up, run)
  /\ UNCHANGED <<tableVars, up, posted, restarts, got, barred, died>>

------------------------------------------------------------------------------
RunStep(s) ==
  \/ Begin(s) \/ SetSending(s) \/ Pick(s) \/ Mark(s) \/ Count(s) \/ Brake(s) \/ Finish(s)
  \/ \E error \in Errors \cup {NoError}, wentOut \in BOOLEAN : Send(s, error, wentOut)

InboxStep ==
  \/ \E s \in Servers, c \in Casts : (\E list \in SUBSET Phones : Create(s, c, list)) \/ Start(s, c)
  \/ \E c \in Casts : Stop(c)
  \/ \E p \in Phones : OptWord(p)

Next ==
  \/ \E s \in Servers : RunStep(s) \/ RunDies(s) \/ Crash(s) \/ Boot(s) \/ Resume(s)
  \/ InboxStep

Spec == Init /\ [][Next]_vars

\* What an awaited query or call always does is come back, unless the process
\* dies; the host boots an instance when none is up, and need not bring back one
\* that a deploy replaced.
HostBoots == up = {} /\ \E s \in Servers : Boot(s)
FairSpec == Spec /\ WF_vars(HostBoots) /\ \A s \in Servers : WF_vars(RunStep(s)) /\ WF_vars(Resume(s))

------------------------------------------------------------------------------
(* Properties.                                                             *)

\* A number gets the poster at most once per run of the broadcast: only a
\* restart (or a second instance) in the middle of a recipient can repeat it,
\* and then once (broadcast.js:14-18, 193-207).
OncePerRun == \A c \in Casts, p \in Phones : got[c][p] <= starts[c]

\* Nobody is missed by a broadcast that ended by itself: when it is 'done',
\* every recipient has an answer, whichever runs sent to whom, and a row says
\* 'sent' only of a number that got the poster (broadcast.js:193-197, 239). The
\* converse is not promised: a lost answer leaves 'failed' on one that did.
DoneIsComplete ==
  \A c \in Casts : cast[c] = "done" =>
    /\ Pending(c) = {}
    /\ \A p \in Phones : recipient[c][p] = "sent" => got[c][p] > 0

\* Someone who had replied STOP when the list was made is never sent to by any
\* run of that broadcast (broadcast.js:122-133).
StopIsHonoured == \A c \in Casts : \A p \in barred[c] : got[c][p] = 0

\* The report of a broadcast that one run finished adds up: each counter is the
\* number of rows in that state (broadcast.js:203-210).
ReportAddsUp ==
  \A c \in Casts : cast[c] = "done" /\ starts[c] = 1 =>
    /\ counted[c].sent = Cardinality(Rows(c, "sent"))
    /\ counted[c].failed = Cardinality(Rows(c, "failed"))

\* What a process death interrupts is resumed and ends: the only broadcast that
\* is 'sending' ends, unless its run died without its process, or no one was left
\* to go on with it: the boot could not read the list or had another to run, or
\* the instances still up had booted before (broadcast.js:15-18, 250-263).
OnlySending(c) == cast[c] = "sending" /\ \A d \in Casts \ {c} : cast[d] # "sending"
InterruptedIsResumed ==
  \A c \in Casts : OnlySending(c) ~> (cast[c] \in Over \/ c \in died \cup missed \/ ~OnlySending(c))
=============================================================================
