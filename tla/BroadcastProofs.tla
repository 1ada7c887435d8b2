--------------------------- MODULE BroadcastProofs ---------------------------
(***************************************************************************)
(* Theorems about Broadcast, for every list of numbers, every number of    *)
(* broadcasts, instances and restarts, and every brake.                    *)
(***************************************************************************)
EXTENDS Broadcast, FiniteSetTheorems, TLAPS

RunType == [pc : Steps, cast : Casts \cup {NoCast}, phone : Phones \cup {0},
            error : Errors \cup {NoError}, same : 0..StopAfterSameErrors]

\* A run is of some broadcast, has a recipient in hand when it sends or marks, and
\* has not met the brake but right after an answer.
RunOK(r) ==
  /\ r.pc = "idle" <=> r.cast = NoCast
  /\ r.pc \in {"send", "mark"} => r.phone \in Phones
  /\ r.pc \in {"begin", "set", "pick", "send", "finish"} \/ r.error = NoError => r.same < StopAfterSameErrors

\* What is run or about to be was created.
Created == \A s \in Servers, c \in Casts : run[s].cast = c \/ c \in posted[s] => cast[c] # "none"

Base == TypeOK /\ (\A s \in Servers : RunOK(run[s])) /\ Created /\ Servers # {}

LEMMA BaseInit == ASSUME BroadcastAssumption, Init PROVE Base
<1>1. NoRun \in RunType /\ RunOK(NoRun) /\ NoRun.cast = NoCast
  BY DEF BroadcastAssumption, NoRun, Run, RunType, RunOK, Steps
<1>2. run \in [Servers -> RunType] /\ \A s \in Servers : run[s] = NoRun
  BY <1>1 DEF Init
<1>3. counted \in [Casts -> [sent : Nat, failed : Nat]]
  BY DEF Init
<1>4. cast \in [Casts -> Statuses] /\ recipient \in [Casts -> [Phones -> RecipientStatuses]]
  BY DEF Init, Statuses, RecipientStatuses
<1>5. TypeOK
  BY <1>2, <1>3, <1>4 DEF Init, FirstUp, TypeOK, RunType, BroadcastAssumption
<1>6. Created
  BY <1>1, <1>2 DEF Init, Created, BroadcastAssumption
<1> QED BY <1>1, <1>2, <1>5, <1>6 DEF Base, Init

(***************************************************************************)
(* Types.                                                                  *)
(***************************************************************************)

\* What every variable but run keeps of the base.
Rest ==
  /\ cast \in [Casts -> Statuses]
  /\ recipient \in [Casts -> [Phones -> RecipientStatuses]]
  /\ counted \in [Casts -> [sent : Nat, failed : Nat]]
  /\ optedOut \subseteq Phones
  /\ booting \subseteq up /\ up \subseteq Servers
  /\ posted \in [Servers -> SUBSET Casts]
  /\ restarts \in 0..MaxRestarts
  /\ starts \in [Casts -> Nat]
  /\ got \in [Casts -> [Phones -> Nat]]
  /\ barred \in [Casts -> SUBSET Phones]
  /\ died \subseteq Casts /\ missed \subseteq Casts

LEMMA BaseRest == ASSUME Base PROVE Rest /\ run \in [Servers -> RunType]
BY DEF Base, TypeOK, Rest, RunType

\* A step that writes the run of s, and creates what it runs or posts.
LEMMA RunWritten ==
  ASSUME Base, Rest', NEW s \in Servers, NEW r \in RunType, RunOK(r), run' = [run EXCEPT ![s] = r],
         \A c \in Casts : cast[c] # "none" => cast'[c] # "none",
         \A c \in Casts : r.cast = c => cast'[c] # "none",
         \A u \in Servers : posted'[u] \subseteq posted[u]
  PROVE  Base'
<1>1. run' \in [Servers -> RunType] /\ \A u \in Servers : run'[u] = IF u = s THEN r ELSE run[u]
  BY BaseRest
<1>2. TypeOK'
  BY <1>1 DEF Rest, TypeOK, RunType
<1>3. \A u \in Servers : RunOK(run'[u])
  BY <1>1 DEF Base
<1>4. Created'
  BY <1>1 DEF Base, Created
<1> QED BY <1>2, <1>3, <1>4 DEF Base

LEMMA NoRunOK == ASSUME BroadcastAssumption PROVE NoRun \in RunType /\ RunOK(NoRun) /\ NoRun.cast = NoCast
BY DEF BroadcastAssumption, NoRun, Run, RunType, RunOK, Steps

\* A step that ends the run of s.
LEMMA RunEnded ==
  ASSUME BroadcastAssumption, Base, Rest', NEW s \in Servers, run' = Return(s),
         \A c \in Casts : cast[c] # "none" => cast'[c] # "none",
         \A u \in Servers : posted'[u] \subseteq posted[u]
  PROVE  Base'
BY NoRunOK, RunWritten DEF Return, BroadcastAssumption

\* A step that moves the run of s on, within its broadcast.
LEMMA RunMoved ==
  ASSUME BroadcastAssumption, Base, Rest', NEW s \in Servers,
         NEW pc \in Steps, NEW p \in Phones \cup {0},
         ~At(s, "idle"), pc # "idle",
         pc \in {"send", "mark"} => p \in Phones,
         pc \in {"begin", "set", "pick", "send", "finish"} => run[s].same < StopAfterSameErrors,
         run' = [run EXCEPT ![s] = [run[s] EXCEPT !.pc = pc, !.phone = p]],
         \A c \in Casts : cast[c] # "none" => cast'[c] # "none",
         posted' = posted
  PROVE  Base'
<1> DEFINE r == [run[s] EXCEPT !.pc = pc, !.phone = p]
<1>1. run[s] \in RunType /\ RunOK(run[s]) /\ run[s].pc # "idle"
  BY BaseRest DEF Base, At
<1>2. r \in RunType /\ RunOK(r) /\ r.cast = run[s].cast
  BY <1>1 DEF RunType, RunOK
<1>3. \A c \in Casts : r.cast = c => cast'[c] # "none"
  BY <1>2 DEF Base, Created
<1> QED BY <1>2, <1>3, RunWritten

LEMMA GotoIs ==
  ASSUME Base, NEW s \in Servers, NEW pc
  PROVE  Goto(s, pc) = [run EXCEPT ![s] = [run[s] EXCEPT !.pc = pc, !.phone = run[s].phone]]
BY BaseRest DEF Goto, RunType

LEMMA RunStepBase == ASSUME BroadcastAssumption, Base, NEW s \in Servers, RunStep(s) PROVE Base'
<1> USE BaseRest
<1>0. run[s] \in RunType /\ RunOK(run[s])
  BY DEF Base
<1>00. ~At(s, "idle") => run[s].cast \in Casts
  BY <1>0 DEF RunType, RunOK, At
<1>1. CASE Begin(s)
  <2>1. Rest' /\ cast' = cast /\ posted' = posted
    BY <1>1 DEF Begin, Rest, hostVars, tableVars, ghostVars
  <2>2. CASE run' = Return(s)
    BY <2>1, <2>2, RunEnded
  <2>3. CASE run' = Goto(s, "set")
    BY <1>0, <1>1, <2>1, <2>3, GotoIs, RunMoved DEF Begin, At, Steps, RunType, RunOK
  <2> QED BY <1>1, <2>2, <2>3 DEF Begin
<1>2. CASE SetSending(s)
  <2>1. Rest' /\ \A c \in Casts : cast[c] # "none" => cast'[c] # "none"
    BY <1>2 DEF SetSending, Rest, hostVars, Statuses, ghostVars
  <2>2. run' = Goto(s, "pick") /\ At(s, "set") /\ posted' = posted
    BY <1>2 DEF SetSending, hostVars
  <2> QED BY <1>0, <2>1, <2>2, GotoIs, RunMoved DEF At, Steps, RunType, RunOK
<1>3. CASE Pick(s)
  <2>1. Rest' /\ cast' = cast /\ posted' = posted /\ At(s, "pick")
    BY <1>3 DEF Pick, Rest, hostVars, tableVars, ghostVars
  <2>2. CASE run' = Return(s)
    BY <2>1, <2>2, RunEnded
  <2>3. CASE run' = Goto(s, "finish")
    BY <1>0, <2>1, <2>3, GotoIs, RunMoved DEF At, Steps, RunType, RunOK
  <2>4. ASSUME NEW p \in Phones, run' = [run EXCEPT ![s].pc = "send", ![s].phone = p] PROVE Base'
    <3>1. run' = [run EXCEPT ![s] = [run[s] EXCEPT !.pc = "send", !.phone = p]]
      BY <2>4
    <3> QED BY <1>0, <2>1, <3>1, RunMoved DEF At, Steps, RunType, RunOK
  <2> QED BY <1>3, <2>2, <2>3, <2>4 DEF Pick
<1>4. ASSUME NEW error \in Errors \cup {NoError}, NEW wentOut \in BOOLEAN, Send(s, error, wentOut) PROVE Base'
  <2> DEFINE same == IF error = NoError THEN 0 ELSE IF error = run[s].error THEN run[s].same + 1 ELSE 1
             r == [run[s] EXCEPT !.pc = "mark", !.error = error, !.same = same]
  <2>1. run' = [run EXCEPT ![s] = r] /\ At(s, "send") /\ UNCHANGED <<tableVars, hostVars, starts, barred, died, missed>>
    BY <1>4 DEF Send
  <2>2. got' \in [Casts -> [Phones -> Nat]]
    <3>1. run[s].cast \in Casts /\ run[s].phone \in Phones
      BY <1>0, <1>00, <2>1 DEF At, RunOK
    <3>2. CASE got' = got
      BY <3>2 DEF Rest
    <3>3. CASE got' = [got EXCEPT ![run[s].cast][run[s].phone] = @ + 1]
      <4>1. got \in [Casts -> [Phones -> Nat]]
        BY DEF Rest
      <4>2. got[run[s].cast] \in [Phones -> Nat]
        BY <3>1, <4>1
      <4>3. \A g \in [Phones -> Nat], p \in Phones : [g EXCEPT ![p] = g[p] + 1] \in [Phones -> Nat]
        OBVIOUS
      <4> DEFINE h == [got[run[s].cast] EXCEPT ![run[s].phone] = got[run[s].cast][run[s].phone] + 1]
      <4>4. h \in [Phones -> Nat]
        BY <3>1, <4>2, <4>3
      <4>5. got' = [got EXCEPT ![run[s].cast] = h]
        BY <3>1, <3>3 DEF Rest
      <4> QED BY <3>1, <4>4, <4>5 DEF Rest
    <3> QED BY <1>4, <3>2, <3>3 DEF Send
  <2>3. Rest'
    BY <2>1, <2>2 DEF Rest, hostVars, tableVars
  <2>4. same \in 0..StopAfterSameErrors /\ (error = NoError => same < StopAfterSameErrors)
    BY <1>0, <2>1 DEF At, RunType, RunOK, BroadcastAssumption
  <2>5. r \in RunType /\ r.pc = "mark" /\ r.cast = run[s].cast /\ r.phone = run[s].phone /\ r.error = error /\ r.same = same
    BY <1>0, <2>4 DEF RunType, Steps
  <2>6. RunOK(r)
    BY <1>0, <2>1, <2>4, <2>5 DEF At, RunOK
  <2>7. \A c \in Casts : r.cast = c => cast'[c] # "none"
    BY <2>1, <2>5 DEF Base, Created, tableVars
  <2> HIDE DEF r
  <2> QED BY <2>1, <2>3, <2>5, <2>6, <2>7, RunWritten DEF tableVars, hostVars
<1>5. CASE Mark(s)
  <2>1. run' = Goto(s, "count") /\ At(s, "mark") /\ UNCHANGED <<cast, counted, optedOut, hostVars, ghostVars>>
    BY <1>5 DEF Mark
  <2>2. recipient' \in [Casts -> [Phones -> RecipientStatuses]]
    <3>1. Answered(run[s].error) \in RecipientStatuses
      BY DEF Answered, RecipientStatuses
    <3> QED BY <1>5, <3>1 DEF Mark, Rest
  <2>3. Rest'
    BY <2>1, <2>2 DEF Rest, hostVars, ghostVars
  <2> QED BY <1>0, <2>1, <2>3, GotoIs, RunMoved DEF At, Steps, RunType, hostVars
<1>6. CASE Count(s)
  <2>1. At(s, "count") /\ UNCHANGED <<cast, recipient, optedOut, hostVars, ghostVars>>
    BY <1>6 DEF Count
  <2>2. counted' \in [Casts -> [sent : Nat, failed : Nat]]
    <3>1. \A n \in [sent : Nat, failed : Nat] : CountAnswer(n, run[s].error) \in [sent : Nat, failed : Nat]
      BY DEF CountAnswer
    <3>2. counted \in [Casts -> [sent : Nat, failed : Nat]]
      BY DEF Rest
    <3>3. run[s].cast \in Casts
      BY <1>00, <2>1 DEF At
    <3> DEFINE n == CountAnswer(counted[run[s].cast], run[s].error)
    <3>4. n \in [sent : Nat, failed : Nat]
      BY <3>1, <3>2, <3>3
    <3>5. counted' = [counted EXCEPT ![run[s].cast] = n]
      BY <1>6 DEF Count
    <3> HIDE DEF n
    <3> QED BY <3>2, <3>4, <3>5
  <2>3. Rest'
    BY <2>1, <2>2 DEF Rest, hostVars, ghostVars
  <2>4. CASE Braked(run[s])
    BY <1>0, <1>6, <2>1, <2>3, <2>4, GotoIs, RunMoved DEF Count, At, Steps, RunType, hostVars
  <2>5. CASE ~Braked(run[s])
    <3>1. run' = [run EXCEPT ![s] = [run[s] EXCEPT !.pc = "pick", !.phone = 0]]
      BY <1>6, <2>5 DEF Count
    <3>2. run[s].same < StopAfterSameErrors
      BY <1>0, <2>1, <2>5 DEF Braked, RunOK, RunType, BroadcastAssumption
    <3> QED BY <1>0, <2>1, <2>3, <3>1, <3>2, RunMoved DEF At, Steps, RunType, hostVars
  <2> QED BY <2>4, <2>5
<1>7. CASE Brake(s) \/ Finish(s)
  <2>1. Rest' /\ \A c \in Casts : cast[c] # "none" => cast'[c] # "none"
    BY <1>7 DEF Brake, Finish, Rest, hostVars, Statuses, ghostVars
  <2> QED BY <1>7, <2>1, RunEnded DEF Brake, Finish, hostVars
<1> QED BY <1>1, <1>2, <1>3, <1>4, <1>5, <1>6, <1>7 DEF RunStep

LEMMA StartBase ==
  ASSUME BroadcastAssumption, Base, NEW s \in Servers, NEW c \in Casts, cast[c] # "none", StartRun(s, c),
         UNCHANGED <<tableVars, up, restarts, got, barred, died>>, booting' \subseteq up, missed' \subseteq Casts,
         posted' \in [Servers -> SUBSET Casts], \A u \in Servers : posted'[u] \subseteq posted[u]
  PROVE  Base'
<1> DEFINE r == Run("begin", c, 0, NoError, 0)
<1>1. starts' \in [Casts -> Nat]
  BY BaseRest DEF StartRun, Rest
<1>2. Rest'
  BY <1>1, BaseRest DEF Rest, tableVars
<1>3. r \in RunType /\ RunOK(r) /\ r.cast = c
  BY DEF BroadcastAssumption, Run, RunType, RunOK, Steps
<1>4. run[s] \in RunType /\ RunOK(run[s])
  BY BaseRest DEF Base
<1>5. CASE run[s].cast = NoCast
  <2> HIDE DEF r
  <2> QED BY <1>2, <1>3, <1>5, RunWritten DEF StartRun, r, tableVars
<1>6. CASE run[s].cast # NoCast
  <2>1. run' = [run EXCEPT ![s] = run[s]]
    BY <1>6, BaseRest DEF StartRun
  <2>2. \A d \in Casts : run[s].cast = d => cast'[d] # "none"
    BY DEF Base, Created, tableVars
  <2> QED BY <1>2, <1>4, <2>1, <2>2, RunWritten DEF tableVars
<1> QED BY <1>5, <1>6

LEMMA BaseNext == ASSUME BroadcastAssumption, Base, [Next]_vars PROVE Base'
<1> USE BaseRest
<1>0. \A s \in Servers : run[s] \in RunType /\ RunOK(run[s])
  BY DEF Base
<1>1. ASSUME NEW s \in Servers, RunDies(s) PROVE Base'
  <2>1. At(s, "idle") \/ run[s].cast \in Casts
    BY <1>0 DEF RunType, RunOK, At
  <2>2. Rest'
    BY <1>1, <2>1 DEF RunDies, Rest, tableVars, hostVars
  <2> QED BY <1>1, <2>2, RunEnded DEF RunDies, tableVars, hostVars
<1>2. ASSUME NEW s \in Servers, Crash(s) PROVE Base'
  <2>1. missed' \subseteq Casts
    BY <1>2 DEF Crash, Rest, Left
  <2>2. /\ posted' \in [Servers -> SUBSET Casts]
        /\ \A u \in Servers : posted'[u] \subseteq posted[u]
    BY <1>2 DEF Crash, Rest
  <2>3. booting' \subseteq up' /\ up' \subseteq Servers /\ restarts' \in 0..MaxRestarts
    BY <1>2 DEF Crash, Rest, BroadcastAssumption
  <2>4. Rest'
    BY <1>2, <2>1, <2>2, <2>3 DEF Crash, Rest, tableVars
  <2> QED BY <1>2, <2>2, <2>4, RunEnded DEF Crash, tableVars
<1>3. ASSUME NEW s \in Servers, Boot(s) PROVE Base'
  <2>1. Rest' /\ UNCHANGED <<cast, run, posted>>
    BY <1>3 DEF Boot, Rest, hostVars, tableVars, ghostVars
  <2> QED BY <2>1 DEF Rest, TypeOK, RunType, Base, Created
<1>9. ASSUME NEW s \in Servers, Resume(s) PROVE Base'
  <2>1. UNCHANGED <<tableVars, up, posted, restarts, got, barred, died>> /\ booting' = booting \ {s}
    BY <1>9 DEF Resume
  <2>2. missed' \subseteq Casts
    BY <1>9 DEF Resume, Rest, Left
  <2>3. CASE UNCHANGED <<run, starts>>
    <3>1. Rest' /\ UNCHANGED <<cast, run, posted>>
      BY <2>1, <2>2, <2>3 DEF Rest, tableVars
    <3> QED BY <3>1 DEF Rest, TypeOK, RunType, Base, Created
  <2>4. ASSUME NEW c \in Casts, First(c, Interrupted), StartRun(s, c) PROVE Base'
    <3>1. cast[c] # "none"
      BY <2>4 DEF First, Interrupted
    <3> QED BY <2>1, <2>2, <2>4, <3>1, StartBase DEF Rest
  <2> QED BY <1>9, <2>3, <2>4 DEF Resume
<1>4. ASSUME NEW s \in Servers, NEW c \in Casts, NEW list \in SUBSET Phones, Create(s, c, list) PROVE Base'
  <2>1. UNCHANGED <<counted, optedOut, up, booting, run, restarts, starts, got, died, missed>>
    BY <1>4 DEF Create
  <2>2. /\ cast' \in [Casts -> Statuses] /\ cast'[c] = "queued"
        /\ \A d \in Casts \ {c} : cast'[d] = cast[d]
    BY <1>4 DEF Create, Rest, Statuses
  <2>3. recipient' \in [Casts -> [Phones -> RecipientStatuses]]
    <3>1. [p \in Phones |-> IF p \in list THEN FirstStatus(p) ELSE "none"] \in [Phones -> RecipientStatuses]
      BY DEF FirstStatus, RecipientStatuses
    <3> QED BY <1>4, <3>1 DEF Create, Rest
  <2>4. /\ posted' \in [Servers -> SUBSET Casts] /\ posted'[s] = posted[s] \cup {c}
        /\ \A u \in Servers \ {s} : posted'[u] = posted[u]
    BY <1>4 DEF Create, Rest
  <2>5. barred' \in [Casts -> SUBSET Phones]
    BY <1>4 DEF Create, Rest
  <2>6. TypeOK'
    BY <2>1, <2>2, <2>3, <2>4, <2>5 DEF Rest, TypeOK, RunType
  <2>7. Created'
    BY <2>1, <2>2, <2>4 DEF Base, Created
  <2> QED BY <2>1, <2>6, <2>7 DEF Base
<1>5. ASSUME NEW s \in Servers, NEW c \in Casts, Start(s, c) PROVE Base'
  <2>1. cast[c] # "none"
    BY <1>5 DEF Start, Base, Created
  <2>2. posted' \in [Servers -> SUBSET Casts] /\ \A u \in Servers : posted'[u] \subseteq posted[u]
    BY <1>5 DEF Start, Rest
  <2> QED BY <1>5, <2>1, <2>2, StartBase DEF Start, Rest
<1>6. ASSUME NEW c \in Casts, Stop(c) PROVE Base'
  <2>1. Rest' /\ \A d \in Casts : cast[d] # "none" => cast'[d] # "none"
    BY <1>6 DEF Stop, Rest, hostVars, Statuses, ghostVars
  <2>2. run' = run /\ posted' = posted
    BY <1>6 DEF Stop, hostVars
  <2> QED BY <2>1, <2>2 DEF Rest, TypeOK, RunType, Base, Created
<1>7. ASSUME NEW p \in Phones, OptWord(p) PROVE Base'
  <2>1. Rest' /\ UNCHANGED <<cast, run, posted>>
    BY <1>7 DEF OptWord, Rest, hostVars, ghostVars
  <2> QED BY <2>1 DEF Rest, TypeOK, RunType, Base, Created
<1>8. CASE UNCHANGED vars
  <2>1. TypeOK'
    BY <1>8 DEF Base, TypeOK, vars, tableVars, hostVars, ghostVars
  <2> QED BY <1>8, <2>1 DEF Base, Created, vars, tableVars, hostVars, ghostVars
<1> QED BY <1>1, <1>2, <1>3, <1>4, <1>5, <1>6, <1>7, <1>8, <1>9, RunStepBase DEF Next, InboxStep

(***************************************************************************)
(* The steps, by what they do to a broadcast.  Most are quiet: they touch  *)
(* neither recipients nor counters, and at most move or end one run.       *)
(***************************************************************************)

\* The run goes on to a step that has nothing in hand, to the end of an empty
\* list, or to the next recipient.
Onward(r, q) ==
  /\ q.cast = r.cast
  /\ r.pc \notin {"idle", "mark", "count"}
  /\ \/ q.pc \in {"set", "pick"}
     \/ q.pc = "finish" /\ Pending(r.cast) = {}
     \/ q.pc = "send" /\ q.phone \in Pending(r.cast)

QuietStep(s) ==
  /\ UNCHANGED <<recipient, counted, got, starts, barred>>
  /\ \A u \in Servers \ {s} : run'[u] = run[u]
  /\ run'[s] = run[s] \/ run'[s] = NoRun \/ Onward(run[s], run'[s])
  /\ \A c \in Casts :
       \/ cast'[c] = cast[c]
       \/ cast[c] # "none" /\ cast'[c] \in {"sending", "stopped"}
       \/ run[s].cast = c /\ At(s, "finish") /\ run'[s] = NoRun /\ cast'[c] = "done"

\* A run of a created broadcast begins.
NewRun(s, c) ==
  /\ run[s].cast = NoCast /\ cast[c] # "none"
  /\ run' = [run EXCEPT ![s] = Run("begin", c, 0, NoError, 0)]
  /\ starts' = [starts EXCEPT ![c] = @ + 1]
  /\ UNCHANGED <<cast, recipient, counted, got, barred>>

LEMMA StartIsQuietOrNew ==
  ASSUME Base, NEW s \in Servers, NEW c \in Casts, cast[c] # "none", StartRun(s, c),
         UNCHANGED <<tableVars, got, barred>>
  PROVE  QuietStep(s) \/ NewRun(s, c)
<1>1. CASE run[s].cast = NoCast
  BY <1>1 DEF StartRun, NewRun, tableVars
<1>2. CASE run[s].cast # NoCast
  BY <1>2 DEF StartRun, QuietStep, tableVars
<1> QED BY <1>1, <1>2

LEMMA RunForms ==
  ASSUME BroadcastAssumption, Base, NEW s \in Servers,
         Begin(s) \/ SetSending(s) \/ Pick(s) \/ Brake(s) \/ Finish(s) \/ RunDies(s) \/ Crash(s)
  PROVE  QuietStep(s)
<1> USE BaseRest
<1>0. run[s] \in RunType /\ RunOK(run[s]) /\ (~At(s, "idle") => run[s].cast \in Casts /\ cast[run[s].cast] # "none")
  BY DEF Base, Created, RunType, RunOK, At
<1>1. \A r : run' = [run EXCEPT ![s] = r] => run'[s] = r /\ \A u \in Servers \ {s} : run'[u] = run[u]
  OBVIOUS
<1>2. \A pc : run' = Goto(s, pc) =>
        run'[s].pc = pc /\ run'[s].cast = run[s].cast /\ \A u \in Servers \ {s} : run'[u] = run[u]
  BY <1>0 DEF Goto, RunType
<1>3. run' = Return(s) => run'[s] = NoRun /\ \A u \in Servers \ {s} : run'[u] = run[u]
  BY DEF Return
<1>4. CASE Begin(s)
  BY <1>2, <1>3, <1>4 DEF Begin, At, QuietStep, Onward, tableVars, ghostVars
<1>5. CASE SetSending(s)
  BY <1>0, <1>2, <1>5 DEF SetSending, At, QuietStep, Onward, ghostVars, Rest
<1>6. CASE Pick(s)
  <2>1. At(s, "pick") /\ UNCHANGED <<tableVars, ghostVars>>
    BY <1>6 DEF Pick
  <2>2. CASE run' = Return(s)
    BY <1>3, <2>1, <2>2 DEF QuietStep, tableVars, ghostVars
  <2>3. CASE Pending(run[s].cast) = {} /\ run' = Goto(s, "finish")
    BY <1>2, <2>1, <2>3 DEF At, QuietStep, Onward, tableVars, ghostVars
  <2>4. ASSUME NEW p \in Pending(run[s].cast), run' = [run EXCEPT ![s].pc = "send", ![s].phone = p]
        PROVE  QuietStep(s)
    <3>1. run'[s].pc = "send" /\ run'[s].phone = p /\ run'[s].cast = run[s].cast
      BY <1>0, <2>4 DEF RunType
    <3>2. \A u \in Servers \ {s} : run'[u] = run[u]
      BY <2>4
    <3> QED BY <2>1, <2>4, <3>1, <3>2 DEF At, QuietStep, Onward, tableVars, ghostVars
  <2> QED BY <1>6, <2>2, <2>3, <2>4 DEF Pick, First
<1>7. CASE Brake(s)
  BY <1>0, <1>3, <1>7 DEF Brake, At, QuietStep, ghostVars, Rest
<1>8. CASE Finish(s)
  BY <1>0, <1>3, <1>8 DEF Finish, At, QuietStep, ghostVars, Rest
<1>9. CASE RunDies(s)
  BY <1>3, <1>9 DEF RunDies, QuietStep, tableVars
<1>10. CASE Crash(s)
  BY <1>3, <1>10 DEF Crash, QuietStep, tableVars, ghostVars
<1> QED BY <1>4, <1>5, <1>6, <1>7, <1>8, <1>9, <1>10

\* Every step from a state with the base is of one of five forms.
StepOf(s) ==
  \/ QuietStep(s) \/ Mark(s) \/ Count(s)
  \/ \E error \in Errors \cup {NoError}, wentOut \in BOOLEAN : Send(s, error, wentOut)
  \/ \E c \in Casts : NewRun(s, c) \/ \E list \in SUBSET Phones : Create(s, c, list)
SomeForm == \E s \in Servers : StepOf(s)

LEMMA StillQuiet ==
  ASSUME Base, recipient' = recipient, counted' = counted, run' = run,
         starts' = starts, got' = got, barred' = barred,
         \A c \in Casts : cast'[c] = cast[c] \/ (cast[c] # "none" /\ cast'[c] = "stopped")
  PROVE  SomeForm
<1>1. PICK s \in Servers : TRUE
  BY DEF Base
<1>2. QuietStep(s)
  BY DEF QuietStep
<1> QED BY <1>2 DEF SomeForm, StepOf

LEMMA Forms == ASSUME BroadcastAssumption, Base, [Next]_vars PROVE SomeForm
<1>1. ASSUME NEW s \in Servers, RunStep(s) PROVE SomeForm
  <2>1. CASE Begin(s) \/ SetSending(s) \/ Pick(s) \/ Brake(s) \/ Finish(s)
    BY <2>1, RunForms DEF SomeForm, StepOf
  <2> QED BY <1>1, <2>1 DEF RunStep, SomeForm, StepOf
<1>2. ASSUME NEW s \in Servers, RunDies(s) \/ Crash(s) PROVE SomeForm
  BY <1>2, RunForms DEF SomeForm, StepOf
<1>3. ASSUME NEW s \in Servers, Boot(s) PROVE SomeForm
  BY <1>3, StillQuiet DEF Boot, tableVars, ghostVars
<1>9. ASSUME NEW s \in Servers, Resume(s) PROVE SomeForm
  <2>1. CASE UNCHANGED <<run, starts>>
    BY <1>9, <2>1, StillQuiet DEF Resume, tableVars
  <2>2. ASSUME NEW c \in Casts, First(c, Interrupted), StartRun(s, c) PROVE SomeForm
    <3>1. cast[c] # "none"
      BY <2>2 DEF First, Interrupted
    <3>2. QuietStep(s) \/ NewRun(s, c)
      BY <1>9, <2>2, <3>1, StartIsQuietOrNew DEF Resume
    <3> QED BY <3>2 DEF SomeForm, StepOf
  <2> QED BY <1>9, <2>1, <2>2 DEF Resume
<1>4. ASSUME NEW s \in Servers, NEW c \in Casts, Start(s, c) PROVE SomeForm
  <2>1. cast[c] # "none"
    BY <1>4 DEF Start, Base, Created
  <2>2. QuietStep(s) \/ NewRun(s, c)
    BY <1>4, <2>1, StartIsQuietOrNew DEF Start
  <2> QED BY <2>2 DEF SomeForm, StepOf
<1>5. ASSUME NEW c \in Casts, Stop(c) PROVE SomeForm
  <2>1. \A d \in Casts : cast'[d] = cast[d] \/ (cast[d] # "none" /\ cast'[d] = "stopped")
    <3>1. cast \in [Casts -> Statuses]
      BY BaseRest DEF Rest
    <3> QED BY <1>5, <3>1 DEF Stop
  <2> QED BY <1>5, <2>1, StillQuiet DEF Stop, ghostVars
<1>6. ASSUME NEW p \in Phones, OptWord(p) PROVE SomeForm
  BY <1>6, StillQuiet DEF OptWord, ghostVars
<1>7. CASE UNCHANGED vars
  BY <1>7, StillQuiet DEF vars, tableVars, hostVars, ghostVars
<1>8. ASSUME NEW s \in Servers, NEW c \in Casts, NEW list \in SUBSET Phones, Create(s, c, list) PROVE SomeForm
  BY <1>8 DEF SomeForm, StepOf
<1> QED BY <1>1, <1>2, <1>3, <1>4, <1>5, <1>6, <1>7, <1>8, <1>9 DEF Next, InboxStep

(***************************************************************************)
(* Once per run.                                                           *)
(***************************************************************************)

\* A run r may still send broadcast c to p: it is about to, or p's row is pending
\* and r is not the run that just sent to p.
Owes(r, c, p, status) ==
  /\ r.cast = c
  /\ \/ r.pc = "send" /\ r.phone = p
     \/ status = "pending" /\ ~(r.pc = "mark" /\ r.phone = p)
Debtors(c, p) == {s \in Servers : Owes(run[s], c, p, recipient[c][p])}

\* What a number got and what runs may still send it was paid for by a start.
Paid == \A c \in Casts, p \in Phones : got[c][p] + Cardinality(Debtors(c, p)) <= starts[c]

LEMMA DebtorsFinite ==
  ASSUME BroadcastAssumption, NEW c, NEW p
  PROVE  IsFiniteSet(Debtors(c, p)) /\ Cardinality(Debtors(c, p)) \in Nat
<1>1. IsFiniteSet(Debtors(c, p))
  BY FS_Subset DEF BroadcastAssumption, Debtors
<1> QED BY <1>1, FS_CardinalityType

LEMMA DebtShrinks ==
  ASSUME BroadcastAssumption, Base, Paid, Rest', UNCHANGED <<got, starts>>,
         NEW c \in Casts, NEW p \in Phones, Debtors(c, p)' \subseteq Debtors(c, p)
  PROVE  got'[c][p] + Cardinality(Debtors(c, p)') <= starts'[c]
<1>1. /\ Cardinality(Debtors(c, p)') <= Cardinality(Debtors(c, p))
      /\ Cardinality(Debtors(c, p)') \in Nat /\ Cardinality(Debtors(c, p)) \in Nat
  BY DebtorsFinite, FS_Subset, FS_CardinalityType
<1>2. got[c][p] \in Nat /\ starts[c] \in Nat
  BY BaseRest DEF Rest
<1> QED BY <1>1, <1>2 DEF Paid

LEMMA PaidInit == ASSUME BroadcastAssumption, Init PROVE Paid
<1> SUFFICES ASSUME NEW c \in Casts, NEW p \in Phones PROVE got[c][p] + Cardinality(Debtors(c, p)) <= starts[c]
  BY DEF Paid
<1>1. Debtors(c, p) = {}
  BY DEF Init, Debtors, Owes, NoRun, Run, BroadcastAssumption
<1>2. Cardinality(Debtors(c, p)) = 0
  BY <1>1, FS_EmptySet
<1> QED BY <1>2 DEF Init

LEMMA PaidNext == ASSUME BroadcastAssumption, Base, Paid, Base', [Next]_vars PROVE Paid'
<1> USE BaseRest
<1>0. Rest' /\ run' \in [Servers -> RunType]
  BY DEF Base, TypeOK, Rest, RunType
<1>1. PICK s \in Servers : StepOf(s)
  BY Forms DEF SomeForm
<1>2. run[s] \in RunType /\ RunOK(run[s])
  BY DEF Base
<1> SUFFICES ASSUME NEW c \in Casts, NEW p \in Phones
             PROVE got'[c][p] + Cardinality(Debtors(c, p)') <= starts'[c]
  BY DEF Paid
<1>3. CASE QuietStep(s)
  <2>1. \A u \in Servers : Owes(run'[u], c, p, recipient'[c][p]) => Owes(run[u], c, p, recipient[c][p])
    <3>1. Owes(run'[s], c, p, recipient[c][p]) => Owes(run[s], c, p, recipient[c][p])
      BY <1>3 DEF QuietStep, Onward, Owes, Pending, NoRun, Run, BroadcastAssumption
    <3> QED BY <1>3, <3>1 DEF QuietStep
  <2> QED BY <1>0, <1>3, <2>1, DebtShrinks DEF QuietStep, Debtors
<1>4. CASE Mark(s)
  <2>1. run'[s].cast = run[s].cast /\ run'[s].pc = "count" /\ \A u \in Servers \ {s} : run'[u] = run[u]
    BY <1>2, <1>4 DEF Mark, Goto, RunType
  <2>2. recipient'[c][p] = "pending" => recipient[c][p] = "pending" /\ ~(run[s].cast = c /\ run[s].phone = p)
    BY <1>4 DEF Mark, Answered, Rest
  <2>3. Debtors(c, p)' \subseteq Debtors(c, p)
    BY <2>1, <2>2 DEF Debtors, Owes
  <2> QED BY <1>0, <1>4, <2>3, DebtShrinks DEF Mark, ghostVars
<1>5. CASE Count(s)
  <2>1. run'[s].cast = run[s].cast /\ run'[s].pc \in {"pick", "brake"} /\ \A u \in Servers \ {s} : run'[u] = run[u]
    BY <1>2, <1>5 DEF Count, Goto, RunType
  <2>2. recipient' = recipient /\ run[s].pc = "count"
    BY <1>5 DEF Count, At
  <2>3. Debtors(c, p)' \subseteq Debtors(c, p)
    BY <2>1, <2>2 DEF Debtors, Owes
  <2> QED BY <1>0, <1>5, <2>3, DebtShrinks DEF Count, ghostVars
<1>6. ASSUME NEW error \in Errors \cup {NoError}, NEW wentOut \in BOOLEAN, Send(s, error, wentOut)
      PROVE  got'[c][p] + Cardinality(Debtors(c, p)') <= starts'[c]
  <2>1. /\ run'[s].cast = run[s].cast /\ run'[s].pc = "mark" /\ run'[s].phone = run[s].phone
        /\ \A u \in Servers \ {s} : run'[u] = run[u]
    BY <1>2, <1>6 DEF Send, RunType
  <2>2. run[s].pc = "send" /\ recipient' = recipient /\ starts' = starts
    BY <1>6 DEF Send, At, tableVars
  <2>3. Debtors(c, p)' \subseteq Debtors(c, p)
    BY <2>1, <2>2 DEF Debtors, Owes
  <2>4. CASE run[s].cast = c /\ run[s].phone = p
    <3>1. s \in Debtors(c, p) /\ s \notin Debtors(c, p)'
      BY <2>1, <2>2, <2>4 DEF Debtors, Owes
    <3>2. Cardinality(Debtors(c, p)') <= Cardinality(Debtors(c, p) \ {s})
      BY <2>3, <3>1, DebtorsFinite, FS_RemoveElement, FS_Subset
    <3>3. Cardinality(Debtors(c, p) \ {s}) = Cardinality(Debtors(c, p)) - 1
      BY <3>1, DebtorsFinite, FS_RemoveElement
    <3>4. got'[c][p] \in {got[c][p], got[c][p] + 1}
      BY <1>6 DEF Send, Rest
    <3>5. got[c][p] \in Nat /\ starts[c] \in Nat /\ Cardinality(Debtors(c, p)) \in Nat
          /\ Cardinality(Debtors(c, p)') \in Nat
      BY <2>3, DebtorsFinite, FS_Subset, FS_CardinalityType DEF Rest
    <3>6. got[c][p] + Cardinality(Debtors(c, p)) <= starts[c]
      BY DEF Paid
    <3> QED BY <2>2, <3>2, <3>3, <3>4, <3>5, <3>6
  <2>5. CASE ~(run[s].cast = c /\ run[s].phone = p)
    <3>1. got'[c][p] = got[c][p]
      BY <1>6, <2>5 DEF Send, Rest
    <3>2. /\ Cardinality(Debtors(c, p)') <= Cardinality(Debtors(c, p))
          /\ Cardinality(Debtors(c, p)') \in Nat /\ Cardinality(Debtors(c, p)) \in Nat
      BY <2>3, DebtorsFinite, FS_Subset, FS_CardinalityType
    <3>3. got[c][p] \in Nat /\ starts[c] \in Nat /\ got[c][p] + Cardinality(Debtors(c, p)) <= starts[c]
      BY DEF Paid, Rest
    <3> QED BY <2>2, <3>1, <3>2, <3>3
  <2> QED BY <2>4, <2>5
<1>7. ASSUME NEW d \in Casts, NewRun(s, d) PROVE got'[c][p] + Cardinality(Debtors(c, p)') <= starts'[c]
  <2>1. /\ run'[s].cast = d /\ run'[s].pc = "begin" /\ \A u \in Servers \ {s} : run'[u] = run[u]
        /\ recipient' = recipient /\ got' = got
    BY <1>7 DEF NewRun, Run
  <2>2. got[c][p] \in Nat /\ starts[c] \in Nat /\ got[c][p] + Cardinality(Debtors(c, p)) <= starts[c]
    BY DEF Paid, Rest
  <2>3. CASE c = d
    <3>1. Debtors(c, p)' \subseteq Debtors(c, p) \cup {s}
      BY <2>1 DEF Debtors
    <3> DEFINE D == Debtors(c, p)
    <3>0. IsFiniteSet(D) /\ Cardinality(D) \in Nat
      BY DebtorsFinite
    <3> HIDE DEF D
    <3>2. IsFiniteSet(D \cup {s}) /\ Cardinality(D \cup {s}) <= Cardinality(D) + 1
      <4>1. /\ IsFiniteSet(D \cup {s})
            /\ Cardinality(D \cup {s}) = IF s \in D THEN Cardinality(D) ELSE Cardinality(D) + 1
        BY <3>0, FS_AddElement
      <4> QED BY <3>0, <4>1
    <3>3. /\ Cardinality(Debtors(c, p)') <= Cardinality(D \cup {s})
          /\ Cardinality(Debtors(c, p)') \in Nat /\ Cardinality(D \cup {s}) \in Nat
      BY <3>1, <3>2, FS_Subset, FS_CardinalityType DEF D
    <3>4. starts'[c] = starts[c] + 1
      BY <1>7, <2>3 DEF NewRun, Rest
    <3> QED BY <2>1, <2>2, <3>0, <3>2, <3>3, <3>4 DEF D
  <2>4. CASE c # d
    <3>1. Debtors(c, p)' \subseteq Debtors(c, p)
      BY <2>1, <2>4 DEF Debtors, Owes
    <3>2. /\ Cardinality(Debtors(c, p)') <= Cardinality(Debtors(c, p))
          /\ Cardinality(Debtors(c, p)') \in Nat /\ Cardinality(Debtors(c, p)) \in Nat
      BY <3>1, DebtorsFinite, FS_Subset, FS_CardinalityType
    <3>3. starts'[c] = starts[c]
      BY <1>7, <2>4 DEF NewRun, Rest
    <3> QED BY <2>1, <2>2, <3>2, <3>3
  <2> QED BY <2>3, <2>4
<1>8. ASSUME NEW d \in Casts, NEW list \in SUBSET Phones, Create(s, d, list)
      PROVE  got'[c][p] + Cardinality(Debtors(c, p)') <= starts'[c]
  <2>1. \A u \in Servers : run[u].cast # d
    BY <1>8 DEF Create, Base, Created
  <2>2. run' = run /\ (c # d => recipient'[c] = recipient[c])
    BY <1>8 DEF Create, Rest
  <2>3. Debtors(c, p)' \subseteq Debtors(c, p)
    BY <2>1, <2>2 DEF Debtors, Owes
  <2> QED BY <1>0, <1>8, <2>3, DebtShrinks DEF Create
<1> QED BY <1>1, <1>3, <1>4, <1>5, <1>6, <1>7, <1>8 DEF StepOf

(***************************************************************************)
(* What the forms do to the run and the rows, one fact for each.           *)
(***************************************************************************)

LEMMA MarkFacts ==
  ASSUME BroadcastAssumption, Base, NEW s \in Servers, Mark(s)
  PROVE  /\ run[s].pc = "mark" /\ run[s].cast \in Casts /\ run[s].phone \in Phones
         /\ run'[s].pc = "count" /\ run'[s].cast = run[s].cast /\ run'[s].error = run[s].error
         /\ \A u \in Servers \ {s} : run'[u] = run[u]
         /\ recipient'[run[s].cast][run[s].phone] = Answered(run[s].error)
         /\ \A c \in Casts, p \in Phones :
              ~(c = run[s].cast /\ p = run[s].phone) => recipient'[c][p] = recipient[c][p]
         /\ UNCHANGED <<cast, counted, starts, got, barred>>
<1>1. run[s] \in RunType /\ RunOK(run[s]) /\ run[s].pc = "mark"
  BY BaseRest DEF Base, Mark, At
<1>2. run[s].cast \in Casts /\ run[s].phone \in Phones
  BY <1>1 DEF RunType, RunOK
<1>3. /\ run'[s].pc = "count" /\ run'[s].cast = run[s].cast /\ run'[s].error = run[s].error
      /\ \A u \in Servers \ {s} : run'[u] = run[u]
  BY <1>1, BaseRest DEF Mark, Goto, RunType
<1>4. recipient \in [Casts -> [Phones -> RecipientStatuses]]
  BY BaseRest DEF Rest
<1>5. recipient' = [recipient EXCEPT ![run[s].cast] = [recipient[run[s].cast] EXCEPT ![run[s].phone] = Answered(run[s].error)]]
  BY DEF Mark
<1>6. recipient[run[s].cast] \in [Phones -> RecipientStatuses]
  BY <1>2, <1>4
<1> QED BY <1>1, <1>2, <1>3, <1>4, <1>5, <1>6 DEF Mark, ghostVars

LEMMA CountFacts ==
  ASSUME BroadcastAssumption, Base, NEW s \in Servers, Count(s)
  PROVE  /\ run[s].pc = "count" /\ run[s].cast \in Casts
         /\ run'[s].pc \in {"pick", "brake"} /\ run'[s].cast = run[s].cast
         /\ \A u \in Servers \ {s} : run'[u] = run[u]
         /\ counted'[run[s].cast] = CountAnswer(counted[run[s].cast], run[s].error)
         /\ \A c \in Casts : c # run[s].cast => counted'[c] = counted[c]
         /\ UNCHANGED <<cast, recipient, starts, got, barred>>
<1>1. run[s] \in RunType /\ RunOK(run[s]) /\ run[s].pc = "count"
  BY BaseRest DEF Base, Count, At
<1>2. run[s].cast \in Casts
  BY <1>1 DEF RunType, RunOK
<1>3. /\ run'[s].pc \in {"pick", "brake"} /\ run'[s].cast = run[s].cast
      /\ \A u \in Servers \ {s} : run'[u] = run[u]
  BY <1>1, BaseRest DEF Count, Goto, RunType
<1>4. counted \in [Casts -> [sent : Nat, failed : Nat]]
  BY BaseRest DEF Rest
<1> QED BY <1>1, <1>2, <1>3, <1>4 DEF Count, ghostVars

LEMMA SendFacts ==
  ASSUME BroadcastAssumption, Base, NEW s \in Servers, NEW error \in Errors \cup {NoError},
         NEW wentOut \in BOOLEAN, Send(s, error, wentOut)
  PROVE  /\ run[s].pc = "send" /\ run[s].cast \in Casts /\ run[s].phone \in Phones
         /\ run'[s].pc = "mark" /\ run'[s].cast = run[s].cast
         /\ run'[s].phone = run[s].phone /\ run'[s].error = error
         /\ \A u \in Servers \ {s} : run'[u] = run[u]
         /\ \A c \in Casts, p \in Phones : got'[c][p] >= got[c][p]
         /\ error = NoError => got'[run[s].cast][run[s].phone] > 0
         /\ \A c \in Casts, p \in Phones :
              ~(c = run[s].cast /\ p = run[s].phone) => got'[c][p] = got[c][p]
         /\ UNCHANGED <<cast, recipient, counted, starts, barred>>
<1>1. run[s] \in RunType /\ RunOK(run[s]) /\ run[s].pc = "send"
  BY BaseRest DEF Base, Send, At
<1>2. run[s].cast \in Casts /\ run[s].phone \in Phones
  BY <1>1 DEF RunType, RunOK
<1>3. /\ run'[s].pc = "mark" /\ run'[s].cast = run[s].cast
      /\ run'[s].phone = run[s].phone /\ run'[s].error = error
      /\ \A u \in Servers \ {s} : run'[u] = run[u]
  BY <1>1, BaseRest DEF Send, RunType
<1>4. got \in [Casts -> [Phones -> Nat]]
  BY BaseRest DEF Rest
<1>5. CASE ~wentOut
  <2>1. got' = got /\ error # NoError
    BY <1>5 DEF Send
  <2>2. \A c \in Casts, p \in Phones : got'[c][p] >= got[c][p] /\ got'[c][p] = got[c][p]
    <3> SUFFICES ASSUME NEW c \in Casts, NEW p \in Phones
                 PROVE  got'[c][p] >= got[c][p] /\ got'[c][p] = got[c][p]
      OBVIOUS
    <3>1. got[c][p] \in Nat
      BY <1>4
    <3>2. got'[c][p] = got[c][p]
      BY <2>1
    <3> QED BY <3>1, <3>2
  <2>3. UNCHANGED <<cast, recipient, counted, starts, barred>>
    BY DEF Send, tableVars
  <2> QED BY <1>1, <1>2, <1>3, <2>1, <2>2, <2>3
<1>6. CASE wentOut
  <2>1. got' = [got EXCEPT ![run[s].cast] = [got[run[s].cast] EXCEPT ![run[s].phone] = got[run[s].cast][run[s].phone] + 1]]
    BY <1>2, <1>4, <1>6 DEF Send
  <2>2. got[run[s].cast] \in [Phones -> Nat]
    BY <1>2, <1>4
  <2>3. /\ got'[run[s].cast][run[s].phone] = got[run[s].cast][run[s].phone] + 1
        /\ \A c \in Casts, p \in Phones :
             ~(c = run[s].cast /\ p = run[s].phone) => got'[c][p] = got[c][p]
    BY <1>2, <1>4, <2>1, <2>2
  <2>4. \A c \in Casts, p \in Phones : got[c][p] \in Nat
    BY <1>4
  <2>5. /\ got'[run[s].cast][run[s].phone] > 0
        /\ got'[run[s].cast][run[s].phone] >= got[run[s].cast][run[s].phone]
    <3> DEFINE n == got[run[s].cast][run[s].phone]
    <3>1. n \in Nat /\ got'[run[s].cast][run[s].phone] = n + 1
      BY <1>2, <2>3, <2>4
    <3> HIDE DEF n
    <3>2. n + 1 > 0 /\ n + 1 >= n
      BY <3>1
    <3> QED BY <3>1, <3>2 DEF n
  <2>6. \A c \in Casts, p \in Phones : got'[c][p] >= got[c][p]
    <3> SUFFICES ASSUME NEW c \in Casts, NEW p \in Phones PROVE got'[c][p] >= got[c][p]
      OBVIOUS
    <3>1. CASE c = run[s].cast /\ p = run[s].phone
      BY <2>5, <3>1
    <3>2. CASE ~(c = run[s].cast /\ p = run[s].phone)
      <4>1. got'[c][p] = got[c][p] /\ got[c][p] \in Nat
        BY <2>3, <2>4, <3>2
      <4> QED BY <4>1
    <3> QED BY <3>1, <3>2
  <2>7. UNCHANGED <<cast, recipient, counted, starts, barred>>
    BY DEF Send, tableVars
  <2> QED BY <1>1, <1>2, <1>3, <2>3, <2>5, <2>6, <2>7
<1> QED BY <1>5, <1>6

LEMMA CreateFacts ==
  ASSUME BroadcastAssumption, Base, NEW s \in Servers, NEW d \in Casts, NEW list \in SUBSET Phones,
         Create(s, d, list)
  PROVE  /\ cast[d] = "none" /\ cast'[d] = "queued" /\ \A u \in Servers : run[u].cast # d
         /\ \A p \in Phones : /\ recipient'[d][p] \in {"none", "pending", "skipped"}
                              /\ p \in optedOut => recipient'[d][p] # "pending"
         /\ barred'[d] = optedOut
         /\ \A c \in Casts \ {d} : cast'[c] = cast[c] /\ recipient'[c] = recipient[c] /\ barred'[c] = barred[c]
         /\ UNCHANGED <<counted, run, starts, got>>
<1>1. \A u \in Servers : run[u].cast # d
  BY DEF Create, Base, Created
<1>2. \A p \in Phones : FirstStatus(p) \in {"pending", "skipped"} /\ (p \in optedOut => FirstStatus(p) = "skipped")
  BY DEF FirstStatus
<1>3. recipient' = [recipient EXCEPT ![d] = [p \in Phones |-> IF p \in list THEN FirstStatus(p) ELSE "none"]]
  BY DEF Create
<1>4. \A p \in Phones : recipient'[d][p] = IF p \in list THEN FirstStatus(p) ELSE "none"
  BY <1>3, BaseRest DEF Rest
<1>5. \A c \in Casts \ {d} : cast'[c] = cast[c] /\ recipient'[c] = recipient[c] /\ barred'[c] = barred[c]
  BY <1>3, BaseRest DEF Create, Rest
<1>6. cast'[d] = "queued" /\ barred'[d] = optedOut
  BY BaseRest DEF Create, Rest
<1> QED BY <1>1, <1>2, <1>4, <1>5, <1>6 DEF Create

LEMMA NewRunFacts ==
  ASSUME BroadcastAssumption, Base, NEW s \in Servers, NEW d \in Casts, NewRun(s, d)
  PROVE  /\ run[s].cast = NoCast /\ cast[d] # "none"
         /\ run'[s].cast = d /\ run'[s].pc = "begin"
         /\ \A u \in Servers \ {s} : run'[u] = run[u]
         /\ starts'[d] = starts[d] + 1 /\ \A c \in Casts \ {d} : starts'[c] = starts[c]
         /\ UNCHANGED <<cast, recipient, counted, got, barred>>
BY BaseRest DEF NewRun, Run, Rest

(***************************************************************************)
(* Whom the broadcast reaches.                                             *)
(***************************************************************************)

\* Nothing was sent of a broadcast that is not there.
Fresh == \A c \in Casts, p \in Phones : cast[c] = "none" => got[c][p] = 0

\* Someone barred when the list was made has no pending row and is in no run's hands.
Spared ==
  \A c \in Casts : \A p \in barred[c] :
    /\ recipient[c][p] # "pending" /\ got[c][p] = 0
    /\ \A s \in Servers : ~(run[s].cast = c /\ run[s].pc = "send" /\ run[s].phone = p)

\* A list that is done, or about to be, is done with; who is marked as reached was.
Complete ==
  /\ \A c \in Casts, p \in Phones : cast[c] = "done" => recipient[c][p] # "pending"
  /\ \A s \in Servers, p \in Phones :
       run[s].cast \in Casts /\ run[s].pc = "finish" => recipient[run[s].cast][p] # "pending"
Told ==
  /\ \A c \in Casts, p \in Phones : recipient[c][p] = "sent" => got[c][p] > 0
  /\ \A s \in Servers :
       run[s].pc = "mark" /\ run[s].error = NoError => got[run[s].cast][run[s].phone] > 0

Reach == Fresh /\ Spared /\ Complete /\ Told

LEMMA ReachInit == ASSUME BroadcastAssumption, Init PROVE Reach
<1>1. \A s \in Servers : run[s].pc = "idle"
  BY DEF Init, NoRun, Run
<1> QED BY <1>1 DEF Init, Reach, Fresh, Spared, Complete, Told

LEMMA ReachNext == ASSUME BroadcastAssumption, Base, Reach, Base', [Next]_vars PROVE Reach'
<1> USE DEF Reach
<1>0. \A c \in Casts, p \in Phones : got'[c][p] \in Nat
  BY DEF Base, TypeOK
<1>1. PICK s \in Servers : StepOf(s)
  BY Forms DEF SomeForm
<1>2. \A c \in Casts, p \in Phones : got[c][p] \in Nat
  BY BaseRest DEF Rest
<1>3. CASE QuietStep(s)
  <2>1. UNCHANGED <<recipient, counted, got, starts, barred>> /\ \A u \in Servers \ {s} : run'[u] = run[u]
    BY <1>3 DEF QuietStep
  <2>2. NoRun.pc = "idle" /\ NoRun.cast = NoCast
    BY DEF NoRun, Run
  <2>3. Fresh'
    BY <1>3, <2>1 DEF QuietStep, Fresh
  <2>4. Spared'
    BY <1>3, <2>1, <2>2 DEF QuietStep, Onward, Spared, Pending
  <2>5. Complete'
    <3>1. \A u \in Servers, p \in Phones : run'[u].cast \in Casts /\ run'[u].pc = "finish" => recipient[run'[u].cast][p] # "pending"
      BY <1>3, <2>1, <2>2 DEF QuietStep, Onward, Complete, Pending
    <3>2. \A c \in Casts, p \in Phones : cast'[c] = "done" => recipient[c][p] # "pending"
      BY <1>3 DEF QuietStep, Complete, At
    <3> QED BY <2>1, <3>1, <3>2 DEF Complete
  <2>6. Told'
    BY <1>3, <2>1, <2>2 DEF QuietStep, Onward, Told
  <2> QED BY <2>3, <2>4, <2>5, <2>6
<1>4. CASE Mark(s)
  <2>1. Answered(run[s].error) # "pending" /\ (Answered(run[s].error) = "sent" => run[s].error = NoError)
    BY DEF Answered
  <2>2. \A c \in Casts, p \in Phones :
          \/ recipient'[c][p] = recipient[c][p]
          \/ c = run[s].cast /\ p = run[s].phone /\ recipient'[c][p] = Answered(run[s].error)
    BY <1>4, MarkFacts
  <2>3. /\ run[s].pc = "mark" /\ run'[s].pc = "count"
        /\ \A u \in Servers \ {s} : run'[u] = run[u]
        /\ UNCHANGED <<cast, got, barred>>
    BY <1>4, MarkFacts
  <2>4. Fresh'
    BY <2>3 DEF Fresh
  <2>5. Spared'
    <3>1. \A c \in Casts : barred[c] \subseteq Phones
      BY BaseRest DEF Rest
    <3> SUFFICES ASSUME NEW c \in Casts, NEW p \in barred[c]
                 PROVE  /\ recipient'[c][p] # "pending" /\ got'[c][p] = 0
                        /\ \A u \in Servers : ~(run'[u].cast = c /\ run'[u].pc = "send" /\ run'[u].phone = p)
      BY <2>3 DEF Spared
    <3>2. /\ recipient[c][p] # "pending" /\ got[c][p] = 0
          /\ \A u \in Servers : ~(run[u].cast = c /\ run[u].pc = "send" /\ run[u].phone = p)
      BY DEF Spared
    <3>3. recipient'[c][p] # "pending" /\ got'[c][p] = 0
      BY <2>1, <2>2, <2>3, <3>1, <3>2
    <3>4. \A u \in Servers : ~(run'[u].cast = c /\ run'[u].pc = "send" /\ run'[u].phone = p)
      BY <2>3, <3>2
    <3> QED BY <3>3, <3>4
  <2>6. Complete'
    <3>1. \A c \in Casts, p \in Phones : cast'[c] = "done" => recipient'[c][p] # "pending"
      BY <2>1, <2>2, <2>3 DEF Complete
    <3> SUFFICES ASSUME NEW u \in Servers, NEW p \in Phones, run'[u].cast \in Casts, run'[u].pc = "finish"
                 PROVE  recipient'[run'[u].cast][p] # "pending"
      BY <3>1 DEF Complete
    <3>2. u # s /\ run'[u] = run[u]
      BY <2>3
    <3>3. recipient[run[u].cast][p] # "pending"
      BY <3>2 DEF Complete
    <3> QED BY <2>1, <2>2, <3>2, <3>3
  <2>7. Told'
    BY <2>1, <2>2, <2>3 DEF Told
  <2> QED BY <2>4, <2>5, <2>6, <2>7
<1>5. CASE Count(s)
  BY <1>5, CountFacts DEF Fresh, Spared, Complete, Told
<1>6. ASSUME NEW error \in Errors \cup {NoError}, NEW wentOut \in BOOLEAN, Send(s, error, wentOut) PROVE Reach'
  <2>1. /\ run[s].pc = "send" /\ run[s].cast \in Casts /\ run[s].phone \in Phones
        /\ run'[s].pc = "mark" /\ run'[s].cast = run[s].cast
        /\ run'[s].phone = run[s].phone /\ run'[s].error = error
        /\ \A u \in Servers \ {s} : run'[u] = run[u]
        /\ UNCHANGED <<cast, recipient, barred>>
    BY <1>6, SendFacts
  <2>2. /\ \A c \in Casts, p \in Phones : got'[c][p] >= got[c][p]
        /\ error = NoError => got'[run[s].cast][run[s].phone] > 0
        /\ \A c \in Casts, p \in Phones :
             ~(c = run[s].cast /\ p = run[s].phone) => got'[c][p] = got[c][p]
    <3>1. \A c \in Casts, p \in Phones : got'[c][p] >= got[c][p]
      BY <1>6, SendFacts
    <3>2. error = NoError => got'[run[s].cast][run[s].phone] > 0
      BY <1>6, SendFacts
    <3>3. \A c \in Casts, p \in Phones : ~(c = run[s].cast /\ p = run[s].phone) => got'[c][p] = got[c][p]
      BY <1>6, SendFacts
    <3> QED BY <3>1, <3>2, <3>3
  <2>3. cast[run[s].cast] # "none"
    BY <2>1 DEF Base, Created
  <2>4. Fresh'
    BY <2>1, <2>2, <2>3 DEF Fresh
  <2>5. Spared'
    <3>1. \A c \in Casts : barred[c] \subseteq Phones
      BY BaseRest DEF Rest
    <3> SUFFICES ASSUME NEW c \in Casts, NEW p \in barred[c]
                 PROVE  /\ recipient'[c][p] # "pending" /\ got'[c][p] = 0
                        /\ \A u \in Servers : ~(run'[u].cast = c /\ run'[u].pc = "send" /\ run'[u].phone = p)
      BY <2>1 DEF Spared
    <3>2. /\ recipient[c][p] # "pending" /\ got[c][p] = 0
          /\ \A u \in Servers : ~(run[u].cast = c /\ run[u].pc = "send" /\ run[u].phone = p)
      BY DEF Spared
    <3>3. ~(run[s].cast = c /\ run[s].phone = p)
      BY <2>1, <3>2
    <3>4. recipient'[c][p] # "pending" /\ got'[c][p] = 0
      BY <2>1, <2>2, <3>1, <3>2, <3>3
    <3>5. \A u \in Servers : ~(run'[u].cast = c /\ run'[u].pc = "send" /\ run'[u].phone = p)
      BY <2>1, <3>2
    <3> QED BY <3>4, <3>5
  <2>6. Complete'
    BY <2>1 DEF Complete
  <2>7. \A c \in Casts, p \in Phones : got[c][p] > 0 => got'[c][p] > 0
    <3> SUFFICES ASSUME NEW c \in Casts, NEW p \in Phones, got[c][p] > 0 PROVE got'[c][p] > 0
      OBVIOUS
    <3>1. got'[c][p] \in Nat
      BY <1>0
    <3> QED BY <1>2, <2>2, <3>1
  <2>8. \A u \in Servers :
          run[u].pc = "mark" => run[u].cast \in Casts /\ run[u].phone \in Phones
    BY BaseRest DEF Base, RunOK, RunType
  <2>9. Told'
    <3>1. \A c \in Casts, p \in Phones : recipient'[c][p] = "sent" => got'[c][p] > 0
      BY <2>1, <2>7 DEF Told
    <3> SUFFICES ASSUME NEW u \in Servers, run'[u].pc = "mark", run'[u].error = NoError
                 PROVE  got'[run'[u].cast][run'[u].phone] > 0
      BY <3>1 DEF Told
    <3>2. CASE u = s
      BY <2>1, <2>2, <3>2
    <3>3. CASE u # s
      <4>1. run'[u] = run[u]
        BY <2>1, <3>3
      <4>2. run[u].cast \in Casts /\ run[u].phone \in Phones /\ got[run[u].cast][run[u].phone] > 0
        BY <2>8, <4>1 DEF Told
      <4> QED BY <2>7, <4>1, <4>2
    <3> QED BY <3>2, <3>3
  <2> QED BY <2>4, <2>5, <2>6, <2>9
<1>7. ASSUME NEW d \in Casts, NewRun(s, d) PROVE Reach'
  <2>1. /\ run'[s].cast = d /\ run'[s].pc = "begin"
        /\ \A u \in Servers \ {s} : run'[u] = run[u]
        /\ UNCHANGED <<cast, recipient, got, barred>>
    BY <1>7, NewRunFacts
  <2> QED BY <2>1 DEF Fresh, Spared, Complete, Told
<1>8. ASSUME NEW d \in Casts, NEW list \in SUBSET Phones, Create(s, d, list) PROVE Reach'
  <2>1. /\ cast[d] = "none" /\ cast'[d] = "queued" /\ \A u \in Servers : run[u].cast # d
        /\ \A p \in Phones : /\ recipient'[d][p] \in {"none", "pending", "skipped"}
                             /\ p \in optedOut => recipient'[d][p] # "pending"
        /\ barred'[d] = optedOut
        /\ \A c \in Casts \ {d} : cast'[c] = cast[c] /\ recipient'[c] = recipient[c] /\ barred'[c] = barred[c]
        /\ run' = run /\ got' = got
    BY <1>8, CreateFacts
  <2>2. Fresh'
    BY <2>1 DEF Fresh
  <2>3. Spared'
    <3>1. optedOut \subseteq Phones
      BY BaseRest DEF Rest
    <3> SUFFICES ASSUME NEW c \in Casts, NEW p \in barred'[c]
                 PROVE  /\ recipient'[c][p] # "pending" /\ got'[c][p] = 0
                        /\ \A u \in Servers : ~(run'[u].cast = c /\ run'[u].pc = "send" /\ run'[u].phone = p)
      BY DEF Spared
    <3>2. CASE c = d
      BY <2>1, <3>1, <3>2 DEF Fresh
    <3>3. CASE c # d
      <4>1. p \in barred[c] /\ recipient'[c] = recipient[c] /\ got' = got /\ run' = run
        BY <2>1, <3>3
      <4>2. /\ recipient[c][p] # "pending" /\ got[c][p] = 0
            /\ \A u \in Servers : ~(run[u].cast = c /\ run[u].pc = "send" /\ run[u].phone = p)
        BY <4>1 DEF Spared
      <4> QED BY <4>1, <4>2
    <3> QED BY <3>2, <3>3
  <2>4. Complete'
    <3>1. \A c \in Casts, p \in Phones : cast'[c] = "done" => recipient'[c][p] # "pending"
      BY <2>1 DEF Complete
    <3> SUFFICES ASSUME NEW u \in Servers, NEW p \in Phones, run'[u].cast \in Casts, run'[u].pc = "finish"
                 PROVE  recipient'[run'[u].cast][p] # "pending"
      BY <3>1 DEF Complete
    <3>2. run'[u] = run[u] /\ run[u].cast # d
      BY <2>1
    <3>3. recipient[run[u].cast][p] # "pending"
      BY <3>2 DEF Complete
    <3> QED BY <2>1, <3>2, <3>3
  <2>5. Told'
    BY <2>1 DEF Told
  <2> QED BY <2>2, <2>3, <2>4, <2>5
<1> QED BY <1>1, <1>3, <1>4, <1>5, <1>6, <1>7, <1>8 DEF StepOf

(***************************************************************************)
(* The report.                                                             *)
(***************************************************************************)

\* Before its first run a broadcast has nothing to report.
Blank ==
  \A c \in Casts :
    /\ cast[c] = "none" => starts[c] = 0
    /\ starts[c] = 0 => /\ cast[c] # "done" /\ \A s \in Servers : run[s].cast # c
                        /\ \A p \in Phones : recipient[c][p] \notin {"sent", "failed"}
                        /\ counted[c].sent = 0 /\ counted[c].failed = 0

\* Two runs of one broadcast are two starts of it.
OneRun == \A s, u \in Servers : s # u /\ run[s].cast \in Casts /\ run[s].cast = run[u].cast => starts[run[s].cast] # 1

\* The only run of a broadcast counts each answer it marks; the recipient in its
\* hands has none yet.
UncountedSent(s) == IF At(s, "count") /\ run[s].error = NoError THEN 1 ELSE 0
UncountedFailed(s) == IF At(s, "count") /\ run[s].error # NoError THEN 1 ELSE 0
Balanced(c, s) ==
  /\ Cardinality(Rows(c, "sent")) = counted[c].sent + UncountedSent(s)
  /\ Cardinality(Rows(c, "failed")) = counted[c].failed + UncountedFailed(s)
Books(c, s) ==
  /\ cast[c] # "done" /\ Balanced(c, s)
  /\ run[s].pc \in {"send", "mark"} => recipient[c][run[s].phone] = "pending"
Kept == \A s \in Servers, c \in Casts : run[s].cast = c /\ starts[c] = 1 => Books(c, s)

Report == Blank /\ OneRun /\ Kept /\ ReportAddsUp

LEMMA ReportInit == ASSUME BroadcastAssumption, Init PROVE Report
<1>1. \A s \in Servers : run[s].cast = NoCast
  BY DEF Init, NoRun, Run
<1>2. \A c \in Casts : cast[c] = "none" /\ starts[c] = 0
  BY DEF Init
<1>3. Blank
  BY <1>1, <1>2 DEF Init, Blank, BroadcastAssumption
<1> QED BY <1>1, <1>2, <1>3 DEF Report, OneRun, Kept, ReportAddsUp, BroadcastAssumption

\* The books of a run on a broadcast that a step leaves alone.
LEMMA BooksKept ==
  ASSUME NEW c \in Casts, NEW u \in Servers, Books(c, u), run'[u] = run[u], recipient'[c] = recipient[c], counted'[c] = counted[c], cast'[c] = cast[c]
  PROVE  Books(c, u)'
<1>1. Rows(c, "sent")' = Rows(c, "sent") /\ Rows(c, "failed")' = Rows(c, "failed")
  BY DEF Rows
<1> QED BY <1>1 DEF Books, Balanced, UncountedSent, UncountedFailed, At

\* A step that moves one run, which is of c, and leaves every other broadcast alone.
LEMMA OneBroadcast ==
  ASSUME BroadcastAssumption, Base, Report, NEW s \in Servers, NEW c \in Casts, run[s].cast = c, run'[s].cast = c,
         \A u \in Servers \ {s} : run'[u] = run[u], UNCHANGED <<cast, starts>>,
         \A d \in Casts \ {c} : recipient'[d] = recipient[d] /\ counted'[d] = counted[d],
         starts[c] = 1 => Books(c, s)'
  PROVE  Report'
<1> USE DEF Report
<1>1. starts[c] # 0
  BY DEF Blank
<1>2. Blank'
  BY <1>1 DEF Blank
<1>3. OneRun'
  BY DEF OneRun
<1>4. Kept'
  <2> SUFFICES ASSUME NEW u \in Servers, NEW d \in Casts, run'[u].cast = d, starts[d] = 1 PROVE Books(d, u)'
    BY DEF Kept
  <2>1. CASE u = s
    BY <2>1
  <2>2. CASE u # s
    <3>1. d # c
      BY <2>2 DEF OneRun
    <3>2. Books(d, u)
      BY <2>2 DEF Kept
    <3> QED BY <2>2, <3>1, <3>2, BooksKept
  <2> QED BY <2>1, <2>2
<1>5. ReportAddsUp'
  <2> SUFFICES ASSUME NEW d \in Casts, cast[d] = "done", starts[d] = 1
               PROVE /\ counted'[d].sent = Cardinality(Rows(d, "sent"))'
                     /\ counted'[d].failed = Cardinality(Rows(d, "failed"))'
    BY DEF ReportAddsUp
  <2>1. d # c
    BY DEF Kept, Books
  <2>2. Rows(d, "sent")' = Rows(d, "sent") /\ Rows(d, "failed")' = Rows(d, "failed")
    BY <2>1 DEF Rows
  <2> QED BY <2>1, <2>2 DEF ReportAddsUp
<1> QED BY <1>2, <1>3, <1>4, <1>5

\* An answer is marked: one more row, one more to count.
LEMMA MarkReport == ASSUME BroadcastAssumption, Base, Report, NEW s \in Servers, Mark(s) PROVE Report'
<1>1. PICK c \in Casts, p \in Phones, error \in {run[s].error} : c = run[s].cast /\ p = run[s].phone
  BY MarkFacts
<1>2. /\ run[s].pc = "mark" /\ run'[s].pc = "count" /\ run'[s].cast = c /\ run'[s].error = error
      /\ \A u \in Servers \ {s} : run'[u] = run[u]
      /\ recipient'[c][p] = Answered(error)
      /\ \A q \in Phones \ {p} : recipient'[c][q] = recipient[c][q]
      /\ UNCHANGED <<cast, counted, starts>>
  BY <1>1, MarkFacts
<1>3. \A d \in Casts \ {c} : recipient'[d] = recipient[d]
  BY <1>1, BaseRest DEF Mark, Rest
<1>4. ASSUME starts[c] = 1 PROVE Books(c, s)'
  <2>1. recipient[c][p] = "pending" /\ cast[c] # "done" /\ Balanced(c, s)
    BY <1>1, <1>2, <1>4 DEF Report, Kept, Books
  <2>2. /\ Cardinality(Rows(c, "sent")) = counted[c].sent /\ Cardinality(Rows(c, "failed")) = counted[c].failed
        /\ counted[c].sent \in Nat /\ counted[c].failed \in Nat
    <3>1. counted[c] \in [sent : Nat, failed : Nat]
      BY BaseRest DEF Rest
    <3> QED BY <1>2, <2>1, <3>1 DEF Balanced, UncountedSent, UncountedFailed, At
  <2>3. \A status : IsFiniteSet(Rows(c, status)) /\ p \notin Rows(c, "sent") /\ p \notin Rows(c, "failed")
    BY <2>1, FS_Subset DEF Rows, BroadcastAssumption
  <2>4. Answered(error) = IF error = NoError THEN "sent" ELSE "failed"
    BY DEF Answered
  <2>5. /\ Rows(c, "sent")' = IF Answered(error) = "sent" THEN Rows(c, "sent") \cup {p} ELSE Rows(c, "sent") \ {p}
        /\ Rows(c, "failed")' = IF Answered(error) = "failed" THEN Rows(c, "failed") \cup {p} ELSE Rows(c, "failed") \ {p}
    BY <1>2 DEF Rows
  <2>6. CASE error = NoError
    <3>1. Rows(c, "sent")' = Rows(c, "sent") \cup {p} /\ Rows(c, "failed")' = Rows(c, "failed")
      BY <2>3, <2>4, <2>5, <2>6
    <3>2. Cardinality(Rows(c, "sent") \cup {p}) = Cardinality(Rows(c, "sent")) + 1
      BY <2>3, FS_AddElement
    <3> QED BY <1>2, <2>1, <2>2, <2>6, <3>1, <3>2 DEF Books, Balanced, UncountedSent, UncountedFailed, At
  <2>7. CASE error # NoError
    <3>1. Rows(c, "failed")' = Rows(c, "failed") \cup {p} /\ Rows(c, "sent")' = Rows(c, "sent")
      BY <2>3, <2>4, <2>5, <2>7
    <3>2. Cardinality(Rows(c, "failed") \cup {p}) = Cardinality(Rows(c, "failed")) + 1
      BY <2>3, FS_AddElement
    <3> QED BY <1>2, <2>1, <2>2, <2>7, <3>1, <3>2 DEF Books, Balanced, UncountedSent, UncountedFailed, At
  <2> QED BY <2>6, <2>7
<1> QED BY <1>1, <1>2, <1>3, <1>4, OneBroadcast

\* It is counted, where it was marked.
LEMMA CountReport == ASSUME BroadcastAssumption, Base, Report, NEW s \in Servers, Count(s) PROVE Report'
<1>1. PICK c \in Casts, error \in {run[s].error} : c = run[s].cast
  BY CountFacts
<1>2. /\ run[s].pc = "count" /\ run'[s].pc \in {"pick", "brake"} /\ run'[s].cast = c
      /\ \A u \in Servers \ {s} : run'[u] = run[u]
      /\ counted'[c] = CountAnswer(counted[c], error)
      /\ \A d \in Casts \ {c} : counted'[d] = counted[d]
      /\ UNCHANGED <<cast, recipient, starts>>
  BY <1>1, CountFacts
<1>3. ASSUME starts[c] = 1 PROVE Books(c, s)'
  <2>1. cast[c] # "done" /\ Balanced(c, s)
    BY <1>1, <1>2, <1>3 DEF Report, Kept, Books
  <2>2. Rows(c, "sent")' = Rows(c, "sent") /\ Rows(c, "failed")' = Rows(c, "failed")
    BY <1>2 DEF Rows
  <2>3. counted[c] \in [sent : Nat, failed : Nat]
    BY BaseRest DEF Rest
  <2>4. CASE error = NoError
    <3>1. counted'[c].sent = counted[c].sent + 1 /\ counted'[c].failed = counted[c].failed
      BY <1>2, <2>3, <2>4 DEF CountAnswer
    <3> QED BY <1>1, <1>2, <2>1, <2>2, <2>3, <2>4, <3>1 DEF Books, Balanced, UncountedSent, UncountedFailed, At
  <2>5. CASE error # NoError
    <3>1. counted'[c].failed = counted[c].failed + 1 /\ counted'[c].sent = counted[c].sent
      BY <1>2, <2>3, <2>5 DEF CountAnswer
    <3> QED BY <1>1, <1>2, <2>1, <2>2, <2>3, <2>5, <3>1 DEF Books, Balanced, UncountedSent, UncountedFailed, At
  <2> QED BY <2>4, <2>5
<1> QED BY <1>1, <1>2, <1>3, OneBroadcast

\* A poster is sent; nothing is written yet.
LEMMA SendReport ==
  ASSUME BroadcastAssumption, Base, Report, NEW s \in Servers, NEW error \in Errors \cup {NoError},
         NEW wentOut \in BOOLEAN, Send(s, error, wentOut)
  PROVE  Report'
<1>0. /\ run[s].pc = "send" /\ run[s].cast \in Casts /\ run[s].phone \in Phones
      /\ run'[s].pc = "mark" /\ run'[s].cast = run[s].cast /\ run'[s].phone = run[s].phone
      /\ \A u \in Servers \ {s} : run'[u] = run[u]
      /\ UNCHANGED <<cast, recipient, counted, starts>>
  BY SendFacts
<1>1. PICK c \in Casts, p \in Phones : c = run[s].cast /\ p = run[s].phone
  BY <1>0
<1>2. /\ run[s].pc = "send" /\ run'[s].pc = "mark" /\ run'[s].cast = c /\ run'[s].phone = p
      /\ \A u \in Servers \ {s} : run'[u] = run[u]
      /\ UNCHANGED <<cast, recipient, counted, starts>>
  BY <1>0, <1>1
<1>3. ASSUME starts[c] = 1 PROVE Books(c, s)'
  <2>0. Books(c, s)
    BY <1>1, <1>3 DEF Report, Kept
  <2>1. recipient[c][p] = "pending" /\ cast[c] # "done" /\ Balanced(c, s)
    BY <1>1, <1>2, <2>0 DEF Books
  <2>2. Rows(c, "sent")' = Rows(c, "sent") /\ Rows(c, "failed")' = Rows(c, "failed")
    BY <1>2 DEF Rows
  <2> QED BY <1>2, <2>1, <2>2 DEF Books, Balanced, UncountedSent, UncountedFailed, At
<1> QED BY <1>1, <1>2, <1>3, OneBroadcast

\* A quiet step ends a run, or moves it with nothing to count.
LEMMA QuietReport == ASSUME BroadcastAssumption, Base, Report, NEW s \in Servers, QuietStep(s) PROVE Report'
<1> USE DEF Report
<1>0. \A c \in Casts : Rows(c, "sent")' = Rows(c, "sent") /\ Rows(c, "failed")' = Rows(c, "failed")
  BY DEF QuietStep, Rows
<1>1. /\ UNCHANGED <<recipient, counted, starts>> /\ \A u \in Servers \ {s} : run'[u] = run[u]
      /\ NoRun.cast = NoCast /\ NoCast \notin Casts
  BY DEF QuietStep, NoRun, Run, BroadcastAssumption
<1>2. \A c \in Casts : cast'[c] = "done" => cast[c] = "done" \/ (run[s].cast = c /\ run[s].pc = "finish" /\ run'[s] = NoRun)
  BY DEF QuietStep, At
<1>3. run'[s] = NoRun \/ run'[s].cast = run[s].cast
  BY DEF QuietStep, Onward
<1>4. \A c \in Casts : cast'[c] = "none" => cast[c] = "none"
  BY DEF QuietStep
<1>5. Blank'
  BY <1>1, <1>2, <1>3, <1>4 DEF Blank
<1>6. OneRun'
  BY <1>1, <1>3 DEF OneRun
<1>7. Kept'
  <2> SUFFICES ASSUME NEW u \in Servers, NEW c \in Casts, run'[u].cast = c, starts[c] = 1 PROVE Books(c, u)'
    BY <1>1 DEF Kept
  <2>1. run[u].cast = c /\ Books(c, u)
    BY <1>1, <1>3 DEF Kept
  <2>2. cast'[c] # "done"
    BY <1>1, <1>2, <2>1 DEF OneRun, Books
  <2>3. CASE run'[u] = run[u]
    BY <1>0, <1>1, <2>1, <2>2, <2>3 DEF Books, Balanced, UncountedSent, UncountedFailed, At
  <2>4. CASE u = s /\ Onward(run[s], run'[s])
    <3>1. /\ run[s].pc # "count" /\ run'[s].pc # "count" /\ run'[s].pc # "mark"
          /\ run'[s].pc = "send" => recipient[c][run'[s].phone] = "pending"
      BY <2>1, <2>4 DEF Onward, Pending
    <3> QED BY <1>0, <1>1, <2>1, <2>2, <2>4, <3>1 DEF Books, Balanced, UncountedSent, UncountedFailed, At
  <2> QED BY <1>1, <2>3, <2>4 DEF QuietStep
<1>8. ReportAddsUp'
  <2> SUFFICES ASSUME NEW c \in Casts, cast'[c] = "done", starts[c] = 1
               PROVE  counted[c].sent = Cardinality(Rows(c, "sent")) /\ counted[c].failed = Cardinality(Rows(c, "failed"))
    BY <1>0, <1>1 DEF ReportAddsUp
  <2>1. CASE cast[c] = "done"
    BY <2>1 DEF ReportAddsUp
  <2>2. CASE run[s].cast = c /\ run[s].pc = "finish"
    <3>1. Balanced(c, s)
      BY <2>2 DEF Kept, Books
    <3>2. counted[c] \in [sent : Nat, failed : Nat]
      BY BaseRest DEF Rest
    <3> QED BY <2>2, <3>1, <3>2 DEF Balanced, UncountedSent, UncountedFailed, At
  <2> QED BY <1>2, <2>1, <2>2
<1> QED BY <1>5, <1>6, <1>7, <1>8

LEMMA ReportNext == ASSUME BroadcastAssumption, Base, Report, [Next]_vars PROVE Report'
<1> USE DEF Report
<1>1. PICK s \in Servers : StepOf(s)
  BY Forms DEF SomeForm
<1>2. \A c \in Casts : starts[c] \in Nat
  BY BaseRest DEF Rest
<1>3. ASSUME NEW d \in Casts, NewRun(s, d) PROVE Report'
  <2>1. /\ cast[d] # "none" /\ run[s].cast = NoCast
        /\ run'[s].cast = d /\ run'[s].pc = "begin" /\ \A u \in Servers \ {s} : run'[u] = run[u]
        /\ starts'[d] = starts[d] + 1 /\ \A c \in Casts \ {d} : starts'[c] = starts[c]
        /\ UNCHANGED <<cast, recipient, counted>>
    BY <1>3, NewRunFacts
  <2>2. starts'[d] # 0 /\ (starts'[d] = 1 => starts[d] = 0)
    <3>1. PICK n \in Nat : n = starts[d]
      BY <1>2
    <3>2. starts'[d] = n + 1
      BY <2>1, <3>1
    <3> QED BY <3>1, <3>2
  <2>3. Blank'
    BY <2>1, <2>2 DEF Blank
  <2>4. OneRun'
    <3> SUFFICES ASSUME NEW u \in Servers, NEW w \in Servers, u # w, run'[u].cast \in Casts, run'[u].cast = run'[w].cast
                 PROVE  starts'[run'[u].cast] # 1
      BY DEF OneRun
    <3>1. CASE u # s /\ w # s
      <4>0. run'[u] = run[u] /\ run'[w] = run[w]
        BY <2>1, <3>1
      <4>1. starts[run[u].cast] # 1 /\ starts[run[u].cast] # 0
        BY <4>0 DEF OneRun, Blank
      <4> QED BY <2>1, <2>2, <4>0, <4>1
    <3>2. CASE u = s \/ w = s
      <4>0. run'[u].cast = d /\ (run[u].cast = d \/ run[w].cast = d)
        BY <2>1, <3>2
      <4>1. starts[d] # 0 /\ run'[u].cast = d
        BY <4>0 DEF Blank
      <4> QED BY <2>2, <4>1
    <3> QED BY <3>1, <3>2
  <2>5. Kept'
    <3> SUFFICES ASSUME NEW u \in Servers, NEW c \in Casts, run'[u].cast = c, starts'[c] = 1 PROVE Books(c, u)'
      BY DEF Kept
    <3>0. \A status : Rows(c, status)' = Rows(c, status)
      BY <2>1 DEF Rows
    <3>1. CASE u = s
      <4>1. c = d /\ starts[c] = 0
        BY <2>1, <2>2, <3>1
      <4>2. Rows(c, "sent") = {} /\ Rows(c, "failed") = {} /\ counted[c].sent = 0 /\ counted[c].failed = 0 /\ cast[c] # "done"
        BY <4>1 DEF Blank, Rows
      <4>3. Cardinality(Rows(c, "sent"))' = 0 /\ Cardinality(Rows(c, "failed"))' = 0
        BY <3>0, <4>2, FS_EmptySet
      <4>4. run'[u].pc = "begin" /\ counted'[c].sent = 0 /\ counted'[c].failed = 0 /\ cast'[c] # "done"
        BY <2>1, <3>1, <4>2
      <4> QED BY <4>3, <4>4 DEF Books, Balanced, UncountedSent, UncountedFailed, At
    <3>2. CASE u # s
      <4>1. starts[c] # 0
        BY <2>1, <3>2 DEF Blank
      <4>2. c # d /\ Books(c, u)
        BY <2>1, <2>2, <3>2, <4>1 DEF Kept
      <4> QED BY <2>1, <3>0, <3>2, <4>2 DEF Books, Balanced, UncountedSent, UncountedFailed, At
    <3> QED BY <3>1, <3>2
  <2>6. ReportAddsUp'
    <3> SUFFICES ASSUME NEW c \in Casts, cast[c] = "done", starts'[c] = 1
                 PROVE  counted'[c].sent = Cardinality(Rows(c, "sent"))' /\ counted'[c].failed = Cardinality(Rows(c, "failed"))'
      BY <2>1 DEF ReportAddsUp
    <3>1. c # d
      BY <2>2 DEF Blank
    <3> QED BY <2>1, <3>1 DEF ReportAddsUp, Rows
  <2> QED BY <2>3, <2>4, <2>5, <2>6
<1>4. ASSUME NEW d \in Casts, NEW list \in SUBSET Phones, Create(s, d, list) PROVE Report'
  <2>1. /\ cast[d] = "none" /\ cast'[d] = "queued" /\ \A u \in Servers : run[u].cast # d
        /\ \A p \in Phones : recipient'[d][p] \in {"none", "pending", "skipped"}
        /\ \A c \in Casts \ {d} : cast'[c] = cast[c] /\ recipient'[c] = recipient[c]
        /\ UNCHANGED <<counted, run, starts>>
    BY <1>4, CreateFacts
  <2>2. starts[d] = 0
    BY <2>1 DEF Blank
  <2>3. Blank'
    BY <2>1, <2>2 DEF Blank
  <2>4. OneRun'
    BY <2>1 DEF OneRun
  <2>5. Kept'
    <3> SUFFICES ASSUME NEW u \in Servers, NEW c \in Casts, run[u].cast = c, starts[c] = 1 PROVE Books(c, u)'
      BY <2>1 DEF Kept
    <3>1. c # d /\ Books(c, u)
      BY <2>2 DEF Kept
    <3>2. \A status : Rows(c, status)' = Rows(c, status)
      BY <2>1, <3>1 DEF Rows
    <3> QED BY <2>1, <3>1, <3>2 DEF Books, Balanced, UncountedSent, UncountedFailed, At
  <2>6. ReportAddsUp'
    BY <2>1, <2>2 DEF ReportAddsUp, Rows
  <2> QED BY <2>3, <2>4, <2>5, <2>6
<1> QED BY <1>1, <1>3, <1>4, QuietReport, MarkReport, CountReport, SendReport DEF StepOf

(***************************************************************************)
(* The theorems.                                                           *)
(***************************************************************************)

\* A debt is never negative.
LEMMA PaidIsOnce == ASSUME BroadcastAssumption, Base, Paid PROVE OncePerRun
<1> SUFFICES ASSUME NEW c \in Casts, NEW p \in Phones PROVE got[c][p] <= starts[c]
  BY DEF OncePerRun
<1>1. got[c][p] \in Nat /\ starts[c] \in Nat
  BY BaseRest DEF Rest
<1>2. Cardinality(Debtors(c, p)) \in Nat
  BY DebtorsFinite
<1>3. got[c][p] + Cardinality(Debtors(c, p)) <= starts[c]
  BY DEF Paid
<1> QED BY <1>1, <1>2, <1>3

LEMMA ReachIsDone == ASSUME Base, Reach PROVE DoneIsComplete /\ StopIsHonoured
BY DEF Reach, Spared, Complete, Told, DoneIsComplete, StopIsHonoured, Pending

\* The base holds in every state: the invariant the others stand on.
THEOREM AlwaysBase == Spec => []Base
<1>1. Init => Base
  BY BaseInit, BroadcastAssumption
<1>2. Base /\ [Next]_vars => Base'
  BY BaseNext, BroadcastAssumption
<1> QED BY <1>1, <1>2, PTL DEF Spec

\* Every variable keeps to its type, whatever the list and however many
\* broadcasts, instances and restarts (broadcast.js).
THEOREM BroadcastTypeCorrect == Spec => []TypeOK
<1>1. Base => TypeOK
  BY DEF Base
<1> QED BY <1>1, AlwaysBase, PTL

\* Nobody gets more posters of a broadcast than it had runs: within one run a
\* recipient is sent to once at most (broadcast.js:177-201).
THEOREM OncePerRunHolds == Spec => []OncePerRun
<1>1. Init => Paid
  BY PaidInit, BroadcastAssumption
<1>2. Base /\ Base' /\ Paid /\ [Next]_vars => Paid'
  BY PaidNext, BroadcastAssumption
<1>3. Base /\ Paid => OncePerRun
  BY PaidIsOnce, BroadcastAssumption
<1> QED BY <1>1, <1>2, <1>3, AlwaysBase, PTL DEF Spec

\* Whom a broadcast reaches, in every state.
THEOREM AlwaysReach == Spec => []Reach
<1>1. Init => Reach
  BY ReachInit, BroadcastAssumption
<1>2. Base /\ Base' /\ Reach /\ [Next]_vars => Reach'
  BY ReachNext, BroadcastAssumption
<1> QED BY <1>1, <1>2, AlwaysBase, PTL DEF Spec

\* A broadcast that is done has nobody pending, and whoever is marked as sent to
\* was (broadcast.js:183-187).
THEOREM DoneIsCompleteHolds == Spec => []DoneIsComplete
<1>1. Base /\ Reach => DoneIsComplete
  BY ReachIsDone
<1> QED BY <1>1, AlwaysBase, AlwaysReach, PTL

\* Someone who had replied STOP when the list was made is never sent to by any
\* run of that broadcast (broadcast.js:122-133).
THEOREM StopIsHonouredHolds == Spec => []StopIsHonoured
<1>1. Base /\ Reach => StopIsHonoured
  BY ReachIsDone
<1> QED BY <1>1, AlwaysBase, AlwaysReach, PTL

\* The report of a broadcast that one run finished is the number of rows of each
\* kind (broadcast.js:203-210).
THEOREM ReportAddsUpHolds == Spec => []ReportAddsUp
<1>1. Init => Report
  BY ReportInit, BroadcastAssumption
<1>2. Base /\ Report /\ [Next]_vars => Report'
  BY ReportNext, BroadcastAssumption
<1>3. Report => ReportAddsUp
  BY DEF Report
<1> QED BY <1>1, <1>2, <1>3, AlwaysBase, PTL DEF Spec
=============================================================================
