------------------------------ MODULE PushKeys ------------------------------
(***************************************************************************)
(* push.js loadKeys, publicKey and subscribe: the key pair of Web Push is  *)
(* made by the first server that needs it, kept in app_settings, and every *)
(* phone subscribes with the public half some server gave it.  A push is   *)
(* accepted only if it is signed with that pair.                           *)
(*                                                                         *)
(* Actors: servers, which start together or one after the other and load   *)
(* the pair once per process, in a step per query; phones.  A pair set in  *)
(* the environment is left out: it is the same on every server.            *)
(***************************************************************************)
EXTENDS TLAPS

CONSTANTS
  Servers,  \* server instances
  Phones,   \* push endpoints
  Pairs,    \* the pairs generateVAPIDKeys can return
  NoPair

PushKeysAssumption == NoPair \notin Pairs

VARIABLES
  stored,   \* app_settings.value of 'vapid'
  keys,     \* keys of each process
  loading,  \* the step of its load
  fresh,    \* the pair it generated
  told,     \* the pair a phone was told of
  row       \* push_subscriptions: the pair a phone subscribed with

vars == <<stored, keys, loading, fresh, told, row>>

TypeOK ==
  /\ stored \in Pairs \cup {NoPair}
  /\ keys \in [Servers -> Pairs \cup {NoPair}]
  /\ loading \in [Servers -> {"no", "read", "insert", "reread"}]
  /\ fresh \in [Servers -> Pairs \cup {NoPair}]
  /\ told \in [Phones -> Pairs \cup {NoPair}]
  /\ row \in [Phones -> Pairs \cup {NoPair}]

Init ==
  /\ stored = NoPair
  /\ keys = [s \in Servers |-> NoPair]
  /\ loading = [s \in Servers |-> "no"]
  /\ fresh = [s \in Servers |-> NoPair]
  /\ told = [p \in Phones |-> NoPair]
  /\ row = [p \in Phones |-> NoPair]

\* Callers that come during a load share it.
Load(s) ==
  /\ keys[s] = NoPair /\ loading[s] = "no"
  /\ loading' = [loading EXCEPT ![s] = "read"]
  /\ UNCHANGED <<stored, keys, fresh, told, row>>

Read(s) ==
  /\ loading[s] = "read"
  /\ IF stored # NoPair
       THEN /\ keys' = [keys EXCEPT ![s] = stored]
            /\ loading' = [loading EXCEPT ![s] = "no"]
            /\ UNCHANGED fresh
       ELSE /\ \E k \in Pairs : fresh' = [fresh EXCEPT ![s] = k]
            /\ loading' = [loading EXCEPT ![s] = "insert"]
            /\ UNCHANGED keys
  /\ UNCHANGED <<stored, told, row>>

\* ON CONFLICT (key) DO NOTHING
Upsert(k) == IF stored = NoPair THEN k ELSE stored

Insert(s) ==
  /\ loading[s] = "insert"
  /\ stored' = Upsert(fresh[s])
  /\ loading' = [loading EXCEPT ![s] = "reread"]
  /\ UNCHANGED <<keys, fresh, told, row>>

Reread(s) == stored

Adopt(s) ==
  /\ loading[s] = "reread"
  /\ keys' = [keys EXCEPT ![s] = Reread(s)]
  /\ fresh' = [fresh EXCEPT ![s] = NoPair]
  /\ loading' = [loading EXCEPT ![s] = "no"]
  /\ UNCHANGED <<stored, told, row>>

\* A query fails: the next caller loads again. A restart forgets the pair too.
LoadFails(s) ==
  /\ loading' = [loading EXCEPT ![s] = "no"]
  /\ fresh' = [fresh EXCEPT ![s] = NoPair]
  /\ keys' \in {keys, [keys EXCEPT ![s] = NoPair]}
  /\ UNCHANGED <<stored, told, row>>

\* GET key, and later POST subscribe, to any server.
Tell(s, p) ==
  /\ keys[s] # NoPair
  /\ told' = [told EXCEPT ![p] = keys[s]]
  /\ UNCHANGED <<stored, keys, loading, fresh, row>>

Subscribe(p) ==
  /\ told[p] # NoPair
  /\ row' = [row EXCEPT ![p] = told[p]]
  /\ UNCHANGED <<stored, keys, loading, fresh, told>>

Unsubscribe(p) ==
  /\ row' = [row EXCEPT ![p] = NoPair]
  /\ UNCHANGED <<stored, keys, loading, fresh, told>>

Next ==
  \/ \E s \in Servers : Load(s) \/ Read(s) \/ Insert(s) \/ Adopt(s) \/ LoadFails(s)
  \/ \E p \in Phones : Subscribe(p) \/ Unsubscribe(p) \/ \E s \in Servers : Tell(s, p)

Spec == Init /\ [][Next]_vars

------------------------------------------------------------------------------
\* Servers that start at once end up with one pair, so that each of them can
\* push to every phone, whichever server the phone was told the key by and
\* however long ago (push.js:38-44, 54-71).
OnePair ==
  \A p \in Phones, s \in Servers : row[p] # NoPair /\ keys[s] # NoPair => row[p] = keys[s]

------------------------------------------------------------------------------
(* Proof.                                                                  *)

\* Whoever knows a pair knows the stored one, and that one is never replaced: a
\* server that inserted finds it stored, its own or the first one's.
KnownIsStored ==
  /\ \A s \in Servers : keys[s] \in {NoPair, stored}
  /\ \A p \in Phones : told[p] \in {NoPair, stored} /\ row[p] \in {NoPair, stored}
  /\ \A s \in Servers : loading[s] = "insert" => fresh[s] \in Pairs
  /\ \A s \in Servers : loading[s] = "reread" => stored # NoPair
  /\ \A s \in Servers : keys[s] # NoPair => stored # NoPair

PairInv == TypeOK /\ KnownIsStored

LEMMA PairInvStep == ASSUME PushKeysAssumption, PairInv, [Next]_vars PROVE PairInv'
<1> USE DEF PushKeysAssumption, PairInv, TypeOK, KnownIsStored
<1>1. ASSUME NEW s \in Servers, Load(s) PROVE PairInv'
  BY <1>1 DEF Load
<1>2. ASSUME NEW s \in Servers, Read(s) PROVE PairInv'
  <2>1. CASE stored # NoPair
    BY <1>2, <2>1 DEF Read
  <2>2. CASE stored = NoPair
    BY <1>2, <2>2 DEF Read
  <2> QED BY <2>1, <2>2
<1>3. ASSUME NEW s \in Servers, Insert(s) PROVE PairInv'
  BY <1>3 DEF Insert, Upsert
<1>4. ASSUME NEW s \in Servers, Adopt(s) PROVE PairInv'
  BY <1>4 DEF Adopt, Reread
<1>5. ASSUME NEW s \in Servers, LoadFails(s) PROVE PairInv'
  <2>1. CASE keys' = keys
    BY <1>5, <2>1 DEF LoadFails
  <2>2. CASE keys' = [keys EXCEPT ![s] = NoPair]
    BY <1>5, <2>2 DEF LoadFails
  <2> QED BY <1>5, <2>1, <2>2 DEF LoadFails
<1>6. ASSUME NEW s \in Servers, NEW p \in Phones, Tell(s, p) PROVE PairInv'
  BY <1>6 DEF Tell
<1>7. ASSUME NEW p \in Phones, Subscribe(p) PROVE PairInv'
  BY <1>7 DEF Subscribe
<1>8. ASSUME NEW p \in Phones, Unsubscribe(p) PROVE PairInv'
  BY <1>8 DEF Unsubscribe
<1>9. CASE UNCHANGED vars
  BY <1>9 DEF vars
<1> QED BY <1>1, <1>2, <1>3, <1>4, <1>5, <1>6, <1>7, <1>8, <1>9 DEF Next

\* Any number of servers and phones, in any order of loads, failures and
\* restarts, share one pair (push.js:38-44).
THEOREM OnePairHolds == ASSUME PushKeysAssumption PROVE Spec => []OnePair
<1>1. Init => PairInv
  BY DEF PushKeysAssumption, Init, PairInv, TypeOK, KnownIsStored
<1>2. PairInv /\ [Next]_vars => PairInv'
  BY PairInvStep
<1>3. PairInv => OnePair
  BY DEF PairInv, KnownIsStored, OnePair
<1> QED BY <1>1, <1>2, <1>3, PTL DEF Spec
=============================================================================
