----------------------------- MODULE OrderPromise -----------------------------
(***************************************************************************)
(* What the order pipeline promises about one Shopify order, without       *)
(* workers, leases, attempts, events or operators: the first payload that  *)
(* is taken is the order's content; at one moment, once, each of its lines *)
(* has been given to Community, is put into the household's bag, or is put *)
(* on record as a line that has no price.                                  *)
(***************************************************************************)
EXTENDS Naturals

CONSTANTS Orders, Lines, Priced

VARIABLES
  phase,      \* "unknown", "open", "applied", "closed"
  content,    \* the lines of the order
  community,  \* its lines that Community has taken
  bagged,     \* copies of its lines put into the bag, <<line, copy>>
  skipped     \* its lines on record as left out of the bag

vars == <<phase, content, community, bagged, skipped>>

Init ==
  /\ phase \in [Orders -> {"unknown", "open", "closed"}]
  /\ content \in [Orders -> SUBSET Lines]
  /\ community \in [Orders -> SUBSET Lines]
  /\ \A o \in Orders : community[o] \subseteq content[o]
  /\ bagged = [o \in Orders |-> {}] /\ skipped = [o \in Orders |-> {}]

\* Community takes more of the order's lines, never gives one back.
Take(o) ==
  /\ community[o] \subseteq community'[o] /\ community'[o] \subseteq content'[o]
  /\ community' = [community EXCEPT ![o] = community'[o]]

\* The first payload of an order fixes its content.
Open(o) ==
  /\ phase[o] = "unknown"
  /\ phase' = [phase EXCEPT ![o] = "open"]
  /\ content' = [content EXCEPT ![o] = content'[o]] /\ content'[o] \subseteq Lines
  /\ Take(o)
  /\ UNCHANGED <<bagged, skipped>>

\* All at once: one copy of each line with a price that Community does not have,
\* and the others on record.
Apply(o) ==
  /\ phase[o] = "open"
  /\ phase' = [phase EXCEPT ![o] = "applied"]
  /\ Take(o)
  /\ bagged' = [bagged EXCEPT ![o] = bagged'[o]]
  /\ {c[1] : c \in bagged'[o]} = (content[o] \ community'[o]) \cap Priced
  /\ \A c, d \in bagged'[o] : c[1] = d[1] => c = d
  /\ skipped' = [skipped EXCEPT ![o] = (content[o] \ community'[o]) \ Priced]
  /\ UNCHANGED content

\* A failed try, or the end of an order that puts nothing into the bag.
SetAside(o) ==
  /\ phase[o] = "open"
  /\ phase' \in {phase, [phase EXCEPT ![o] = "closed"]}
  /\ Take(o)
  /\ UNCHANGED <<content, bagged, skipped>>

Next == \E o \in Orders : Open(o) \/ Apply(o) \/ SetAside(o)

Spec == Init /\ [][Next]_vars
=============================================================================
