--------------------------- MODULE CardRegistry ---------------------------
(***************************************************************************)
(* What a node's card store promises, whatever maps, caches and disks it   *)
(* is made of: while the node runs, the card at a key only ever gives way  *)
(* to one of a higher sequence number; across a restart it may fall back,  *)
(* but only to a card that was once accepted for that key.                 *)
(***************************************************************************)
EXTENDS Card

CONSTANT Absent   \* no card

VARIABLES
  up,         \* the node runs
  reg,        \* the card at each key
  accepted    \* every card accepted for each key so far

vars == <<up, reg, accepted>>

Empty == [k \in RecordKey |-> Absent]

Init ==
  /\ up = FALSE
  /\ reg = Empty
  /\ accepted = [k \in RecordKey |-> {}]

Accept(k, card) ==
  /\ up
  /\ Validates(k, card)
  /\ reg[k] # Absent => SeqOf(reg[k]) < SeqOf(card)
  /\ reg' = [reg EXCEPT ![k] = card]
  /\ accepted' = [accepted EXCEPT ![k] = @ \cup {card}]
  /\ UNCHANGED up

Withdraw(k) ==
  /\ up
  /\ reg' = [reg EXCEPT ![k] = Absent]
  /\ UNCHANGED <<up, accepted>>

Halt ==
  /\ up
  /\ up' = FALSE
  /\ reg' = Empty
  /\ UNCHANGED accepted

Recover ==
  /\ ~up
  /\ up' = TRUE
  /\ DOMAIN reg' = RecordKey
  /\ \A k \in RecordKey : reg'[k] \in accepted[k] \cup {Absent}
  /\ UNCHANGED accepted

(* The cards Accept ranges over are those of this step's accepted set, so  *)
(* that the specification can be evaluated without enumerating cards.      *)
Next ==
  \/ \E k \in RecordKey : \E card \in accepted'[k] : Accept(k, card)
  \/ \E k \in RecordKey : Withdraw(k)
  \/ Halt
  \/ Recover

Spec == Init /\ [][Next]_vars
=============================================================================
