--------------------------- MODULE MCRecordStore ---------------------------
(***************************************************************************)
(* Small instances of RecordStore: two publishers, each with an address,   *)
(* and the records a node meets: successive versions of a card, two        *)
(* versions of one number, a record altered after it was signed, a card    *)
(* filed under another's address and bytes that are no card.               *)
(***************************************************************************)
EXTENDS RecordStore, TLC

CONSTANTS p1, p2, a1, a2, d1, b1, b2

MCAddressOf == (p1 :> a1) @@ (p2 :> a2)

Rec(p, seq, body) ==
  [pubkey |-> p, seq |-> seq, status |-> "active", domain |-> d1, body |-> body]

Genuine(p, seq, body) == sign_card(Rec(p, seq, body), p)

Altered(p, seq) ==
  [record |-> Rec(p, seq, b2), sig |-> [by |-> p, over |-> Rec(p, seq, b1)]]

At(key, value) == [key |-> key, value |-> value]

MCIncoming ==
  {At(a1, Genuine(p1, seq, b1)) : seq \in 0..MaxSeq} \cup
  {At(a1, Genuine(p1, 1, b2)), At(a2, Genuine(p2, 0, b1)),
   At(a1, Altered(p1, 1)), At(a2, Genuine(p1, 1, b1)), At(a2, Malformed)}
=============================================================================
