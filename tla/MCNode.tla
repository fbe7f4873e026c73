------------------------------- MODULE MCNode -------------------------------
(***************************************************************************)
(* Small instances of Node: two publishers, two domains, and the requests  *)
(* each run is about.                                                      *)
(***************************************************************************)
EXTENDS Node

CONSTANTS p1, p2, a1, a2, d1, d2, b1, b2, n1

MCAddressOf == (p1 :> a1) @@ (p2 :> a2)

Rec(p, seq, d, body) ==
  [pubkey |-> p, seq |-> seq, status |-> "active", domain |-> d, body |-> body]

Genuine(p, seq, d) == sign_card(Rec(p, seq, d, b1), p)

Altered(p, seq, d) ==
  [record |-> Rec(p, seq, d, b2), sig |-> [by |-> p, over |-> Rec(p, seq, d, b1)]]

PublishWith(nonce, c) == [op |-> "publish", cards |-> <<c>>, nonce |-> nonce]
Publish(c) == PublishWith(Absent, c)
PublishVerified(c) == PublishWith(n1, c)
Batch(cs) == [op |-> "batch", cards |-> cs]
Fetch(k) == [op |-> "fetch", key |-> k]

Old == Genuine(p1, 0, d1)
New == Genuine(p1, 1, d1)
Moved == Genuine(p1, 1, d2)
Other == Genuine(p2, 0, d1)
Unlabelled == sign_card(Rec(p2, 1, d2, b2), p2)

(* Publications of one card, of its update and of another card. *)
PublishOnly == {Publish(Old), Publish(New), Publish(Other)}

BatchOnly == {Batch(<<Old, Other>>), Batch(<<New, Old>>)}

Verified == {PublishVerified(Old), Publish(Moved)}

NoInbound == {}

NoRemote == [k \in RecordKey |-> {}]
=============================================================================
