------------------------------- MODULE MCDht -------------------------------
(***************************************************************************)
(* A small instance of Dht: one publisher signs a card and later revokes   *)
(* it; peers outside hold an altered revocation and a card of another key. *)
(***************************************************************************)
EXTENDS Dht, TLC

CONSTANTS n1, n2, n3, p1, p2, a1, a2, d1, b1, b2

MCAddressOf == (p1 :> a1) @@ (p2 :> a2)

Rec(p, seq, status) ==
  [pubkey |-> p, seq |-> seq, status |-> status, domain |-> d1, body |-> b1]

Card1 == sign_card(Rec(p1, 0, "active"), p1)
Revocation == sign_card(Rec(p1, 1, "revoked"), p1)

MCSigned == {Card1, Revocation}

Altered == [record |-> [Rec(p1, 2, "active") EXCEPT !.body = b2], sig |-> Revocation.sig]

MCForeign ==
  {[key |-> a1, value |-> Altered],
   [key |-> a1, value |-> sign_card(Rec(p2, 1, "active"), p2)]}
=============================================================================
