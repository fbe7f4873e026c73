--------------------------- MODULE MCVerification ---------------------------
(***************************************************************************)
(* A small instance of Verification: one publisher, a host that may prove  *)
(* the card's domain or say something else, an endpoint that may serve the *)
(* right manifest, with or without success, or another one; cards that     *)
(* fail at each step; a verifier and a consumer.                           *)
(***************************************************************************)
EXTENDS Verification, TLC

CONSTANTS p1, p2, a1, a2, d1, n1, https1, http1, m1, m2, junk, h1, h2, h3,
          good, bad, tools1, tools2, verifier, consumer

MCAddressOf == (p1 :> a1) @@ (p2 :> a2)
MCHashOf == (m1 :> h1) @@ (m2 :> h2) @@ (junk :> h3)
MCParsed == (m1 :> tools1) @@ (m2 :> tools2) @@ (junk :> NoManifest)
MCHarden == (good :> good) @@ (bad :> BadLabel)

Described(e, h, l) == [endpoint |-> e, manifest_hash |-> h, label |-> l]

MCBody == {Described(https1, h1, good), Described(https1, h1, bad),
           Described(http1, h1, NoLabel), Described(https1, h3, NoLabel)}

Rec(b, status) == [pubkey |-> p1, seq |-> 0, status |-> status, domain |-> d1, body |-> b]

Genuine(b) == sign_card(Rec(b, "active"), p1)
Revoked == sign_card(Rec(Described(https1, h1, good), "revoked"), p1)
Forged == sign_card(Rec(Described(https1, h1, good), "active"), p2)

Score(copied, x) == [copy_found |-> copied, correspondence_score |-> x]
MCReply == {Score(FALSE, -1), Score(FALSE, 1), Score(TRUE, 3), Unusable}

MCInput ==
  (verifier :> {[op |-> "stage1", card |-> c, nonce |-> n1] :
                  c \in {Genuine(b) : b \in MCBody} \cup {Forged}}
               \cup {[op |-> "simple", domain_verified |-> v] : v \in BOOLEAN})
  @@ (consumer :> {[op |-> "resolve", card |-> c, address |-> a1] :
                     c \in {Genuine(Described(https1, h1, good)), Forged, Revoked}})

Says(k) == [pubkey |-> k, domain |-> d1, nonce |-> n1]
Serves(success, b) ==
  [place |-> "site", host |-> https1, says |-> [success |-> success, bytes |-> b]]

(* The domain may prove this key, or another one; the site may change.     *)
MCPossible ==
  {[place |-> "txt", host |-> d1, says |-> Says(p1)],
   [place |-> "wellknown", host |-> d1, says |-> Says(p1)],
   [place |-> "wellknown", host |-> d1, says |-> Says(p2)],
   Serves(TRUE, m1), Serves(FALSE, m1), Serves(TRUE, m2), Serves(TRUE, junk)}
=============================================================================
