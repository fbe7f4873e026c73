---------------------------- MODULE MCNodeStore ----------------------------
(***************************************************************************)
(* Two requests of every way one can go, next to records that peers push,  *)
(* in a node whose store has room for one card.                            *)
(***************************************************************************)
EXTENDS MCNode, NodeStore

AllWays ==
  {PublishVerified(New), PublishWith(Malformed, New), Publish(Malformed),
   Publish(Altered(p2, 0, d2)), Publish(Unlabelled),
   Batch(<<Old, New>>), Batch(<<Malformed, Other>>),
   Fetch(a1), Fetch(Malformed)}

Filed(key, value) == [key |-> key, value |-> value]

SomeInbound == {Filed(a1, New), Filed(a2, Altered(p2, 0, d2))}

SomeRemote == (a1 :> {Old}) @@ (a2 :> {Malformed})
=============================================================================
