----------------------------- MODULE MCReviews -----------------------------
(***************************************************************************)
(* Small instances of Reviews: appeals, resolutions with and without a new *)
(* weight, too low and too high ones among them, and a publication.  The   *)
(* database may fail for the second address.                               *)
(***************************************************************************)
EXTENDS Reviews

CONSTANTS a1, a2

Appeal(a) == [op |-> "appeal", address |-> a]
Resolve(a, w) == [op |-> "resolve", address |-> a, new_weight |-> w]
Publish(a) == [op |-> "publish", address |-> a]

MCInput ==
  {Appeal(a1), Appeal(a2), Resolve(a1, NoWeight), Resolve(a1, -1),
   Resolve(a1, 3), Resolve(a2, 1), Publish(a1)}

AnyOrder == Permutations(Request)
=============================================================================
