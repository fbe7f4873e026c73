---------------------------- MODULE RateLimiter ----------------------------
(***************************************************************************)
(* The per-domain rate limiter as operators on its state: how many         *)
(* publications each domain has been charged for, and whether its cooldown *)
(* still runs.  domain_last_publish is kept only to be compared with the   *)
(* cooldown, so a domain is cooling from record_publish until that much    *)
(* time has passed.                                                        *)
(***************************************************************************)
EXTENDS Naturals

CONSTANT MaxCardsPerDomain     \* MAX_CARDS_PER_DOMAIN

ASSUME LimiterAssumption == MaxCardsPerDomain \in Nat

Limiter(domains) == [count : [domains -> Nat], cooling : [domains -> BOOLEAN]]

NewLimiter(domains) ==
  [count |-> [d \in domains |-> 0], cooling |-> [d \in domains |-> FALSE]]

(* RateLimiter::check answers Allowed. *)
Allowed(limiter, d) ==
  /\ limiter.count[d] < MaxCardsPerDomain
  /\ ~limiter.cooling[d]

(* Mutation: only the time is noted. *)
record_publish_NoCount(limiter, d) == [limiter EXCEPT !.cooling[d] = TRUE]

record_publish(limiter, d) ==
  [limiter EXCEPT !.count[d] = @ + 1, !.cooling[d] = TRUE]

(* PUBLISH_COOLDOWN has passed since the last publication of the domain. *)
CooledDown(limiter, d) == [limiter EXCEPT !.cooling[d] = FALSE]
=============================================================================
