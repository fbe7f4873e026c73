------------------------------ MODULE Mandate ------------------------------
(***************************************************************************)
(* Mandates: a validator signs that a node operator's key may act for a    *)
(* day, the operator renews in time, and whoever is shown a mandate checks *)
(* it against the keys it trusts and its own clock.                        *)
(*                                                                         *)
(* Nobody reads the real time.  A reading of a system clock is off by at   *)
(* most Skew, in either direction and by another amount each time, so that *)
(* clocks of several machines and adjustments of one are the same to the   *)
(* model.  How an operator renews is not in the code: here it asks some    *)
(* trusted validator at least every Period, not sooner than twice the skew *)
(* after the last time, and keeps the mandate before the newest.           *)
(***************************************************************************)
EXTENDS Integers, Sequences

CONSTANTS
  Validator,   \* validator keys
  Trusted,     \* those the verifier trusts
  NodeKey,     \* operators' keys of 32 bytes
  Operator,    \* the one that renews
  BadSig,      \* a signature of another length than 64 bytes
  Ttl,         \* MANDATE_TTL_SECS
  Skew,        \* the largest error of a clock
  Period,      \* the longest time between two renewals
  MaxTime      \* bound: when the model ends

ASSUME MandateAssumption ==
  /\ Trusted \subseteq Validator
  /\ Operator \in NodeKey
  /\ Ttl \in Nat /\ Skew \in Nat /\ Period \in Nat /\ MaxTime \in Nat
  /\ 2 * Skew <= Period
  /\ Period + 2 * Skew < Ttl

MandateRecord == [node_pubkey : NodeKey, issued_at : Nat, expires_at : Nat]

Signature == [by : Validator, over : MandateRecord]

ASSUME BadSigAssumption == BadSig \notin Signature

SignedMandate == [record : MandateRecord, validator_sig : Signature \cup {BadSig}]

VARIABLES
  now,     \* the real time
  held,    \* what the operator keeps, the newest first, each with its real time
  stray    \* the set of the last mandate that a validator issued to others, as above

vars == <<now, held, stray>>

(* What a clock may show. *)
Clock == {t \in 0..(now + Skew) : now <= t + Skew}

-----------------------------------------------------------------------------
(* MandateIssuer                                                           *)

issue_mandate(validator, node_pubkey, clock) ==
  LET record == [node_pubkey |-> node_pubkey, issued_at |-> clock, expires_at |-> clock + Ttl]
  IN  [record |-> record, validator_sig |-> [by |-> validator, over |-> record]]

renew_mandate(validator, node_pubkey, clock) == issue_mandate(validator, node_pubkey, clock)

-----------------------------------------------------------------------------
(* MandateVerifier                                                         *)

verify_signature(mandate) ==
  /\ mandate.validator_sig # BadSig
  /\ mandate.validator_sig.by \in Trusted
  /\ mandate.validator_sig.over = mandate.record

(* Mutations: a mandate never expires; it is not yet valid when issued.    *)
verify_temporal_Endless(mandate, clock) == mandate.record.issued_at <= clock

verify_temporal_Late(mandate, clock) ==
  /\ mandate.record.issued_at < clock
  /\ clock < mandate.record.expires_at

verify_temporal(mandate, clock) ==
  /\ mandate.record.issued_at <= clock
  /\ clock < mandate.record.expires_at

verify_at(mandate, clock) == verify_signature(mandate) /\ verify_temporal(mandate, clock)

-----------------------------------------------------------------------------
Init ==
  /\ now = Skew
  /\ held = <<>>
  /\ stray = {}

Newest == held[1]

(* Nobody has to renew before there is something to renew. *)
Tick ==
  /\ now < MaxTime
  /\ held # <<>> => now < Newest.at + Period
  /\ now' = now + 1
  /\ UNCHANGED <<held, stray>>

(* How the operator goes about it is an assumption: see the top.           *)
Renew(validator, clock) ==
  /\ held # <<>> => now >= Newest.at + 2 * Skew
  /\ held' = LET entry == [mandate |-> renew_mandate(validator, Operator, clock), at |-> now]
             IN  IF held = <<>> THEN <<entry>> ELSE <<entry, Newest>>
  /\ UNCHANGED <<now, stray>>

IssueElsewhere(validator, node_pubkey, clock) ==
  /\ stray' = {[mandate |-> issue_mandate(validator, node_pubkey, clock), at |-> now]}
  /\ UNCHANGED <<now, held>>

Next ==
  \/ Tick
  \/ \E validator \in Trusted, clock \in Clock : Renew(validator, clock)
  \/ \E validator \in Validator, node_pubkey \in NodeKey, clock \in Clock :
       IssueElsewhere(validator, node_pubkey, clock)

Spec == Init /\ [][Next]_vars

-----------------------------------------------------------------------------
(* Properties                                                              *)

Entry == [mandate : SignedMandate, at : Nat]

(* Types, for the proofs.                                                  *)
TypeOK ==
  /\ now \in Nat
  /\ held \in Seq(Entry) /\ Len(held) <= 2
  /\ stray \in SUBSET Entry

(* What may be shown to a verifier: any record, as it was issued or        *)
(* altered, with any signature there is.                                   *)
Issued == {held[i] : i \in 1..Len(held)} \cup stray

Altered(record) ==
  {record, [record EXCEPT !.expires_at = @ + Ttl], [record EXCEPT !.issued_at = 0]} \cup
  {[record EXCEPT !.node_pubkey = key] : key \in NodeKey}

Shown ==
  UNION {{[record |-> record, validator_sig |-> sig] :
            record \in Altered(e.mandate.record),
            sig \in {f.mandate.validator_sig : f \in Issued} \cup {BadSig}} : e \in Issued}

(* A mandate that verifies by any clock is one that a trusted validator    *)
(* issued as it stands, at most a day and two clock errors ago             *)
(* (issuer.rs:24): neither altering it nor moving it between machines of   *)
(* different time makes it last.                                           *)
NeverOutlives ==
  \A mandate \in Shown, clock \in Clock :
    verify_at(mandate, clock) =>
      \E e \in Issued :
        /\ e.mandate = mandate
        /\ mandate.validator_sig.by \in Trusted
        /\ now < e.at + Ttl + 2 * Skew

(* An operator that renews in time and keeps the mandate before the newest *)
(* has one that verifies, whatever the clocks of its validators and of the *)
(* verifier show, once the first is older than the clocks may differ. With *)
(* the newest alone it would not: a verifier that is behind the issuer     *)
(* finds a fresh mandate not yet valid (verifier.rs:50).                   *)
Continuity ==
  held # <<>> =>
    \/ Len(held) = 1 /\ now < Newest.at + 2 * Skew
    \/ \A clock \in Clock :
         \E i \in 1..Len(held) : verify_at(held[i].mandate, clock)
=============================================================================
