--------------------------- MODULE MandateProofs ---------------------------
(***************************************************************************)
(* Theorems about Mandate, for all validators, clock errors, periods and   *)
(* times.                                                                  *)
(***************************************************************************)
EXTENDS Mandate, SequenceTheorems, TLAPS

(* An entry as some validator made it, by a clock of its time.             *)
Authentic(e) ==
  LET record == e.mandate.record
      sig == e.mandate.validator_sig
  IN  /\ sig \in Signature
      /\ sig.over = record
      /\ record.expires_at = record.issued_at + Ttl
      /\ record.issued_at <= e.at + Skew
      /\ e.at <= record.issued_at + Skew
      /\ e.at <= now

(* What the operator keeps was signed by validators that are trusted, the  *)
(* newest not longer ago than a period, the other at least the difference  *)
(* of two clocks before it.                                                *)
Spaced ==
  /\ \A i \in 1..Len(held) : held[i].mandate.validator_sig.by \in Trusted
  /\ held # <<>> => now <= held[1].at + Period
  /\ Len(held) = 2 =>
       /\ held[2].at + 2 * Skew <= held[1].at
       /\ held[1].at <= held[2].at + Period

IInv ==
  /\ TypeOK
  /\ \A e \in Issued : Authentic(e)
  /\ Spaced

-----------------------------------------------------------------------------
(* What the operator keeps has a newest entry if it is not empty.          *)
LEMMA First ==
  ASSUME held \in Seq(Entry), held # <<>>
  PROVE  Len(held) \in Nat /\ Len(held) >= 1 /\ held[1] \in Entry
<1>1. Len(held) \in Nat /\ Len(held) # 0
  BY EmptySeq, LenProperties
<1> QED
  BY <1>1, ElementOfSeq

(* What an issuer makes of a clock reading.                                *)
LEMMA IssuedIsAuthentic ==
  ASSUME NEW v \in Validator, NEW key \in NodeKey, NEW clock \in Clock, now \in Nat
  PROVE  LET e == [mandate |-> issue_mandate(v, key, clock), at |-> now]
         IN  /\ e \in Entry
             /\ Authentic(e)
             /\ e.at = now
             /\ e.mandate.validator_sig.by = v
<1> DEFINE record == [node_pubkey |-> key, issued_at |-> clock, expires_at |-> clock + Ttl]
           mandate == [record |-> record, validator_sig |-> [by |-> v, over |-> record]]
           e == [mandate |-> mandate, at |-> now]
<1>1. clock \in Nat /\ clock <= now + Skew /\ now <= clock + Skew
  BY MandateAssumption DEF Clock, MandateAssumption
<1>2. record \in MandateRecord
  BY <1>1, MandateAssumption DEF MandateRecord, MandateAssumption
<1>3. mandate.validator_sig \in Signature
  BY <1>2 DEF Signature
<1>4. e \in Entry
  BY <1>2, <1>3 DEF Entry, SignedMandate
<1>5. Authentic(e)
  BY <1>1, <1>3 DEF Authentic
<1> QED
  BY <1>4, <1>5 DEF issue_mandate

LEMMA InitIInv == Init => IInv
<1> SUFFICES ASSUME Init
             PROVE  IInv
  OBVIOUS
<1>1. Issued = {}
  BY DEF Init, Issued
<1> QED
  BY <1>1, MandateAssumption DEF Init, IInv, TypeOK, Spaced, MandateAssumption

(* Authenticity survives the passing of time.                              *)
LEMMA Ages ==
  ASSUME NEW e \in Entry, Authentic(e), now \in Nat, now' \in Nat, now <= now'
  PROVE  Authentic(e)'
BY DEF Authentic, Entry

LEMMA IInvStep == IInv /\ [Next]_vars => IInv'
<1> SUFFICES ASSUME IInv, [Next]_vars
             PROVE  IInv'
  OBVIOUS
<1>0. /\ now \in Nat /\ held \in Seq(Entry) /\ Len(held) <= 2 /\ stray \in SUBSET Entry
      /\ Ttl \in Nat /\ Skew \in Nat /\ Period \in Nat
  BY MandateAssumption DEF IInv, TypeOK, MandateAssumption
<1>1. \A e \in Issued : e \in Entry
  BY <1>0 DEF Issued
<1>2. CASE Tick
  <2>1. /\ now' = now + 1 /\ held' = held /\ stray' = stray
        /\ held # <<>> => now < held[1].at + Period
    BY <1>2 DEF Tick, Newest
  <2>2. Issued' = Issued
    BY <2>1 DEF Issued
  <2>3. \A e \in Issued : Authentic(e)'
    BY <1>0, <1>1, <2>1, Ages DEF IInv
  <2>4. TypeOK'
    BY <1>0, <2>1 DEF TypeOK
  <2>5. held # <<>> => held[1].at \in Nat
    BY <1>0, First DEF Entry
  <2>6. Spaced'
    BY <1>0, <2>1, <2>5 DEF IInv, Spaced
  <2> QED
    BY <2>2, <2>3, <2>4, <2>6 DEF IInv
<1>3. ASSUME NEW v \in Trusted, NEW clock \in Clock, Renew(v, clock)
      PROVE  IInv'
  <2> DEFINE e == [mandate |-> issue_mandate(v, Operator, clock), at |-> now]
  <2>1. e \in Entry /\ Authentic(e) /\ e.at = now /\ e.mandate.validator_sig.by = v
    BY <1>0, IssuedIsAuthentic, MandateAssumption DEF MandateAssumption
  <2> HIDE DEF e
  <2>2. /\ now' = now /\ stray' = stray
        /\ held # <<>> => now >= held[1].at + 2 * Skew
        /\ held' = IF held = <<>> THEN <<e>> ELSE <<e, held[1]>>
    BY <1>3 DEF Renew, Newest, renew_mandate, e
  <2>3. TypeOK'
    BY <1>0, <2>1, <2>2 DEF TypeOK
  <2>4. Issued' \subseteq Issued \cup {e}
    BY <1>0, <2>2 DEF Issued
  <2>5. \A f \in Issued' : Authentic(f)'
    BY <2>1, <2>2, <2>4 DEF IInv, Authentic
  <2>6. CASE held = <<>>
    <3>1. held' = <<e>>
      BY <2>2, <2>6
    <3> QED
      BY <1>0, <2>1, <2>2, <2>3, <2>5, <3>1 DEF IInv, Spaced
  <2>7. CASE held # <<>>
    <3>1. held' = <<e, held[1]>>
      BY <2>2, <2>7
    <3>2. held[1].mandate.validator_sig.by \in Trusted
      BY <1>0, <2>7 DEF IInv, Spaced
    <3>3. Spaced'
      <4>1. held[1] \in Entry /\ now >= held[1].at + 2 * Skew /\ now <= held[1].at + Period
        BY <1>0, <2>2, <2>7, First DEF IInv, Spaced
      <4>2. /\ Len(held') = 2 /\ held'[1] = e /\ held'[2] = held[1]
        BY <3>1
      <4>3. e.at <= now /\ held[1].at \in Nat /\ e.at \in Nat /\ now <= e.at + Period
        BY <1>0, <2>1, <4>1 DEF Entry
      <4>4. \A i \in 1..2 : held'[i].mandate.validator_sig.by \in Trusted
        BY <2>1, <3>2, <4>2
      <4> QED
        BY <2>1, <2>2, <4>1, <4>2, <4>3, <4>4 DEF Spaced
    <3> QED
      BY <2>3, <2>5, <3>3 DEF IInv
  <2> QED
    BY <2>6, <2>7
<1>4. ASSUME NEW v \in Validator, NEW key \in NodeKey, NEW clock \in Clock,
             IssueElsewhere(v, key, clock)
      PROVE  IInv'
  <2> DEFINE e == [mandate |-> issue_mandate(v, key, clock), at |-> now]
  <2>1. e \in Entry /\ Authentic(e)
    BY <1>0, IssuedIsAuthentic
  <2> HIDE DEF e
  <2>2. now' = now /\ held' = held /\ stray' = {e}
    BY <1>4 DEF IssueElsewhere, e
  <2>3. \A f \in Issued' : Authentic(f)'
    BY <2>1, <2>2 DEF IInv, Issued, Authentic
  <2>4. TypeOK' /\ Spaced'
    BY <1>0, <2>1, <2>2 DEF IInv, TypeOK, Spaced
  <2> QED
    BY <2>3, <2>4 DEF IInv
<1>5. CASE UNCHANGED vars
  BY <1>5 DEF vars, IInv, TypeOK, Issued, Authentic, Spaced
<1> QED
  BY <1>2, <1>3, <1>4, <1>5 DEF Next

LEMMA InvariantHolds == Spec => []IInv
BY InitIInv, IInvStep, PTL DEF Spec

-----------------------------------------------------------------------------
(* Every variable keeps its type.                                          *)
THEOREM TypeCorrect == Spec => []TypeOK
<1>1. IInv => TypeOK
  BY DEF IInv
<1> QED
  BY <1>1, InvariantHolds, PTL

(* A mandate shown to a verifier carries a signature made with some entry, *)
(* over that entry's record: if it is over the record shown, it is that    *)
(* mandate.                                                                *)
LEMMA Unaltered ==
  ASSUME IInv, NEW mandate \in Shown, verify_signature(mandate)
  PROVE  \E e \in Issued : e.mandate = mandate
<1>1. PICK d \in Issued :
        \E record \in Altered(d.mandate.record),
           sig \in {f.mandate.validator_sig : f \in Issued} \cup {BadSig} :
          mandate = [record |-> record, validator_sig |-> sig]
  BY DEF Shown
<1>2. PICK e \in Issued : mandate.validator_sig = e.mandate.validator_sig
  BY <1>1 DEF verify_signature
<1>3. mandate.record = e.mandate.record
  BY <1>2 DEF verify_signature, IInv, Authentic
<1>4. e \in Entry
  BY DEF IInv, TypeOK, Issued
<1>5. e.mandate = [record |-> e.mandate.record, validator_sig |-> e.mandate.validator_sig]
  BY <1>4 DEF Entry, SignedMandate
<1>6. mandate = [record |-> mandate.record, validator_sig |-> mandate.validator_sig]
  BY <1>1
<1> QED
  BY <1>2, <1>3, <1>5, <1>6

(* No mandate outlives its day and the error of two clocks.                *)
THEOREM NoneOutlives == Spec => []NeverOutlives
<1>1. IInv => NeverOutlives
  <2> SUFFICES ASSUME IInv, NEW mandate \in Shown, NEW clock \in Clock,
                      verify_at(mandate, clock)
               PROVE  \E e \in Issued :
                        /\ e.mandate = mandate
                        /\ mandate.validator_sig.by \in Trusted
                        /\ now < e.at + Ttl + 2 * Skew
    BY DEF NeverOutlives
  <2>1. PICK e \in Issued : e.mandate = mandate
    BY Unaltered DEF verify_at
  <2>2. e \in Entry /\ Authentic(e)
    BY DEF IInv, TypeOK, Issued
  <2>3. /\ e.at \in Nat /\ mandate.record.issued_at \in Nat
        /\ mandate.record.expires_at = mandate.record.issued_at + Ttl
        /\ mandate.record.issued_at <= e.at + Skew
    BY <2>1, <2>2 DEF Entry, SignedMandate, MandateRecord, Authentic
  <2>4. clock < mandate.record.expires_at
    BY DEF verify_at, verify_temporal
  <2>5. clock \in Nat /\ now <= clock + Skew /\ now \in Nat /\ Ttl \in Nat /\ Skew \in Nat
    BY MandateAssumption DEF Clock, IInv, TypeOK, MandateAssumption
  <2>6. now < e.at + Ttl + 2 * Skew
    BY <2>3, <2>4, <2>5
  <2> QED
    BY <2>1, <2>6 DEF verify_at, verify_signature
<1> QED
  BY <1>1, InvariantHolds, PTL

(* An operator that renews in time is never without a mandate. By a clock  *)
(* for which the newest is not yet valid, the one before it has not ended. *)
THEOREM Continuous == Spec => []Continuity
<1>1. IInv => Continuity
  <2> SUFFICES ASSUME IInv, held # <<>>, ~(Len(held) = 1 /\ now < Newest.at + 2 * Skew),
                      NEW clock \in Clock
               PROVE  \E i \in 1..Len(held) : verify_at(held[i].mandate, clock)
    BY DEF Continuity
  <2>1. /\ held \in Seq(Entry) /\ (Len(held) = 1 \/ Len(held) = 2) /\ now \in Nat
        /\ Ttl \in Nat /\ Skew \in Nat /\ Period \in Nat
        /\ Period + 2 * Skew < Ttl
        /\ clock \in Nat /\ now <= clock + Skew /\ clock <= now + Skew
    <3>1. held \in Seq(Entry) /\ Len(held) <= 2 /\ now \in Nat
      BY DEF IInv, TypeOK
    <3>2. Len(held) = 1 \/ Len(held) = 2
      <4> DEFINE n == Len(held)
      <4>1. n \in Nat /\ 1 <= n /\ n <= 2
        BY <3>1, First
      <4> HIDE DEF n
      <4>2. n = 1 \/ n = 2
        BY <4>1
      <4> QED
        BY <4>2 DEF n
    <3>3. Ttl \in Nat /\ Skew \in Nat /\ Period \in Nat /\ Period + 2 * Skew < Ttl
      BY MandateAssumption DEF MandateAssumption
    <3>4. clock \in Nat /\ now <= clock + Skew /\ clock <= now + Skew
      BY <3>1, <3>3 DEF Clock
    <3> QED
      BY <3>1, <3>2, <3>3, <3>4
  <2>2. ASSUME NEW i \in 1..Len(held)
        PROVE  /\ verify_signature(held[i].mandate)
               /\ held[i].at \in Nat /\ held[i].at <= now
               /\ held[i].mandate.record.issued_at \in Nat
               /\ held[i].mandate.record.issued_at <= held[i].at + Skew
               /\ held[i].at <= held[i].mandate.record.issued_at + Skew
               /\ held[i].mandate.record.expires_at = held[i].mandate.record.issued_at + Ttl
    <3>1. held[i] \in Entry /\ held[i] \in Issued
      BY <2>1 DEF Issued
    <3>2. Authentic(held[i])
      BY <3>1 DEF IInv
    <3>3. held[i].mandate.validator_sig # BadSig
      BY <3>2, BadSigAssumption DEF Authentic
    <3> QED
      BY <3>1, <3>2, <3>3 DEF IInv, Spaced, verify_signature, Authentic, Entry,
         SignedMandate, MandateRecord
  <2>3. 1 \in 1..Len(held) /\ now <= held[1].at + Period
    BY <2>1 DEF IInv, Spaced
  <2>4. clock < held[1].mandate.record.expires_at
    <3> DEFINE at == held[1].at
               from == held[1].mandate.record.issued_at
               until == held[1].mandate.record.expires_at
    <3>1. /\ at \in Nat /\ from \in Nat /\ until = from + Ttl
          /\ at <= from + Skew /\ now <= at + Period
      BY <2>2, <2>3
    <3> HIDE DEF at, from, until
    <3>2. clock < until
      BY <2>1, <3>1
    <3> QED
      BY <3>2 DEF until
  <2>5. CASE held[1].mandate.record.issued_at <= clock
    BY <2>2, <2>3, <2>4, <2>5 DEF verify_at, verify_temporal
  <2>6. CASE ~(held[1].mandate.record.issued_at <= clock)
    <3>0. now < Newest.at + 2 * Skew
      <4> DEFINE at == held[1].at
                 from == held[1].mandate.record.issued_at
      <4>1. at \in Nat /\ from \in Nat /\ from <= at + Skew /\ ~(from <= clock)
        BY <2>2, <2>3, <2>6
      <4> HIDE DEF at, from
      <4>2. now < at + 2 * Skew
        BY <2>1, <4>1
      <4> QED
        BY <4>2 DEF at, Newest
    <3>1. Len(held) = 2
      <4> DEFINE n == Len(held)
      <4>1. n # 1
        BY <3>0
      <4>2. n \in {1, 2}
        BY <2>1
      <4> QED
        BY <4>1, <4>2
    <3>2. /\ 2 \in 1..Len(held)
          /\ held[2].at + 2 * Skew <= held[1].at /\ held[1].at <= held[2].at + Period
      BY <3>1 DEF IInv, Spaced
    <3>3. /\ held[2].mandate.record.issued_at <= clock
          /\ clock < held[2].mandate.record.expires_at
      <4> DEFINE at == held[1].at
                 from == held[1].mandate.record.issued_at
                 at2 == held[2].at
                 from2 == held[2].mandate.record.issued_at
                 until2 == held[2].mandate.record.expires_at
      <4>1. /\ at \in Nat /\ from \in Nat /\ from <= at + Skew /\ at <= now
            /\ ~(from <= clock)
        BY <2>2, <2>3, <2>6
      <4>2. /\ at2 \in Nat /\ from2 \in Nat /\ until2 = from2 + Ttl
            /\ from2 <= at2 + Skew /\ at2 <= from2 + Skew /\ at2 + 2 * Skew <= at
            /\ at <= at2 + Period
        BY <2>2, <3>2
      <4> HIDE DEF at, from, at2, from2, until2
      <4>3. from2 <= clock /\ clock < until2
        BY <2>1, <4>1, <4>2
      <4> QED
        BY <4>3 DEF from2, until2
    <3> QED
      BY <2>2, <3>2, <3>3 DEF verify_at, verify_temporal
  <2> QED
    BY <2>5, <2>6
<1> QED
  BY <1>1, InvariantHolds, PTL
=============================================================================
