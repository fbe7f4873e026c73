------------------------- MODULE VerificationProofs -------------------------
(***************************************************************************)
(* Proofs about Verification for all cards, worlds and agents: types, and  *)
(* that stage 1 is sound and complete for what the world showed while it   *)
(* ran, that consumer and stage 1 agree on a manifest, and that the agent  *)
(* has no say in admission.                                                *)
(***************************************************************************)
EXTENDS Verification, TLAPS

ManifestValue == Content \cup {Parsed[b] : b \in Content} \cup {Nothing}

-----------------------------------------------------------------------------
(* Types                                                                   *)

(* The decision is a weight within bounds, or a rejection.                 *)
LEMMA DecisionTyped ==
  ASSUME NEW v \in BOOLEAN, NEW reply \in Assessment
  PROVE  compute_admit_decision(v, reply) \in
           IF v THEN 0..(2 * One) ELSE {Rejected}
<1> DEFINE x == reply.correspondence_score
<1>1. x \in Int /\ reply.copy_found \in BOOLEAN /\ One \in Nat
  BY VerificationAssumption DEF VerificationAssumption, Assessment
<1> HIDE DEF x
<1>2. Clamp(x) \in 0..One
  BY <1>1 DEF Clamp
<1> QED
  BY <1>1, <1>2 DEF compute_admit_decision, x

(* A step of a job that goes to a label, or stage 1 rejecting it, keeps    *)
(* the types of what it does not set.                                      *)
LEMMA StepTyped ==
  ASSUME TypeOK, NEW j \in Job, NEW label \in Labels, At(j, label),
         \/ \E next \in Labels : Goto(j, next)
         \/ \E name \in Steps : Reject(j, name),
         manifest' \in [Job -> ManifestValue],
         decision' \in [Job -> 0..(2 * One) \cup {Rejected, Nothing}]
  PROVE  TypeOK'
<1>1. pc' \in [Job -> Labels] /\ step' \in [Job -> Steps \cup {Nothing}]
  <2>1. CASE \E next \in Labels : Goto(j, next)
    BY <2>1 DEF TypeOK, Goto
  <2>2. CASE \E name \in Steps : Reject(j, name)
    BY <2>2 DEF TypeOK, Reject, Labels
  <2> QED
    BY <2>1, <2>2
<1> QED
  BY <1>1 DEF At, TypeOK, ManifestValue

(* Every variable keeps its type through every step.                       *)
LEMMA TypedStep == TypeOK /\ [Next]_vars => TypeOK'
<1> SUFFICES ASSUME TypeOK, [Next]_vars
             PROVE  TypeOK'
  OBVIOUS
<1>0. /\ manifest \in [Job -> ManifestValue]
      /\ decision \in [Job -> 0..(2 * One) \cup {Rejected, Nothing}]
  BY DEF TypeOK, ManifestValue
<1>1. ASSUME NEW f \in Possible, Appear(f) \/ Vanish(f)
      PROVE  TypeOK'
  <2>1. world' \subseteq Fact
    BY <1>1, VerificationAssumption DEF VerificationAssumption, Appear, Vanish, TypeOK
  <2>2. Observe
    BY <1>1 DEF Appear, Vanish
  <2>3. seen' \in [Job -> SUBSET Fact] /\ held' \in [Job -> SUBSET Fact]
    BY <2>1, <2>2 DEF Observe, TypeOK
  <2> QED
    BY <2>1, <2>2, <2>3 DEF Observe, TypeOK
<1>2. ASSUME NEW j \in Job, NEW i \in Input[j], Begin(j, i)
      PROVE  TypeOK'
  <2>1. i \in Asked
    BY VerificationAssumption DEF VerificationAssumption
  <2>2. i.op \in {"stage1", "simple", "resolve"}
    BY <2>1 DEF Asked
  <2>3. pc' \in [Job -> Labels]
    BY <1>2, <2>2 DEF Begin, TypeOK, Labels, Stage1Labels
  <2>4. seen' \in [Job -> SUBSET Fact] /\ held' \in [Job -> SUBSET Fact]
    BY <1>2 DEF Begin, TypeOK
  <2>5. input' \in [Job -> Asked \cup {Nothing}]
    BY <1>2, <2>1 DEF Begin, TypeOK
  <2> QED
    BY <1>2, <2>3, <2>4, <2>5 DEF Begin, TypeOK
<1> USE DEF Labels, Stage1Labels, Steps
<1>3. ASSUME NEW j \in Job, structural_validity(j)
      PROVE  TypeOK'
  BY <1>0, <1>3, StepTyped DEF structural_validity
<1>4. ASSUME NEW j \in Job, verify_domain_dns(j)
      PROVE  TypeOK'
  BY <1>0, <1>4, StepTyped DEF verify_domain_dns
<1>5. ASSUME NEW j \in Job, verify_domain_wellknown(j)
      PROVE  TypeOK'
  BY <1>0, <1>5, StepTyped DEF verify_domain_wellknown
<1>6. ASSUME NEW j \in Job, validate_endpoint(j)
      PROVE  TypeOK'
  BY <1>0, <1>6, StepTyped DEF validate_endpoint
<1>7. ASSUME NEW j \in Job, fetch_and_validate_manifest(j)
      PROVE  TypeOK'
  <2>1. manifest' \in [Job -> ManifestValue]
    BY <1>0, <1>7 DEF fetch_and_validate_manifest, Answer, ManifestValue
  <2> QED
    BY <1>0, <1>7, <2>1, StepTyped DEF fetch_and_validate_manifest
<1>8. ASSUME NEW j \in Job, harden_label(j)
      PROVE  TypeOK'
  BY <1>0, <1>8, StepTyped DEF harden_label
<1>9. ASSUME NEW j \in Job, verify(j)
      PROVE  TypeOK'
  BY <1>0, <1>9, StepTyped DEF verify
<1>10. ASSUME NEW j \in Job, assess(j)
       PROVE  TypeOK'
  <2>1. CASE UNCHANGED decision
    BY <1>0, <1>10, <2>1, StepTyped DEF assess
  <2>2. CASE \E reply \in Assessment :
               /\ decision' = [decision EXCEPT ![j] = compute_admit_decision(domain_verified(j), reply)]
               /\ Goto(j, "decided")
    <3>1. PICK reply \in Assessment :
               /\ decision' = [decision EXCEPT ![j] = compute_admit_decision(domain_verified(j), reply)]
               /\ Goto(j, "decided")
      BY <2>2
    <3> DEFINE w == compute_admit_decision(domain_verified(j), reply)
    <3>2. w \in 0..(2 * One) \cup {Rejected}
      BY DecisionTyped DEF compute_admit_decision
    <3> HIDE DEF w
    <3>3. decision' = [decision EXCEPT ![j] = w]
      BY <3>1 DEF w
    <3>4. decision' \in [Job -> 0..(2 * One) \cup {Rejected, Nothing}]
      BY <1>0, <3>2, <3>3
    <3> QED
      BY <1>0, <1>10, <3>1, <3>4, StepTyped DEF assess
  <2> QED
    BY <1>10, <2>1, <2>2 DEF assess
<1>11. ASSUME NEW j \in Job, verify_fetched_card(j)
       PROVE  TypeOK'
  BY <1>0, <1>11, StepTyped DEF verify_fetched_card
<1>12. ASSUME NEW j \in Job, fetch_and_verify_manifest(j)
       PROVE  TypeOK'
  <2>1. manifest' \in [Job -> ManifestValue]
    BY <1>0, <1>12 DEF fetch_and_verify_manifest, Answer, ManifestValue
  <2> QED
    BY <1>0, <1>12, <2>1, StepTyped DEF fetch_and_verify_manifest
<1>13. CASE UNCHANGED vars
  BY <1>13 DEF vars, jobs, TypeOK
<1> QED
  BY <1>1, <1>2, <1>3, <1>4, <1>5, <1>6, <1>7, <1>8, <1>9, <1>10, <1>11, <1>12, <1>13 DEF Next

(* Every variable keeps its type, and every reputation weight its range.   *)
THEOREM TypeCorrect == Spec => []TypeOK
<1>1. Init => TypeOK
  BY DEF Init, TypeOK, Labels
<1> QED
  BY <1>1, TypedStep, PTL DEF Spec

-----------------------------------------------------------------------------
(* Soundness and completeness of stage 1                                   *)

(* What a stage 1 that has come to a label has established.                *)
Proven == {"endpoint", "manifest", "label"}

Established(j) ==
  /\ pc[j] # "idle" => input[j] \in Asked
  /\ pc[j] \in Stage1Labels \cup {"passed", "rejected"} => input[j].op = "stage1"
  /\ pc[j] \in {"check", "fetch", "accepted"} => input[j].op = "resolve"
  /\ pc[j] \in Stage1Labels => held[j] \subseteq world /\ world \subseteq seen[j]
  /\ pc[j] \in {"dns", "wellknown"} => StructurallyValid(input[j].card)
  /\ pc[j] = "wellknown" =>
       [place |-> "txt", host |-> record(j).domain, says |-> challenge(j)] \notin held[j]
  /\ pc[j] \in Proven \/ Stage1Passed(j) =>
       StructurallyValid(input[j].card) /\ Proof(j, seen[j])
  /\ pc[j] \in {"manifest", "label"} \/ Stage1Passed(j) => body(j).endpoint \in Https
  /\ pc[j] = "label" \/ Stage1Passed(j) => manifest[j] \in Manifests(j, seen[j])
  /\ Stage1Passed(j) => LabelFine(body(j).label)

RejectedRightly(j) ==
  pc[j] = "rejected" =>
    /\ ~Deserved(j, held[j])
    /\ step[j] = "structural_validity" => ~StructurallyValid(input[j].card)
    /\ step[j] = "domain_ownership" => ~Proof(j, held[j])
    /\ step[j] \notin {"structural_validity", "domain_ownership"} => Proof(j, seen[j])
    /\ step[j] = "endpoint_validation" => body(j).endpoint \notin Https
    /\ step[j] = "manifest_validation" => Manifests(j, held[j]) = {}
    /\ step[j] = "label_hardening" => ~LabelFine(body(j).label)

Kept(j) ==
  pc[j] = "accepted" => manifest[j] \in Content /\ HashOf[manifest[j]] = body(j).manifest_hash

JInv(j) == Established(j) /\ RejectedRightly(j) /\ Kept(j)

Judged == \A j \in Job : JInv(j)

USE DEF Stage1Labels, Proven

(* More facts prove and show more.                                         *)
LEMMA Monotone ==
  ASSUME NEW j, NEW small, NEW large, small \subseteq large
  PROVE  /\ Proof(j, small) => Proof(j, large)
         /\ Manifests(j, small) \subseteq Manifests(j, large)
BY DEF Proof, Manifests

(* A job keeps what it has established while other jobs take steps.        *)
LEMMA Undisturbed ==
  ASSUME NEW j \in Job, JInv(j), pc[j] \in Stage1Labels => world' = world, input'[j] = input[j], pc'[j] = pc[j],
         step'[j] = step[j], manifest'[j] = manifest[j], seen'[j] = seen[j], held'[j] = held[j]
  PROVE  JInv(j)'
<1>1. /\ Stage1Passed(j)' = Stage1Passed(j)
      /\ record(j)' = record(j) /\ body(j)' = body(j) /\ challenge(j)' = challenge(j)
      /\ LabelFine(body(j).label)' = LabelFine(body(j).label)
  BY DEF Stage1Passed, record, body, challenge, LabelFine
<1>2. /\ Proof(j, seen[j])' = Proof(j, seen[j]) /\ Proof(j, held[j])' = Proof(j, held[j])
      /\ Manifests(j, seen[j])' = Manifests(j, seen[j])
      /\ Manifests(j, held[j])' = Manifests(j, held[j])
  BY <1>1 DEF Proof, Manifests
<1>3. Deserved(j, held[j])' = Deserved(j, held[j])
  BY <1>1, <1>2 DEF Deserved
<1>4. Established(j)'
  BY <1>1, <1>2 DEF JInv, Established
<1>5. RejectedRightly(j)'
  BY <1>1, <1>2, <1>3 DEF JInv, RejectedRightly
<1>6. Kept(j)'
  BY <1>1 DEF JInv, Kept
<1> QED
  BY <1>4, <1>5, <1>6 DEF JInv

(* A token that proves a card is the one stage 1 asks for.                 *)
LEMMA ProofIsChallenge ==
  ASSUME NEW j \in Job, input[j] \in Asked, input[j].op = "stage1", NEW facts \in SUBSET Fact
  PROVE  Proof(j, facts) <=>
           \/ [place |-> "txt", host |-> record(j).domain, says |-> challenge(j)] \in facts
           \/ [place |-> "wellknown", host |-> record(j).domain, says |-> challenge(j)] \in facts
<1>1. \A f \in facts : f.place \in {"txt", "wellknown"} =>
        f = [place |-> f.place, host |-> f.host, says |-> f.says]
  BY DEF Fact
<1> QED
  BY <1>1 DEF Proof, challenge, reconstruct_challenge

(* The world moves on: a proof or manifest that was there all along was    *)
(* also there before.                                                      *)
LEMMA WorldMoves ==
  ASSUME TypeOK, Judged, NEW j \in Job, world' \subseteq Fact, Observe
  PROVE  JInv(j)'
<1>1. JInv(j) /\ pc'[j] = pc[j] /\ input'[j] = input[j] /\ step'[j] = step[j] /\ manifest'[j] = manifest[j]
  BY DEF Judged, Observe
<1>2. CASE pc[j] \in Stage1Labels
  <2>1. seen'[j] = seen[j] \cup world' /\ held'[j] = held[j] \cap world'
    BY <1>2 DEF Observe, TypeOK
  <2>2. /\ Proof(j, seen[j]) => Proof(j, seen[j] \cup world')
        /\ Manifests(j, seen[j]) \subseteq Manifests(j, seen[j] \cup world')
    BY Monotone
  <2>3. /\ record(j)' = record(j) /\ body(j)' = body(j) /\ challenge(j)' = challenge(j)
        /\ ~Stage1Passed(j)' /\ ~Stage1Passed(j)
    BY <1>1, <1>2 DEF Stage1Passed, record, body, challenge
  <2>4. /\ Proof(j, seen[j])' = Proof(j, seen[j] \cup world')
        /\ Manifests(j, seen[j])' = Manifests(j, seen[j] \cup world')
    BY <1>1, <2>1, <2>3 DEF Proof, Manifests
  <2>5. Established(j)'
    BY <1>1, <1>2, <2>1, <2>2, <2>3, <2>4 DEF JInv, Established
  <2> QED
    BY <1>1, <1>2, <2>5 DEF JInv, RejectedRightly, Kept
<1>3. CASE pc[j] \notin Stage1Labels
  <2>1. seen'[j] = seen[j] /\ held'[j] = held[j]
    BY <1>3 DEF Observe, TypeOK
  <2> QED
    BY <1>1, <1>3, <2>1, Undisturbed
<1> QED
  BY <1>2, <1>3

(* What does not change when a job takes a step.                           *)
LEMMA SameCard ==
  ASSUME NEW j \in Job, NEW label \in Labels, At(j, label)
  PROVE  /\ pc[j] = label /\ world' = world /\ input' = input /\ seen' = seen /\ held' = held
         /\ record(j)' = record(j) /\ body(j)' = body(j) /\ challenge(j)' = challenge(j)
         /\ Proof(j, seen[j])' = Proof(j, seen[j]) /\ Proof(j, held[j])' = Proof(j, held[j])
         /\ Manifests(j, seen[j])' = Manifests(j, seen[j])
         /\ Manifests(j, held[j])' = Manifests(j, held[j])
         /\ Deserved(j, held[j])' = Deserved(j, held[j])
         /\ LabelFine(body(j).label)' = LabelFine(body(j).label)
<1>1. pc[j] = label /\ world' = world /\ input' = input /\ seen' = seen /\ held' = held
  BY DEF At
<1>2. record(j)' = record(j) /\ body(j)' = body(j) /\ challenge(j)' = challenge(j)
  BY <1>1 DEF record, body, challenge
<1>3. /\ Proof(j, seen[j])' = Proof(j, seen[j]) /\ Proof(j, held[j])' = Proof(j, held[j])
      /\ Manifests(j, seen[j])' = Manifests(j, seen[j])
      /\ Manifests(j, held[j])' = Manifests(j, held[j])
  BY <1>1, <1>2 DEF Proof, Manifests
<1>4. Deserved(j, held[j])' = Deserved(j, held[j])
  BY <1>1, <1>2, <1>3 DEF Deserved
<1>5. LabelFine(body(j).label)' = LabelFine(body(j).label)
  BY <1>2 DEF LabelFine
<1> QED
  BY <1>1, <1>2, <1>3, <1>4, <1>5

(* A rejection is right if its step failed and the earlier ones did not.   *)
LEMMA RejectStep ==
  ASSUME TypeOK, NEW j \in Job, NEW label \in Stage1Labels, NEW name \in Steps,
         JInv(j), At(j, label), Reject(j, name), UNCHANGED <<manifest, decision>>,
         ~Deserved(j, held[j]),
         name = "structural_validity" => ~StructurallyValid(input[j].card),
         name = "domain_ownership" => ~Proof(j, held[j]),
         name \notin {"structural_validity", "domain_ownership"} => Proof(j, seen[j]),
         name = "endpoint_validation" => body(j).endpoint \notin Https,
         name = "manifest_validation" => Manifests(j, held[j]) = {},
         name = "label_hardening" => ~LabelFine(body(j).label)
  PROVE  JInv(j)'
<1>1. pc'[j] = "rejected" /\ step'[j] = name
  BY DEF Reject, TypeOK
<1>2. pc[j] = label /\ input' = input /\ input[j].op = "stage1" /\ input[j] \in Asked
  BY SameCard DEF JInv, Established, Labels
<1>3. Established(j)'
  BY <1>1, <1>2 DEF Established, Stage1Passed
<1>4. RejectedRightly(j)'
  BY <1>1, <1>2, SameCard DEF RejectedRightly, Labels
<1>5. Kept(j)'
  BY <1>1 DEF Kept
<1> QED
  BY <1>3, <1>4, <1>5 DEF JInv

(* A step forward in stage 1 keeps what is established if it adds its own. *)
LEMMA ForwardStep ==
  ASSUME TypeOK, NEW j \in Job, NEW label \in Labels, NEW next \in Labels \ {"rejected"},
         At(j, label), Goto(j, next),
         JInv(j), Established(j)', next = "accepted" => Kept(j)'
  PROVE  JInv(j)'
<1>1. pc'[j] = next
  BY DEF Goto, TypeOK
<1>2. RejectedRightly(j)'
  BY <1>1 DEF RejectedRightly
<1>3. Kept(j)'
  BY <1>1 DEF Kept
<1> QED
  BY <1>2, <1>3 DEF JInv

(* Each step of a job keeps the invariant of that job.                     *)
LEMMA JobStep ==
  ASSUME TypeOK, NEW j \in Job, JInv(j),
         \/ structural_validity(j) \/ verify_domain_dns(j) \/ verify_domain_wellknown(j)
         \/ validate_endpoint(j) \/ fetch_and_validate_manifest(j) \/ harden_label(j)
         \/ verify(j) \/ assess(j) \/ verify_fetched_card(j) \/ fetch_and_verify_manifest(j)
  PROVE  JInv(j)'
<1> USE DEF Labels, Steps
<1>0. \A next \in Labels : Goto(j, next) => pc'[j] = next /\ step' = step
  BY DEF Goto, TypeOK
<1>1. CASE structural_validity(j)
  <2>0. At(j, "structure")
    BY <1>1 DEF structural_validity
  <2>1. CASE StructurallyValid(input[j].card) /\ Goto(j, "dns")
    <3>1. Established(j)'
      BY <1>0, <2>0, <2>1, SameCard DEF JInv, Established, Stage1Passed
    <3> QED
      BY <2>0, <2>1, <3>1, ForwardStep
  <2>2. CASE ~StructurallyValid(input[j].card) /\ Reject(j, "structural_validity")
    <3>1. ~Deserved(j, held[j])
      BY <2>2 DEF Deserved
    <3> QED
      BY <1>1, <2>0, <2>2, <3>1, RejectStep DEF structural_validity
  <2> QED
    BY <1>1, <2>1, <2>2 DEF structural_validity
<1>2. CASE verify_domain_dns(j)
  <2> DEFINE f == [place |-> "txt", host |-> record(j).domain, says |-> challenge(j)]
  <2>0. At(j, "dns") /\ pc[j] = "dns" /\ StructurallyValid(input[j].card)
    BY <1>2 DEF verify_domain_dns, At, JInv, Established
  <2>1. /\ input[j].op = "stage1" /\ input[j] \in Asked
        /\ held[j] \subseteq world /\ world \subseteq seen[j]
        /\ held[j] \subseteq Fact /\ seen[j] \subseteq Fact
    BY <2>0 DEF JInv, Established, TypeOK, Asked
  <2>2. CASE f \in world /\ Goto(j, "endpoint")
    <3>1. Proof(j, seen[j])
      BY <2>1, <2>2, ProofIsChallenge
    <3>2. Established(j)'
      BY <1>0, <2>0, <2>1, <2>2, <3>1, SameCard DEF Established, Stage1Passed
    <3> QED
      BY <2>0, <2>2, <3>2, ForwardStep
  <2>3. CASE f \notin world /\ Goto(j, "wellknown")
    <3>1. Established(j)'
      BY <1>0, <2>0, <2>1, <2>3, SameCard DEF Established, Stage1Passed
    <3> QED
      BY <2>0, <2>3, <3>1, ForwardStep
  <2>4. \/ f \in world /\ Goto(j, "endpoint")
        \/ f \notin world /\ Goto(j, "wellknown")
    BY <1>2 DEF verify_domain_dns, Answers
  <2> QED
    BY <2>2, <2>3, <2>4
<1>3. CASE verify_domain_wellknown(j)
  <2> DEFINE f == [place |-> "wellknown", host |-> record(j).domain, says |-> challenge(j)]
  <2>0. At(j, "wellknown") /\ pc[j] = "wellknown" /\ StructurallyValid(input[j].card)
    BY <1>3 DEF verify_domain_wellknown, At, JInv, Established
  <2>1. /\ input[j].op = "stage1" /\ input[j] \in Asked
        /\ held[j] \subseteq world /\ world \subseteq seen[j]
        /\ held[j] \subseteq Fact /\ seen[j] \subseteq Fact
    BY <2>0 DEF JInv, Established, TypeOK, Asked
  <2>2. CASE f \in world /\ Goto(j, "endpoint")
    <3>1. Proof(j, seen[j])
      BY <2>1, <2>2, ProofIsChallenge
    <3>2. Established(j)'
      BY <1>0, <2>0, <2>1, <2>2, <3>1, SameCard DEF Established, Stage1Passed
    <3> QED
      BY <2>0, <2>2, <3>2, ForwardStep
  <2>3. CASE f \notin world /\ Reject(j, "domain_ownership")
    <3>1. ~Proof(j, held[j])
      BY <2>0, <2>1, <2>3, ProofIsChallenge DEF JInv, Established
    <3>2. ~Deserved(j, held[j])
      BY <3>1 DEF Deserved
    <3> QED
      BY <1>3, <2>0, <2>3, <3>1, <3>2, RejectStep DEF verify_domain_wellknown
  <2>4. \/ f \in world /\ Goto(j, "endpoint")
        \/ f \notin world /\ Reject(j, "domain_ownership")
    BY <1>3 DEF verify_domain_wellknown, Answers
  <2> QED
    BY <2>2, <2>3, <2>4
<1>4. CASE validate_endpoint(j)
  <2>0. /\ At(j, "endpoint") /\ pc[j] = "endpoint" /\ input[j].op = "stage1" /\ input[j] \in Asked
        /\ held[j] \subseteq world /\ world \subseteq seen[j]
        /\ StructurallyValid(input[j].card) /\ Proof(j, seen[j])
    BY <1>4 DEF validate_endpoint, At, JInv, Established
  <2>1. CASE body(j).endpoint \in Https /\ Goto(j, "manifest")
    <3>1. Established(j)'
      BY <1>0, <2>0, <2>1, SameCard DEF Established, Stage1Passed
    <3> QED
      BY <2>0, <2>1, <3>1, ForwardStep
  <2>2. CASE body(j).endpoint \notin Https /\ Reject(j, "endpoint_validation")
    <3>1. ~Deserved(j, held[j])
      BY <2>2 DEF Deserved
    <3> QED
      BY <1>4, <2>0, <2>2, <3>1, RejectStep DEF validate_endpoint
  <2> QED
    BY <1>4, <2>1, <2>2 DEF validate_endpoint
<1>5. CASE fetch_and_validate_manifest(j)
  <2>0. /\ At(j, "manifest") /\ pc[j] = "manifest" /\ input[j].op = "stage1" /\ input[j] \in Asked
        /\ held[j] \subseteq world /\ world \subseteq seen[j]
        /\ StructurallyValid(input[j].card) /\ Proof(j, seen[j]) /\ body(j).endpoint \in Https
    BY <1>5 DEF fetch_and_validate_manifest, At, JInv, Established
  <2>1. CASE \E a \in Answer :
              /\ Answers("site", body(j).endpoint, a)
              /\ Acceptable(j, a)
              /\ manifest' = [manifest EXCEPT ![j] = Parsed[a.bytes]]
              /\ Goto(j, "label")
    <3>1. PICK a \in Answer :
              /\ Answers("site", body(j).endpoint, a)
              /\ Acceptable(j, a)
              /\ manifest' = [manifest EXCEPT ![j] = Parsed[a.bytes]]
              /\ Goto(j, "label")
      BY <2>1
    <3>2. a.bytes \in Content /\ a = [success |-> TRUE, bytes |-> a.bytes]
      BY <3>1 DEF Answer, Acceptable
    <3>3. [place |-> "site", host |-> body(j).endpoint,
           says |-> [success |-> TRUE, bytes |-> a.bytes]] \in seen[j]
      BY <2>0, <3>1, <3>2 DEF Answers
    <3>4. Parsed[a.bytes] \in Manifests(j, seen[j])
      BY <3>1, <3>2, <3>3 DEF Manifests, Acceptable
    <3>5. manifest'[j] = Parsed[a.bytes]
      BY <3>1 DEF TypeOK
    <3>6. Established(j)'
      BY <1>0, <2>0, <3>1, <3>4, <3>5, SameCard DEF Established, Stage1Passed
    <3> QED
      BY <2>0, <3>1, <3>6, ForwardStep
  <2>2. CASE /\ ~\E a \in Answer : Answers("site", body(j).endpoint, a) /\ Acceptable(j, a)
             /\ Reject(j, "manifest_validation")
             /\ UNCHANGED manifest
    <3>1. Manifests(j, held[j]) = {}
      <4> SUFFICES ASSUME NEW c \in Content,
                          [place |-> "site", host |-> body(j).endpoint,
                           says |-> [success |-> TRUE, bytes |-> c]] \in held[j],
                          HashOf[c] = body(j).manifest_hash, Parsed[c] # NoManifest
                   PROVE  FALSE
        BY DEF Manifests
      <4> DEFINE a == [success |-> TRUE, bytes |-> c]
      <4>1. a \in Answer /\ Acceptable(j, a) /\ Answers("site", body(j).endpoint, a)
        BY <2>0 DEF Answer, Acceptable, Answers
      <4> QED
        BY <2>2, <4>1
    <3>2. ~Deserved(j, held[j])
      BY <3>1 DEF Deserved
    <3> QED
      BY <1>5, <2>0, <2>2, <3>1, <3>2, RejectStep DEF fetch_and_validate_manifest
  <2> QED
    BY <1>5, <2>1, <2>2 DEF fetch_and_validate_manifest
<1>6. CASE harden_label(j)
  <2>0. /\ At(j, "label") /\ pc[j] = "label" /\ input[j].op = "stage1" /\ input[j] \in Asked
        /\ StructurallyValid(input[j].card) /\ Proof(j, seen[j]) /\ body(j).endpoint \in Https
        /\ manifest[j] \in Manifests(j, seen[j]) /\ manifest' = manifest
    BY <1>6 DEF harden_label, At, JInv, Established
  <2>1. CASE LabelFine(body(j).label) /\ Goto(j, "passed")
    <3>1. LabelFine(body(j).label)'
      BY <2>0, <2>1, SameCard DEF LabelFine
    <3>2. Established(j)'
      BY <1>0, <2>0, <2>1, <3>1, SameCard DEF Established, Stage1Passed
    <3> QED
      BY <2>0, <2>1, <3>2, ForwardStep
  <2>2. CASE ~LabelFine(body(j).label) /\ Reject(j, "label_hardening")
    <3>1. ~Deserved(j, held[j])
      BY <2>2 DEF Deserved
    <3> QED
      BY <1>6, <2>0, <2>2, <3>1, RejectStep DEF harden_label
  <2> QED
    BY <1>6, <2>1, <2>2 DEF harden_label
<1>7. CASE verify(j) \/ assess(j)
  <2>0. \E label \in {"passed", "assess"} : At(j, label) /\ pc[j] = label /\ manifest' = manifest
    BY <1>7 DEF verify, assess, At
  <2>1. \E next \in {"assess", "decided", "failed"} : Goto(j, next) /\ pc'[j] = next
    BY <1>0, <1>7 DEF verify, assess
  <2>2. Stage1Passed(j)' <=> Stage1Passed(j)
    BY <2>0, <2>1, SameCard DEF Stage1Passed
  <2>3. LabelFine(body(j).label)' <=> LabelFine(body(j).label)
    BY <2>0, SameCard DEF LabelFine
  <2>4. Established(j)'
    BY <2>0, <2>1, <2>2, <2>3, SameCard DEF JInv, Established
  <2> QED
    BY <2>0, <2>1, <2>4, ForwardStep
<1>8. CASE verify_fetched_card(j)
  <2>0. /\ At(j, "check") /\ input[j].op = "resolve" /\ input[j] \in Asked /\ input' = input
    BY <1>8 DEF verify_fetched_card, At, JInv, Established
  <2>1. \E next \in {"fetch", "failed"} : Goto(j, next) /\ pc'[j] = next
    BY <1>0, <1>8 DEF verify_fetched_card
  <2>2. Established(j)'
    BY <2>0, <2>1 DEF Established, Stage1Passed
  <2> QED
    BY <2>0, <2>1, <2>2, ForwardStep
<1>9. CASE fetch_and_verify_manifest(j)
  <2>0. /\ At(j, "fetch") /\ input[j].op = "resolve" /\ input[j] \in Asked /\ input' = input
    BY <1>9 DEF fetch_and_verify_manifest, At, JInv, Established
  <2>1. \E next \in {"accepted", "failed"} : Goto(j, next) /\ pc'[j] = next
    BY <1>0, <1>9 DEF fetch_and_verify_manifest
  <2>2. Established(j)'
    BY <2>0, <2>1 DEF Established, Stage1Passed
  <2>3. pc'[j] = "accepted" => manifest'[j] \in Content /\ HashOf[manifest'[j]] = body(j).manifest_hash
    BY <1>0, <1>9 DEF fetch_and_verify_manifest, TypeOK, Answer, verify_manifest
  <2>4. Kept(j)'
    BY <2>0, <2>3, SameCard DEF Kept
  <2> QED
    BY <2>0, <2>1, <2>2, <2>4, ForwardStep
<1> QED
  BY <1>1, <1>2, <1>3, <1>4, <1>5, <1>6, <1>7, <1>8, <1>9

(* A job that begins has established nothing but what it is asked.         *)
LEMMA BeginStep ==
  ASSUME TypeOK, NEW j \in Job, NEW i \in Input[j], Begin(j, i)
  PROVE  JInv(j)'
<1>1. i \in Asked /\ i.op \in {"stage1", "simple", "resolve"}
  BY VerificationAssumption DEF VerificationAssumption, Asked
<1>2. /\ input'[j] = i /\ world' = world
      /\ seen'[j] = (IF i.op = "stage1" THEN world ELSE {})
      /\ held'[j] = (IF i.op = "stage1" THEN world ELSE {})
  BY DEF Begin, TypeOK
<1>3. pc'[j] = CASE i.op = "stage1" -> "structure"
                 [] i.op = "simple" -> "assess"
                 [] i.op = "resolve" -> "check"
  BY DEF Begin, TypeOK
<1>4. CASE i.op = "stage1"
  <2>1. pc'[j] = "structure"
    BY <1>3, <1>4
  <2> QED
    BY <1>1, <1>2, <1>4, <2>1 DEF JInv, Established, RejectedRightly, Kept, Stage1Passed
<1>5. CASE i.op = "simple"
  <2>1. pc'[j] = "assess"
    BY <1>3, <1>5
  <2> QED
    BY <1>1, <1>2, <1>5, <2>1 DEF JInv, Established, RejectedRightly, Kept, Stage1Passed
<1>6. CASE i.op = "resolve"
  <2>1. pc'[j] = "check"
    BY <1>3, <1>6
  <2> QED
    BY <1>1, <1>2, <1>6, <2>1 DEF JInv, Established, RejectedRightly, Kept, Stage1Passed
<1> QED
  BY <1>1, <1>4, <1>5, <1>6

(* Some step of a job.                                                     *)
JobStepOf(j) ==
  \/ \E i \in Input[j] : Begin(j, i)
  \/ structural_validity(j) \/ verify_domain_dns(j) \/ verify_domain_wellknown(j)
  \/ validate_endpoint(j) \/ fetch_and_validate_manifest(j) \/ harden_label(j)
  \/ verify(j) \/ assess(j) \/ verify_fetched_card(j) \/ fetch_and_verify_manifest(j)

(* A step of one job changes nothing of another.                           *)
LEMMA OthersUntouched ==
  ASSUME TypeOK, NEW j \in Job, JobStepOf(j), NEW k \in Job, k # j
  PROVE  /\ world' = world /\ pc'[k] = pc[k] /\ input'[k] = input[k] /\ step'[k] = step[k]
         /\ manifest'[k] = manifest[k] /\ decision'[k] = decision[k]
         /\ seen'[k] = seen[k] /\ held'[k] = held[k]
<1> USE DEF TypeOK, At, Goto, Reject
<1>1. CASE \E i \in Input[j] : Begin(j, i)
  BY <1>1 DEF Begin
<1>2. CASE structural_validity(j) \/ verify_domain_dns(j) \/ verify_domain_wellknown(j)
  BY <1>2 DEF structural_validity, verify_domain_dns, verify_domain_wellknown
<1>3. CASE validate_endpoint(j) \/ harden_label(j) \/ verify(j) \/ verify_fetched_card(j)
  BY <1>3 DEF validate_endpoint, harden_label, verify, verify_fetched_card
<1>4. CASE fetch_and_validate_manifest(j) \/ fetch_and_verify_manifest(j)
  BY <1>4 DEF fetch_and_validate_manifest, fetch_and_verify_manifest
<1>5. CASE assess(j)
  BY <1>5 DEF assess
<1> QED
  BY <1>1, <1>2, <1>3, <1>4, <1>5 DEF JobStepOf

(* The world changes, one job takes a step, or nothing happens.            *)
LEMMA NextCases ==
  ASSUME [Next]_vars
  PROVE  \/ \E f \in Possible : Appear(f) \/ Vanish(f)
         \/ \E j \in Job : JobStepOf(j)
         \/ UNCHANGED vars
BY DEF Next, JobStepOf

(* What the jobs have established stays so through every step.             *)
LEMMA JudgedStep == TypeOK /\ Judged /\ [Next]_vars => Judged'
<1> SUFFICES ASSUME TypeOK, Judged, [Next]_vars, NEW k \in Job
             PROVE  JInv(k)'
  BY DEF Judged
<1>0. JInv(k)
  BY DEF Judged
<1>1. CASE \E f \in Possible : Appear(f) \/ Vanish(f)
  <2>1. Observe /\ world' \subseteq Fact
    BY <1>1, VerificationAssumption DEF VerificationAssumption, Appear, Vanish, TypeOK
  <2> QED
    BY <2>1, WorldMoves
<1>2. ASSUME NEW j \in Job, JobStepOf(j)
      PROVE  JInv(k)'
  <2>1. CASE k = j
    BY <1>0, <1>2, <2>1, BeginStep, JobStep DEF JobStepOf
  <2>2. CASE k # j
    BY <1>0, <1>2, <2>2, OthersUntouched, Undisturbed
  <2> QED
    BY <2>1, <2>2
<1>3. CASE UNCHANGED vars
  BY <1>0, <1>3, Undisturbed DEF vars, jobs
<1> QED
  BY <1>1, <1>2, <1>3, NextCases

(* So it holds throughout.                                                 *)
LEMMA AlwaysJudged == Spec => []Judged
<1>1. Init => Judged
  BY DEF Init, Judged, JInv, Established, RejectedRightly, Kept, Stage1Passed
<1> QED
  BY <1>1, TypeCorrect, JudgedStep, PTL DEF Spec

(* Sound: a card passes stage 1 only on what the world showed meanwhile,   *)
(* and the manifest handed on is the one its site served.                  *)
THEOREM Sound == Spec => []PassedIsDeserved
<1>1. Judged => PassedIsDeserved
  <2> SUFFICES ASSUME Judged, NEW j \in Job, Stage1Passed(j)
               PROVE  Deserved(j, seen[j]) /\ manifest[j] \in Manifests(j, seen[j])
    BY DEF PassedIsDeserved
  <2> QED
    BY DEF Judged, JInv, Established, Deserved
<1> QED
  BY <1>1, AlwaysJudged, PTL

(* Complete: a card whose proof and manifest were there all along is never *)
(* rejected, and a rejection names a step that could fail.                 *)
THEOREM Complete == Spec => []RejectedIsNotDeserved
<1>1. Judged => RejectedIsNotDeserved
  BY DEF Judged, JInv, RejectedRightly, RejectedIsNotDeserved
<1> QED
  BY <1>1, AlwaysJudged, PTL

(* A consumer that accepts a manifest accepts the one stage 1 judged: both *)
(* hash to what the card says, and the hash is injective.                  *)
THEOREM Agreement == Spec => []ManifestAgreed
<1>1. Judged => ManifestAgreed
  <2> SUFFICES ASSUME Judged, NEW i \in Job, NEW j \in Job, Stage1Passed(i), pc[j] = "accepted",
                      body(i).manifest_hash = body(j).manifest_hash
               PROVE  manifest[i] = Parsed[manifest[j]]
    BY DEF ManifestAgreed
  <2>1. manifest[i] \in Manifests(i, seen[i])
    BY DEF Judged, JInv, Established
  <2>2. PICK c \in Content : manifest[i] = Parsed[c] /\ HashOf[c] = body(i).manifest_hash
    BY <2>1 DEF Manifests
  <2>3. manifest[j] \in Content /\ HashOf[manifest[j]] = body(j).manifest_hash
    BY DEF Judged, JInv, Kept
  <2> QED
    BY <2>2, <2>3, VerificationAssumption DEF VerificationAssumption
<1> QED
  BY <1>1, AlwaysJudged, PTL

-----------------------------------------------------------------------------
(* The agent                                                               *)

(* Only stage 1 and verify_simple reach the agent, which has no say.       *)
Heard(j) ==
  /\ pc[j] = "assess" => input[j] \in Asked /\ input[j].op \in {"stage1", "simple"}
  /\ pc[j] = "decided" =>
       (decision[j] = Rejected <=> input[j].op = "simple" /\ ~input[j].domain_verified)

AllHeard == \A j \in Job : Heard(j)

(* The decision follows what the agent is told of the domain.              *)
LEMMA HeardAssess ==
  ASSUME TypeOK, NEW j \in Job, Heard(j), assess(j)
  PROVE  Heard(j)'
<1>1. /\ pc[j] = "assess" /\ input' = input /\ input[j] \in Asked
      /\ input[j].op \in {"stage1", "simple"}
  BY DEF assess, At, Heard
<1>2. CASE Goto(j, "failed")
  BY <1>2 DEF Goto, TypeOK, Heard
<1>3. CASE \E reply \in Assessment :
             /\ decision' = [decision EXCEPT ![j] = compute_admit_decision(domain_verified(j), reply)]
             /\ Goto(j, "decided")
  <2>1. PICK reply \in Assessment :
             /\ decision' = [decision EXCEPT ![j] = compute_admit_decision(domain_verified(j), reply)]
             /\ Goto(j, "decided")
    BY <1>3
  <2> DEFINE w == compute_admit_decision(domain_verified(j), reply)
             told == domain_verified(j)
  <2>2. /\ told \in BOOLEAN
        /\ ~told <=> (input[j].op = "simple" /\ ~input[j].domain_verified)
    BY <1>1 DEF domain_verified, Asked
  <2>3. w \in IF told THEN 0..(2 * One) ELSE {Rejected}
    BY <2>2, DecisionTyped
  <2>4. decision'[j] = w /\ pc'[j] = "decided"
    BY <2>1 DEF TypeOK, Goto
  <2> HIDE DEF w, told
  <2>5. w = Rejected <=> ~told
    BY <2>2, <2>3, VerificationAssumption DEF VerificationAssumption
  <2> QED
    BY <1>1, <2>2, <2>4, <2>5 DEF Heard
<1> QED
  BY <1>2, <1>3 DEF assess

(* Every other step of a job leaves the decision alone.                    *)
LEMMA HeardOwnStep ==
  ASSUME TypeOK, NEW j \in Job, JInv(j), Heard(j), JobStepOf(j)
  PROVE  Heard(j)'
<1>1. CASE \E i \in Input[j] : Begin(j, i)
  <2>1. PICK i \in Input[j] : Begin(j, i)
    BY <1>1
  <2>2. i \in Asked /\ i.op \in {"stage1", "simple", "resolve"}
    BY VerificationAssumption DEF VerificationAssumption, Asked
  <2>3. pc'[j] # "decided" /\ (pc'[j] = "assess" => i.op = "simple") /\ input'[j] = i
    BY <2>1, <2>2 DEF Begin, TypeOK
  <2> QED
    BY <2>2, <2>3 DEF Heard
<1>2. CASE verify(j)
  BY <1>2 DEF verify, At, Goto, TypeOK, Heard, JInv, Established
<1>3. CASE assess(j)
  BY <1>3, HeardAssess
<1>4. CASE structural_validity(j) \/ verify_domain_dns(j) \/ verify_domain_wellknown(j)
  BY <1>4 DEF structural_validity, verify_domain_dns, verify_domain_wellknown, Goto, Reject, TypeOK, Heard
<1>5. CASE validate_endpoint(j) \/ harden_label(j) \/ verify_fetched_card(j)
  BY <1>5 DEF validate_endpoint, harden_label, verify_fetched_card, Goto, Reject, TypeOK, Heard
<1>6. CASE fetch_and_validate_manifest(j) \/ fetch_and_verify_manifest(j)
  BY <1>6 DEF fetch_and_validate_manifest, fetch_and_verify_manifest, Goto, Reject, TypeOK, Heard
<1> QED
  BY <1>1, <1>2, <1>3, <1>4, <1>5, <1>6 DEF JobStepOf

(* No step lets the agent decide.                                          *)
LEMMA HeardStep == TypeOK /\ Judged /\ AllHeard /\ [Next]_vars => AllHeard'
<1> SUFFICES ASSUME TypeOK, Judged, AllHeard, [Next]_vars, NEW k \in Job
             PROVE  Heard(k)'
  BY DEF AllHeard
<1>0. Heard(k) /\ JInv(k)
  BY DEF AllHeard, Judged
<1>1. CASE \E f \in Possible : Appear(f) \/ Vanish(f)
  BY <1>0, <1>1 DEF Appear, Vanish, Observe, Heard
<1>2. ASSUME NEW j \in Job, JobStepOf(j)
      PROVE  Heard(k)'
  <2>1. CASE k = j
    BY <1>0, <1>2, <2>1, HeardOwnStep
  <2>2. CASE k # j
    BY <1>0, <1>2, <2>2, OthersUntouched DEF Heard
  <2> QED
    BY <2>1, <2>2
<1>3. CASE UNCHANGED vars
  BY <1>0, <1>3 DEF vars, jobs, Heard
<1> QED
  BY <1>1, <1>2, <1>3, NextCases

(* Whatever the agent answers, a card is rejected exactly if its domain    *)
(* was not verified.                                                       *)
THEOREM NoSay == Spec => []AgentHasNoSay
<1>1. Init => AllHeard
  BY DEF Init, AllHeard, Heard
<1>2. AllHeard => AgentHasNoSay
  BY DEF AllHeard, Heard, AgentHasNoSay
<1> QED
  BY <1>1, <1>2, TypeCorrect, AlwaysJudged, HeardStep, PTL DEF Spec
=============================================================================
