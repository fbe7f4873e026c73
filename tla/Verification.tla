---------------------------- MODULE Verification ----------------------------
(***************************************************************************)
(* Judging a card against the world: stage 1 (run_stage1), the agent and   *)
(* the admission decision (VerificationPipeline), and the consumer that    *)
(* checks a card it fetched.  Each of them is a job of several requests    *)
(* over the network, and between two of them the world may change: proofs  *)
(* appear and vanish, hosts fail, manifests are replaced.                  *)
(*                                                                         *)
(* The world is a set of facts, what the name servers and hosts answer at  *)
(* the moment.  A request that fails or times out meets a world without    *)
(* the fact.  Hashes are injective and a token determines the key, domain  *)
(* and nonce it was made from: verify_card has checked the key's length.   *)
(***************************************************************************)
EXTENDS Card, Integers

CONSTANTS
  Job,         \* verifications and resolutions, each run once
  Input,       \* what each job may be asked
  Nonce,       \* nonces of challenges
  Endpoint,    \* endpoint strings of cards
  Https,       \* those that are https URLs without userinfo
  Content,     \* the bytes a host may answer with
  HashOf,      \* BLAKE3 over contents
  Parsed,      \* the hardened manifest in the bytes, or NoManifest
  NoManifest,  \* not JSON, or no tools
  Label,       \* labels of cards
  Harden,      \* the hardened label, or BadLabel
  BadLabel,    \* too long, empty or of several lines
  NoLabel,     \* a card without a label
  Possible,    \* the facts that may come to hold
  Reply,       \* what the agent may answer
  Unusable,    \* an answer or error that is no assessment
  One,         \* the score 1.0
  Rejected,    \* the decision not to admit
  Nothing      \* no value yet

Assessment == Reply \ {Unusable}

Token == [pubkey : PubKey, domain : Domain, nonce : Nonce]

Fact ==
  [place : {"txt", "wellknown"}, host : Domain, says : Token]
    \cup [place : {"site"}, host : Endpoint, says : [success : BOOLEAN, bytes : Content]]

(* What a job may be asked: run_stage1 and verify, verify_simple, or what  *)
(* a consumer does with a card it got for an address.                      *)
Asked ==
  [op : {"stage1"}, card : SignedCard, nonce : Nonce]
    \cup [op : {"simple"}, domain_verified : BOOLEAN]
    \cup [op : {"resolve"}, card : SignedCard, address : RecordKey]

ASSUME VerificationAssumption ==
  /\ \A j \in Job : Input[j] \subseteq Asked
  /\ Body \subseteq [endpoint : Endpoint, manifest_hash : {HashOf[b] : b \in Content},
                     label : Label \cup {NoLabel}]
  /\ \A b, c \in Content : HashOf[b] = HashOf[c] => b = c
  /\ Https \subseteq Endpoint
  /\ Possible \subseteq Fact
  /\ Reply \subseteq [copy_found : BOOLEAN, correspondence_score : Int] \cup {Unusable}
  /\ One \in Nat
  /\ Rejected \notin Int

VARIABLES
  world,     \* the facts that hold
  pc,        \* how far each job is
  input,     \* what it was asked
  step,      \* the step stage 1 rejected it at
  manifest,  \* the manifest of Stage1Facts, or the bytes the consumer got
  decision,  \* the reputation weight in halves of One, or Rejected
  seen,      \* history: the facts that held at a moment since stage 1 began
  held       \* history: the facts that held at every moment since

jobs == <<pc, input, step, manifest, decision, seen, held>>
vars == <<world, jobs>>

Init ==
  /\ world = {}
  /\ pc = [j \in Job |-> "idle"]
  /\ input = [j \in Job |-> Nothing]
  /\ step = [j \in Job |-> Nothing]
  /\ manifest = [j \in Job |-> Nothing]
  /\ decision = [j \in Job |-> Nothing]
  /\ seen = [j \in Job |-> {}]
  /\ held = [j \in Job |-> {}]

-----------------------------------------------------------------------------
(* The world                                                               *)

Stage1Labels == {"structure", "dns", "wellknown", "endpoint", "manifest", "label"}

Observe ==
  /\ seen' = [j \in Job |-> IF pc[j] \in Stage1Labels THEN seen[j] \cup world' ELSE seen[j]]
  /\ held' = [j \in Job |-> IF pc[j] \in Stage1Labels THEN held[j] \cap world' ELSE held[j]]
  /\ UNCHANGED <<pc, input, step, manifest, decision>>

(* A host answers one thing at a time; a name may have several records. *)
Appear(f) ==
  /\ f \notin world
  /\ f.place # "txt" => \A g \in world : <<g.place, g.host>> # <<f.place, f.host>>
  /\ world' = world \cup {f}
  /\ Observe

Vanish(f) ==
  /\ f \in world
  /\ world' = world \ {f}
  /\ Observe

-----------------------------------------------------------------------------
(* Stage 1                                                                 *)

record(j) == input[j].card.record
body(j) == record(j).body

At(j, label) == pc[j] = label /\ UNCHANGED <<world, input, seen, held>>

Goto(j, label) == pc' = [pc EXCEPT ![j] = label] /\ UNCHANGED step

Reject(j, name) ==
  /\ pc' = [pc EXCEPT ![j] = "rejected"]
  /\ step' = [step EXCEPT ![j] = name]

Begin(j, i) ==
  /\ pc[j] = "idle"
  /\ pc' = [pc EXCEPT ![j] = CASE i.op = "stage1" -> "structure"
                               [] i.op = "simple" -> "assess"
                               [] i.op = "resolve" -> "check"]
  /\ input' = [input EXCEPT ![j] = i]
  /\ seen' = [seen EXCEPT ![j] = IF i.op = "stage1" THEN world ELSE {}]
  /\ held' = [held EXCEPT ![j] = IF i.op = "stage1" THEN world ELSE {}]
  /\ UNCHANGED <<world, step, manifest, decision>>

StructurallyValid(card) ==
  verify_card(card) /\ verify_address(card, compute_address(card.record.pubkey))

structural_validity(j) ==
  /\ At(j, "structure")
  /\ \/ StructurallyValid(input[j].card) /\ Goto(j, "dns")
     \/ ~StructurallyValid(input[j].card) /\ Reject(j, "structural_validity")
  /\ UNCHANGED <<manifest, decision>>

reconstruct_challenge(pubkey, domain, nonce) ==
  [pubkey |-> pubkey, domain |-> domain, nonce |-> nonce]

challenge(j) == reconstruct_challenge(record(j).pubkey, record(j).domain, input[j].nonce)

Answers(place, host, says) == [place |-> place, host |-> host, says |-> says] \in world

(* Mutation: a failed look-up is the end. *)
verify_domain_dns_Only(j) ==
  /\ At(j, "dns")
  /\ \/ Answers("txt", record(j).domain, challenge(j)) /\ Goto(j, "endpoint")
     \/ ~Answers("txt", record(j).domain, challenge(j)) /\ Reject(j, "domain_ownership")
  /\ UNCHANGED <<manifest, decision>>

verify_domain_dns(j) ==
  /\ At(j, "dns")
  /\ \/ Answers("txt", record(j).domain, challenge(j)) /\ Goto(j, "endpoint")
     \/ ~Answers("txt", record(j).domain, challenge(j)) /\ Goto(j, "wellknown")
  /\ UNCHANGED <<manifest, decision>>

verify_domain_wellknown(j) ==
  /\ At(j, "wellknown")
  /\ \/ Answers("wellknown", record(j).domain, challenge(j)) /\ Goto(j, "endpoint")
     \/ ~Answers("wellknown", record(j).domain, challenge(j)) /\ Reject(j, "domain_ownership")
  /\ UNCHANGED <<manifest, decision>>

validate_endpoint(j) ==
  /\ At(j, "endpoint")
  /\ \/ body(j).endpoint \in Https /\ Goto(j, "manifest")
     \/ body(j).endpoint \notin Https /\ Reject(j, "endpoint_validation")
  /\ UNCHANGED <<manifest, decision>>

(* Mutation: the hash is not checked. *)
Acceptable_AnyHash(j, answer) ==
  /\ answer.success
  /\ Parsed[answer.bytes] # NoManifest

Acceptable(j, answer) ==
  /\ answer.success
  /\ HashOf[answer.bytes] = body(j).manifest_hash
  /\ Parsed[answer.bytes] # NoManifest

Answer == [success : BOOLEAN, bytes : Content]

fetch_and_validate_manifest(j) ==
  /\ At(j, "manifest")
  /\ \/ \E a \in Answer :
          /\ Answers("site", body(j).endpoint, a)
          /\ Acceptable(j, a)
          /\ manifest' = [manifest EXCEPT ![j] = Parsed[a.bytes]]
          /\ Goto(j, "label")
     \/ /\ ~\E a \in Answer : Answers("site", body(j).endpoint, a) /\ Acceptable(j, a)
        /\ Reject(j, "manifest_validation")
        /\ UNCHANGED manifest
  /\ UNCHANGED decision

LabelFine(label) == label = NoLabel \/ Harden[label] # BadLabel

harden_label(j) ==
  /\ At(j, "label")
  /\ \/ LabelFine(body(j).label) /\ Goto(j, "passed")
     \/ ~LabelFine(body(j).label) /\ Reject(j, "label_hardening")
  /\ UNCHANGED <<manifest, decision>>

-----------------------------------------------------------------------------
(* Stage 2                                                                 *)

Clamp(x) == IF x < 0 THEN 0 ELSE IF x > One THEN One ELSE x

(* Mutation: a score of nothing is a reason to reject. *)
compute_admit_decision_Veto(domain_verified, reply) ==
  IF ~domain_verified \/ Clamp(reply.correspondence_score) = 0 THEN Rejected
  ELSE (IF reply.copy_found THEN 1 ELSE 2) * Clamp(reply.correspondence_score)

(* Mutation: the score is taken as it is. *)
compute_admit_decision_Raw(domain_verified, reply) ==
  IF ~domain_verified THEN Rejected
  ELSE (IF reply.copy_found THEN 1 ELSE 2) * reply.correspondence_score

compute_admit_decision(domain_verified, reply) ==
  IF ~domain_verified THEN Rejected
  ELSE (IF reply.copy_found THEN 1 ELSE 2) * Clamp(reply.correspondence_score)

(* What stage 1 established, or what the caller of verify_simple says. *)
domain_verified(j) == IF input[j].op = "stage1" THEN TRUE ELSE input[j].domain_verified

(* verify is called with the facts of a card that passed. *)
verify(j) == At(j, "passed") /\ Goto(j, "assess") /\ UNCHANGED <<manifest, decision>>

assess(j) ==
  /\ At(j, "assess")
  /\ \/ \E reply \in Assessment :
          /\ decision' = [decision EXCEPT ![j] = compute_admit_decision(domain_verified(j), reply)]
          /\ Goto(j, "decided")
     \/ /\ Unusable \in Reply
        /\ Goto(j, "failed")
        /\ UNCHANGED decision
  /\ UNCHANGED manifest

-----------------------------------------------------------------------------
(* The consumer                                                            *)

Usable(card, address) ==
  /\ verify_card(card)
  /\ verify_address(card, address)
  /\ card.record.status # "revoked"

verify_fetched_card(j) ==
  /\ At(j, "check")
  /\ \/ Usable(input[j].card, input[j].address) /\ Goto(j, "fetch")
     \/ ~Usable(input[j].card, input[j].address) /\ Goto(j, "failed")
  /\ UNCHANGED <<manifest, decision>>

(* Mutation: any bytes will do. *)
verify_manifest_Any(bytes, expected_hash) == TRUE

verify_manifest(bytes, expected_hash) == HashOf[bytes] = expected_hash

(* Neither the scheme of the endpoint nor the status of the answer counts. *)
fetch_and_verify_manifest(j) ==
  /\ At(j, "fetch")
  /\ \/ \E a \in Answer :
          /\ Answers("site", body(j).endpoint, a)
          /\ verify_manifest(a.bytes, body(j).manifest_hash)
          /\ manifest' = [manifest EXCEPT ![j] = a.bytes]
          /\ Goto(j, "accepted")
     \/ /\ ~\E a \in Answer : /\ Answers("site", body(j).endpoint, a)
                              /\ verify_manifest(a.bytes, body(j).manifest_hash)
        /\ Goto(j, "failed")
        /\ UNCHANGED manifest
  /\ UNCHANGED decision

Next ==
  \/ \E f \in Possible : Appear(f)
  \/ \E f \in Possible : Vanish(f)
  \/ \E j \in Job : \E i \in Input[j] : Begin(j, i)
  \/ \E j \in Job : structural_validity(j)
  \/ \E j \in Job : verify_domain_dns(j)
  \/ \E j \in Job : verify_domain_wellknown(j)
  \/ \E j \in Job : validate_endpoint(j)
  \/ \E j \in Job : fetch_and_validate_manifest(j)
  \/ \E j \in Job : harden_label(j)
  \/ \E j \in Job : verify(j)
  \/ \E j \in Job : assess(j)
  \/ \E j \in Job : verify_fetched_card(j)
  \/ \E j \in Job : fetch_and_verify_manifest(j)

Spec == Init /\ [][Next]_vars

-----------------------------------------------------------------------------
(* Properties                                                              *)

Labels == Stage1Labels \cup {"idle", "passed", "rejected", "assess", "decided", "failed",
                             "check", "fetch", "accepted"}

Steps == {"structural_validity", "domain_ownership", "endpoint_validation",
          "manifest_validation", "label_hardening"}

(* Every variable keeps its type; in particular every reputation weight    *)
(* lies between 0.0 and 1.0 whatever score the agent returns.              *)
TypeOK ==
  /\ world \subseteq Fact
  /\ pc \in [Job -> Labels]
  /\ input \in [Job -> Asked \cup {Nothing}]
  /\ step \in [Job -> Steps \cup {Nothing}]
  /\ manifest \in [Job -> Content \cup {Parsed[b] : b \in Content} \cup {Nothing}]
  /\ decision \in [Job -> 0..(2 * One) \cup {Rejected, Nothing}]
  /\ seen \in [Job -> SUBSET Fact]
  /\ held \in [Job -> SUBSET Fact]

(* What a card is judged by, if these facts are all there is.              *)
Proof(j, facts) ==
  \E f \in facts :
    /\ f.place \in {"txt", "wellknown"}
    /\ f.host = record(j).domain
    /\ f.says = [pubkey |-> record(j).pubkey, domain |-> record(j).domain, nonce |-> input[j].nonce]

Manifests(j, facts) ==
  {Parsed[b] : b \in {c \in Content :
     /\ [place |-> "site", host |-> body(j).endpoint,
         says |-> [success |-> TRUE, bytes |-> c]] \in facts
     /\ HashOf[c] = body(j).manifest_hash
     /\ Parsed[c] # NoManifest}}

Deserved(j, facts) ==
  /\ StructurallyValid(input[j].card)
  /\ Proof(j, facts)
  /\ body(j).endpoint \in Https
  /\ Manifests(j, facts) # {}
  /\ LabelFine(body(j).label)

Stage1Passed(j) ==
  pc[j] # "idle" /\ input[j].op = "stage1" /\ pc[j] \in {"passed", "assess", "decided", "failed"}

(* Sound: a card passes only on what the world showed while it was judged: *)
(* a proof for its own key, domain and nonce at its own domain, and at its *)
(* own endpoint the very manifest that is handed on (stage1.rs:53-141).    *)
PassedIsDeserved ==
  \A j \in Job : Stage1Passed(j) =>
    Deserved(j, seen[j]) /\ manifest[j] \in Manifests(j, seen[j])

(* Complete: a card whose proof, by either method, and manifest were there *)
(* all along is never rejected, whatever else failed or changed meanwhile; *)
(* and the step named in a rejection is one that could fail.               *)
RejectedIsNotDeserved ==
  \A j \in Job : pc[j] = "rejected" =>
    /\ ~Deserved(j, held[j])
    /\ step[j] = "structural_validity" => ~StructurallyValid(input[j].card)
    /\ step[j] = "domain_ownership" => ~Proof(j, held[j])
    /\ step[j] \notin {"structural_validity", "domain_ownership"} => Proof(j, seen[j])
    /\ step[j] = "endpoint_validation" => body(j).endpoint \notin Https
    /\ step[j] = "manifest_validation" => Manifests(j, held[j]) = {}
    /\ step[j] = "label_hardening" => ~LabelFine(body(j).label)

(* The manifest a consumer accepts for a card is the one its stage 1 saw,  *)
(* however often the site changed in between (resolve.rs:53, stage1.rs:167)*)
ManifestAgreed ==
  \A i, j \in Job :
    /\ Stage1Passed(i)
    /\ pc[j] = "accepted"
    /\ body(i).manifest_hash = body(j).manifest_hash
    => manifest[i] = Parsed[manifest[j]]

(* The agent neither admits nor rejects: a card is rejected exactly if its *)
(* domain was not verified (verdict.rs:41-46).                             *)
AgentHasNoSay ==
  \A j \in Job : pc[j] = "decided" =>
    (decision[j] = Rejected <=> input[j].op = "simple" /\ ~input[j].domain_verified)
=============================================================================
