------------------------------ MODULE DhtProofs ------------------------------
(***************************************************************************)
(* Theorems about Dht, for all nodes, keys and cards and any number of     *)
(* crashes: what no order of messages can bring about.                     *)
(***************************************************************************)
EXTENDS Dht, TLAPS

(* A record under way that a node would store was published.               *)
Genuine == \A msg \in net : Validates(msg.key, msg.value) => msg.value \in published

(* So was what a node ever accepted, which is at its own address.          *)
Sound ==
  \A n \in Node, key \in RecordKey :
    \A card \in accepted[n][key] :
      card \in published /\ key = compute_address(card.record.pubkey)

(* A node holds what it accepted.                                          *)
Backed ==
  \A n \in Node, key \in RecordKey :
    reg[n][key] # Absent => reg[n][key] \in accepted[n][key]

(* An answer under way that a consumer would take was published.           *)
Answered ==
  lookup.pc # "idle" /\ Validates(lookup.key, lookup.value) => lookup.value \in published

IInv == TypeOK /\ Genuine /\ Sound /\ Backed /\ Answered

Lookup == {Idle} \cup [pc : {"asked", "found", "done"},
                       key : RecordKey, value : Value \cup {Absent}]

-----------------------------------------------------------------------------
LEMMA Cards ==
  /\ Signed \subseteq Value
  /\ Absent \notin Signed
  /\ \A key \in RecordKey : ~Validates(key, Absent)
  BY DhtAssumption DEF DhtAssumption, Value, Validates

LEMMA InitIInv == Init => IInv
<1> SUFFICES ASSUME Init
             PROVE  IInv
  OBVIOUS
<1>1. net \subseteq Message
  BY DhtAssumption DEF Init, DhtAssumption, Message
<1>2. Genuine
  BY DhtAssumption DEF Init, DhtAssumption, Genuine
<1>3. TypeOK
  BY <1>1, DhtAssumption DEF Init, TypeOK, DhtAssumption
<1>4. Sound /\ Backed /\ Answered
  BY DEF Init, Sound, Backed, Answered, Idle
<1> QED
  BY <1>2, <1>3, <1>4 DEF IInv

(* What put does to a node, if whatever validates was published.           *)
LEMMA PutStep ==
  ASSUME IInv, NEW n \in Node, NEW key \in RecordKey, NEW value,
         NEW publisher \in Node \cup {NoPeer}, put(n, key, value, publisher),
         published \subseteq published', published' \subseteq Signed,
         Validates(key, value) => value \in published'
  PROVE  /\ up' = up
         /\ reg' \in [Node -> [RecordKey -> Signed \cup {Absent}]]
         /\ via' \in [Node -> [RecordKey -> Node \cup {NoPeer}]]
         /\ accepted' \in [Node -> [RecordKey -> SUBSET Signed]]
         /\ Sound' /\ Backed'
<1> USE DEF IInv, TypeOK
<1>1. CASE ~Storable(n, key, value)
  <2>1. UNCHANGED nodes
    BY <1>1 DEF put
  <2> QED
    BY <2>1 DEF nodes, Sound, Backed
<1>2. CASE Storable(n, key, value)
  <2>1. /\ reg' = [reg EXCEPT ![n][key] = value]
        /\ via' = [via EXCEPT ![n][key] = publisher]
        /\ accepted' = [accepted EXCEPT ![n][key] = @ \cup {value}]
        /\ up' = up
    BY <1>2 DEF put
  <2>2. value \in Signed /\ value \in published' /\ key = compute_address(value.record.pubkey)
    BY <1>2 DEF Storable, Validates
  <2>3. reg' \in [Node -> [RecordKey -> Signed \cup {Absent}]]
    BY <2>1, <2>2
  <2>4. via' \in [Node -> [RecordKey -> Node \cup {NoPeer}]]
    BY <2>1
  <2>5. accepted' \in [Node -> [RecordKey -> SUBSET Signed]]
    BY <2>1, <2>2
  <2>6. Sound'
    <3> SUFFICES ASSUME NEW m \in Node, NEW k \in RecordKey, NEW card \in accepted'[m][k]
                 PROVE  card \in published' /\ k = compute_address(card.record.pubkey)
      BY DEF Sound
    <3>1. card \in accepted[m][k] \/ (card = value /\ k = key)
      BY <2>1
    <3> QED
      BY <2>2, <3>1 DEF Sound
  <2>7. Backed'
    BY <2>1 DEF Backed
  <2> QED
    BY <2>1, <2>3, <2>4, <2>5, <2>6, <2>7
<1> QED
  BY <1>1, <1>2

(* The invariant is kept by every step.                                    *)
LEMMA IInvStep ==
  ASSUME IInv, [Next]_vars
  PROVE  IInv'
<1> USE DEF IInv
<1>1. ASSUME NEW n \in Node, build_swarm(n)
      PROVE  IInv'
  <2>1. PICK loaded \in [RecordKey -> Signed \cup {Absent}] :
          /\ \A k \in RecordKey : loaded[k] \in accepted[n][k] \cup {Absent}
          /\ reg' = [reg EXCEPT ![n] = loaded]
    BY <1>1 DEF build_swarm
  <2>2. /\ up' = [up EXCEPT ![n] = TRUE]
        /\ UNCHANGED <<via, accepted, published, net, job, crashes, lookup>>
    BY <1>1 DEF build_swarm
  <2>3. TypeOK'
    BY <2>1, <2>2 DEF TypeOK, job
  <2>4. Backed'
    BY <2>1, <2>2 DEF Backed, TypeOK
  <2> QED
    BY <2>2, <2>3, <2>4 DEF Genuine, Sound, Answered
<1>2. ASSUME NEW n \in Node, Stop(n)
      PROVE  IInv'
  <2>1. /\ crashes' = crashes + 1
        /\ crashes < MaxCrashes
        /\ up' = [up EXCEPT ![n] = FALSE]
        /\ reg' = [reg EXCEPT ![n] = [k \in RecordKey |-> Absent]]
        /\ via' = [via EXCEPT ![n] = [k \in RecordKey |-> NoPeer]]
        /\ skipped' = [skipped EXCEPT ![n] = {}]
        /\ sent' = [sent EXCEPT ![n] = {}]
        /\ lookup' = Idle \/ lookup' = lookup
        /\ UNCHANGED <<accepted, published, net>>
    BY <1>2 DEF Stop
  <2>2. crashes' \in 0..MaxCrashes
    BY <2>1, DhtAssumption DEF TypeOK, DhtAssumption
  <2>3. TypeOK'
    BY <2>1, <2>2 DEF TypeOK
  <2>4. Backed'
    BY <2>1 DEF Backed, TypeOK
  <2>5. Answered'
    BY <2>1 DEF Answered, Idle
  <2> QED
    BY <2>1, <2>3, <2>4, <2>5 DEF Genuine, Sound
<1>3. ASSUME NEW n \in Node, NEW card \in Signed, PutRecord(n, card)
      PROVE  IInv'
  <2> DEFINE key == compute_address(card.record.pubkey)
             msg == [key |-> key, value |-> card, publisher |-> n]
  <2>1. /\ put(n, key, card, NoPeer)
        /\ net' = net \cup {msg}
        /\ published' = published \cup {card}
        /\ UNCHANGED <<job, crashes, lookup>>
    BY <1>3 DEF PutRecord
  <2>2. key \in RecordKey
    BY CardAssumption, DhtAssumption
    DEF CardAssumption, DhtAssumption, SignedCard, CardRecord, compute_address
  <2>3. msg \in Message
    BY <2>2, Cards DEF Message
  <2>4. published' \subseteq Signed /\ published \subseteq published' /\ card \in published'
    BY <2>1 DEF TypeOK
  <2>5. /\ up' = up
        /\ reg' \in [Node -> [RecordKey -> Signed \cup {Absent}]]
        /\ via' \in [Node -> [RecordKey -> Node \cup {NoPeer}]]
        /\ accepted' \in [Node -> [RecordKey -> SUBSET Signed]]
        /\ Sound' /\ Backed'
    <3> HIDE DEF key
    <3> QED
      BY <2>1, <2>2, <2>4, PutStep
  <2>6. TypeOK'
    BY <2>1, <2>3, <2>4, <2>5 DEF TypeOK, job
  <2>7. Genuine'
    BY <2>1, <2>4 DEF Genuine
  <2>8. Answered'
    BY <2>1, <2>4 DEF Answered
  <2> QED
    BY <2>5, <2>6, <2>7, <2>8
<1>4. ASSUME NEW n \in Node, Replicate(n)
      PROVE  IInv'
  <2> DEFINE keys == {k \in RecordKey : reg[n][k] # Absent} \ skipped[n]
  <2>1. /\ net' = net \cup {Held(n, k) : k \in keys}
        /\ sent' = [sent EXCEPT ![n] = keys]
        /\ skipped' = [skipped EXCEPT ![n] = {}]
        /\ UNCHANGED <<nodes, published, crashes, lookup>>
    BY <1>4 DEF Replicate
  <2>2. ASSUME NEW key \in keys
        PROVE  Held(n, key) \in Message /\ Held(n, key).value \in published
    <3>1. reg[n][key] \in Signed /\ via[n][key] \in Node \cup {NoPeer}
      BY <2>1 DEF TypeOK
    <3>2. reg[n][key] \in published
      BY <2>1 DEF Backed, Sound
    <3> QED
      BY <3>1, <3>2, Cards DEF Message, Held
  <2>3. TypeOK'
    BY <2>1, <2>2 DEF TypeOK, nodes
  <2>4. Genuine'
    BY <2>1, <2>2 DEF Genuine
  <2> QED
    BY <2>1, <2>3, <2>4 DEF nodes, Sound, Backed, Answered
<1>5. ASSUME NEW n \in Node, NEW msg \in net, Receive(n, msg)
      PROVE  IInv'
  <2>1. /\ put(n, msg.key, msg.value, msg.publisher)
        /\ skipped' = [skipped EXCEPT ![n] = @ \cup {msg.key}]
        /\ UNCHANGED <<published, net, sent, crashes, lookup>>
    BY <1>5 DEF Receive
  <2>2. msg.key \in RecordKey /\ msg.publisher \in Node \cup {NoPeer}
    BY DEF TypeOK, Message
  <2>3. Validates(msg.key, msg.value) => msg.value \in published'
    BY <2>1 DEF Genuine
  <2>4. /\ up' = up
        /\ reg' \in [Node -> [RecordKey -> Signed \cup {Absent}]]
        /\ via' \in [Node -> [RecordKey -> Node \cup {NoPeer}]]
        /\ accepted' \in [Node -> [RecordKey -> SUBSET Signed]]
        /\ Sound' /\ Backed'
    BY <2>1, <2>2, <2>3, PutStep DEF TypeOK
  <2>5. TypeOK'
    BY <2>1, <2>2, <2>4 DEF TypeOK
  <2> QED
    BY <2>1, <2>4, <2>5 DEF Genuine, Answered
<1>6. ASSUME lookup' \in Lookup, Answered', UNCHANGED <<nodes, published, net, job, crashes>>
      PROVE  IInv'
  <2>1. TypeOK'
    BY <1>6 DEF TypeOK, Lookup, nodes, job
  <2> QED
    BY <1>6, <2>1 DEF nodes, Genuine, Sound, Backed
<1>7. ASSUME NEW n \in Node, NEW key \in RecordKey, reg[n][key] # Absent
      PROVE  reg[n][key] \in Value /\ reg[n][key] \in published
  BY <1>7, Cards DEF TypeOK, Backed, Sound
<1>8. ASSUME NEW key \in RecordKey, GetRecord(key)
      PROVE  IInv'
  <2>1. /\ lookup' = [pc |-> IF reg[Gateway][key] # Absent THEN "done" ELSE "asked",
                      key |-> key, value |-> reg[Gateway][key]]
        /\ UNCHANGED <<nodes, published, net, job, crashes>>
    BY <1>8 DEF GetRecord
  <2>2. Gateway \in Node
    BY DhtAssumption DEF DhtAssumption
  <2>3. CASE reg[Gateway][key] # Absent
    <3>1. lookup' \in Lookup
      BY <1>7, <2>1, <2>2, <2>3 DEF Lookup
    <3>2. Answered'
      BY <1>7, <2>1, <2>2, <2>3 DEF Answered
    <3> QED
      BY <1>6, <2>1, <3>1, <3>2
  <2>4. CASE reg[Gateway][key] = Absent
    <3>1. lookup' \in Lookup
      BY <2>1, <2>4 DEF Lookup
    <3>2. Answered'
      BY <2>1, <2>4, Cards DEF Answered
    <3> QED
      BY <1>6, <2>1, <3>1, <3>2
  <2> QED
    BY <2>3, <2>4
<1>9. lookup \in Lookup
  BY DEF TypeOK, Lookup
<1>10. CASE PeerAnswers
  <2>1. lookup.pc = "asked" /\ UNCHANGED <<nodes, published, net, job, crashes>>
    BY <1>10 DEF PeerAnswers
  <2>2. lookup \in [pc : {"asked", "found", "done"}, key : RecordKey, value : Value \cup {Absent}]
    BY <1>9, <2>1 DEF Lookup, Idle
  <2>3. PICK value \in Value :
          /\ lookup' = [lookup EXCEPT !.pc = "found", !.value = value]
          /\ value \in published \/ ~Validates(lookup.key, value)
    <3>1. CASE \E m \in Node \ {Gateway} :
                 /\ reg[m][lookup.key] # Absent
                 /\ lookup' = [lookup EXCEPT !.pc = "found", !.value = reg[m][lookup.key]]
      BY <1>7, <2>2, <3>1
    <3>2. CASE \E rec \in Foreign :
                 /\ rec.key = lookup.key
                 /\ lookup' = [lookup EXCEPT !.pc = "found", !.value = rec.value]
      BY <3>2, DhtAssumption DEF DhtAssumption
    <3> QED
      BY <1>10, <3>1, <3>2 DEF PeerAnswers
  <2>4. lookup' \in Lookup
    BY <2>2, <2>3 DEF Lookup
  <2>5. Answered'
    BY <2>1, <2>2, <2>3 DEF Answered
  <2> QED
    BY <1>6, <2>1, <2>4, <2>5
<1>11. CASE FoundRecord \/ GetEnded
  <2>1. /\ lookup.pc \in {"asked", "found"}
        /\ lookup' = [lookup EXCEPT !.pc = "done"]
        /\ UNCHANGED <<nodes, published, net, job, crashes>>
    BY <1>11 DEF FoundRecord, GetEnded
  <2>2. lookup \in [pc : {"asked", "found", "done"}, key : RecordKey, value : Value \cup {Absent}]
    BY <1>9, <2>1 DEF Lookup, Idle
  <2>3. lookup' \in Lookup
    BY <2>1, <2>2 DEF Lookup
  <2>4. Answered'
    BY <2>1, <2>2 DEF Answered
  <2> QED
    BY <1>6, <2>1, <2>3, <2>4
<1>12. CASE Taken
  <2>1. lookup' = Idle /\ UNCHANGED <<nodes, published, net, job, crashes>>
    BY <1>12 DEF Taken
  <2>2. lookup' \in Lookup /\ Answered'
    BY <2>1 DEF Lookup, Answered, Idle
  <2> QED
    BY <1>6, <2>1, <2>2
<1>13. CASE UNCHANGED vars
  BY <1>13 DEF vars, nodes, job, TypeOK, Genuine, Sound, Backed, Answered
<1> QED
  BY <1>1, <1>2, <1>3, <1>4, <1>5, <1>8, <1>10, <1>11, <1>12, <1>13 DEF Next

LEMMA InvariantHolds == Spec => []IInv
  BY InitIInv, IInvStep, PTL DEF Spec

(* Every variable keeps its type: a node holds no card but a signed one.   *)
THEOREM TypeCorrect == Spec => []TypeOK
<1>1. IInv => TypeOK
  BY DEF IInv
<1> QED
  BY <1>1, InvariantHolds, PTL

(* No order, repetition or loss of records and no crash puts a card into a *)
(* node, or into the hands of a consumer, that was not published under its *)
(* own address.                                                            *)
THEOREM NothingInvented == Spec => []OnlyPublished
<1>1. IInv => OnlyPublished
  <2> SUFFICES ASSUME IInv
               PROVE  OnlyPublished
    OBVIOUS
  <2>1. ASSUME Obtained
        PROVE  /\ lookup.value \in published
               /\ lookup.key = compute_address(lookup.value.record.pubkey)
    <3>1. /\ lookup.pc = "done"
          /\ lookup.value \in SignedCard
          /\ verify_card(lookup.value)
          /\ lookup.key = compute_address(lookup.value.record.pubkey)
      BY <2>1 DEF Obtained, verify_fetched_card, verify_address
    <3>2. Validates(lookup.key, lookup.value)
      BY <3>1 DEF Validates, verify_address
    <3> QED
      BY <3>1, <3>2 DEF IInv, Answered
  <2>2. Sound /\ Backed
    BY DEF IInv
  <2> QED
    BY <2>1, <2>2 DEF OnlyPublished, Sound, Backed
<1> QED
  BY <1>1, InvariantHolds, PTL
=============================================================================
