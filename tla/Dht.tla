-------------------------------- MODULE Dht --------------------------------
(***************************************************************************)
(* The network of nodes: how cards spread from the node they were          *)
(* published at to the others, and what a consumer gets who asks any of    *)
(* them.  Each node is reduced to what RecordStore is proved to be, a      *)
(* CardRegistry, which may fall back when it restarts.                     *)
(*                                                                         *)
(* Kademlia is external.  net holds every record that was ever sent: one   *)
(* that is received twice, late, out of order or never is one that is      *)
(* taken from net at another time, or never.  There are no more nodes than *)
(* the replication factor, so a record is sent to all of them, and no more *)
(* keys than a store has room for.  What build_swarm configures gives      *)
(* Kademlia a job that sends all records once an hour, except those whose  *)
(* key a message named since its last run: it takes it that whoever sent   *)
(* that message has served the others as well.                             *)
(***************************************************************************)
EXTENDS Card

CONSTANTS
  Node,         \* the nodes of the network
  Gateway,      \* the one a consumer asks; it is like any other
  NoPeer,       \* a record that names no publisher
  Absent,       \* no card
  Signed,       \* the cards the publishers sign
  Foreign,      \* the records that other peers of the network hold
  MaxCrashes    \* bound: how often nodes stop

ASSUME DhtAssumption ==
  /\ Gateway \in Node
  /\ NoPeer \notin Node
  /\ Absent \notin Value
  /\ Signed \subseteq SignedCard
  /\ Foreign \subseteq [key : RecordKey, value : Value]
  /\ \A rec \in Foreign : ~Validates(rec.key, rec.value)
  /\ MaxCrashes \in Nat

(* A publisher counts its cards: it signs no two of one number.            *)
ASSUME SignedAssumption ==
  \A c, d \in Signed :
    c.record.pubkey = d.record.pubkey /\ SeqOf(c) = SeqOf(d) => c = d

VARIABLES
  up,          \* the nodes that run
  reg,         \* the card each node has at each key
  via,         \* the node its record names as publisher
  accepted,    \* history: the cards each node ever accepted
  published,   \* history: the cards that were published at some node
  net,         \* the records that were sent
  skipped,     \* the keys each node's job leaves out of its next run
  sent,        \* the keys of the records it sent in its last run
  crashes,     \* how often a node stopped
  lookup       \* what a consumer asks a node for, and the answer

nodes == <<up, reg, via, accepted>>
job == <<skipped, sent>>
vars == <<nodes, published, net, job, crashes, lookup>>

(* The keys a node can have a card at. *)
Address == {compute_address(card.record.pubkey) : card \in Signed}

Message == [key : RecordKey, value : Value, publisher : Node \cup {NoPeer}]

Idle == [pc |-> "idle"]

Init ==
  /\ up = [n \in Node |-> FALSE]
  /\ reg = [n \in Node |-> [k \in RecordKey |-> Absent]]
  /\ via = [n \in Node |-> [k \in RecordKey |-> NoPeer]]
  /\ accepted = [n \in Node |-> [k \in RecordKey |-> {}]]
  /\ published = {}
  /\ net = {[key |-> rec.key, value |-> rec.value, publisher |-> NoPeer] : rec \in Foreign}
  /\ skipped = [n \in Node |-> {}]
  /\ sent = [n \in Node |-> {}]
  /\ crashes = 0
  /\ lookup = Idle

-----------------------------------------------------------------------------
(* A node starts with what its store loads, and stops.                     *)

(* What a node loads names no publisher. *)
build_swarm(n) ==
  /\ ~up[n]
  /\ up' = [up EXCEPT ![n] = TRUE]
  /\ \E loaded \in [RecordKey -> Signed \cup {Absent}] :
       /\ \A k \in RecordKey : loaded[k] \in accepted[n][k] \cup {Absent}
       /\ reg' = [reg EXCEPT ![n] = loaded]
  /\ UNCHANGED <<via, accepted, published, net, job, crashes, lookup>>

Stop(n) ==
  /\ up[n]
  /\ crashes < MaxCrashes
  /\ crashes' = crashes + 1
  /\ up' = [up EXCEPT ![n] = FALSE]
  /\ reg' = [reg EXCEPT ![n] = [k \in RecordKey |-> Absent]]
  /\ via' = [via EXCEPT ![n] = [k \in RecordKey |-> NoPeer]]
  /\ skipped' = [skipped EXCEPT ![n] = {}]
  /\ sent' = [sent EXCEPT ![n] = {}]
  /\ lookup' = IF n = Gateway THEN Idle ELSE lookup
  /\ UNCHANGED <<accepted, published, net>>

-----------------------------------------------------------------------------
(* Records spread.                                                         *)

(* Mutations: the first card stays; none is checked.                       *)
Newer_OnlyFirst(n, key, value) == reg[n][key] = Absent

Newer(n, key, value) == reg[n][key] # Absent => SeqOf(reg[n][key]) < SeqOf(value)

Storable_Unchecked(n, key, value) == value \in SignedCard /\ Newer(n, key, value)

Storable(n, key, value) == Validates(key, value) /\ Newer(n, key, value)

put(n, key, value, publisher) ==
  IF Storable(n, key, value)
  THEN /\ reg' = [reg EXCEPT ![n][key] = value]
       /\ via' = [via EXCEPT ![n][key] = publisher]
       /\ accepted' = [accepted EXCEPT ![n][key] = @ \cup {value}]
       /\ UNCHANGED up
  ELSE UNCHANGED nodes

(* PutRecord puts the card into the node's store, which also answers Ok    *)
(* when it keeps a newer one, and sends the card it was given to the       *)
(* others, with the node as publisher.                                     *)
PutRecord(n, card) ==
  LET key == compute_address(card.record.pubkey) IN
  /\ up[n]
  /\ verify_card(card)
  /\ put(n, key, card, NoPeer)
  /\ net' = net \cup {[key |-> key, value |-> card, publisher |-> n]}
  /\ published' = published \cup {card}
  /\ UNCHANGED <<job, crashes, lookup>>

Held(n, key) == [key |-> key, value |-> reg[n][key], publisher |-> via[n][key]]

(* A run of Kademlia's job: it sends what the store holds, for records     *)
(* have no time to live, but for the keys that are to be left out of it.   *)
Replicate(n) ==
  LET keys == {k \in RecordKey : reg[n][k] # Absent} \ skipped[n] IN
  /\ up[n]
  /\ net' = net \cup {Held(n, k) : k \in keys}
  /\ sent' = [sent EXCEPT ![n] = keys]
  /\ skipped' = [skipped EXCEPT ![n] = {}]
  /\ UNCHANGED <<nodes, published, crashes, lookup>>

(* Kademlia passes a record to the store unless the record names this very *)
(* node as its publisher, which is taken to know better.  Before the store *)
(* has seen it, new, old or not valid, its key is left out of the next run *)
(* of the job.                                                             *)
Receive(n, msg) ==
  /\ up[n]
  /\ msg.publisher # n
  /\ skipped' = [skipped EXCEPT ![n] = @ \cup {msg.key}]
  /\ put(n, msg.key, msg.value, msg.publisher)
  /\ UNCHANGED <<published, net, sent, crashes, lookup>>

-----------------------------------------------------------------------------
(* A consumer asks its node for a key.  The node answers from its store,   *)
(* or with the first record that comes back from another, whatever it is.  *)

GetRecord(key) ==
  /\ lookup = Idle
  /\ up[Gateway]
  /\ lookup' = [pc |-> IF reg[Gateway][key] # Absent THEN "done" ELSE "asked",
                key |-> key, value |-> reg[Gateway][key]]
  /\ UNCHANGED <<nodes, published, net, job, crashes>>

(* A peer answers; the answer is on its way. *)
PeerAnswers ==
  /\ lookup.pc = "asked"
  /\ \/ \E m \in Node \ {Gateway} :
          /\ up[m]
          /\ reg[m][lookup.key] # Absent
          /\ lookup' = [lookup EXCEPT !.pc = "found", !.value = reg[m][lookup.key]]
     \/ \E rec \in Foreign :
          /\ rec.key = lookup.key
          /\ lookup' = [lookup EXCEPT !.pc = "found", !.value = rec.value]
  /\ UNCHANGED <<nodes, published, net, job, crashes>>

FoundRecord ==
  /\ lookup.pc = "found"
  /\ lookup' = [lookup EXCEPT !.pc = "done"]
  /\ UNCHANGED <<nodes, published, net, job, crashes>>

GetEnded ==
  /\ lookup.pc = "asked"
  /\ lookup' = [lookup EXCEPT !.pc = "done"]
  /\ UNCHANGED <<nodes, published, net, job, crashes>>

(* The consumer has the answer and may ask again. *)
Taken ==
  /\ lookup.pc = "done"
  /\ lookup' = Idle
  /\ UNCHANGED <<nodes, published, net, job, crashes>>

(* Mutations: a revoked card is as good; the card is not checked.          *)
verify_fetched_card_Revoked(value, key) == Validates(key, value)

verify_fetched_card_Unchecked(value, key) ==
  value \in SignedCard /\ value.record.status # "revoked"

verify_fetched_card(value, key) ==
  /\ value \in SignedCard
  /\ verify_card(value)
  /\ verify_address(value, key)
  /\ value.record.status # "revoked"

Next ==
  \/ \E n \in Node : build_swarm(n) \/ Stop(n)
  \/ \E n \in Node, card \in Signed : PutRecord(n, card)
  \/ \E n \in Node : Replicate(n)
  \/ \E key \in RecordKey : GetRecord(key)
  \/ \E n \in Node, msg \in net : Receive(n, msg)
  \/ PeerAnswers
  \/ FoundRecord
  \/ GetEnded
  \/ Taken

(* A record of n's last run arrives at m.                                  *)
Gossip(n, m, key) ==
  /\ up[n]
  /\ key \in sent[n]
  /\ Held(n, key) \in net
  /\ Receive(m, Held(n, key))

(* A node that runs goes on running its job, what it sends in run after    *)
(* run arrives in the end, and a query ends.  That a run sends a given     *)
(* record is not assumed: see Converges.                                   *)
Fairness ==
  /\ \A n \in Node : WF_vars(Replicate(n))
  /\ \A n \in Node : \A m \in Node \ {n}, key \in Address : SF_vars(Gossip(n, m, key))
  /\ WF_vars(FoundRecord)
  /\ WF_vars(GetEnded)
  /\ WF_vars(Taken)

Spec == Init /\ [][Next]_vars

FairSpec == Spec /\ Fairness

-----------------------------------------------------------------------------
(* Properties                                                              *)

TypeOK ==
  /\ up \in [Node -> BOOLEAN]
  /\ reg \in [Node -> [RecordKey -> Signed \cup {Absent}]]
  /\ via \in [Node -> [RecordKey -> Node \cup {NoPeer}]]
  /\ accepted \in [Node -> [RecordKey -> SUBSET Signed]]
  /\ published \subseteq Signed
  /\ net \subseteq Message
  /\ skipped \in [Node -> SUBSET RecordKey]
  /\ sent \in [Node -> SUBSET RecordKey]
  /\ crashes \in 0..MaxCrashes
  /\ lookup \in {Idle} \cup [pc : {"asked", "found", "done"},
                             key : RecordKey, value : Value \cup {Absent}]

(* What the consumer takes for the card of the key. *)
Obtained == lookup.pc = "done" /\ verify_fetched_card(lookup.value, lookup.key)

(* Whatever other peers send or answer, and however often nodes fall back  *)
(* (record_store.rs:10-12, resolve.rs:6-8): a card that a node holds, may  *)
(* come back to or that a consumer obtains is one that its own publisher   *)
(* published at some node, under its own address.                          *)
OnlyPublished ==
  /\ \A n \in Node, key \in RecordKey :
       \A card \in accepted[n][key] :
         card \in published /\ key = compute_address(card.record.pubkey)
  /\ \A n \in Node, key \in RecordKey :
       reg[n][key] # Absent => reg[n][key] \in accepted[n][key]
  /\ Obtained =>
       /\ lookup.value \in published
       /\ lookup.key = compute_address(lookup.value.record.pubkey)

(* n is not behind m: it has a card at least as new as m's.  A node that   *)
(* lost a card it published itself is not given it back by those who have  *)
(* it from there.                                                          *)
CaughtUp(n, m, key) ==
  up[n] /\ up[m] /\ reg[m][key] # Absent /\ via[m][key] # n =>
    reg[n][key] # Absent /\ SeqOf(reg[n][key]) >= SeqOf(reg[m][key])

(* "Higher seq wins on conflict" (card.rs:19), across the network: when    *)
(* nodes stop stopping, a node that is not for ever kept from sending its  *)
(* card brings all others up to it, whatever they received before and in   *)
(* which order.  The premise is needed: Kademlia lets other senders of the *)
(* key, also of an older card, silence a node in every run.                *)
Converges ==
  \A n \in Node : \A m \in Node \ {n}, key \in Address :
    []<>(key \in sent[n]) => <>[]CaughtUp(m, n, key)

Revoked(card, by) ==
  by.record.status = "revoked" /\ SeqOf(by) >= SeqOf(card)

(* In the end no consumer obtains a card, old or new, that its own node or *)
(* a running node that is not silenced for ever knows to be revoked        *)
(* (resolve.rs:20), whatever the lookups under way then bring.             *)
RevocationPrevails ==
  \A m \in Node, key \in Address :
    m = Gateway \/ []<>(key \in sent[m]) =>
      <>[](Obtained /\ lookup.key = key /\ up[m] /\ reg[m][key] # Absent
             /\ via[m][key] # Gateway
           => ~Revoked(lookup.value, reg[m][key]))

(* "revoked status propagates" (run_tests.sh:13): the same of every node   *)
(* that runs, silenced or not.                                             *)
RevocationPropagates ==
  <>[](\A m \in Node :
         Obtained /\ up[m] /\ reg[m][lookup.key] # Absent
           => ~Revoked(lookup.value, reg[m][lookup.key]))
=============================================================================
