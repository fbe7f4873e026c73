----------------------------- MODULE NodeStore -----------------------------
(***************************************************************************)
(* A node together with what it does to its CardRecordStore: build_swarm   *)
(* creates the store, handle_command and libp2p-kad put records into it,   *)
(* and it is dropped with the swarm when the event loop ends.  Node keeps  *)
(* of the store the cards alone; here its other parts are functions of     *)
(* them, and every step of the node is one of RecordStore.                 *)
(***************************************************************************)
EXTENDS Node

CONSTANTS
  Opens,     \* whether build_swarm may get a database: TRUE, FALSE or both
  NoSeq,     \* no sequence number
  NoWeight   \* no trust weight

ASSUME NodeStoreAssumption == Opens \subseteq BOOLEAN /\ NoSeq \notin 0..MaxSeq

VARIABLES
  up,        \* build_swarm has run
  db,        \* and opened the database of its data_dir
  outcome,   \* what the last put returned
  accepted   \* history: the cards ever stored at each key

history == <<up, db, outcome, accepted>>
storeVars == <<vars, history>>

NoCards == [k \in RecordKey |-> Absent]

StoreInit ==
  /\ Init
  /\ up = FALSE
  /\ db = FALSE
  /\ outcome = "none"
  /\ accepted = [k \in RecordKey |-> {}]

-----------------------------------------------------------------------------
(* A data_dir is configured or not, and its database can be opened or not; *)
(* it is empty.                                                            *)
build_swarm ==
  /\ ~up
  /\ up' = TRUE
  /\ db' \in Opens
  /\ UNCHANGED <<vars, outcome, accepted>>

(* What comes of a put, told from the store before it.                     *)
PutResult(key, value) ==
  IF PutOk(key, value) THEN "Ok" ELSE IF Full(key) THEN "MaxRecords" ELSE "ValueTooLarge"

Outcome(key, value) ==
  /\ outcome' = PutResult(key, value)
  /\ accepted' = IF records' = records THEN accepted
                 ELSE [accepted EXCEPT ![key] = @ \cup {value}]
  /\ UNCHANGED <<up, db>>

(* The put of a command.                                                   *)
Submit ==
  /\ handle_put
  /\ LET value == input(NextCall[1]).cards[NextCall[2]]
     IN  Outcome(compute_address(value.record.pubkey), value)

(* The put of a record a peer replicates to this node.                     *)
Replicate(rec) ==
  /\ InboundPut(rec)
  /\ Outcome(rec.key, rec.value)

StoreNext ==
  \/ build_swarm
  \/ up /\ NoPut /\ UNCHANGED history
  \/ up /\ Submit
  \/ up /\ \E rec \in Inbound : Replicate(rec)

StoreSpec == StoreInit /\ [][StoreNext]_storeVars /\ Fairness

-----------------------------------------------------------------------------
(* Properties                                                              *)

(* What the node puts: the cards of its requests, and what peers push.     *)
Submitted == UNION {{i.cards[n] : n \in 1..Len(i.cards)} : i \in {i \in Input : i.op # "fetch"}}

Put == {[key |-> compute_address(v.record.pubkey), value |-> v] : v \in Submitted \ {Malformed}}
         \cup Inbound

(* The store goes with the event loop, which owns the swarm.  Its database *)
(* holds what the maps do, and the weights of cards are kept elsewhere     *)
(* (trust_weight.rs).                                                      *)
Alive == up /\ running

NoWeights == [k \in RecordKey |-> NoWeight]

Contents == IF running THEN records ELSE NoCards

Seqs == [k \in RecordKey |-> IF Contents[k] = Absent THEN NoSeq ELSE SeqOf(Contents[k])]

Disk == [cards |-> IF db THEN records ELSE NoCards, weights |-> NoWeights]

Flushed == IF running THEN [cards |-> NoCards, weights |-> NoWeights] ELSE Disk

Store ==
  INSTANCE RecordStore WITH
    up <- Alive, db <- db /\ running,
    records <- Contents, seq_cache <- Seqs, weight_cache <- NoWeights,
    disk <- Disk, durable <- Flushed, faulty <- FALSE,
    outcome <- IF running THEN outcome ELSE "none",
    Weight <- {}, Incoming <- Put

(* The store of a running node is a RecordStore, whatever its handlers,    *)
(* its event loop and its peers do, with a database or without: so all     *)
(* that is shown of RecordStore is true of it.                             *)
ImplementsStore == Store!Spec
=============================================================================
