---------------------------- MODULE RecordStore ----------------------------
(***************************************************************************)
(* A node's CardRecordStore: three in-memory maps, written through to a    *)
(* sled database when one could be opened, and reloaded from it when the   *)
(* process starts again.                                                   *)
(*                                                                         *)
(* disk is what the database answers now, durable what it would answer     *)
(* after a crash: sled buffers its log and flushes it from time to time    *)
(* and when it is dropped.  Both hold the card tree and the "weights" tree *)
(* of the one log, so a crash cuts both at the same point.                 *)
(***************************************************************************)
EXTENDS Card

CONSTANTS
  Weight,       \* trust weights
  Incoming,     \* the records put receives, from the node itself and its peers
  MaxRecords,   \* capacity
  Absent,       \* no card
  NoSeq,        \* no sequence number
  NoWeight      \* no trust weight

Record == [key : RecordKey, value : Value]

ASSUME StoreAssumption ==
  /\ Incoming \subseteq Record
  /\ MaxRecords \in Nat
  /\ Absent \notin Value
  /\ NoSeq \notin 0..MaxSeq
  /\ NoWeight \notin Weight

VARIABLES
  up,             \* the process runs and holds a store
  db,             \* self.db is Some
  records,        \* the card stored at each key
  seq_cache,      \* its sequence number, kept apart
  weight_cache,   \* the trust weight of each key
  disk,           \* the database as it reads now
  durable,        \* the database as a crash would leave it
  faulty,         \* its reads and writes may fail from now on
  outcome,        \* what the last call of put returned
  accepted        \* history: the cards ever stored at each key

memory == <<records, seq_cache, weight_cache>>
vars == <<up, db, memory, disk, durable, faulty, outcome, accepted>>

NoCards == [k \in RecordKey |-> Absent]
NoSeqs == [k \in RecordKey |-> NoSeq]
NoWeights == [k \in RecordKey |-> NoWeight]
EmptyDisk == [cards |-> NoCards, weights |-> NoWeights]

(* The keys at which a map of cards holds one. *)
Stored(cards) == {k \in RecordKey : cards[k] # Absent}

Init ==
  /\ up = FALSE
  /\ db = FALSE
  /\ records = NoCards
  /\ seq_cache = NoSeqs
  /\ weight_cache = NoWeights
  /\ disk = EmptyDisk
  /\ durable = EmptyDisk
  /\ faulty = FALSE
  /\ outcome = "none"
  /\ accepted = [k \in RecordKey |-> {}]

-----------------------------------------------------------------------------
(* Starting up.  A database that cannot be opened is no error: the store   *)
(* runs in memory only.  Loading keeps the entries that can be read and    *)
(* validate; it does not look at the capacity.                             *)

Readable(keys) == faulty \/ keys = RecordKey

Loaded(cards, keys) ==
  [k \in RecordKey |->
     IF k \in keys /\ Validates(k, cards[k]) THEN cards[k] ELSE Absent]

LoadedWeights(weights, keys) ==
  [k \in RecordKey |-> IF k \in keys THEN weights[k] ELSE NoWeight]

(* Mutation: only the records are rebuilt. *)
load_from_disk_NoSeqs ==
  /\ records' = Loaded(disk.cards, RecordKey)
  /\ weight_cache' = LoadedWeights(disk.weights, RecordKey)
  /\ UNCHANGED seq_cache

load_from_disk ==
  \E keys, weightKeys \in SUBSET RecordKey :
    /\ Readable(keys)
    /\ Readable(weightKeys)
    /\ records' = Loaded(disk.cards, keys)
    /\ seq_cache' = [k \in RecordKey |->
                       IF records'[k] = Absent THEN NoSeq ELSE SeqOf(records'[k])]
    /\ weight_cache' = LoadedWeights(disk.weights, weightKeys)

with_persistence ==
  /\ ~up
  /\ up' = TRUE
  /\ db' = TRUE
  /\ load_from_disk
  /\ UNCHANGED <<disk, durable, faulty, outcome, accepted>>

(* CardRecordStore::new, and with_persistence when sled::open fails. *)
in_memory ==
  /\ ~up
  /\ up' = TRUE
  /\ db' = FALSE
  /\ UNCHANGED <<memory, disk, durable, faulty, outcome, accepted>>

-----------------------------------------------------------------------------
(* Writing through.  The result of a write is dropped, so one that fails   *)
(* leaves the map changed and the database as it was.                      *)

WriteThrough(written) ==
  \/ db /\ disk' = written
  \/ (~db \/ faulty) /\ disk' = disk

persist(key, value) == WriteThrough([disk EXCEPT !.cards[key] = value])

(* Mutation: a removed card stays in the database. *)
unpersist_Not(key) == disk' = disk

unpersist(key) == WriteThrough([disk EXCEPT !.cards[key] = Absent])

-----------------------------------------------------------------------------
(* put, by what it answers.                                                *)

(* Mutation: one record more than there is room for. *)
Full_OneMore(key) == records[key] = Absent /\ Cardinality(Stored(records)) > MaxRecords

Full(key) == records[key] = Absent /\ Cardinality(Stored(records)) >= MaxRecords

(* Mutation: the comparison is turned round. *)
Newer_Reversed(rec) == seq_cache[rec.key] # NoSeq => SeqOf(rec.value) < seq_cache[rec.key]

Newer(rec) == seq_cache[rec.key] # NoSeq => seq_cache[rec.key] < SeqOf(rec.value)

Refused(rec) ==
  /\ Full(rec.key) \/ ~Validates(rec.key, rec.value)
  /\ outcome' = IF Full(rec.key) THEN "MaxRecords" ELSE "ValueTooLarge"
  /\ UNCHANGED <<memory, disk, accepted>>

Ignored(rec) ==
  /\ ~Full(rec.key)
  /\ Validates(rec.key, rec.value)
  /\ ~Newer(rec)
  /\ outcome' = "Ok"
  /\ UNCHANGED <<memory, disk, accepted>>

(* Mutation: the record is not validated. *)
Kept_Unchecked(rec) ==
  /\ ~Full(rec.key) /\ rec.value \in SignedCard /\ Newer(rec)
  /\ outcome' = "Ok"
  /\ seq_cache' = [seq_cache EXCEPT ![rec.key] = SeqOf(rec.value)]
  /\ persist(rec.key, rec.value)
  /\ records' = [records EXCEPT ![rec.key] = rec.value]
  /\ accepted' = [accepted EXCEPT ![rec.key] = @ \cup {rec.value}]
  /\ UNCHANGED weight_cache

Kept(rec) ==
  /\ ~Full(rec.key)
  /\ Validates(rec.key, rec.value)
  /\ Newer(rec)
  /\ outcome' = "Ok"
  /\ seq_cache' = [seq_cache EXCEPT ![rec.key] = SeqOf(rec.value)]
  /\ persist(rec.key, rec.value)
  /\ records' = [records EXCEPT ![rec.key] = rec.value]
  /\ accepted' = [accepted EXCEPT ![rec.key] = @ \cup {rec.value}]
  /\ UNCHANGED weight_cache

put(rec) ==
  /\ up
  /\ Refused(rec) \/ Ignored(rec) \/ Kept(rec)
  /\ UNCHANGED <<up, db, durable, faulty>>

-----------------------------------------------------------------------------
(* The other operations.                                                   *)

(* Mutation: the sequence number of a removed card is remembered. *)
remove_KeepsSeq(key) ==
  /\ up
  /\ records' = [records EXCEPT ![key] = Absent]
  /\ unpersist(key)
  /\ outcome' = "none"
  /\ UNCHANGED <<up, db, seq_cache, weight_cache, durable, faulty, accepted>>

(* The trust weight of the key is not removed with its card. *)
remove(key) ==
  /\ up
  /\ records' = [records EXCEPT ![key] = Absent]
  /\ seq_cache' = [seq_cache EXCEPT ![key] = NoSeq]
  /\ unpersist(key)
  /\ outcome' = "none"
  /\ UNCHANGED <<up, db, weight_cache, durable, faulty, accepted>>

set_trust_weight(key, w) ==
  /\ up
  /\ weight_cache' = [weight_cache EXCEPT ![key] = w]
  /\ WriteThrough([disk EXCEPT !.weights[key] = w])
  /\ outcome' = "none"
  /\ UNCHANGED <<up, db, records, seq_cache, durable, faulty, accepted>>

-----------------------------------------------------------------------------
(* What happens to the process and its database.                           *)

(* sled flushes its log. *)
Flush ==
  /\ up /\ db
  /\ disk # durable
  /\ durable' = disk
  /\ UNCHANGED <<up, db, memory, disk, faulty, outcome, accepted>>

Lost ==
  /\ up
  /\ up' = FALSE
  /\ db' = FALSE
  /\ records' = NoCards
  /\ seq_cache' = NoSeqs
  /\ weight_cache' = NoWeights
  /\ outcome' = "none"
  /\ UNCHANGED <<faulty, accepted>>

(* An orderly stop drops the store and with it the database, flushed. *)
Stop ==
  /\ Lost
  /\ durable' = disk
  /\ UNCHANGED disk

Crash ==
  /\ Lost
  /\ disk' = durable
  /\ UNCHANGED durable

(* From now on reads and writes may fail, each for itself. *)
DiskFails ==
  /\ ~faulty
  /\ faulty' = TRUE
  /\ UNCHANGED <<up, db, memory, disk, durable, outcome, accepted>>

Next ==
  \/ with_persistence
  \/ in_memory
  \/ \E rec \in Incoming : put(rec)
  \/ \E key \in RecordKey : remove(key)
  \/ \E key \in RecordKey, w \in Weight : set_trust_weight(key, w)
  \/ Flush
  \/ Stop
  \/ Crash
  \/ DiskFails

Spec == Init /\ [][Next]_vars

-----------------------------------------------------------------------------
(* Properties                                                              *)

CardMap == [RecordKey -> Value \cup {Absent}]
WeightMap == [RecordKey -> Weight \cup {NoWeight}]
Database == [cards : CardMap, weights : WeightMap]

(* A process that is not running has no database open and holds nothing.   *)
DownIsEmpty ==
  ~up => ~db /\ records = NoCards /\ seq_cache = NoSeqs /\ weight_cache = NoWeights

(* Every variable keeps its type; a store that is not up holds nothing, so *)
(* that in_memory and the reload both start from empty maps                *)
(* (record_store.rs:40-68).                                                *)
TypeOK ==
  /\ up \in BOOLEAN
  /\ db \in BOOLEAN
  /\ records \in CardMap
  /\ seq_cache \in [RecordKey -> 0..MaxSeq \cup {NoSeq}]
  /\ weight_cache \in WeightMap
  /\ disk \in Database
  /\ durable \in Database
  /\ faulty \in BOOLEAN
  /\ outcome \in {"none", "Ok", "MaxRecords", "ValueTooLarge"}
  /\ accepted \in [RecordKey -> SUBSET Value]
  /\ DownIsEmpty

(* The sequence cache that put consults (record_store.rs:146) describes    *)
(* the cards that are stored, through put, remove and reload alike: a key  *)
(* has a cached number exactly when it has a card, and it is that card's.  *)
(* An entry left behind would shut the key to lower numbers for ever.      *)
CacheMatchesRecords ==
  \A k \in RecordKey :
    seq_cache[k] = IF records[k] = Absent THEN NoSeq ELSE SeqOf(records[k])

(* Whatever is served or would be reloaded was signed by the key whose     *)
(* hash is its address (record_store.rs:10-12).                            *)
OwnedBy(cards) == \A k \in Stored(cards) : Validates(k, cards[k])

StoredCardsBelong == OwnedBy(records) /\ OwnedBy(disk.cards) /\ OwnedBy(durable.cards)

(* The capacity checked by put (record_store.rs:140) also bounds what      *)
(* load_from_disk brings back, which does not check it: as long as the     *)
(* database does what it is asked, no restart grows the store past it.     *)
Fits(cards) == Cardinality(Stored(cards)) <= MaxRecords

CapacityRespected ==
  ~faulty => Fits(records) /\ Fits(disk.cards) /\ Fits(durable.cards)

(* With a database that does what it is asked, the maps and the database   *)
(* hold the same cards and weights whenever the store is up, so that an    *)
(* orderly restart changes nothing a reader can see.                       *)
DiskMirrorsMemory ==
  up /\ db /\ ~faulty => disk = [cards |-> records, weights |-> weight_cache]

(* A put that answers Ok leaves a card at its key that is at least as new  *)
(* as the one it was given, whether it stored it or kept what it had       *)
(* (record_store.rs:146-150).                                              *)
OkMeansHeld ==
  [][\A rec \in Incoming :
       put(rec) /\ outcome' = "Ok" =>
         /\ records'[rec.key] # Absent
         /\ SeqOf(records'[rec.key]) >= SeqOf(rec.value)]_vars

(* The store is a CardRegistry: while the process runs a card only gives   *)
(* way to a newer one, and a restart falls back at most to a card that was *)
(* accepted before.                                                        *)
Registry == INSTANCE CardRegistry WITH reg <- records

ImplementsRegistry == Registry!Spec
=============================================================================
