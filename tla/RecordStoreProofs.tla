------------------------- MODULE RecordStoreProofs -------------------------
(***************************************************************************)
(* Theorems about RecordStore, for every set of keys, cards and weights,   *)
(* every capacity, and databases that fail as well as those that do not.   *)
(***************************************************************************)
EXTENDS RecordStore, FiniteSetTheorems, TLAPS

(* What put and load accept under a key is a card.                         *)
LEMMA ValidatesIsCard ==
  ASSUME NEW k, NEW v, Validates(k, v)
  PROVE  v \in Value /\ v # Absent /\ SeqOf(v) \in 0..MaxSeq
  BY StoreAssumption
  DEF Validates, Value, StoreAssumption, SeqOf, SignedCard, CardRecord

(* A write leaves the database either as it was or as it was asked to be.  *)
LEMMA WriteThroughOutcomes ==
  ASSUME NEW written, WriteThrough(written)
  PROVE  disk' = written \/ disk' = disk
  BY DEF WriteThrough

(* The initial state is well typed.                                        *)
LEMMA TypeCorrectInit == Init => TypeOK
<1>1. NoCards \in CardMap /\ NoWeights \in WeightMap
  BY DEF NoCards, NoWeights, CardMap, WeightMap
<1>2. EmptyDisk \in Database
  BY <1>1 DEF EmptyDisk, Database
<1>3. NoSeqs \in [RecordKey -> 0..MaxSeq \cup {NoSeq}]
  BY DEF NoSeqs
<1> QED
  BY <1>1, <1>2, <1>3 DEF Init, TypeOK, DownIsEmpty

(* Every variable keeps its type in every step.                            *)
THEOREM TypeCorrect == Spec => []TypeOK
<1>1. Init => TypeOK
  BY TypeCorrectInit
<1>2. TypeOK /\ [Next]_vars => TypeOK'
  <2> SUFFICES ASSUME TypeOK, [Next]_vars
               PROVE  TypeOK'
    OBVIOUS
  <2> USE DEF TypeOK, DownIsEmpty, CardMap, WeightMap, Database
  <2>1. CASE with_persistence
    <3>1. PICK keys, weightKeys \in SUBSET RecordKey :
            /\ records' = Loaded(disk.cards, keys)
            /\ weight_cache' = LoadedWeights(disk.weights, weightKeys)
      BY <2>1 DEF with_persistence, load_from_disk
    <3>2. records' \in CardMap
      BY <3>1, ValidatesIsCard DEF Loaded
    <3>3. \A k \in RecordKey : records'[k] # Absent => SeqOf(records'[k]) \in 0..MaxSeq
      BY <3>1, ValidatesIsCard DEF Loaded
    <3>4. seq_cache' \in [RecordKey -> 0..MaxSeq \cup {NoSeq}]
      BY <2>1, <3>3 DEF with_persistence, load_from_disk
    <3>5. weight_cache' \in WeightMap
      BY <3>1 DEF LoadedWeights
    <3> QED
      BY <2>1, <3>2, <3>4, <3>5 DEF with_persistence
  <2>2. CASE in_memory
    BY <2>2 DEF in_memory, memory
  <2>3. ASSUME NEW rec \in Incoming, put(rec)
        PROVE  TypeOK'
    <3>1. CASE Refused(rec)
      BY <2>3, <3>1 DEF put, Refused, memory
    <3>2. CASE Ignored(rec)
      BY <2>3, <3>2 DEF put, Ignored, memory
    <3>3. CASE Kept(rec)
      <4>1. rec.key \in RecordKey
        BY StoreAssumption DEF StoreAssumption, Record
      <4>2. rec.value \in Value /\ SeqOf(rec.value) \in 0..MaxSeq
        BY <3>3, ValidatesIsCard DEF Kept
      <4>3. disk' \in Database
        BY <3>3, <4>2, WriteThroughOutcomes DEF Kept, persist
      <4>4. UNCHANGED <<up, db, durable, faulty, weight_cache>> /\ up' /\ outcome' = "Ok"
        BY <2>3, <3>3 DEF put, Kept
      <4>5. records' \in CardMap
        BY <3>3, <4>2 DEF Kept
      <4>6. seq_cache' \in [RecordKey -> 0..MaxSeq \cup {NoSeq}]
        BY <3>3, <4>2 DEF Kept
      <4>7. accepted' \in [RecordKey -> SUBSET Value]
        BY <3>3, <4>2 DEF Kept
      <4> QED
        BY <4>3, <4>4, <4>5, <4>6, <4>7
    <3> QED
      BY <2>3, <3>1, <3>2, <3>3 DEF put
  <2>4. ASSUME NEW key \in RecordKey, remove(key)
        PROVE  TypeOK'
    <3>1. disk' \in Database
      BY <2>4, WriteThroughOutcomes DEF remove, unpersist
    <3> QED
      BY <2>4, <3>1 DEF remove
  <2>5. ASSUME NEW key \in RecordKey, NEW w \in Weight, set_trust_weight(key, w)
        PROVE  TypeOK'
    <3>1. disk' \in Database
      BY <2>5, WriteThroughOutcomes DEF set_trust_weight
    <3> QED
      BY <2>5, <3>1 DEF set_trust_weight
  <2>6. CASE Flush
    BY <2>6 DEF Flush, memory
  <2>7. CASE Stop
    BY <2>7 DEF Stop, Lost, NoCards, NoSeqs, NoWeights
  <2>8. CASE Crash
    BY <2>8 DEF Crash, Lost, NoCards, NoSeqs, NoWeights
  <2>9. CASE DiskFails
    BY <2>9 DEF DiskFails, memory
  <2>10. CASE UNCHANGED vars
    BY <2>10 DEF vars, memory
  <2> QED
    BY <2>1, <2>2, <2>3, <2>4, <2>5, <2>6, <2>7, <2>8, <2>9, <2>10 DEF Next
<1> QED
  BY <1>1, <1>2, PTL DEF Spec
-----------------------------------------------------------------------------
(* The inductive invariant.  CacheMatchesRecords alone is not inductive:   *)
(* starting in memory leaves the maps as the last process left them, so it *)
(* needs the last part of TypeOK; the refinement needs every card that is  *)
(* held anywhere to have been accepted.                                    *)

AcceptedBefore(cards) == \A k \in RecordKey : cards[k] \in accepted[k] \cup {Absent}

Remembered ==
  AcceptedBefore(records) /\ AcceptedBefore(disk.cards) /\ AcceptedBefore(durable.cards)

IInv ==
  /\ TypeOK
  /\ CacheMatchesRecords
  /\ StoredCardsBelong
  /\ Remembered

(* Storing a card that validates, or none, keeps a map of owned cards.     *)
LEMMA OwnedByUpdate ==
  ASSUME NEW m \in CardMap, NEW key \in RecordKey, NEW v,
         OwnedBy(m), v = Absent \/ Validates(key, v)
  PROVE  OwnedBy([m EXCEPT ![key] = v])
  BY DEF OwnedBy, Stored, CardMap

(* Loading keeps only cards that validate.                                 *)
LEMMA LoadedIsOwned ==
  ASSUME NEW m, NEW keys
  PROVE  OwnedBy(Loaded(m, keys))
  BY DEF OwnedBy, Stored, Loaded

(* A write of one card to the database, whether or not it takes effect.    *)
LEMMA CardWrite ==
  ASSUME TypeOK, NEW key \in RecordKey, NEW v,
         WriteThrough([disk EXCEPT !.cards[key] = v])
  PROVE  /\ disk'.cards = disk.cards \/ disk'.cards = [disk.cards EXCEPT ![key] = v]
         /\ disk'.weights = disk.weights
  BY WriteThroughOutcomes DEF TypeOK, Database, CardMap, WeightMap

(* The invariant is kept by every step.                                    *)
LEMMA IInvStep ==
  ASSUME IInv, TypeOK', [Next]_vars
  PROVE  IInv'
<1> USE DEF IInv
<1>1. CASE with_persistence
  <2>1. PICK keys \in SUBSET RecordKey :
          /\ records' = Loaded(disk.cards, keys)
          /\ seq_cache' = [k \in RecordKey |->
                             IF records'[k] = Absent THEN NoSeq ELSE SeqOf(records'[k])]
    BY <1>1 DEF with_persistence, load_from_disk
  <2>2. CacheMatchesRecords'
    BY <2>1 DEF CacheMatchesRecords
  <2>3. StoredCardsBelong'
    BY <1>1, <2>1, LoadedIsOwned DEF with_persistence, StoredCardsBelong
  <2>4. Remembered'
    BY <1>1, <2>1 DEF with_persistence, Remembered, AcceptedBefore, Loaded
  <2> QED
    BY <1>1, <2>2, <2>3, <2>4 DEF with_persistence
<1>2. CASE in_memory
  BY <1>2 DEF in_memory, memory, CacheMatchesRecords, StoredCardsBelong, Remembered,
              AcceptedBefore, OwnedBy, Stored, TypeOK, DownIsEmpty
<1>3. ASSUME NEW rec \in Incoming, put(rec)
      PROVE  IInv'
  <2>1. CASE Refused(rec) \/ Ignored(rec)
    <3>1. UNCHANGED <<up, records, seq_cache, weight_cache, disk, durable, accepted>>
      BY <1>3, <2>1 DEF put, Refused, Ignored, memory
    <3> QED
      BY <3>1 DEF CacheMatchesRecords, StoredCardsBelong, Remembered,
                  AcceptedBefore, OwnedBy, Stored
  <2>2. CASE Kept(rec)
    <3>1. rec.key \in RecordKey
      BY StoreAssumption DEF StoreAssumption, Record
    <3>2. Validates(rec.key, rec.value) /\ rec.value # Absent
      BY <2>2, ValidatesIsCard DEF Kept
    <3>3. /\ records' = [records EXCEPT ![rec.key] = rec.value]
          /\ seq_cache' = [seq_cache EXCEPT ![rec.key] = SeqOf(rec.value)]
          /\ accepted' = [accepted EXCEPT ![rec.key] = @ \cup {rec.value}]
          /\ durable' = durable
          /\ up /\ up'
      BY <1>3, <2>2 DEF put, Kept
    <3>4. \/ disk'.cards = disk.cards
          \/ disk'.cards = [disk.cards EXCEPT ![rec.key] = rec.value]
      BY <2>2, <3>1, CardWrite DEF Kept, persist
    <3>5. CacheMatchesRecords'
      BY <3>1, <3>2, <3>3 DEF CacheMatchesRecords, TypeOK, CardMap
    <3>6. StoredCardsBelong'
      <4>1. disk.cards \in CardMap /\ records \in CardMap
        BY DEF TypeOK, Database
      <4>2. /\ OwnedBy([records EXCEPT ![rec.key] = rec.value])
            /\ OwnedBy([disk.cards EXCEPT ![rec.key] = rec.value])
        BY <3>1, <3>2, <4>1, OwnedByUpdate DEF StoredCardsBelong
      <4> QED
        BY <3>3, <3>4, <4>2 DEF StoredCardsBelong
    <3>7. Remembered'
      BY <3>1, <3>3, <3>4 DEF Remembered, AcceptedBefore, TypeOK, Database, CardMap
    <3> QED
      BY <3>3, <3>5, <3>6, <3>7
  <2> QED
    BY <1>3, <2>1, <2>2 DEF put
<1>4. ASSUME NEW key \in RecordKey, remove(key)
      PROVE  IInv'
  <2>1. disk'.cards = disk.cards \/ disk'.cards = [disk.cards EXCEPT ![key] = Absent]
    BY <1>4, CardWrite DEF remove, unpersist
  <2>2. CacheMatchesRecords'
    BY <1>4 DEF remove, CacheMatchesRecords, TypeOK, CardMap
  <2>3. StoredCardsBelong'
    <3>1. disk.cards \in CardMap /\ records \in CardMap
      BY DEF TypeOK, Database
    <3>2. /\ OwnedBy([records EXCEPT ![key] = Absent])
          /\ OwnedBy([disk.cards EXCEPT ![key] = Absent])
      BY <3>1, OwnedByUpdate DEF StoredCardsBelong
    <3> QED
      BY <1>4, <2>1, <3>2 DEF remove, StoredCardsBelong
  <2>4. Remembered'
    BY <1>4, <2>1 DEF remove, Remembered, AcceptedBefore, TypeOK, Database, CardMap
  <2> QED
    BY <1>4, <2>2, <2>3, <2>4 DEF remove
<1>5. ASSUME NEW key \in RecordKey, NEW w \in Weight, set_trust_weight(key, w)
      PROVE  IInv'
  <2>1. disk'.cards = disk.cards
    BY <1>5, WriteThroughOutcomes DEF set_trust_weight, TypeOK, Database
  <2> QED
    BY <1>5, <2>1 DEF set_trust_weight, CacheMatchesRecords, StoredCardsBelong, Remembered,
                      AcceptedBefore, OwnedBy, Stored
<1>6. CASE Flush
  BY <1>6 DEF Flush, memory, CacheMatchesRecords, StoredCardsBelong, Remembered,
              AcceptedBefore, OwnedBy, Stored
<1>7. CASE Stop \/ Crash
  <2>1. /\ records' = NoCards /\ seq_cache' = NoSeqs /\ weight_cache' = NoWeights
        /\ accepted' = accepted
        /\ disk' = durable' /\ (disk' = disk \/ disk' = durable)
    BY <1>7 DEF Stop, Crash, Lost
  <2>2. CacheMatchesRecords'
    BY <2>1 DEF CacheMatchesRecords, NoCards, NoSeqs
  <2>3. StoredCardsBelong'
    BY <2>1 DEF StoredCardsBelong, OwnedBy, Stored, NoCards
  <2>4. Remembered'
    BY <2>1 DEF Remembered, AcceptedBefore, NoCards
  <2> QED
    BY <2>1, <2>2, <2>3, <2>4
<1>8. CASE DiskFails \/ UNCHANGED vars
  BY <1>8 DEF DiskFails, vars, memory, CacheMatchesRecords, StoredCardsBelong, Remembered,
              AcceptedBefore, OwnedBy, Stored
<1> QED
  BY <1>1, <1>2, <1>3, <1>4, <1>5, <1>6, <1>7, <1>8 DEF Next

LEMMA InvariantHolds == Spec => []IInv
<1>1. Init => IInv
  <2> SUFFICES ASSUME Init PROVE IInv
    OBVIOUS
  <2>1. TypeOK
    BY TypeCorrectInit
  <2>2. CacheMatchesRecords /\ StoredCardsBelong
    BY DEF Init, CacheMatchesRecords, StoredCardsBelong, OwnedBy, Stored, EmptyDisk,
           NoCards, NoSeqs
  <2>3. Remembered
    BY DEF Init, Remembered, AcceptedBefore, EmptyDisk, NoCards
  <2> QED
    BY <2>1, <2>2, <2>3 DEF IInv
<1>2. TypeOK' /\ IInv /\ [Next]_vars => IInv'
  BY IInvStep
<1> QED
  BY <1>1, <1>2, TypeCorrect, PTL DEF Spec

(* The cached sequence numbers are those of the stored cards, always.      *)
THEOREM CacheConsistent == Spec => []CacheMatchesRecords
<1>1. IInv => CacheMatchesRecords
  BY DEF IInv
<1> QED
  BY <1>1, InvariantHolds, PTL

(* No card is ever stored, or would be reloaded, that its key's owner did  *)
(* not sign.                                                               *)
THEOREM CardsBelong == Spec => []StoredCardsBelong
<1>1. IInv => StoredCardsBelong
  BY DEF IInv
<1> QED
  BY <1>1, InvariantHolds, PTL

-----------------------------------------------------------------------------
(* What put ignores is no newer than the card that made it ignore it.      *)
LEMMA IgnoredIsHeld ==
  ASSUME IInv, NEW rec \in Incoming, Ignored(rec)
  PROVE  records[rec.key] # Absent /\ SeqOf(records[rec.key]) >= SeqOf(rec.value)
<1>1. rec.key \in RecordKey
  BY StoreAssumption DEF StoreAssumption, Record
<1>2. seq_cache[rec.key] # NoSeq /\ ~(seq_cache[rec.key] < SeqOf(rec.value))
  BY DEF Ignored, Newer
<1>3. records[rec.key] # Absent /\ seq_cache[rec.key] = SeqOf(records[rec.key])
  BY <1>1, <1>2 DEF IInv, CacheMatchesRecords
<1>4. Validates(rec.key, records[rec.key]) /\ Validates(rec.key, rec.value)
  BY <1>1, <1>3 DEF IInv, StoredCardsBelong, OwnedBy, Stored, Ignored
<1>5. SeqOf(records[rec.key]) \in Nat /\ SeqOf(rec.value) \in Nat
  BY <1>4, ValidatesIsCard, CardAssumption DEF CardAssumption
<1> QED
  BY <1>2, <1>3, <1>5

(* A put that answers Ok leaves a card at least as new as the one it was   *)
(* given, be it that one or the one that was there.                        *)
THEOREM OkIsHeld == Spec => OkMeansHeld
<1> DEFINE HeldAfter(rec) ==
             put(rec) /\ outcome' = "Ok" =>
               /\ records'[rec.key] # Absent
               /\ SeqOf(records'[rec.key]) >= SeqOf(rec.value)
<1>1. ASSUME IInv, NEW rec \in Incoming, put(rec), outcome' = "Ok"
      PROVE  /\ records'[rec.key] # Absent
             /\ SeqOf(records'[rec.key]) >= SeqOf(rec.value)
  <2>1. ~Refused(rec)
    BY <1>1 DEF Refused
  <2>2. CASE Ignored(rec)
    BY <1>1, <2>2, IgnoredIsHeld DEF Ignored, memory
  <2>3. CASE Kept(rec)
    <3>1. rec.key \in RecordKey /\ Validates(rec.key, rec.value)
      BY <2>3, StoreAssumption DEF StoreAssumption, Record, Kept
    <3>2. records'[rec.key] = rec.value
      BY <1>1, <2>3, <3>1 DEF Kept, IInv, TypeOK, CardMap
    <3>3. rec.value # Absent /\ SeqOf(rec.value) \in Nat
      BY <3>1, ValidatesIsCard, CardAssumption DEF CardAssumption
    <3> QED
      BY <3>2, <3>3
  <2> QED
    BY <1>1, <2>1, <2>2, <2>3 DEF put
<1>2. IInv => [\A rec \in Incoming : HeldAfter(rec)]_vars
  BY <1>1
<1> QED
  BY <1>2, InvariantHolds, PTL DEF OkMeansHeld

-----------------------------------------------------------------------------
(* The store implements the registry.                                      *)

(* The registry sees the same cards as the store: its notions of a valid   *)
(* card and of a sequence number are the store's own.                      *)
LEMMA SameCards ==
  /\ \A k, v : Registry!Validates(k, v) <=> Validates(k, v)
  /\ \A v : Registry!SeqOf(v) = SeqOf(v)
  /\ Registry!Empty = NoCards
  BY DEF Registry!Validates, Validates, Registry!SeqOf, SeqOf, Registry!Empty, NoCards,
         Registry!verify_card, verify_card, Registry!verify_address, verify_address,
         Registry!compute_address, compute_address, Registry!SignedCard, SignedCard,
         Registry!CardRecord, CardRecord, Registry!Signature, Signature,
         Registry!CardStatus, CardStatus

(* What put stores is newer than the card it replaces, because the cached  *)
(* number is that card's.                                                  *)
LEMMA KeptIsNewer ==
  ASSUME IInv, NEW rec \in Incoming, Kept(rec), records[rec.key] # Absent
  PROVE  SeqOf(records[rec.key]) < SeqOf(rec.value)
<1>1. rec.key \in RecordKey
  BY StoreAssumption DEF StoreAssumption, Record
<1>2. Validates(rec.key, records[rec.key])
  BY <1>1 DEF IInv, StoredCardsBelong, OwnedBy, Stored
<1>3. SeqOf(records[rec.key]) # NoSeq
  BY <1>2, ValidatesIsCard, StoreAssumption DEF StoreAssumption
<1> QED
  BY <1>1, <1>3 DEF IInv, CacheMatchesRecords, Kept, Newer

(* Every step of the store is a step of the registry or changes nothing    *)
(* the registry knows of.                                                  *)
LEMMA StepRefines ==
  ASSUME IInv, IInv', [Next]_vars
  PROVE  [Registry!Next]_(Registry!vars)
<1> USE DEF Registry!vars
<1>1. CASE with_persistence
  <2>1. \A k \in RecordKey : records'[k] \in accepted[k] \cup {Absent}
    BY <1>1 DEF with_persistence, IInv, Remembered, AcceptedBefore
  <2>2. DOMAIN records' = RecordKey
    BY DEF IInv, TypeOK, CardMap
  <2> QED
    BY <1>1, <2>1, <2>2 DEF with_persistence, Registry!Next, Registry!Recover
<1>2. CASE in_memory
  <2>1. records' = NoCards
    BY <1>2 DEF in_memory, memory, IInv, TypeOK, DownIsEmpty
  <2> QED
    BY <1>2, <2>1 DEF in_memory, NoCards, Registry!Next, Registry!Recover
<1>3. ASSUME NEW rec \in Incoming, put(rec)
      PROVE  [Registry!Next]_(Registry!vars)
  <2>1. CASE Refused(rec) \/ Ignored(rec)
    BY <1>3, <2>1 DEF put, Refused, Ignored, memory
  <2>2. CASE Kept(rec)
    <3>1. rec.key \in RecordKey
      BY StoreAssumption DEF StoreAssumption, Record
    <3>2. Registry!Validates(rec.key, rec.value)
      BY <2>2, SameCards DEF Kept
    <3>3. records[rec.key] # Absent =>
            Registry!SeqOf(records[rec.key]) < Registry!SeqOf(rec.value)
      BY <2>2, KeptIsNewer, SameCards
    <3>4. Registry!Accept(rec.key, rec.value)
      BY <1>3, <2>2, <3>2, <3>3 DEF put, Kept, Registry!Accept
    <3>5. rec.value \in accepted'[rec.key]
      BY <2>2, <3>1 DEF Kept, IInv, TypeOK
    <3> QED
      BY <3>1, <3>4, <3>5 DEF Registry!Next
  <2> QED
    BY <1>3, <2>1, <2>2 DEF put
<1>4. ASSUME NEW key \in RecordKey, remove(key)
      PROVE  [Registry!Next]_(Registry!vars)
  BY <1>4 DEF remove, Registry!Next, Registry!Withdraw
<1>5. ASSUME NEW key \in RecordKey, NEW w \in Weight, set_trust_weight(key, w)
      PROVE  [Registry!Next]_(Registry!vars)
  BY <1>5 DEF set_trust_weight
<1>6. CASE Flush
  BY <1>6 DEF Flush, memory
<1>7. CASE Stop \/ Crash
  BY <1>7, SameCards DEF Stop, Crash, Lost, Registry!Next, Registry!Halt
<1>8. CASE DiskFails \/ UNCHANGED vars
  BY <1>8 DEF DiskFails, vars, memory
<1> QED
  BY <1>1, <1>2, <1>3, <1>4, <1>5, <1>6, <1>7, <1>8 DEF Next

(* Through every interleaving of puts, removals, flushes, failing writes,  *)
(* stops and crashes the store behaves like the registry: cards only give  *)
(* way to newer ones while it runs, and a restart invents none.            *)
THEOREM Refinement == Spec => ImplementsRegistry
<1>1. Init => Registry!Init
  BY SameCards DEF Init, Registry!Init
<1>2. IInv /\ IInv' /\ [Next]_vars => [Registry!Next]_(Registry!vars)
  BY StepRefines
<1> QED
  BY <1>1, <1>2, InvariantHolds, PTL DEF Spec, ImplementsRegistry, Registry!Spec

-----------------------------------------------------------------------------
(* A database that does what it is asked.  Capacity is checked by put      *)
(* alone, yet bounds what a reload brings back: the database never holds   *)
(* a key the maps do not, except where it lags behind them, and then it is *)
(* as it was when they agreed.                                             *)

Bounded(cards) == IsFiniteSet(Stored(cards)) /\ Fits(cards)

ReliableInv ==
  ~faulty =>
    /\ DiskMirrorsMemory
    /\ up \/ ~db
    /\ ~db => disk = durable
    /\ Bounded(records)
    /\ Bounded(disk.cards)
    /\ Bounded(durable.cards)

(* Storing a card at a key that has one, or while there is room, keeps a   *)
(* map bounded; so does removing one.                                      *)
LEMMA BoundedUpdate ==
  ASSUME NEW m \in CardMap, NEW key \in RecordKey, NEW v \in Value, Bounded(m),
         m[key] # Absent \/ Cardinality(Stored(m)) < MaxRecords
  PROVE  Bounded([m EXCEPT ![key] = v])
<1> DEFINE n == [m EXCEPT ![key] = v]
<1>1. Stored(n) = Stored(m) \cup {key}
  BY StoreAssumption DEF Stored, CardMap, StoreAssumption
<1>2. CASE m[key] # Absent
  <2>1. Stored(n) = Stored(m)
    BY <1>1, <1>2 DEF Stored
  <2> QED
    BY <2>1 DEF Bounded, Fits
<1>3. CASE m[key] = Absent
  <2>1. key \notin Stored(m)
    BY <1>3 DEF Stored
  <2>2. /\ IsFiniteSet(Stored(n))
        /\ Cardinality(Stored(n)) = Cardinality(Stored(m)) + 1
    BY <1>1, <2>1, FS_AddElement DEF Bounded
  <2>3. Cardinality(Stored(m)) \in Nat
    BY FS_CardinalityType DEF Bounded
  <2> QED
    BY <1>3, <2>2, <2>3, StoreAssumption DEF Bounded, Fits, StoreAssumption
<1> QED
  BY <1>2, <1>3

LEMMA BoundedRemoval ==
  ASSUME NEW m \in CardMap, NEW key \in RecordKey, Bounded(m)
  PROVE  Bounded([m EXCEPT ![key] = Absent])
<1> DEFINE n == [m EXCEPT ![key] = Absent]
<1>1. Stored(n) \subseteq Stored(m)
  BY DEF Stored, CardMap
<1>2. IsFiniteSet(Stored(n)) /\ Cardinality(Stored(n)) <= Cardinality(Stored(m))
  BY <1>1, FS_Subset DEF Bounded
<1>3. Cardinality(Stored(m)) \in Nat /\ Cardinality(Stored(n)) \in Nat
  BY <1>2, FS_CardinalityType DEF Bounded
<1> QED
  BY <1>2, <1>3, StoreAssumption DEF Bounded, Fits, StoreAssumption

LEMMA BoundedEmpty == Bounded(NoCards)
<1>1. Stored(NoCards) = {}
  BY DEF Stored, NoCards
<1> QED
  BY <1>1, FS_EmptySet, StoreAssumption DEF Bounded, Fits, StoreAssumption

(* Every step keeps the database and the maps together.                    *)
LEMMA ReliableStep ==
  ASSUME IInv, ReliableInv, [Next]_vars
  PROVE  ReliableInv'
<1> SUFFICES ASSUME ~faulty'
             PROVE  ReliableInv'
  BY DEF ReliableInv
<1>9. ~faulty /\ ~DiskFails
  <2>1. faulty' = faulty \/ DiskFails
    BY DEF Next, vars, with_persistence, in_memory, put, remove, set_trust_weight, Flush,
           Stop, Crash, Lost
  <2> QED
    BY <2>1 DEF DiskFails
<1> USE <1>9
<1> USE DEF ReliableInv, DiskMirrorsMemory
<1>0. /\ records \in CardMap /\ disk.cards \in CardMap
      /\ disk.weights \in WeightMap /\ weight_cache \in WeightMap
      /\ disk = [cards |-> disk.cards, weights |-> disk.weights]
      /\ db \in BOOLEAN /\ up \in BOOLEAN
  BY DEF IInv, TypeOK, Database
<1>1. CASE with_persistence
  <2>1. /\ records' = Loaded(disk.cards, RecordKey)
        /\ weight_cache' = LoadedWeights(disk.weights, RecordKey)
    BY <1>1 DEF with_persistence, load_from_disk, Readable
  <2>2. records' = disk.cards
    BY <1>0, <2>1 DEF Loaded, IInv, StoredCardsBelong, OwnedBy, Stored, CardMap
  <2>3. weight_cache' = disk.weights
    BY <1>0, <2>1 DEF LoadedWeights, WeightMap
  <2>4. disk' = disk /\ durable' = durable /\ up' /\ db'
    BY <1>1 DEF with_persistence
  <2> QED
    BY <1>0, <2>2, <2>3, <2>4 DEF Bounded, Fits, Stored
<1>2. CASE in_memory
  <2>1. /\ records' = records /\ disk' = disk /\ durable' = durable
        /\ up' /\ ~db' /\ ~up
    BY <1>2 DEF in_memory, memory
  <2> QED
    BY <2>1 DEF Bounded, Fits, Stored
<1>3. ASSUME NEW rec \in Incoming, put(rec)
      PROVE  ReliableInv'
  <2>1. CASE Refused(rec) \/ Ignored(rec)
    <3>1. UNCHANGED <<up, db, records, weight_cache, disk, durable>>
      BY <1>3, <2>1 DEF put, Refused, Ignored, memory
    <3> QED
      BY <3>1 DEF Bounded, Fits, Stored
  <2>2. CASE Kept(rec)
    <3>1. rec.key \in RecordKey
      BY StoreAssumption DEF StoreAssumption, Record
    <3>2. rec.value \in Value
      BY <2>2, ValidatesIsCard DEF Kept
    <3>3. records[rec.key] # Absent \/ Cardinality(Stored(records)) < MaxRecords
      <4>1. Cardinality(Stored(records)) \in Nat
        BY FS_CardinalityType DEF Bounded
      <4> QED
        BY <2>2, <4>1, StoreAssumption DEF Kept, Full, StoreAssumption
    <3>4. Bounded([records EXCEPT ![rec.key] = rec.value])
      BY <1>0, <3>1, <3>2, <3>3, BoundedUpdate
    <3>5. /\ records' = [records EXCEPT ![rec.key] = rec.value]
          /\ UNCHANGED <<up, db, durable, weight_cache>>
          /\ up
      BY <1>3, <2>2 DEF put, Kept
    <3>6. CASE db
      <4>1. disk' = [disk EXCEPT !.cards[rec.key] = rec.value]
        BY <2>2, <3>6 DEF Kept, persist, WriteThrough
      <4>2. disk = [cards |-> records, weights |-> weight_cache]
        BY <3>5, <3>6
      <4>3. disk' = [cards |-> records', weights |-> weight_cache']
        BY <3>5, <4>1, <4>2
      <4> QED
        BY <3>4, <3>5, <3>6, <4>3 DEF Bounded, Fits, Stored
    <3>7. CASE ~db
      <4>1. disk' = disk
        BY <2>2, <3>7 DEF Kept, persist, WriteThrough
      <4> QED
        BY <3>4, <3>5, <3>7, <4>1 DEF Bounded, Fits, Stored
    <3> QED
      BY <3>6, <3>7
  <2> QED
    BY <1>3, <2>1, <2>2 DEF put
<1>4. ASSUME NEW key \in RecordKey, remove(key)
      PROVE  ReliableInv'
  <2>1. Bounded([records EXCEPT ![key] = Absent])
    BY <1>0, BoundedRemoval
  <2>2. /\ records' = [records EXCEPT ![key] = Absent]
        /\ UNCHANGED <<up, db, durable, weight_cache>>
        /\ up
    BY <1>4 DEF remove
  <2>3. CASE db
    <3>1. disk' = [disk EXCEPT !.cards[key] = Absent]
      BY <1>4, <2>3 DEF remove, unpersist, WriteThrough
    <3>2. disk = [cards |-> records, weights |-> weight_cache]
      BY <2>2, <2>3
    <3>3. disk' = [cards |-> records', weights |-> weight_cache']
      BY <2>2, <3>1, <3>2
    <3> QED
      BY <2>1, <2>2, <2>3, <3>3 DEF Bounded, Fits, Stored
  <2>4. CASE ~db
    <3>1. disk' = disk
      BY <1>4, <2>4 DEF remove, unpersist, WriteThrough
    <3> QED
      BY <2>1, <2>2, <2>4, <3>1 DEF Bounded, Fits, Stored
  <2> QED
    BY <2>3, <2>4
<1>5. ASSUME NEW key \in RecordKey, NEW w \in Weight, set_trust_weight(key, w)
      PROVE  ReliableInv'
  <2>1. /\ weight_cache' = [weight_cache EXCEPT ![key] = w]
        /\ UNCHANGED <<up, db, durable, records>>
        /\ up
    BY <1>5 DEF set_trust_weight
  <2>2. CASE db
    <3>1. disk' = [disk EXCEPT !.weights[key] = w]
      BY <1>5, <2>2 DEF set_trust_weight, WriteThrough
    <3>2. disk = [cards |-> records, weights |-> weight_cache]
      BY <2>1, <2>2
    <3>3. disk' = [cards |-> records', weights |-> weight_cache']
      BY <2>1, <3>1, <3>2
    <3> QED
      BY <2>1, <2>2, <3>3 DEF Bounded, Fits, Stored
  <2>3. CASE ~db
    <3>1. disk' = disk
      BY <1>5, <2>3 DEF set_trust_weight, WriteThrough
    <3> QED
      BY <2>1, <2>3, <3>1 DEF Bounded, Fits, Stored
  <2> QED
    BY <2>2, <2>3
<1>6. CASE Flush
  BY <1>6 DEF Flush, memory, Bounded, Fits, Stored
<1>7. CASE Stop \/ Crash
  <2>1. /\ records' = NoCards /\ ~up' /\ ~db'
        /\ disk' = durable' /\ (disk' = disk \/ disk' = durable)
    BY <1>7 DEF Stop, Crash, Lost
  <2> QED
    BY <2>1, BoundedEmpty DEF Bounded, Fits, Stored
<1>8. CASE UNCHANGED vars
  BY <1>8 DEF vars, memory, Bounded, Fits, Stored
<1> QED
  BY <1>1, <1>2, <1>3, <1>4, <1>5, <1>6, <1>7, <1>8, <1>9 DEF Next

LEMMA ReliableHolds == Spec => []ReliableInv
<1>1. Init => ReliableInv
  BY BoundedEmpty DEF Init, ReliableInv, DiskMirrorsMemory, EmptyDisk
<1>2. IInv /\ ReliableInv /\ [Next]_vars => ReliableInv'
  BY ReliableStep
<1> QED
  BY <1>1, <1>2, InvariantHolds, PTL DEF Spec

(* Neither puts nor reloads take the store past its capacity, unless the   *)
(* database fails.                                                         *)
THEOREM CapacityHolds == Spec => []CapacityRespected
<1>1. ReliableInv => CapacityRespected
  BY DEF ReliableInv, CapacityRespected, Bounded
<1> QED
  BY <1>1, ReliableHolds, PTL

(* The maps and a database that does not fail agree whenever the store is  *)
(* up, so an orderly restart is invisible.                                 *)
THEOREM MirrorHolds == Spec => []DiskMirrorsMemory
<1>1. ReliableInv => DiskMirrorsMemory
  BY DEF ReliableInv, DiskMirrorsMemory
<1> QED
  BY <1>1, ReliableHolds, PTL
=============================================================================
