------------------------------- MODULE Card -------------------------------
(***************************************************************************)
(* Service cards: what a publisher signs, how a signature is checked and   *)
(* where a card lives in the DHT.  A module of data and operators, used by *)
(* every module that stores, ships or reads cards.                         *)
(*                                                                         *)
(* Cryptography is ideal.  A signature remembers the key that made it and  *)
(* the record it was made over, so it verifies for exactly that pair; a    *)
(* hash is an injective function.  Keys and signatures of a wrong length   *)
(* are among those that verify for nothing.  Canonical CBOR is a bijection *)
(* between a card and its bytes, so a stored value is the card it decodes  *)
(* to, and Malformed stands for every byte string that decodes to none.    *)
(***************************************************************************)
EXTENDS Naturals, FiniteSets

CONSTANTS
  PubKey,      \* Ed25519 public keys
  Domain,      \* domains a card may claim
  Body,        \* everything else a record carries: endpoint, manifest, label
  RecordKey,   \* DHT keys
  AddressOf,   \* BLAKE3 over public keys
  MaxSeq,      \* the largest u64
  Malformed    \* bytes that are not a card

ASSUME CardAssumption ==
  /\ AddressOf \in [PubKey -> RecordKey]
  /\ \A p, q \in PubKey : AddressOf[p] = AddressOf[q] => p = q
  /\ MaxSeq \in Nat

CardStatus == {"active", "revoked"}

CardRecord == [pubkey : PubKey, seq : 0..MaxSeq, status : CardStatus,
               domain : Domain, body : Body]

Signature == [by : PubKey, over : CardRecord]

SignedCard == [record : CardRecord, sig : Signature]

ASSUME MalformedAssumption == Malformed \notin SignedCard

(* What a DHT record's value can be. *)
Value == SignedCard \cup {Malformed}

compute_address(pubkey) == AddressOf[pubkey]

sign_card(record, key) == [record |-> record, sig |-> [by |-> key, over |-> record]]

verify_card(card) ==
  /\ card.sig.by = card.record.pubkey
  /\ card.sig.over = card.record

verify_address(card, expected) == compute_address(card.record.pubkey) = expected

(* A value that may be stored under a key: a verified card at its address. *)
Validates(key, value) ==
  /\ value \in SignedCard
  /\ verify_card(value)
  /\ verify_address(value, compute_address(value.record.pubkey))
  /\ key = compute_address(value.record.pubkey)

(* Mutation: counts one further. *)
SeqOf_OneMore(card) == card.record.seq + 1

SeqOf(card) == card.record.seq
=============================================================================
