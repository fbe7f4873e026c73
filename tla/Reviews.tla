------------------------------ MODULE Reviews ------------------------------
(***************************************************************************)
(* Trust weights and the review queue of a node.  A publisher appeals      *)
(* against a weight, an operator resolves the appeal and may set another   *)
(* weight, and a publication that passed stage 1 sets it to 1.0.           *)
(*                                                                         *)
(* The handlers have no await but run on several threads, so they          *)
(* interleave between the lock of the weights and the write to the queue.  *)
(* Weights and queue are two trees of node_meta.sled.  sled is external:   *)
(* one log for both trees, of which a crash keeps a prefix, at least what  *)
(* was flushed.                                                            *)
(***************************************************************************)
EXTENDS Integers, SequencesExt

CONSTANTS
  Request,     \* HTTP requests, each served once
  Input,       \* what a request may ask for
  Address,     \* addresses of cards
  One,         \* the weight 1.0, in the unit weights are counted in
  Damaged,     \* those whose entries the database may fail to read or write
  NoWeight,    \* no trust weight
  NoAppeal,    \* no pending review
  Nothing      \* asked for by a request that has not arrived

ASSUME ReviewsAssumption ==
  /\ \A i \in Input :
       /\ i.address \in Address
       /\ i.op \in {"appeal", "resolve", "publish"}
       /\ i.op = "resolve" => i.new_weight \in Int \cup {NoWeight}
  /\ One \in Nat
  /\ Damaged \subseteq Address
  /\ NoWeight \notin Int

VARIABLES
  up,       \* the process runs
  opened,   \* node_meta.sled could be opened: review_queue is Some
  weights,  \* the map of TrustWeightStore
  log,      \* the writes of the database, oldest first
  flushed,  \* how many of them a crash keeps
  lost,     \* history: the requests whose removal a crash undid
  pc,       \* where the handler of each request is
  input,    \* what the request asks for
  current_weight,  \* the weight submit_appeal noted
  answer    \* the status of the answer

tasks == <<pc, input, current_weight, answer>>
vars == <<up, opened, weights, log, flushed, lost, tasks>>

NoWeights == [a \in Address |-> NoWeight]

Init ==
  /\ up = FALSE
  /\ opened = FALSE
  /\ weights = NoWeights
  /\ log = <<>>
  /\ flushed = 0
  /\ lost = {}
  /\ pc = [r \in Request |-> "idle"]
  /\ input = [r \in Request |-> Nothing]
  /\ current_weight = [r \in Request |-> NoWeight]
  /\ answer = [r \in Request |-> 0]

-----------------------------------------------------------------------------
(* The database: what the two trees hold follows from the log.             *)

(* The last write in l to one of the entries of an address, or 0. *)
LastWrite(l, a, ops) == SelectLastInSeq(l, LAMBDA e : e.address = a /\ e.op \in ops)

StoredWeight(l, a) ==
  LET i == LastWrite(l, a, {"weight"})
  IN  IF i = 0 THEN NoWeight ELSE l[i].weight

(* The entry of an address in the queue: list_pending has one per address. *)
Pending(l, a) ==
  LET i == LastWrite(l, a, {"appeal", "removal"})
  IN  IF i # 0 /\ l[i].op = "appeal" THEN l[i] ELSE NoAppeal

(* One of these writes is the removal that r made. *)
Removes(r, writes) == \E i \in writes : log[i].op = "removal" /\ log[i].by = r

Write(entry) == log' = Append(log, entry)

(* Mutation: no bounds. *)
Clamp_Not(w) == w

Clamp(w) == IF w < 0 THEN 0 ELSE IF w > One THEN One ELSE w

(* Mutation: the map is written and the tree is not. *)
set_InMemory(r, a, w) ==
  /\ weights' = [weights EXCEPT ![a] = w]
  /\ UNCHANGED log

(* TrustWeightStore::set: an error of the tree is dropped. *)
set(r, a, w) ==
  /\ weights' = [weights EXCEPT ![a] = w]
  /\ \/ opened /\ Write([op |-> "weight", address |-> a, by |-> r, weight |-> w])
     \/ (~opened \/ a \in Damaged) /\ UNCHANGED log

-----------------------------------------------------------------------------
(* Handlers                                                                *)

address(r) == input[r].address

At(r, label, op) == up /\ pc[r] = label /\ input[r].op = op

Goto(r, label) ==
  /\ pc' = [pc EXCEPT ![r] = label]
  /\ UNCHANGED <<input, answer>>

Answer(r, code) ==
  /\ pc' = [pc EXCEPT ![r] = "done"]
  /\ answer' = [answer EXCEPT ![r] = code]
  /\ UNCHANGED <<input, current_weight>>

Arrive(r, i) ==
  /\ up
  /\ pc[r] = "idle"
  /\ pc' = [pc EXCEPT ![r] = "start"]
  /\ input' = [input EXCEPT ![r] = i]
  /\ UNCHANGED <<up, opened, weights, log, flushed, lost, current_weight, answer>>

(* submit_appeal and resolve_review without a queue. *)
Unavailable(r) ==
  /\ At(r, "start", "appeal") \/ At(r, "start", "resolve")
  /\ ~opened
  /\ Answer(r, 503)
  /\ UNCHANGED <<up, opened, weights, log, flushed, lost>>

(* submit_appeal notes the weight, lets go of the lock ...                 *)
NoteWeight(r) ==
  /\ At(r, "start", "appeal")
  /\ opened
  /\ Goto(r, "submit")
  /\ current_weight' = [current_weight EXCEPT ![r] =
       IF weights[address(r)] = NoWeight THEN One ELSE weights[address(r)]]
  /\ UNCHANGED <<up, opened, weights, log, flushed, lost>>

(* ... and inserts the entry, over one that may be there.                  *)
submit(r) ==
  /\ At(r, "submit", "appeal")
  /\ \/ /\ Write([op |-> "appeal", address |-> address(r), by |-> r,
                  weight |-> current_weight[r]])
        /\ Answer(r, 201)
     \/ /\ address(r) \in Damaged
        /\ Answer(r, 500)
        /\ UNCHANGED log
  /\ UNCHANGED <<up, opened, weights, flushed, lost>>

(* resolve_review sets the weight, whether or not there is an entry ...    *)
SetWeight(r) ==
  /\ At(r, "start", "resolve")
  /\ opened
  /\ \/ /\ input[r].new_weight = NoWeight
        /\ UNCHANGED <<weights, log>>
     \/ /\ input[r].new_weight # NoWeight
        /\ set(r, address(r), Clamp(input[r].new_weight))
  /\ Goto(r, "resolve")
  /\ UNCHANGED <<up, opened, flushed, lost, current_weight>>

(* Mutation: the answer does not depend on what was removed. *)
resolve_Always(r) ==
  /\ At(r, "resolve", "resolve")
  /\ Write([op |-> "removal", address |-> address(r), by |-> r, weight |-> NoWeight])
  /\ Answer(r, 200)
  /\ UNCHANGED <<up, opened, weights, flushed, lost>>

(* ... and removes the entry, whichever appeal it is of by now.            *)
resolve(r) ==
  /\ At(r, "resolve", "resolve")
  /\ \/ /\ Pending(log, address(r)) # NoAppeal
        /\ Write([op |-> "removal", address |-> address(r), by |-> r, weight |-> NoWeight])
        /\ Answer(r, 200)
     \/ /\ Pending(log, address(r)) = NoAppeal
        /\ Answer(r, 404)
        /\ UNCHANGED log
     \/ /\ address(r) \in Damaged
        /\ Answer(r, 500)
        /\ UNCHANGED log
  /\ UNCHANGED <<up, opened, weights, flushed, lost>>

(* The end of publish_card, when stage 1 passed and the put is answered.   *)
Published(r) ==
  /\ At(r, "start", "publish")
  /\ set(r, address(r), One)
  /\ Answer(r, 201)
  /\ UNCHANGED <<up, opened, flushed, lost>>

-----------------------------------------------------------------------------
(* The process                                                             *)

(* Mutation: the weights are not loaded. *)
with_persistence_Blank ==
  /\ ~up
  /\ up' = TRUE
  /\ opened' = TRUE
  /\ UNCHANGED <<weights, log, flushed, lost, tasks>>

with_persistence ==
  /\ ~up
  /\ up' = TRUE
  /\ opened' = TRUE
  /\ \E readable \in SUBSET Address :
       /\ Address \ Damaged \subseteq readable
       /\ weights' = [a \in Address |->
                        IF a \in readable THEN StoredWeight(log, a) ELSE NoWeight]
  /\ UNCHANGED <<log, flushed, lost, tasks>>

(* sled::open fails: new, and no queue. *)
in_memory ==
  /\ ~up
  /\ up' = TRUE
  /\ UNCHANGED <<opened, weights, log, flushed, lost, tasks>>

Flush ==
  /\ up /\ opened
  /\ \E n \in (flushed + 1)..Len(log) : flushed' = n
  /\ UNCHANGED <<up, opened, weights, log, lost, tasks>>

Down ==
  /\ up
  /\ up' = FALSE
  /\ opened' = FALSE
  /\ weights' = NoWeights
  /\ pc' = [r \in Request |-> IF pc[r] \in {"idle", "done"} THEN pc[r] ELSE "gone"]
  /\ UNCHANGED <<input, current_weight, answer>>

(* The runtime ends when no handler is between two awaits; sled is dropped.*)
Stop ==
  /\ \A r \in Request : pc[r] \notin {"submit", "resolve"}
  /\ Down
  /\ flushed' = Len(log)
  /\ UNCHANGED <<log, lost>>

Crash ==
  /\ Down
  /\ log' = SubSeq(log, 1, flushed)
  /\ lost' = lost \cup {r \in Request : Removes(r, (flushed + 1)..Len(log))}
  /\ UNCHANGED flushed

Next ==
  \/ \E r \in Request : \E i \in Input : Arrive(r, i)
  \/ \E r \in Request : Unavailable(r)
  \/ \E r \in Request : NoteWeight(r)
  \/ \E r \in Request : submit(r)
  \/ \E r \in Request : SetWeight(r)
  \/ \E r \in Request : resolve(r)
  \/ \E r \in Request : Published(r)
  \/ with_persistence
  \/ in_memory
  \/ Flush
  \/ Stop
  \/ Crash

Spec == Init /\ [][Next]_vars

-----------------------------------------------------------------------------
(* Properties                                                              *)

StoredWeights == 0..One \cup {NoWeight}

Entry == [op : {"weight", "appeal", "removal"}, address : Address, by : Request,
          weight : StoredWeights]

(* Every variable keeps its type; in particular each weight that is held,  *)
(* stored or noted lies between 0.0 and 1.0 (http_api.rs:418).             *)
TypeOK ==
  /\ up \in BOOLEAN
  /\ opened \in BOOLEAN
  /\ weights \in [Address -> StoredWeights]
  /\ log \in Seq(Entry)
  /\ flushed \in 0..Len(log)
  /\ lost \subseteq Request
  /\ pc \in [Request -> {"idle", "start", "submit", "resolve", "done", "gone"}]
  /\ input \in [Request -> Input \cup {Nothing}]
  /\ current_weight \in [Request -> StoredWeights]
  /\ answer \in [Request -> {0, 200, 201, 404, 500, 503}]

(* The weights served are those a restart would load: publications and     *)
(* resolutions of several threads reach map and tree in one order, for the *)
(* tree is written under the lock of the map (trust_weight.rs:42-47).      *)
WeightsMirrored ==
  opened => \A a \in Address \ Damaged : weights[a] = StoredWeight(log, a)

(* Where the database works, and however the process ends, a decision is   *)
(* never half kept: an appeal that                                         *)
(* is gone because an operator resolved it with a new weight left that     *)
(* weight behind, before it went (http_api.rs:417-426).                    *)
DecisionIsWhole ==
  \A i \in DOMAIN log :
    /\ log[i].op = "removal"
    /\ log[i].address \notin Damaged
    /\ input[log[i].by].new_weight # NoWeight
    => \E j \in 1..(i - 1) : log[j].op = "weight" /\ log[j].by = log[i].by

(* Of several operators who resolve one appeal, one is told that it is     *)
(* resolved (review_queue.rs:44): two requests are both answered 200 only  *)
(* for two appeals, each of which is gone because of its request, unless a *)
(* crash has undone what one of them was told.                             *)
ResolvedOnce ==
  \A r, s \in Request :
    /\ r # s /\ r \notin lost /\ s \notin lost
    /\ answer[r] = 200 /\ answer[s] = 200
    /\ address(r) = address(s)
    => \E i, j, k \in DOMAIN log :
         /\ log[i].op = "removal" /\ log[i].by = r
         /\ log[j].op = "removal" /\ log[j].by = s
         /\ log[k].op = "appeal" /\ log[k].address = address(r)
         /\ k \in i..j \cup j..i
=============================================================================
