------------------------------- MODULE Node -------------------------------
(***************************************************************************)
(* A running node: the HTTP handlers, the bounded command channel, the     *)
(* event loop that owns the swarm, and the Kademlia queries it starts.     *)
(* A handler is a task that runs from one await to the next; between two   *)
(* awaits the other handlers, the event loop and the network move.  Each   *)
(* command carries a oneshot channel on which its one answer comes back,   *)
(* unless the handler gave up (10 s), the client hung up, or the event     *)
(* loop ended with the command still queued.                               *)
(*                                                                         *)
(* A call is one card of a request: a batch makes several, one after the   *)
(* other, and an earlier one may be answered when nobody waits any more.   *)
(* Kademlia is external: a put query ends, successfully or not, and a get  *)
(* query reports records of peers and ends.                                *)
(***************************************************************************)
EXTENDS Card, RateLimiter, Sequences, FiniteSetsExt, TLC

CONSTANTS
  Request,      \* HTTP requests, each served once
  Input,        \* what a request may ask for
  BadBody,      \* bodies whose label or endpoint is not accepted
  Inbound,      \* records other nodes push to this one
  Remote,       \* values other nodes answer a get query with, by key
  Capacity,     \* of the command channel
  MaxRecords,   \* of the card store
  MaxCalls,     \* cards in a batch
  Absent        \* nothing

Call == Request \X (1..MaxCalls)

ASSUME NodeAssumption ==
  /\ \A i \in Input :
       \/ i.op = "fetch" /\ i.key \in RecordKey \cup {Malformed}
       \/ i.op \in {"publish", "batch"} /\ Len(i.cards) \in 1..MaxCalls
  /\ Remote \in [RecordKey -> SUBSET Value]
  /\ Capacity \in Nat \ {0}
  /\ MaxRecords \in Nat
  /\ MaxCalls \in Nat \ {0}
  /\ Absent \notin Value

VARIABLES
  handler,         \* the task of each request
  cmds,            \* the command channel
  running,         \* the event loop runs
  reply,           \* what came back on the oneshot of each call
  pending,         \* pending_queries: the calls that wait for a query
  query,           \* what Kademlia is doing for each call
  records,         \* the card store
  stored_records,  \* the counter of GET /node/info
  metrics,
  limiter,
  trust_weights,   \* the keys whose trust weight is 1.0
  acked            \* history: the cards answered 201

tasks == <<handler, metrics, limiter, trust_weights, acked>>
swarm == <<running, pending, query, records, stored_records>>
vars == <<tasks, swarm, cmds, reply>>

Idle == [pc |-> "idle", input |-> Absent, at |-> 1, verified |-> FALSE,
         answer |-> 0, got |-> Absent, floor |-> {}]

(* QueryResult, and the states of a oneshot that carries none. *)
Reply(tag) == [tag |-> tag, value |-> Absent]
Found(value) == [tag |-> "Found", value |-> value]
NoReply == Reply("none")

Init ==
  /\ handler = [r \in Request |-> Idle]
  /\ cmds = <<>>
  /\ running = TRUE
  /\ reply = [c \in Call |-> NoReply]
  /\ pending = {}
  /\ query = [c \in Call |-> "none"]
  /\ records = [k \in RecordKey |-> Absent]
  /\ stored_records = 0
  /\ metrics = [put_total |-> 0, put_success |-> 0, put_rejected |-> 0,
                get_total |-> 0, get_found |-> 0, get_not_found |-> 0]
  /\ limiter = NewLimiter(Domain)
  /\ trust_weights = {}
  /\ acked = {}

-----------------------------------------------------------------------------
(* The card store, as RecordStore proves it to be: the number put compares *)
(* with is that of the stored card.                                        *)

Full(key) ==
  /\ records[key] = Absent
  /\ Cardinality({k \in RecordKey : records[k] # Absent}) >= MaxRecords

PutOk(key, value) == ~Full(key) /\ Validates(key, value)

(* Mutation: the last put wins, whatever its number. *)
StorePut_AnySeq(key, value) ==
  IF PutOk(key, value) THEN [records EXCEPT ![key] = value] ELSE records

StorePut(key, value) ==
  IF PutOk(key, value) /\ (records[key] # Absent => SeqOf(records[key]) < SeqOf(value))
  THEN [records EXCEPT ![key] = value]
  ELSE records

-----------------------------------------------------------------------------
(* Handlers                                                                *)

input(r) == handler[r].input
card(r) == input(r).cards[handler[r].at]
call(r) == <<r, handler[r].at>>
answer(r) == reply[call(r)]
address(r) ==
  IF input(r).op = "fetch" THEN input(r).key ELSE compute_address(card(r).record.pubkey)

At(r, pc) == handler[r].pc = pc

Goto(r, pc) == [handler EXCEPT ![r].pc = pc]

Counted(names) ==
  [m \in DOMAIN metrics |-> metrics[m] + (IF m \in names THEN 1 ELSE 0)]

(* Mutation: a batch looks for one card more than it has. *)
Finish_OneMore(r, code) ==
  [handler EXCEPT ![r] =
     IF @.input.op = "batch" /\ @.at <= Len(@.input.cards)
     THEN [@ EXCEPT !.pc = "start", !.at = @ + 1]
     ELSE [@ EXCEPT !.pc = "done", !.answer = code]]

(* A publication or fetch answers; a batch turns to its next card, and     *)
(* answers 200 after the last one.                                         *)
Finish(r, code) ==
  LET h == handler[r]
  IN  [handler EXCEPT ![r] =
         IF h.input.op # "batch" THEN [h EXCEPT !.pc = "done", !.answer = code]
         ELSE IF h.at < Len(h.input.cards) THEN [h EXCEPT !.pc = "start", !.at = h.at + 1]
         ELSE [h EXCEPT !.pc = "done", !.answer = 200]]

(* Mutation: the refusal is counted but the handler goes on. *)
Refuse_GoesOn(r, code) ==
  /\ handler' = Goto(r, "send")
  /\ metrics' = Counted({"put_rejected"})

Refuse(r, code) ==
  /\ handler' = Finish(r, code)
  /\ metrics' = Counted({"put_rejected"})

Arrive(r, i) ==
  /\ At(r, "idle")
  /\ handler' = [handler EXCEPT ![r] = [Idle EXCEPT
       !.pc = "start", !.input = i,
       !.floor = IF i.op = "fetch"
                 THEN {SeqOf(c) : c \in {c \in acked : compute_address(c.record.pubkey) = i.key}}
                 ELSE {}]]
  /\ UNCHANGED <<metrics, limiter, trust_weights, acked, swarm, cmds, reply>>

(* publish_card up to the await of the signature check.                    *)
publish_card(r) ==
  /\ At(r, "start")
  /\ input(r).op = "publish"
  /\ \/ /\ card(r) = Malformed
        /\ handler' = Finish(r, 400)
        /\ metrics' = Counted({"put_total", "put_rejected"})
     \/ /\ card(r) # Malformed
        /\ handler' = Goto(r, "verify")
        /\ metrics' = Counted({"put_total"})
  /\ UNCHANGED <<limiter, trust_weights, acked, swarm, cmds, reply>>

(* From the signature check to the next await: the limiter is asked and    *)
(* unlocked, the label, the endpoint and the nonce are looked at.          *)
Screened(r) ==
  /\ At(r, "verify")
  /\ \/ /\ ~verify_card(card(r))
        /\ Refuse(r, 400)
     \/ /\ verify_card(card(r))
        /\ ~Allowed(limiter, card(r).record.domain)
        /\ Refuse(r, 429)
     \/ /\ verify_card(card(r))
        /\ Allowed(limiter, card(r).record.domain)
        /\ card(r).record.body \in BadBody
        /\ Refuse(r, 400)
     \/ /\ verify_card(card(r))
        /\ Allowed(limiter, card(r).record.domain)
        /\ card(r).record.body \notin BadBody
        /\ input(r).nonce = Malformed
        /\ Refuse(r, 400)
     \/ /\ verify_card(card(r))
        /\ Allowed(limiter, card(r).record.domain)
        /\ card(r).record.body \notin BadBody
        /\ input(r).nonce # Malformed
        /\ handler' = Goto(r, IF input(r).nonce = Absent THEN "send" ELSE "stage1")
        /\ UNCHANGED metrics
  /\ UNCHANGED <<limiter, trust_weights, acked, swarm, cmds, reply>>

(* run_stage1 asks the claimed domain and the endpoint over the network. *)
Stage1(r) ==
  /\ At(r, "stage1")
  /\ \/ Refuse(r, 403)
     \/ /\ handler' = [handler EXCEPT ![r].pc = "send", ![r].verified = TRUE]
        /\ UNCHANGED metrics
  /\ UNCHANGED <<limiter, trust_weights, acked, swarm, cmds, reply>>

(* One card of a batch: neither the limiter nor stage 1 is asked.          *)
publish_batch(r) ==
  /\ At(r, "start")
  /\ input(r).op = "batch"
  /\ LET sound == card(r) # Malformed /\ verify_card(card(r))
     IN  /\ handler' = IF sound THEN Goto(r, "send") ELSE Finish(r, 400)
         /\ metrics' = Counted(IF sound THEN {"put_total"} ELSE {"put_total", "put_rejected"})
  /\ UNCHANGED <<limiter, trust_weights, acked, swarm, cmds, reply>>

fetch_card(r) ==
  /\ At(r, "start")
  /\ input(r).op = "fetch"
  /\ handler' = IF input(r).key = Malformed THEN Finish(r, 400) ELSE Goto(r, "send")
  /\ metrics' = Counted({"get_total"})
  /\ UNCHANGED <<limiter, trust_weights, acked, swarm, cmds, reply>>

(* cmd_tx.send: waits while the channel is full, fails once the event loop *)
(* is gone; a publication that fails here is in no metric but the total.   *)
Send(r) ==
  /\ At(r, "send")
  /\ \/ /\ running
        /\ Len(cmds) < Capacity
        /\ cmds' = Append(cmds, call(r))
        /\ handler' = Goto(r, "await")
     \/ /\ ~running
        /\ handler' = Finish(r, 500)
        /\ UNCHANGED cmds
  /\ UNCHANGED <<metrics, limiter, trust_weights, acked, swarm, reply>>

(* The answer of a publication's command.                                  *)
Published(r) ==
  /\ At(r, "await")
  /\ input(r).op # "fetch"
  /\ answer(r).tag = "PutOk"
  /\ handler' = Finish(r, 201)
  /\ metrics' = Counted({"put_success"})
  /\ limiter' = record_publish(limiter, card(r).record.domain)
  /\ trust_weights' = trust_weights \cup (IF handler[r].verified THEN {address(r)} ELSE {})
  /\ acked' = acked \cup {card(r)}
  /\ UNCHANGED <<swarm, cmds, reply>>

NotPublished(r) ==
  /\ At(r, "await")
  /\ input(r).op # "fetch"
  /\ answer(r).tag \in {"Error", "Closed"}
  /\ Refuse(r, IF answer(r).tag = "Error" THEN 500 ELSE 504)
  /\ UNCHANGED <<limiter, trust_weights, acked, swarm, cmds, reply>>

(* The answer of a fetch's command: a value found, or none.                *)
Fetched(r) ==
  /\ At(r, "await")
  /\ input(r).op = "fetch"
  /\ \/ /\ answer(r).tag = "Found"
        /\ handler' = [Finish(r, IF answer(r).value = Malformed THEN 500 ELSE 200)
                         EXCEPT ![r].got = answer(r).value]
        /\ metrics' = Counted({"get_found"})
     \/ /\ answer(r).tag = "NotFound"
        /\ handler' = Finish(r, 404)
        /\ metrics' = Counted({"get_not_found"})
     \/ /\ answer(r).tag = "Closed"
        /\ handler' = Finish(r, 504)
        /\ UNCHANGED metrics
  /\ UNCHANGED <<limiter, trust_weights, acked, swarm, cmds, reply>>

(* Mutation: an answer is awaited for ever. *)
Timeout_Never(r) == FALSE /\ UNCHANGED vars

(* Ten seconds without an answer; the command stays wherever it is.        *)
Timeout(r) ==
  /\ At(r, "await")
  /\ answer(r) = NoReply
  /\ handler' = Finish(r, 504)
  /\ metrics' = Counted(IF input(r).op = "fetch" THEN {} ELSE {"put_rejected"})
  /\ UNCHANGED <<limiter, trust_weights, acked, swarm, cmds, reply>>

(* The client hangs up, or the process ends: the task is dropped where it  *)
(* awaits.                                                                 *)
Disconnect(r) ==
  /\ handler[r].pc \in {"verify", "stage1", "send", "await"}
  /\ handler' = Goto(r, "gone")
  /\ UNCHANGED <<metrics, limiter, trust_weights, acked, swarm, cmds, reply>>

CooldownEnds(d) ==
  /\ limiter.cooling[d]
  /\ limiter' = CooledDown(limiter, d)
  /\ UNCHANGED <<handler, metrics, trust_weights, acked, swarm, cmds, reply>>

-----------------------------------------------------------------------------
(* The event loop                                                          *)

NextCall == Head(cmds)

(* handle_command, PutRecord.  A card put ignores for its number counts as *)
(* stored and is sent to the DHT like any other.  The branch for a failing *)
(* kademlia.put_record is not taken: it puts the same record once more,    *)
(* which answers Ok.                                                       *)
handle_put ==
  /\ running
  /\ cmds # <<>>
  /\ input(NextCall[1]).op # "fetch"
  /\ LET value == input(NextCall[1]).cards[NextCall[2]]
         key   == compute_address(value.record.pubkey)
     IN  /\ records' = StorePut(key, value)
         /\ \/ /\ PutOk(key, value)
               /\ stored_records' = stored_records + 1
               /\ query' = [query EXCEPT ![NextCall] = "put"]
               /\ pending' = pending \cup {NextCall}
               /\ UNCHANGED reply
            \/ /\ ~PutOk(key, value)
               /\ reply' = [reply EXCEPT ![NextCall] = Reply("Error")]
               /\ UNCHANGED <<stored_records, query, pending>>
  /\ cmds' = Tail(cmds)
  /\ UNCHANGED <<tasks, running>>

(* Mutation: every fetch goes to the DHT. *)
handle_get_DhtOnly ==
  /\ running
  /\ cmds # <<>>
  /\ input(NextCall[1]).op = "fetch"
  /\ query' = [query EXCEPT ![NextCall] = "get"]
  /\ pending' = pending \cup {NextCall}
  /\ cmds' = Tail(cmds)
  /\ UNCHANGED <<tasks, running, records, stored_records, reply>>

(* handle_command, GetRecord: the local store answers before the DHT.      *)
handle_get ==
  /\ running
  /\ cmds # <<>>
  /\ input(NextCall[1]).op = "fetch"
  /\ LET key == input(NextCall[1]).key
     IN  \/ /\ records[key] # Absent
            /\ reply' = [reply EXCEPT ![NextCall] = Found(records[key])]
            /\ UNCHANGED <<query, pending>>
         \/ /\ records[key] = Absent
            /\ query' = [query EXCEPT ![NextCall] = "get"]
            /\ pending' = pending \cup {NextCall}
            /\ UNCHANGED reply
  /\ cmds' = Tail(cmds)
  /\ UNCHANGED <<tasks, running, records, stored_records>>

(* Mutation: the answered query is looked up and not removed. *)
Resolve_Keeps(c, result) ==
  /\ reply' = IF c \in pending THEN [reply EXCEPT ![c] = result] ELSE reply
  /\ UNCHANGED pending

(* Take the pending query, if it is still there, and answer its call.      *)
Resolve(c, result) ==
  /\ pending' = pending \ {c}
  /\ reply' = IF c \in pending THEN [reply EXCEPT ![c] = result] ELSE reply

(* handle_kad_event, by the progress of the query.                         *)
FoundRecord(c, value) ==
  /\ running
  /\ query[c] \in {"get", "got"}
  /\ value \in Remote[input(c[1]).key]
  /\ query' = [query EXCEPT ![c] = "got"]
  /\ Resolve(c, Found(value))
  /\ UNCHANGED <<tasks, running, records, stored_records, cmds>>

(* FinishedWithNoAdditionalRecord, or an error: nothing found, timeout. *)
GetEnded(c) ==
  /\ running
  /\ query[c] \in {"get", "got"}
  /\ query' = [query EXCEPT ![c] = "none"]
  /\ Resolve(c, Reply("NotFound"))
  /\ UNCHANGED <<tasks, running, records, stored_records, cmds>>

(* Ok and Err alike. *)
PutEnded(c) ==
  /\ running
  /\ query[c] = "put"
  /\ query' = [query EXCEPT ![c] = "none"]
  /\ Resolve(c, Reply("PutOk"))
  /\ UNCHANGED <<tasks, running, records, stored_records, cmds>>

(* libp2p-kad stores a record a peer replicates to this node.              *)
InboundPut(rec) ==
  /\ running
  /\ records' = StorePut(rec.key, rec.value)
  /\ UNCHANGED <<tasks, running, pending, query, stored_records, cmds, reply>>

(* The loop breaks: the receiver is dropped with the commands in it, the   *)
(* swarm with its queries.  pending_queries belongs to the node's state    *)
(* and stays.                                                              *)
Shutdown ==
  /\ running
  /\ running' = FALSE
  /\ cmds' = <<>>
  /\ reply' = [c \in Call |->
                 IF \E i \in 1..Len(cmds) : cmds[i] = c THEN Reply("Closed") ELSE reply[c]]
  /\ query' = [c \in Call |-> "none"]
  /\ UNCHANGED <<tasks, pending, records, stored_records>>

-----------------------------------------------------------------------------
HandlerStep(r) ==
  \/ publish_card(r)
  \/ Screened(r)
  \/ Stage1(r)
  \/ publish_batch(r)
  \/ fetch_card(r)
  \/ Send(r)
  \/ Published(r)
  \/ NotPublished(r)
  \/ Fetched(r)
  \/ Timeout(r)

QueryEnds(c) == GetEnded(c) \/ PutEnded(c)

handle_command == handle_put \/ handle_get

(* The steps that put nothing into the card store, and those that do. *)
NoPut ==
  \/ \E r \in Request : \E i \in Input : Arrive(r, i)
  \/ \E r \in Request : HandlerStep(r)
  \/ \E r \in Request : Disconnect(r)
  \/ \E d \in Domain : CooldownEnds(d)
  \/ handle_get
  \/ \E c \in Call : QueryEnds(c)
  \/ \E c \in Call : query[c] \in {"get", "got"} /\
       \E value \in Remote[input(c[1]).key] : FoundRecord(c, value)
  \/ Shutdown

Next == NoPut \/ handle_put \/ \E rec \in Inbound : InboundPut(rec)

(* tokio runs every task that can go on, timers fire, the loop polls its   *)
(* channel, and Kademlia ends each query (its own timeout is 60 s).  No    *)
(* client has to call or hang up, and nobody has to stop the node.         *)
Fairness ==
  /\ \A r \in Request : WF_vars(HandlerStep(r))
  /\ WF_vars(handle_command)
  /\ \A c \in Call : WF_vars(QueryEnds(c))

Spec == Init /\ [][Next]_vars /\ Fairness

-----------------------------------------------------------------------------
(* Properties                                                              *)

Metric == {"put_total", "put_success", "put_rejected",
           "get_total", "get_found", "get_not_found"}

Task == [pc : {"idle", "start", "verify", "stage1", "send", "await", "done", "gone"},
         input : Input \cup {Absent}, at : 1..MaxCalls, verified : BOOLEAN,
         answer : {0, 200, 201, 400, 403, 404, 429, 500, 504},
         got : Value \cup {Absent}, floor : SUBSET (0..MaxSeq)]

(* Every variable keeps its type, and the channel its capacity. *)
TypeOK ==
  /\ handler \in [Request -> Task]
  /\ cmds \in Seq(Call) /\ Len(cmds) <= Capacity
  /\ running \in BOOLEAN
  /\ reply \in [Call -> [tag : {"none", "PutOk", "Found", "NotFound", "Error", "Closed"},
                         value : Value \cup {Absent}]]
  /\ pending \subseteq Call
  /\ query \in [Call -> {"none", "put", "get", "got"}]
  /\ records \in [RecordKey -> SignedCard \cup {Absent}]
  /\ stored_records \in Nat
  /\ metrics \in [Metric -> Nat]
  /\ limiter \in Limiter(Domain)
  /\ trust_weights \subseteq RecordKey
  /\ acked \subseteq SignedCard

(* A card answered 201 "published" is in the store of the node, or one at  *)
(* least as new is: whatever other publications and replicated records     *)
(* came between the put and its answer (http_api.rs:179, event_loop.rs:149)*)
AckedIsStored ==
  \A c \in acked :
    LET held == records[compute_address(c.record.pubkey)]
    IN  held # Absent /\ SeqOf(held) >= SeqOf(c)

(* A fetch that arrives after a publication was answered 201 does not      *)
(* answer 404, nor with an older card, although the lookup in the DHT      *)
(* could (event_loop.rs:171-176).                                          *)
ReadYourWrites ==
  \A r \in Request :
    /\ handler[r].answer = 404 => handler[r].floor = {}
    /\ handler[r].answer = 200 /\ handler[r].got # Absent =>
         \A s \in handler[r].floor : SeqOf(handler[r].got) >= s

(* No entry is left in pending_queries after its query has ended: the map  *)
(* would grow for as long as the node runs, and the oneshot in it never    *)
(* fire (event_loop.rs:84-118).                                            *)
PendingHasQuery == running => \A c \in pending : query[c] # "none"

(* No publication is counted twice, as when a late answer follows a        *)
(* timeout, and none that still waits is counted already.                  *)
InFlight ==
  {r \in Request : /\ handler[r].pc \in {"verify", "stage1", "send", "await"}
                   /\ handler[r].input.op # "fetch"}

CountedOnce ==
  metrics.put_success + metrics.put_rejected + Cardinality(InFlight) <= metrics.put_total

(* The limiter is charged once for each publication answered 201, by a     *)
(* batch or alone, and for no other (http_api.rs:181, 249).                *)
ChargedPerSuccess ==
  metrics.put_success = MapThenSumSet(LAMBDA d : limiter.count[d], Domain)

(* Every request ends: answered, or given up by its client.  Neither a     *)
(* full channel, nor a query that takes longer than the handler waits, nor *)
(* the end of the event loop leaves one hanging.                           *)
EveryRequestEnds ==
  \A r \in Request : handler[r].pc = "start" ~> handler[r].pc \in {"done", "gone"}

(* Every pending query is taken out again while the loop runs.             *)
PendingDrains == \A c \in Call : c \in pending ~> (c \notin pending \/ ~running)

-----------------------------------------------------------------------------
(* What the code's own words promise and the node does not keep.           *)

(* "Max 10 cards per verified domain" (rate_limit.rs:10).                  *)
MaxPerDomain == \A d \in Domain : limiter.count[d] <= MaxCardsPerDomain

(* "1 publish per minute cooldown per domain" (rate_limit.rs:11).          *)
CooldownEnforced ==
  [][\A d \in Domain :
       limiter'.count[d] > limiter.count[d] => ~limiter.cooling[d]]_vars

(* "The domain this card claims (verified via DNS/.well-known)"            *)
(* (card.rs:32): the card served with a trust weight of 1.0 claims a       *)
(* domain that was verified for its address.                               *)
VerifiedDomains(k) ==
  {input(r).cards[1].record.domain :
     r \in {r \in Request : /\ handler[r].verified
                            /\ address(r) = k}}

WeightIsForServedDomain ==
  \A k \in trust_weights :
    records[k] # Absent => records[k].record.domain \in VerifiedDomains(k)
=============================================================================
