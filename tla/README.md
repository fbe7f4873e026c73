# TLA+ models of p2s

p2s is a peer-to-peer directory of service cards: a publisher signs a card that
names its endpoint, manifest and domain; nodes verify it, keep it in a Kademlia
DHT at the hash of the publisher's key, and serve it to consumers over HTTP.
This directory holds TLA+ models of the Rust workspace, the TLC configurations
that check them on small instances, and TLAPS proofs of the core.

## 1. Inventory

| part | source | state | operations |
|---|---|---|---|
| card data, signatures | `proto/src`, `card/src/ops.rs` | none | sign, verify, address |
| record store | `node/src/record_store.rs` | three maps, `cards.sled` | put, get, remove, weights, load at start |
| event loop | `node/src/event_loop.rs`, `node_state.rs` | swarm, pending queries, counters | commands, Kademlia, connection and identify events, shutdown |
| HTTP API | `node/src/http_api.rs` | one task per request | publish, batch, fetch, appeal, list, resolve, info, metrics |
| rate limiter | `node/src/rate_limit.rs` | count and last publication per domain | check, record_publish, remove_card (tests only) |
| trust weights | `node/src/trust_weight.rs` | map, tree of `node_meta.sled` | set, get, load |
| review queue | `node/src/review_queue.rs` | tree of `node_meta.sled` | submit, list_pending, resolve |
| metrics | `node/src/metrics.rs` | atomic counters | increments, rendering |
| start, shutdown | `node/src/main.rs`, `behaviour.rs`, ... | key file, channel of 256 | start everything, ctrl-c |
| stage 1 | `verifier/src/stage1.rs`, `manifest.rs` | none | five steps in order, up to three requests over the network |
| stage 2 | `pipeline.rs`, `verdict.rs`, `agent.rs` | none | agent's opinion, admission decision |
| hardening | `harden.rs`, `sanitize.rs` | none | truncate and clean text |
| mandates | `validator/src`, `proto/src/mandate.rs` | none | issue, renew, verify at a time |
| publisher | `publisher/src` | none | challenge, DNS and well-known proof |
| consumer | `consumer/src/resolve.rs` | none | verify a fetched card and its manifest |

How they interact. An HTTP handler checks a card, asks the limiter, possibly
runs stage 1, sends a command over a bounded channel and awaits its oneshot for
10 s. The event loop alone owns the swarm: it takes a command, puts the card
into the record store, starts a Kademlia query and leaves the oneshot in
`pending_queries`, from which a later query event takes it to answer. Peers put
records into the same store through libp2p. The handler that is answered
charges the limiter and sets the trust weight. Appeals and operators change
trust weights through two more handlers. The two sled databases are written
through and read at the start of the process.

What is hard. Handlers interleave with each other, the loop and the network at
each await, and what they read before one is used after it (limiter, weights).
A handler may give up, or its client hang up, while its command goes on. The
process may crash with buffered writes, or start without its database. DHT
records arrive late, twice and from nodes that fell back to older versions.
`PROJECT.json` lists every such hazard at its line, with the properties that
watch it.

Correctness, part by part:

- record store: what is stored is owned, the newest, within capacity, and a
  restart falls back at most to something accepted earlier;
- event loop and handlers: what is answered "published" is kept and read back,
  each request ends, no query leaks, nothing is counted twice;
- limiter: the maximum and the cooldown of a domain hold (they do not, section 6);
- trust weights and reviews: a decision is neither lost nor applied to another
  version of the card than it was made for;
- DHT: nodes converge to the highest number that somebody goes on sending; a
  consumer accepts only what verifies;
- verification: pass only when every check passed, refuse at the first failure;
- mandates: valid exactly from issue to expiry under a trusted key; renewed in
  time, never without a valid one;
- sanitising: what a reader does not see is gone, all else stays, and the content
  cannot end the section of the prompt it is put in.

## 2. Modules

| module | models | extends / instantiates |
|---|---|---|
| `Card` | cards, ideal signatures and hashes, what validates under a key | |
| `CardRegistry` | abstract: what a store promises its readers | `Card` |
| `RecordStore` | `CardRecordStore` and its database | `Card`, instance of `CardRegistry` |
| `MCRecordStore` | small instances | `RecordStore` |
| `RecordStoreProofs` | theorems | `RecordStore` |
| `RateLimiter` | the limiter as operators on its state | |
| `Node` | handlers, channel, event loop, queries of one node | `Card`, `RateLimiter` |
| `NodeStore` | a node with the start of its record store and what each put does to it | `Node`, an instance of `RecordStore` |
| `MCNode`, `MCNodeStore` | small instances and the requests of each run | `Node`; `NodeStore` |
| `NodeProofs` | theorems | `NodeStore` |
| `Reviews` | trust weights, review queue and their database | |
| `MCReviews`, `ReviewsProofs` | small instance; theorems | `Reviews` |
| `Verification` | stage 1, stage 2 and the consumer's checks, against a changing world | `Card` |
| `MCVerification`, `VerificationProofs` | small instance; theorems | `Verification` |
| `Dht` | several nodes, the records between them, a consumer's lookups | `Card` |
| `MCDht`, `DhtProofs` | small instance; theorems | `Dht` |
| `Mandate` | mandates issued, renewed and verified by clocks that are off | |
| `MCMandate`, `MandateProofs` | small instance; theorems | `Mandate` |
| `Sanitize` | the passes over a site's text and the agent's prompt, as functions | |
| `MCSanitize` | the pieces pages are made of | `Sanitize` |
| `SanitizeProofs` | theorems: what the passes compute, and that the prompt isolates it | `Sanitize` |
| `SanitizeSeams` | theorems: what the passes do to a page, piece by piece | `SanitizeProofs` |

**Card.** A signature is the pair of key and record it was made for, so it
verifies for exactly those; `AddressOf` (BLAKE3) is an injective constant.
Canonical CBOR is a bijection on cards (the tests of `proto/src/serialize.rs`
check determinism and round trip), so a stored value *is* the card it decodes
to, and `Malformed` stands for all other bytes. `Body` is what a record carries
besides key, number, status and domain.

**RecordStore.** `records`, `seq_cache` and `weight_cache` are the three maps;
`db` says whether `sled::open` succeeded. `disk` is the database as it reads
now, `durable` as a crash would leave it; both trees share sled's log, so one
`Flush` moves both. One action per operation: `with_persistence` (with the whole
of `load_from_disk`), `in_memory`, `put` (refused, ignored or kept), `remove`,
`set_trust_weight`, and for the process `Stop` (the store is dropped and sled
flushed), `Crash`. After `DiskFails` any single write or read may fail, whose
errors the code drops. `accepted` is a history variable: the cards ever stored.

**CardRegistry.** The promise: `up`, one card per key, and the cards accepted so
far. While up a card gives way only to one of a higher number or is withdrawn;
down it forgets; `Recover` may bring back any card accepted before, or none.
`RecordStore` implements it with `reg <- records`: all of the cache, the
database and the failures is inside.

**Node.** A handler is a task with a `pc` between awaits: `start`, `verify`
(`spawn_blocking`), `stage1`, `send` (the channel may be full), `await` (the
oneshot). What runs between two awaits is one action: handlers hold no lock
across an await, and each lock guards one structure that the action touches
once. `cmds` is the channel, `query` what Kademlia does for a call, `pending`
the map `pending_queries`, `reply` the oneshots. A call is a pair of request and
card index, because a batch goes on to its next card after a timeout while the
earlier command is still queued. `records` follows the semantics of `put` with
the number of the stored card in place of the cache; `NodeStore` shows that this is
the `put` of `RecordStore`. `Disconnect` is axum dropping a handler whose
client is gone, or the end of the process. Kademlia is external: a put query
ends, a get query reports values from `Remote` and ends, `Inbound` records come
from peers. The failure branch of `kademlia.put_record` (event_loop.rs:160) is
not modelled: it puts the record that was just put, which answers Ok. The nonce of
a request is absent, good, or `Malformed`: one that is not 16 bytes in hex, which
is refused before stage 1. Two refusals are left out because nothing in the model
can cause them: an encoding error and a panic of the signature check. Malformed
JSON is refused before the handler and counted nowhere.

**NodeStore.** The same node with the life of its store around it: `build_swarm`
creates it, with a database (`Opens` says whether that may succeed, fail or both;
a first start finds it empty) or without; handlers, event loop and peers follow; it
is dropped with the swarm when the loop ends. `db`, `outcome` and `accepted` are
added as variables, the rest of the store is computed from the node: the numbers in
`seq_cache` from the stored cards, the database from the maps. `ImplementsStore`
says that every step is then a step of `RecordStore`: `Submit`, the put of a command,
and `Replicate`, the put of a peer's record, are its `put` with the same outcome, the
end of the loop is `Stop`, and nothing else the node does touches the store. The
database works in it; what remains when it does not is the subject of `RecordStore`.

**Reviews.** `weights` is the map of `TrustWeightStore`; the trees of weights and
reviews live in one sled database, whose `log` is one sequence of writes: what a
tree holds is the last write to a key, and a crash keeps a prefix of the log, at
least the `flushed` part. The handlers of appeals and resolutions have no await
but run on several threads, so `NoteWeight`/`submit` and `SetWeight`/`resolve`
are two steps each, between which other handlers run and the process may crash.
It cannot stop in an orderly way there: the runtime ends when a task is at an
await. `Published` is what a publication that passed stage 1 does to the weight.
`Damaged` are the addresses whose entries the database may fail to read or write;
the properties that need the database speak of the others. `DecisionIsWhole` is
a property of the log that holds of every prefix, so of what any crash leaves.
`ResolvedOnce` speaks of what operators were told; `lost` remembers whose removal a
crash undid, because such an appeal is back and may be resolved again.

**Verification.** The world is a set of facts: which token a TXT record or a
well-known file holds, what an endpoint serves and with what success. Facts
appear and vanish at any time, so each request of a verification meets another
world, and a failure or timeout is a world without the fact. A job is one call of
`run_stage1` with `verify` on its facts (stage 2; nothing in the workspace calls
it yet, so it is composed as its doc comment describes), of `verify_simple`, or of
`verify_fetched_card` with `fetch_and_verify_manifest`. Two history variables
sandwich the verdict: `seen`, the facts that held at some moment of stage 1, and
`held`, those that held at every moment. A card passes only if it deserves to by
`seen` (`PassedIsDeserved`), and is rejected only if it does not by `held`
(`RejectedIsNotDeserved`): as much as a procedure can promise that asks one
question after the other. Tokens and hashes are injective, parsing, hardening of
tool descriptions and labels are constant functions, a score is a number in units
of `One` and a decision a weight in half units, so the copy penalty is exact.

**Dht.** The network: each node is reduced to what `RecordStore` is proved to be, a
`CardRegistry` that may fall back when it restarts (`build_swarm`), and `net` is
the set of records ever sent, so that a record arrives twice, late, out of order or
never. `PutRecord` is the command of event_loop.rs:137-169: it puts into the own
store and sends to the others with this node as publisher (kademlia fills that in).
`Replicate` is a run of Kademlia's hourly job, which sends all records, as they have
no time to live (behaviour.rs:36), except those whose keys are in `skipped`; `sent`
remembers the keys of the last run. `Receive` passes a record to the store as
libp2p-kad 0.46.2 does: first its key is skipped in the next run of the job, whatever
the store then makes of the record; and the store never sees one that names the
receiver as its publisher (`via` keeps the name; it
is not persisted, because the store writes only the value). `Foreign` are records
that other members of the network hold and send, none of which validates. A lookup
by the node `Gateway` is answered from its store or by the first value that any
other peer has, then checked by the consumer as in `consumer/src/resolve.rs`. A
consumer that was not answered may ask again. The model has no more nodes than the
replication factor, so there is no choice of closest peers, and no capacity.

That the job skips keys matters. A node with an older card that runs its job first
tells the one with the newer card nothing it would store, but keeps it from sending in
its own run, and so on every hour. `Converges` and `RevocationPrevails` therefore
speak of what a node sends again and again (`[]<>(key \in sent[n])`); that every card
a node holds is such a card is what the run `dht_silenced` refutes.

**Mandate.** Real time is `now`; each reading of a clock is anything within `Skew` of
it, which covers machines that differ and a clock that is set. `held` are the
newest two mandates of an operator, each with the real time it was issued at,
`stray` the last one issued to anybody by any validator. The verifier is shown any
of them, as it is or altered, with any signature around. The workspace has no
scheduler for renewals: that an operator asks a trusted validator at least every
`Period`, not sooner than `2 * Skew` after the last time, and keeps the mandate
before the newest is an assumption about its use, written into the guards of `Tick`
and `Renew`, which are external. `renew_mandate` is `issue_mandate`
(issuer.rs:46-50).

**Sanitize.** A text is a sequence of units, each a character or a word no pass
looks into; the passes of `sanitize_content` are functions on such sequences, in
the order of sanitize.rs:8-15, and `build_agent_prompt` wraps the result. A page is
a sequence of blocks; each knows its text and what of it a reader sees, which is
what the properties compare with. One hidden attribute stands for the eight patterns
of sanitize.rs:46. `Complete` says when no pass, on its way through a text, looks for
the end of something beyond it; the blocks of the instance are, but for the single
wide character (`WellMade`), so elements that are not closed are outside it, as they
hide what follows. None is nested in one of its own name: the inner closing tag would
end it.

Four passes look at a lower-cased copy of the text with the places of the text. Units
have no case, so copy and text agree, as they do in the code while each character
keeps its number of bytes. `"wide"` is a character that takes more in lower case (there
are three: U+0130, U+023A and U+023E). Behind it `lower[i..]` (sanitize.rs:79) is no
boundary of a character, so if anything follows it once comments are gone, `Panicked`
is the step, whichever slice of the style pass panics first. Two things are left out:
wide characters within a style or hidden element, which a cut may reach before the
panic, and characters that take fewer bytes in lower case (as U+1E9E), behind which the
code cuts too far to the left or panics as well.

`build_agent_prompt` puts endpoint, domain and label before the section as they come.
`harden_label` lets tags through, so a claim can open a section of its own, and the
instance has a label that does; `Isolated` is about the section the prompt ends with,
from its opening tag on.

Definitions whose name has the form `Name_Variant` are mutations: plausible
mistakes in `Name`, used to see that the properties notice them.

## 3. Runs

| run | instance | question |
|---|---|---|
| `record_store` | 2 keys, numbers 0 and 1, two cards of number 1, capacity 1, one weight | everything the store promises, and what is left of it once the database begins to fail |
| `node` | `MCNodeStore`: 2 requests of 9 kinds, channel of 1, store of 1 with its database, 2 domains | acknowledged cards are kept and read back, queries do not leak, counters agree, every request ends, the store is a `RecordStore` |
| `node_max_per_domain`, `node_cooldown` | 2 requests | does the limiter keep its promise? No |
| `node_weights` | a verified card and its unverified update | is the served weight that of the served domain? No |
| `reviews` | 4 requests of 7 kinds, 2 addresses, the database may fail for one | weights survive, decisions are whole, one operator is told that an appeal is resolved |
| `verification` | a verifier (7 inputs), a consumer (3 cards), 7 facts that come and go | is a verdict what the world showed? do verifier and consumer agree? has the agent a say? |
| `dht` | 2 nodes, a card and its revocation, 2 foreign records, 1 stop | does what a node keeps sending reach all? can a consumer get what was not published, or a revoked card for ever, from a node that is not silenced? |
| `dht_silenced` | the same, no foreign records, no stop | does every revocation propagate? No |
| `mandate` | 3 validators (2 trusted), 2 keys, day of 6, skew 1, renewal every 3, time to 10 | is there always a valid mandate, and none that lasts? |
| `sanitize` | all pages of up to 4 of 15 pieces, cut at 12 units, 2 claims | if the passes come back, does exactly what a reader sees remain, and inside its section? It also evaluates `WellMade`, the hypothesis of a theorem, for 14 of the pieces |
| `sanitize_offsets` | up to 3 pieces, one a character that is longer in lower case | does what a reader sees remain of every page? No |

Bounds. Sequence numbers are only compared: an older, an equal and a newer one than
the stored card are what `put` can tell apart, and 0, 1 and a second card of number
1 give all three. Two keys with capacity 1 reach the full store, the refused key and
the update at capacity; once the database fails, a removal that did not reach it
leaves two cards there, of which a restart loads any. Every Incoming set has an
altered card, a card under a foreign key and bytes that are no card. A channel of
one slot is full as soon as one command waits, so with two requests the other
handler blocks in `send`. Two calls per batch are enough for a late answer to a call
that its handler has left. `node` starts every ordered pair out of: a verified
publication, an unparsable, a badly signed and a badly labelled card, one with a bad
nonce, batches with a repeated key and with an unparsable card, fetches of an
address and of a bad one. Its database opens; the theorem covers a start without
one.

In `reviews` four requests are an appeal, two resolutions of it and one that
interferes (another appeal, a publication), in all combinations and orders; new
weights are below, in and above the range. In `verification` there is for each step
of stage 1 a card that fails it and no other, the well-known file may prove another
key, and the site may serve the right manifest, with or without success, a wrong
one, or one of the right hash that does not parse; any number of the facts may
change between two requests.

In `dht` one stop is enough for a node to lose a card, to fall back to an older one
and to be brought up again; the theorems hold for any number. The net is a set, so
however many copies of a record are under way, it is one. With two nodes each record
comes from where it was published or from the one that got it there. Three nodes or
a third card take TLC past five minutes; the safety properties are proved for any
number. `RevocationPrevails` and `Converges` leave out one node: one that lost a
card which it had published itself (`via`, section 7).

In `mandate` the day of six units, renewal of three and skew of one are tight:
`Period + 2*Skew < Ttl` is what `Continuity` needs, and with a period of four TLC
finds the gap. Ten units are a day and two renewals.

In `sanitize` every pair, triple and quadruple of pieces meets, which is what
passes that join what was apart would need; twelve units cut in the middle of a
page, of an element and of an escaped tag. The run stops when the prompt is
built, so it does not check deadlock.

The system may stop: after a shutdown and the end of all requests nothing is left
to do, so the Node runs do not check deadlock; `EveryRequestEnds` says what does
matter there. The record store can always start again and is checked for
deadlock.

Fairness (`Node!Fairness`). Weak fairness of each handler's next step (tokio
polls a task that is ready; its 10 s timer fires), of the event loop taking a
command (`select!` polls the channel again and again), and of Kademlia ending
each query (its timeout is 60 s). Nothing is assumed of clients, peers, the
cooldown or the operator who shuts the node down. Since each request is served
once, a blocked `send` cannot be overtaken for ever.

`Dht!Fairness`: a node that runs goes on running its job (`WF(Replicate(n))`: the job
is periodic); what its job sends in run after run arrives in the end
(`SF(Gossip(n, m, key))`: single records may be lost, libp2p dials again); a query
ends, and its consumer takes the answer. That a run sends a given record is *not*
assumed. Nobody has to publish, start or ask. Nodes stop at most `MaxCrashes` times,
which stands for "from some time on no node stops", without which no card need be
anywhere.

## 4. Proofs

`RecordStoreProofs` proves, for every set of keys, cards, weights and every
capacity:

- `TypeCorrect`: `TypeOK`, and with it that a store that is not up holds nothing;
- `CacheConsistent`, `CardsBelong`: `CacheMatchesRecords` and
  `StoredCardsBelong`, with failing databases too;
- `Refinement`: `Spec => Registry!Spec`;
- `OkIsHeld`: `OkMeansHeld`, with failing databases too;
- `CapacityHolds`, `MirrorHolds`: `CapacityRespected` and `DiskMirrorsMemory`.

The argument. `CacheMatchesRecords` is not inductive: `in_memory` leaves the maps as
it finds them, so it needs the conjunct `DownIsEmpty` of `TypeOK`; a reload rebuilds
the numbers from the cards, so it needs nothing of the old cache. The refinement
needs `Remembered`: what is in the maps, in the database or would survive a crash
was accepted before; then a reload, complete or not, is a `Recover`. That a kept
card is newer than the one it replaces follows from the cache agreeing with the
record (`KeptIsNewer`). `OkIsHeld` is the other half: what is ignored with Ok has a
cached number at least as high as its own, hence a card (`IgnoredIsHeld`). Capacity
needs `ReliableInv`: with a database that does what it is asked, disk and maps agree
while up with a database, and otherwise the disk is what a crash would leave; so
whatever a reload brings back was once a bounded map (`BoundedUpdate`,
`BoundedRemoval`).

Assumptions: `CardAssumption` (addresses are injective), `MalformedAssumption`,
`StoreAssumption` (sentinels are none of the values they stand in for). All are
evaluated by TLC in the runs.

`ReviewsProofs` proves, for any requests, addresses and database failures,
`TypeCorrect`, `OneResolution` (`ResolvedOnce`), `WholeDecisions`
(`DecisionIsWhole`) and `MirrorHolds` (`WeightsMirrored`). The properties of the
log survive a crash because they hold of prefixes (`OncePrefix` and the like).
In the log two removals of an entry have an appeal between them: a removal is written
only if the last entry of the address is an appeal, which lies after any earlier
removal (`OnceAppend`). `ResolvedOnce` joins this with `Noted`: who was answered 200
has its removal in the log, unless a crash undid it.
`DecisionIsWhole` needs `DInv`: who wrote an entry has arrived, and an operator
that is about to resolve with a new weight has written it, unless the address is
damaged (`Applied`). `WeightsMirrored` needs only that a closed store is not
opened.

`VerificationProofs` proves, for all cards, worlds and agents, `TypeCorrect`,
`Sound` (`PassedIsDeserved`), `Complete` (`RejectedIsNotDeserved`), `Agreement`
(`ManifestAgreed`) and `NoSay` (`AgentHasNoSay`). The first three follow from one
invariant, `Judged`: for each job, what the steps behind it have established
(`Established`, with `held` within the world and the world within `seen` while stage
1 runs), that the step a rejection names is one that could fail, and what an
accepted manifest hashes to. A change of the world keeps it because proofs and
manifests are monotone in the facts (`Monotone`, `WorldMoves`); a failed look-up of
the TXT record shows that the proof was not there all along, which is what the
rejection after the well-known file needs. `Agreement` rests on the hash being
injective, `NoSay` on the decision being a number or `Rejected` by the domain alone
(`DecisionTyped`). Assumptions: `ReviewsAssumption`, `VerificationAssumption`.

`MandateProofs` proves, for all lifetimes, errors, periods and keys,
`NoneOutlives` (`NeverOutlives`) and `Continuous` (`Continuity`). The invariant says
that whatever was issued is `Authentic` (signed over its own record, dated within
`Skew` of its real time, expiring `Ttl` later) and that the operator's two mandates
are `Spaced`: signed by trusted keys, the newest no older than `Period`, the other
between `2 * Skew` and `Period` before it. `Continuity` is then arithmetic: if the
newest is at least `2 * Skew` old no clock finds it too early, and
`Period + 2*Skew < Ttl` keeps it from being expired; otherwise the one before it is.
Altering a record breaks its signature, so what verifies is `Authentic`.

`DhtProofs` proves, for any nodes, keys, cards and number of crashes, `TypeCorrect` and
`NothingInvented` (`OnlyPublished`). `TypeOK`
is not inductive alone: that a node holds only signed cards needs `Genuine` (what is
under way and would be stored was published), which needs `Sound` and `Backed` (a
node holds what it accepted, and accepted what was published) because nodes pass on
what they hold; `Answered` says the same of an answer on its way to a consumer.
Assumptions: `MandateAssumption`, `BadSigAssumption`, `DhtAssumption`.

`NodeProofs` proves, for any requests, cards, peers, channel capacity and limits,
`TypeCorrect`, `Acknowledged` (`AckedIsStored`), `PublishedIsRead`
(`ReadYourWrites`), `PendingIsLive` (`PendingHasQuery`), `DecidedOnce`
(`CountedOnce`) and `OneChargePerSuccess` (`ChargedPerSuccess`). The invariant `IInv`
follows a card from its command to the answer: what is under way for a call was
sent by its handler and fits its request (`Asked`, `Sent`), and a card whose put
query runs or was answered is held, or a newer one is (`Kept`), because every step
only raises the number a key has in the store (`Grows`, `PutStep`). So the
handler that answers 201 acknowledges what is held. For the reads, `floor` holds
the numbers acknowledged when a fetch came: the store has reached them (`Floors`),
so `handle_get` answers it at once, no lookup of it is ever pending and no
"not found" under way to it (`Answers`). `PendingHasQuery` is inductive with the types.
The last two are accounts. `CountedOnce` is kept because a step of a handler changes
its own request only and moves what is counted from waiting to decided (`Balanced`);
the cardinality speaks of requests under way, which are finitely many at any time,
and this is part of the invariant (`Account`). `ChargedPerSuccess` sums over the
domains: each success raises one summand by one (`TotalIncrement`). It assumes that
`Domain` is finite; domains are strings in request bodies of bounded length.
`NodeAssumption` types the requests and the cards of peers.

`NodeProofs` also joins the two components: `StoreRefinement` proves `StoreSpec =>
ImplementsStore`, with a database or without, for any requests, peers and capacity,
and `StoreIsNode` that `NodeStore` only adds to the node (`StoreSpec => Spec`), so
all the theorems about `Node` are true of it. The invariant `StoreInv` is `IInv`
with `SendsCards` (what waits in the channel is a parsed card of its request, so
that the store is given something it can decode) and `Begun` (before `build_swarm`
nothing is stored). Each step is matched to a step of `RecordStore` by
`StoreStepRefines`; a put is the work (`PutRefines`): the decision of
`Node!StorePut`, which looks at the stored card, is that of `put`, which looks at
its cache, in each of its three outcomes. With `Refinement` of `RecordStore` the
store inside a node is a `CardRegistry` to its readers, which is what `Dht` takes a
node to be. `NodeStoreAssumption` sets the sentinel for a missing number apart from
the numbers.

The first part of `NodeProofs` shows what the recursive function behind
`MapThenSumSet` computes, for any function and finite set. The induction is over
subsets of a finite set, in the form that needs no operator parameter: among the
subsets for which a statement fails there would be a smallest (`SmallestSubset`).

`SanitizeProofs` proves, for any blocks and claims, pages of any number of them and
any truncation limit, `PromptIsolated` (`Isolated`): the section the prompt ends
with opens once and closes once, around the whole content. Nothing is assumed of
blocks and claims except that their texts are sequences, so the theorem covers what
the run leaves out: unclosed and nested elements, tags spread over pieces, claims
made of tags. The argument goes through the passes:

- Every pass turns a text into a text (`StrippedIsText`). The passes are recursive
  functions, so that they exist at all is proved first (`Recursion`, `PassExists`):
  each call is of a place further right. What they compute is shown by descent:
  a place for which a statement fails leads to one further right for which it fails
  too, and there is a last one (`Descent`, from `LeastNumber`).
- Where two texts meet at a unit that no tag has, no tag arises
  (`OccursInConcat`). `replace` puts out segments without the tag, because `Find` gives
  its first occurrence, between escapes that begin with `&` and end with `gt;`; so
  after `escape_data_boundary_tags` there is neither tag, the second replacement
  does not make the first tag again (`ReplaceFrees`, `EscapedIsUntagged`).
- `collapse_whitespace` changes blanks only: since the last blank its output is the end
  of what it read (`Follows`), so a tag in the output, which has no blank, was in
  the input. Truncation adds its notice after a line break.
- In the section all pieces meet at line breaks, which gives the places of both tags
  (`SectionIsolates`); the claims before it end with one, so whatever they hold, no tag
  begins there and ends in the section (`PromptIsolates`).

That invisible text goes before the escaping is what the proof turns on: the text that
`escape_data_boundary_tags` is given may be any, but what comes after it must not
remove units. With the passes swapped (`sanitize_content_EscapesEarly`) TLC finds the
tag that comes back together.

`SanitizeSeams` proves `ShownRemains` (`OnlyShownRemains`, and `EveryPageIsRead`: the
passes come back, without a panic), for any pieces that are
`WellMade`, pages of any number of them, and any truncation limit: cleaning the page
is cleaning its pieces. It says of each piece only what the passes do to it *alone*: it
is `Complete`, and `shown` is what is left of it (`Cleaned`). That what is left is what
a reader sees is written into the blocks of the instance by hand, as literals, and TLC
evaluates `WellMade` of them; that no combination of pieces changes it is the theorem.
The argument:

- A pass is a walk: at each place it puts out a text and goes on further right
  (`WalkExists`). The passes that look for a pattern go from hit to hit
  (`ScanWalks`; `CutIsScan`, `ReplaceIsScan`, `MetaIsScan`), the one that looks for
  elements goes unit by unit (`ElementsIsWalk`).
- Where two texts meet, the walk through both is the walk through the first, then
  the one through the second, if the first gets exactly to the seam
  (`WalksJoin`, `ScansJoin`). For this no pattern may lie across the seam, which is so
  when every `<` of the first text is followed by a `>` (`WholeIsSeamless`), and what the
  first text opens it must close (`Closed`, `HiddenClosed`).
- All this must be so before each pass, not only before the first: a pass could leave
  what the next one takes for an opening. `Complete` asks it of the text after each
  step; `CompleteJoins` shows that two complete texts make one, and that it is cleaned
  as they are. `PageIsCleaned` follows piece by piece.
- `collapse_whitespace` does not respect seams, since blanks of two pieces make one run;
  it is `Tidy` of any text (`CollapsedIsTidy`): the code drops a blank after a *space
  it put out*, `Tidy` one after a *blank it read*.

The invariant `SInv` only says how far the content is. That the hypothesis is needed
is seen from a piece that opens a comment and does not close it: everything after it
is gone (sanitize.rs:28-30), and from a wide character with another piece behind it
(`sanitize_offsets`): `Complete` asks that comments are all that holds one, and then
no page of complete pieces panics (`CompleteIsSafe`). `PlainTextRemains` needs no
pass in its hypothesis: text without `<`, invisible characters and characters that
are longer in lower case is `Complete` and shown (`UnmarkedIsShown`), so it is only
tidied and truncated.

Every safety property of a passing run is stated by a theorem. Only model-checked is
liveness (`EveryRequestEnds`, `PendingDrains`, `Converges`, `RevocationPrevails`),
which is out of the prover's reach, as is ENABLED.

## 5. Plan

Done: `Card`, `CardRegistry`, `RecordStore`, `RateLimiter`, `Node`, `NodeStore`, `Reviews`,
`Verification`, `Dht`, `Mandate`, `Sanitize`, with the proofs of section 4. Next:

1. For `OnlyShownRemains`, more kinds of text whose cleaning is known without running
   the passes, as it is for plain text: comments and elements around any content.

Runs are kept few: a new module brings one run, and a run whose question another
run covers goes.

## 6. Where code and words differ

- `node_max_per_domain`: check and charge of the limiter are several awaits apart;
  concurrent publications exceed the maximum (rate_limit.rs:10).
- `node_cooldown`: a batch never asks the limiter (rate_limit.rs:11).
- `node_weights`: a card served with trust weight 1.0 may claim a domain that
  nobody verified (card.rs:32).
- `dht_silenced`: a node with an older card keeps the one with the revocation from ever
  sending it, once the message of its publication was lost (run_tests.sh:13).
- `sanitize_offsets`: places of the text are used in its lower-cased copy; behind a
  character that is longer in lower case the slice panics (sanitize.rs:79; the test at
  200-203 says what should remain of a page).

Three more that need no run to be seen. An update of a card is charged as one more
card of its domain, which "Max 10 cards per verified domain" (rate_limit.rs:10)
leaves open. An equal or lower number is answered Ok, and by HTTP 201 "published",
where record_store.rs:13 says it is rejected (`RecordStore!Ignored`).
`stored_records` (metrics.rs:131, `/node/info`) counts puts that were answered Ok,
those that stored nothing included, and starts at zero after a restart that loads a
full database (`Node!handle_put`).

## 7. Not modelled

- Argument parsing, key files, transports, rendering of metrics and of prompts:
  I/O without protocol.
- Deployment scripts, the web page, the card generator and the network test
  scripts: not part of the program's logic.
- Connection, identify and listen-address events of the event loop: they keep
  figures that only `GET /node/info` shows.
- `harden_label` and the parsing of manifests and of the agent's reply are
  acceptable or not (`Verification`); the language model is any reply.
- In `Sanitize`: characters that are shorter in lower case, and wide ones within style and
  hidden elements (section 2). What claims with tags of their own do to the reader of the
  prompt is not a property of the text.
- In `Dht`: the choice of the closest peers, capacity, and the return of a card to
  the node it was published through. Kademlia takes a record that names the
  receiver as publisher to be known there and drops it, so a node that lost such a
  card gets it back only when somebody publishes it again; `Converges` and
  `RevocationPrevails` say nothing of that node and key. Without this exception
  TLC finds `Converges` violated. Two cards of one number (`SignedAssumption` excludes
  them) would leave each node with the one it saw first, for ever.
