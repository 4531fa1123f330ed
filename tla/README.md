# A TLA+ model of eleel

Eleel lets several Ethereum consensus nodes share one execution engine. One
node, the *controller*, drives the engine through `/canonical`; the others, the
*clients*, connect to `/` and are answered from what the controller's calls left
in eleel's caches. The promise behind all of it: a client may be told SYNCING
for lack of knowledge, but is never told VALID or INVALID on eleel's own
authority, and it is always told something.

Paths below are relative to the repository (`src/fcu.rs` and so on).

## Inventory

| Component | State | Operations | Hard parts |
|---|---|---|---|
| forkchoiceUpdated (`src/fcu.rs`) | `fcu_cache`, `justified_block_cache`, `finalized_block_cache` | `handle_controller_fcu`, `handle_fcu`, `get_cached_fcu` | a lock held across two awaits, overlapping controller calls, evictions, partial matches, polling with a deadline, failing engine calls |
| newPayload (`src/new_payload.rs`) | `new_payload_cache` | `handle_controller_new_payload`, `handle_new_payload`, decoding, recency | overlapping puts, the key is a hash a client claims, method/fork combinations, saturating cutoff |
| payload builder (`src/payload_builder.rs`) | `next_payload_id`, `payload_attributes`, `payload_info`, `payloads` | `register_attributes`, `get_existing_payload_id`, `register_canonical_payload`, `get_payload` | three LRU maps that must agree, forks with no payload form, panics |
| base fee (`src/base_fee.rs`) | none | `expected_base_fee_per_gas` | rounding, saturation, division by zero |
| shared state (`src/multiplexer.rs`) | owns all the caches, each in a tokio mutex | construction | capacities; parts that meet only at the builder |
| wire types (`src/types.rs`) | none | parsing, error responses | the version attributes are decoded as |
| process and HTTP dispatch (`src/main.rs`) | `AppState`, fixed at start | start-up, authentication, routing, batches | start-up that fails half way, a batch that fails half way, an engine that hangs |
| JWT (`src/jwt.rs`) | secrets, by key ID | loading, verification | key selection and fallback, rotation only by restart |
| meta methods (`src/meta.rs`) | none | constant answers, forwarding | timeouts |
| configuration (`src/config.rs`) | none | options, secrets file | options that keep eleel from starting, and one that is never read |
| logging (`src/logging.rs`) | none | none | none |

Components interact through shared memory only. Every HTTP request runs as one
task on a multi-threaded runtime; the fcU handlers call the builder
(`register_attributes`, `get_existing_payload_id`) after the status is known,
and the newPayload handler calls it (`register_canonical_payload`) after the
engine has answered. Nothing is persisted: a restart is the initial state.

What makes each component correct:

* fcU: every definite reply is the engine's; a cached verdict is final; the
  lookup is atomic although it awaits; what the controller is told clients can
  be told; every request is answered.
* newPayload: a client's status stands for that very payload; SYNCING is only
  synthesised for a payload with correct hashes; only old payloads skip the
  wait; a proper request is never refused and decoding never panics; every
  request is answered.
* builder: an id stands for one payload for ever; nothing is stored that
  getPayload cannot serve; attributes are known only once they were built.
* base fee: EIP-1559, rounding included.
* the whole: dummy payloads extend blocks the engine has answered for; what the
  controller registers, clients find.
* process: once it serves it admits every node its files name; a body is
  refused without effect or answered in full and in order; nothing reaches a
  handler unauthenticated; every body is answered though the engine may hang.

## Modules

| Module | Models |
|---|---|
| `LruCache` | the `lru` crate as eleel uses it (external) |
| `Types`, `ChainSpec` | statuses, error codes, fork choice states, attributes; slots and forks |
| `ForkchoiceUpdated` | `src/fcu.rs` and its three caches |
| `NewPayload` | `src/new_payload.rs` and its cache |
| `PayloadBuilder`, `BaseFee` | `src/payload_builder.rs`, `src/base_fee.rs` |
| `Multiplexer` | the handlers and the builder together, as `src/multiplexer.rs` holds them |
| `Gateway` | the process: start-up, secrets, routes, batches, dispatch, `src/meta.rs` |
| `StatusOracle` | no code: what the fcU and newPayload handlers promise, to be implemented by both |
| `MC…` | requests, blocks and fork schedules for TLC |
| `…Proofs` | lemmas and theorems about the module of that name; `LruCacheProofs` serves the others, `BaseFeeProofs` is about the chains of `MCBaseFee` |
| `ForkchoiceUpdatedRefinement` | what needs more than `ForkchoiceUpdatedProofs` has: the oracle, and exact matching with room for all |

### Correspondence

**Tasks and awaits.** A Rust task can be interrupted only at an `.await`, and
threads meet only at the mutexes, so one action is the code from one await to
the next and `pc` is the await a task is suspended at. A mutex that no code
holds across an await needs no variable: acquiring it, using it and dropping it
is one action. `fcu_cache` is the exception. The guard `cache` in
`get_cached_fcu` lives to the end of the function, so it is held while the
checkpoint mutexes are awaited; `FcuCacheUnlocked` says that no task is there.
The guard on `justified_block_cache` is a temporary of the left operand of `&&`
and is dropped before the right operand is evaluated, so it is not held while
`finalized_block_cache` is awaited. As no task ever holds a checkpoint mutex at
an await, no cycle of waiting tasks can form and these mutexes need no state;
what can go wrong is that the guard on `fcu_cache` stays with a lookup that does
not end, and `RequestsAreAnswered` is about that.

**LRU caches.** A cache maps the keys it holds to a value and a rank, 1 for the
most recently used. `get`, `get_mut`, `put` and `get_or_insert` renew an entry;
`contains` and `iter` do not. Hence the exact lookup renews and the loose and
head-only lookups, which iterate, do not; the loose one returns the most
recently used entry with the head. Renewals decide what is evicted, so they are
part of every action.

**The engine** is external and not trusted to be consistent: it may answer any
status at any time, the same question differently at different times. An fcU it
finds VALID becomes its fork choice. A call may fail; the engine may then never
have seen it or may still process it (`orphans`). `el_said` is a history
variable of its answers. `ConsistentEngine` (in `NewPayload`) restricts it to
never going back on a verdict. `NpTwoControllers` and the composed runs set it:
the findings do not depend on a whimsical engine, and `MuxPayloads` stays small
enough (the theorems about the composition hold either way).

**Disconnects.** When a peer closes its connection the server drops the
handler at its current await, guards included (`Disconnect`).

**Time.** The polling loops read the clock before each round. `MaxPolls` is the
number of rounds that fit; `TimeUp` may come earlier because lookups take time
too. A wait of 0 ms is `MaxPolls = 0`.

**Data.** Block hashes are model values. A payload is its hash, number,
timestamp, the version of the structure its hash covers, and whether the hash
is honest; decoding it as another version gives another hash. V3 and V4 payloads
have the same fields, and decoding ignores unknown fields, so an older structure
can be read from a newer one. Attributes keep their version, because the
builder's key compares it, and their timestamp. The controller is trusted to
send honest payloads: `handle_controller_new_payload` does not check the hash
before it keys the cache.

**The builder** takes its one mutex in each operation and awaits nothing else:
one action per operation, split by outcome. A panic (base fee with a target of
0) drops the guard; tokio mutexes are not poisoned. `get_payload` is the lookup,
`handle_get_payload` what is answered after it: one of four response forms by
the fork of the payload (`ResponseForm`), an error, or a panic from Fulu on.
`promised` is a history variable. In `ForkchoiceUpdated` and `NewPayload` by themselves the builder's
outcome is an arbitrary choice (`BuilderOutcome`).

**Composition.** `Multiplexer` extends `PayloadBuilder` and instantiates
`ForkchoiceUpdated` and `NewPayload` over their own variables. The three parts
share nothing but the builder, so a step is a step of one handler
(`FcuProceeds`, `NpProceeds`), a call of a handler to the builder, which is a
conjunction of one action of each (`RegisterAttributes` with the outcome of
`register_attributes`, `GetExistingPayloadId`, `RegisterCanonicalPayload`), or
a `getPayload`.

**The oracle.** `StatusOracle` has questions, answers and what the engine has
said, and no caches, polling, locks or awaits. A task may answer with a status
only if the engine's answers so far support it for its question, or with a
SYNCING of its own where that is allowed. The refinement mapping takes `busy`
from `pc # "idle"`. For fcU a status is supported under the matching mode in
force (`Backed`: said for the fcU itself, or with loose matching for the head,
with both checkpoints from VALID fcUs), and a client may be told SYNCING for
want of anything else; for newPayload a status is supported only for the very
payload asked about, and SYNCING needs right hashes. The controller is never
sent a status of eleel's own. Every disjunct of the handlers' next-state
relations is a step of the oracle or a stutter.

**The process.** `Gateway` reads its configuration once (`Load`), waits for the
genesis state, and serves until it exits; any `unwrap` that fails on the way
ends it. `Launch` may come with another configuration, which is how secrets are
rotated. A request body is authenticated and parsed in one step (nothing is
awaited in between) and then walks through its requests one handler at a time;
`calls` records the handlers reached. A JWT is whose key signed it and the key ID
it claims. The handlers of the other modules appear by name with their outcomes.
`Exit` and `Drop` are the ways to lose a connection; a panic inside a handler is
a `Drop`.

## Runs

| Run | Instance | Shows |
|---|---|---|
| `FcuLoose` | 1 controller with 2 fork choices, 1 client with a combination of them, 3 blocks, caches of 1/1/1, loose, VALID/INVALID, failures, disconnects, fair | `TypeOK`, `VerdictsComeFromEngine`, `LockedReadIsCurrent`, `ImplementsOracle`, `RequestsAreAnswered` |
| `FcuExact` | 2 controller requests (symmetric) for one fork choice, 1 client, every request shape, attributes, VALID/SYNCING, failures, disconnects, exact | `ControllerVerdictIsServed`, `DefiniteEntriesAreFinal`, `ImplementsOracle` |
| `NpClients` | 1 controller with 3 blocks, 1 client with honest and corrupted payloads, cache of 2, failures, disconnects | `TypeOK`, `ClientStatusIsJustified`, `OnlyOldPayloadsSkipTheWait`, `ControllerVerdictIsServed`, `ImplementsOracle` |
| `NpShapes` | 1 controller, 1 client; every method with every payload version at every fork, every arity; failures, disconnects, fair | `ProperRequestsAreServed`, `RequestsAreAnswered` |
| `BaseFeeChain` | fees to 40, gas limits 2 to 9 | `FeeFollowsEip1559`, `FeeStaysPositive` |
| `MuxPayloads` | 1 fcU controller with attributes at Bellatrix, Deneb, Electra and Fulu, 1 fcU client, 1 newPayload controller with 2 blocks (one makes the base fee panic), builder caches of 2, 3 ids | `MuxTypeOK`, `IdsNameOnePayload`, `StoredPayloadsCanBeServed`, `PayloadsExtendAnsweredBlocks`, `KnownAttributesWereBuilt` |
| `Gateway` | 14 configurations, 13 tokens, both routes, 20 bodies, 1 connection, restarts, fair | `TypeOK`, `AnswersMatchRequests`, `OnlyKnownNodesAreServed`, `ConfiguredNodesAreAdmitted`, `BodiesAreAnswered` |

The bounds are chosen so that every hazard happens: caches smaller than the
number of distinct keys (the three fcU caches evict in `FcuLoose`,
`new_payload_cache` in `NpClients`, `payload_attributes` and `payloads` in
`MuxPayloads`; `payload_info` has room for both blocks there, and its evictions
are left to the theorems), two fork choices with a head and a safe block each
and a third made of both (loose matching combines calls), at
least one poll (an indefinite entry is met while waiting and again at the end),
block numbers 1, 2 and 4 with a cutoff of 1 (both sides, and the saturating
case), more payload ids than cache entries, and base fees on both sides of the
one (8) where the rise rounds to the minimum of 1. One connection is enough for
`Gateway`: connections share only `AppState`, which is not written while it
serves. The batches have 0, 2 and 3 requests, with errors at the front, in the
middle and at the end. Every action fires in some
passing run. No run turns off deadlock checking: tasks always accept requests.

Head-only matching has no run of its own, and loose matching none with two
controllers; the theorems about verdicts, locks, definite entries and
the oracle below cover every mode and number of tasks. Attributes from before genesis are in
no builder run; the builder's theorems include them. The two controllers of `FcuExact` are
interchangeable (both may send every request, and no property names one), so
they are a symmetry set; blocks are not, since the request sets name them.

### Fairness

`RequestsAreAnswered` assumes weak fairness of every task's own steps (the
runtime polls every task that can go on, and sleeps end), weak fairness of the
end of an engine call (the HTTP client has a timeout, with multiplier 2, so a
call ends in an answer or an error), and strong fairness of acquiring the
`fcu_cache` mutex (tokio's mutex is FIFO: a waiter is not overtaken for ever).
Nothing is assumed of arrivals, disconnects or the engine's late work.

`BodiesAreAnswered` assumes less: weak fairness of a handler that can go on by
itself and of the timers (`TimesOut`). That the engine ever answers is not
assumed, so it is the timeout of each call that ends it.

### Findings

Five runs are expected to fail; each shows the code at odds with what the
repository says of it.

* `FcuEngineFollows`. README: the controller's messages "will be sent directly
  to the execution node". Fork choices A, B, A: the third is answered VALID from
  the cache and the engine stays at B.
* `FcuLooseServed`. With the safe hash evicted from `justified_block_cache`, the
  controller's repeat is answered VALID by the engine, discarded as a redundant
  update, and the hash is not put back: clients cannot be served the "definitive
  (VALID) response" however long they wait. The run has no disconnects, to show
  that evictions are enough; a controller that goes away between the put into
  `fcu_cache` and the puts of the checkpoints has the same effect.
* `NpTwoControllers`. Two overlapping controller requests for a payload: the
  earlier SYNCING is put over the later VALID.
* `MuxTracked`. The controller's connection breaks while its handler waits for
  the builder, after the put into `new_payload_cache`. The repeat is answered
  VALID from the cache, and the block that `register_canonical_payload` is to
  track never becomes a parent to build on.
* `MuxAttributes`. The controller sends attributes with forkchoiceUpdatedV3 as
  the README advises and the payload is built; a client with the very same
  request finds none, because its attributes are decoded as V2.

Three smaller ones, seen while modelling and not given a run:
`finalized_block_cache_size`, "Number of finalized block hashes to cache in
memory" (`src/config.rs`), is never read, `Multiplexer::new` uses the justified
cache's size for both; `register_attributes` returns an id as "already
known/built" whose payload may have been evicted, since only
`payload_attributes` is renewed; and a token that claims a key ID which is not
configured is tried against every key, where the README has that only for
tokens without an id. No property depends on the first or the third:
`ConfiguredNodesAreAdmitted` speaks of tokens with the node's own key ID or with
none, as the README does. The second is within `KnownAttributesWereBuilt`, which
lets an id be without its payload only if the map was filled.

## Proofs

`ForkchoiceUpdatedProofs` proves four results for every set of blocks, tasks
and requests, every set of engine statuses, every positive cache size, every
matching mode and number of polls, from `ForkchoiceUpdatedAssumption` only.

* `TypeCorrect`: `Spec => []TypeOK`. `TypeOK` is inductive. The work is in the
  caches: `LruCacheProofs` shows that `LruEmpty`, `LruTouch` and `LruPut` give
  well-formed caches (ranks distinct and contiguous from 1, so a cache has at
  most as many keys as its capacity) and that the first of a non-empty set of
  cached keys is one of them. That needs a least element of a set of ranks
  (`LeastNatural`).
* `VerdictProvenance`: `Spec => []VerdictsComeFromEngine`. The property speaks
  of replies only, so it is strengthened to `VerdictInv`: every entry of
  `fcu_cache` was said by the engine, every checkpoint comes from an fcU it
  found VALID, a task that has checked one checkpoint has it backed, a
  status at hand is backed as far as its pc promises, and a put of a checkpoint
  follows a VALID answer. `el_said` only grows, so what is backed stays backed
  when entries are evicted.
* `DefiniteIsFinal`: `Spec => DefiniteEntriesAreFinal`. Of the actions only the
  exact lookup and `UpdateFcuCache` touch `fcu_cache`; the first keeps values,
  and the second writes only where no definite status is cached.
* `LockedReads`: `Spec => []LockedReadIsCurrent`. The property, put task by task
  (`LockedReadInv`), is inductive: both actions that change `fcu_cache` require
  `FcuCacheUnlocked`, so they fire only when the claim is empty for every task.

`PayloadBuilderProofs` proves four results about the builder, for every set of
blocks and attributes, every fork schedule, cache size and sequence of calls,
from `PayloadBuilderAssumption` (blocks carry natural numbers, sizes are
positive). None of the four properties is inductive alone; all follow from
`BuilderInv`, which adds

* `InfoInv`: `payload_info` holds what each block's own payload says, so that
  the number of a dummy payload is its parent's plus one for good;
* `IdInv`: every stored payload and every promise is below `next_payload_id`,
  and the id of every cached key was promised for that key. So a new id is
  fresh, and the early return of `register_attributes` promises nothing new;
* `ForkInv`: every stored payload is of one of the four forks with a response;
* `BuiltInv`: a known id has its payload, or `payloads` is full in the sense
  that some entry has the last rank (`LruFull`). Renewals and the put of a fresh
  id keep a full map full (`LruTouchFull`, `LruPutFull`), and only a full map
  drops an entry. `LruFullCardinality` turns the last rank into the number of
  entries, by the bijection between ranks and keys.

The theorems are `BuilderTypeCorrect` (with `BaseFeeIsNat`: where
`expected_base_fee_per_gas` does not panic its result is a natural number,
whatever the parent), `IdsAreUnique` (`IdsNameOnePayload`),
`PayloadsAreServable` (`StoredPayloadsCanBeServed`) and `AttributesWereBuilt`
(`KnownAttributesWereBuilt`). They are theorems of the
builder called in any order; `MultiplexerProofs` carries them over to the
handlers doing the calling.

### The oracle and exact matching

`ForkchoiceUpdatedRefinement` has two results about fcU.

* `Refinement`: `Spec => ImplementsOracle`, for every instance and matching
  mode. `VerdictInv` speaks of definite statuses only, while the oracle asks for
  the origin of SYNCING and ACCEPTED too; `PendingInv` adds that a task which is
  about to send a status, definite or not, has it supported. `MovedSupported`
  shows it of a task's own step, and each disjunct of `Next` is then an `Ask`,
  `Learn` or `Answer` of the oracle, or leaves its variables alone.
* `ExactVerdictServed`: with exact matching, `ControllerVerdictIsServed`. It has
  three hypotheses. Without exact matching it is false (`FcuLooseServed`), and
  so it is when the cache evicts, hence `RoomForAll`: the controller's fork
  choices fit into `fcu_cache`. And the engine must not go back on a verdict
  (`[]EngineConsistent`): `update_fcu_cache` keeps the first definite status, so
  a VALID after an INVALID is told to the controller and not cached. Any number
  of controller requests may race. The invariant is `HeldInv`: only the
  controller's fork choices are cached, and a VALID it was told or is about to
  be told is there. That nothing is evicted is a pigeonhole argument on the
  ranks (`LruPutWithRoom`).

`ForkchoiceUpdatedProofs` also has `AttributesComeFromRequests`, which the
composition needs: attributes that reach the builder were decoded from a
request.

### newPayload

`NewPayloadProofs` proves everything `NpClients` and `NpShapes` check, but for
liveness, for every set of payloads, requests and tasks, every fork schedule,
cutoff and cache size. One inductive invariant, `Inv`, serves five of the
six theorems. Beside `TypeOK` it says that only the controller's payloads are
put to the engine, that a cached status was given for a payload with that hash,
and, task by task (`TaskInv`), that each side is at an await of its own handler
with a request of its own, that a status at hand was given for the payload at
hand, that a client which skipped the wait has an old payload, that a proper
request has not been refused, and that a client's reply is justified.

* `TypeCorrect`, `ProperRequestsServed` and `OldPayloadsOnly` need no
  hypothesis. `ProperRequestsServed` includes that the decoding never panics,
  for every method at every fork.
* `ClientStatuses` and `Refinement` (of `StatusOracle`) assume `TrustedHashes`:
  the controller's payloads have the right hash, which eleel does not check,
  and two payloads with right hashes that agree on the hash are equal. Clients
  may send anything.
* `OneControllerVerdict` assumes one controller task, as `NpClients` has it;
  with two it is false
  (`NpTwoControllers`). Its invariant, `VerdictCachedInv`, follows the verdict
  from the engine's answer through the put to the reply. Evictions are allowed:
  `put` makes room by dropping others, and no one else puts.

### The composition

`MultiplexerProofs` rests on `MultiplexerAssumption`, which says that the
constants are as each part assumes, that `Attributes` covers what requests
decode to, and that a controller's payload carries the number of its block (its
hash covers it).

* `PartsImplemented`: `MuxSpec` implements the specifications of
  `ForkchoiceUpdated`, `NewPayload` and `PayloadBuilder`, so whatever is proved
  of a part holds in the whole. For the handlers it is a matter of matching
  steps. The builder is specified for keys in `Key` and blocks in `Block` with
  statuses in `EngineStatus`, and that the handlers call it with nothing else
  is an invariant of theirs (`KeyInv`, `RegisterInv`), drawn from
  `AttributesComeFromRequests` and the `Inv` of `NewPayloadProofs`.
  `FcuSpecs` and its like bridge two instances of one module: expanded to the
  last definition they are the same formulas.
* `MuxTypeCorrect`, `MuxIdsAreUnique`, `MuxPayloadsAreServable` and
  `MuxAttributesWereBuilt` follow.
* `PayloadsExtendBlocks`: `PayloadsExtendAnsweredBlocks` relates the builder's
  payloads to the answers of the engine two components away. It is strengthened
  to `ParentsInv`, which puts `payload_info` in between: every block in it was
  answered for and not rejected, with its number, and every stored payload
  extends such a block. `RegisterInv` gives it for the block that is added, and
  as `np_said` only grows, evictions do no harm.

### The process

`GatewayProofs` proves the four invariants of the run `Gateway` for every set of
connections, secrets, configurations, tokens and bodies, batches of any length
included, from `SecretAssumption` and `InputsAssumption`: `TypeCorrect`,
`BodiesWhole` (`AnswersMatchRequests`), `KnownNodesOnly`
(`OnlyKnownNodesAreServed`) and `NodesAdmitted` (`ConfiguredNodesAreAdmitted`).
The invariant has two halves. `ProcessInv`: from `Load` on, what is loaded is
what the files say and is usable (`LoadedIsUsable` gives `AppState`), and only a process that serves has connections
under way; so a restart with other secrets leaves no call behind that they
would not admit. `ConnsInv`: the calls of a connection are the handlers of its
body's requests in turn, all admitted by its token; a pending handler is one
call ahead of the answers; and a reply fits its body.

### Base fee

`BaseFeeProofs` proves `FollowsEip1559` and `StaysPositive` for every fee and
gas limit (`BoundsAssumption` only has the bounds be natural numbers). The heart
is `NestedDivision`: dividing by the target and then by 8, rounding down both
times, is dividing by eight targets. `FallIsSmall` shows that a fall is at most
an eighth of the fee, so the saturating subtraction does not saturate and a
positive fee stays positive. `ChainInv` says that each block of the chain has a
positive fee and a target that is not 0.

### Only model-checked

* `RequestsAreAnswered` (fcU and newPayload) and `BodiesAreAnswered`: liveness
  under fairness is beyond the prover.
* The five findings, which are single behaviours.

The hypotheses of the theorems hold of the instances whose runs check the same
properties: `TrustedHashes` of `NpClients`, `RoomForAll` and `EngineConsistent`
of `FcuExact`. (`NpShapes` has one hash in every version of the structure, so
`TrustedHashes` is false of it; `ProperRequestsServed` does without.)

## Not modelled

The syntax of JSON, TOML and the command line, HMAC itself and the claims the
code does not look at, `/health`, logging, message
texts, `latest_valid_hash` and `validation_error` (they travel with the status
unchanged), the payload fields the builder copies, the contents of forwarded
answers, the engine's internals, the 256-bit width of base fees. `Gateway` and
`Multiplexer` are not composed with each other: the only thing the process and
the handlers share is that a handler runs while its connection lasts, which
each of them has (`Drop`, `Disconnect`).

## Plan

Done: the handlers, the builder, their composition, the oracle they implement,
the process around them; every invariant, action property and refinement that a
passing run checks is also a theorem. Left:

1. `LockedReadIsCurrent` and `DefiniteEntriesAreFinal` stated of `MuxSpec`,
   which `PartsImplemented` gives;
2. `ExactVerdictServed` without `RoomForAll`, for the fork choices among the
   most recently used ones.
