# Formal model of the order service

TLA+ specifications of the NestJS order service in `src/`: placing orders, the
transactional outbox and its consumers, refresh-token rotation, checkout and its
background workers, the live order stream and its WebSocket rooms, what the
service keeps in Redis, guarded uploads, the object storage and the edge in
front of it, and the retry of serializable transactions. TLC checks each on a
small instance; TLAPS proves every safety property that a passing run checks,
and the refinements of the three abstract specifications, for every instance.
Paths below are relative to the application's source directory unless they
start with `README.md` or `openapi/`.

## 1. The system

| Component | State | Operations | Hard behaviour | What makes it correct |
|---|---|---|---|---|
| Order placement (`orders/orders.service.ts`) | `idempotency_keys`, `orders`, `order_items`, `outbox_messages`, the pool | `create`, `findById`, `updateStatus` | two requests with one Idempotency-Key, retries after a lost commit answer, partial failure, prices that change between two reads, a full pool | one order for a key; order, key and event appear together or not at all; everyone is answered |
| Outbox relay (`outbox/*`) | `outbox_messages.published_at`, row locks | `relayOutboxBatch` | a crash between publish and commit, two relays at once, a confirm for a message that went nowhere | rows are shared out, and a published row is accounted for |
| Order event consumer (`rabbitmq/*`) | queue, dead-letter queue, `processed_messages`, `order_event_effects`, unacknowledged copies | `startOrderPlacedConsumer`, `handleOrderPlaced` | redelivery, concurrent copies, a crash between commit and ack, a closed channel | effect at most once, no copy lost |
| Authentication (`auth/auth.service.ts`) | `refresh_tokens`, `access_token_denylist`, row locks | `login`, `refresh`, `logout` | racing refreshes, reuse during rotation, logout during refresh, deadlocks, expiry | one usable token per family; reuse and logout end a family |
| Access control (`auth/*.guard.ts`, `access-denylist.ts`) | reads the denylist | guards | two clocks | no handler runs for a token that was logged out before, except one that has expired for the database |
| Checkout (`checkout.ts`) | `products.stock_quantity`, `users.balance`, `orders`, `post_processing_tasks` | `checkout` | competing UPDATEs, publish after commit | nothing oversold, stock and money taken together |
| Post-processing workers (`demo-workers.ts`) | `post_processing_tasks`, row locks | `runWorker` | SKIP LOCKED, a worker that fails | each task once, none left behind |
| Order stream (`orders/order-events.service.ts`, `orders.controller.ts`) | buffers, `nextEventId`, subscriptions, in memory | `updateStatus` + `emitStatusChanged`, `streamOrderEvents` | events while a handler awaits, disconnects, restart | in order, each once, nothing buffered is missed |
| WebSocket gateway (`orders.gateway.ts`) | rooms | `afterInit`, `joinOrderRoom` | no replay; the owner is looked up while events go on | a socket in a room misses no event of its order and hears of no other's |
| Product cache (`redis/cache.ts`, `product-cache.ts`) | Redis values and a lock with a TTL | `getOrLoadCached` | a loader slower than the lock | one load at a time, bounded staleness |
| Rate limiter (`redis/rate-limit.ts`) | sorted sets | `check` | clocks of several instances | at most `limit` per window |
| Sessions (`redis/session.ts`) | Redis keys with a TTL | `create`, `get`, `delete` | expiry between GET and EXPIRE | an ended session is not returned |
| Uploads (`files/files.*`) | `files`, S3 objects | `createUploadIntent`, the client's PUT, `commitUpload` | object replaced during commit, two commits at once | a committed row, and every answer, tells the size of its object |
| Multipart uploads (`files/multipart.ts`, its client `demo-multipart.ts`) | multipart uploads in the bucket | `createMultipartUpload`, parts, `listUploadedParts`, `completeMultipartUpload`, `cleanupMultipartUploads` | pages of parts, a cleanup beside uploads and beside other cleanups | an object has all its parts; a cleanup ends what it listed |
| CDN edge (`cdn/edge-server.ts`) | a map in memory | request handler | concurrent misses | one body for a URL |
| Serializable retry (`demo-retry.ts`) | `users.balance` | `runWithRetry` | exhausted retries | every increment counted once |

Placement writes the outbox row which the relay reads, in the same database; the
relay and the consumer meet only through RabbitMQ. Checkout publishes to the
same exchange directly, after its commit. The order stream gets its events from
`updateStatus` through an in-process event, and the gateway passes each one on in
the same turn. Tokens are issued by authentication
and read by the guard in front of uploads. Uploads, multipart uploads and the edge
share a bucket under different keys.

## 2. The modules

Each code transaction runs under READ COMMITTED. A module has one action per
awaited query or message, because between two awaits Node runs other requests
and PostgreSQL runs other transactions. What a transaction has written is local
to it until its commit; row locks and unique keys that make another transaction
wait are guards. Work that nobody can observe between two awaits (for instance
the INSERTs of `checkout`, all of new rows) is part of the commit.

| Module | Stands for | Correspondence |
|---|---|---|
| `IdempotentOrders` | promise of `POST /orders` | `Place(k)`: order, key and event in one step, once for a key |
| `OrderPlacement` | `OrdersService.create`, `updateStatus`, the pool | `pc[r]` is the await that request `r` is at; `ReserveKey` is the INSERT ... ON CONFLICT, `LockExistingKey` and `ReadExistingOrder` the replay, `PriceItem` and `InsertLine` the two loops, `WriteOutbox`, `LinkKey`, `Commit`; `Fail` and `CommitUnacknowledged` are the catch block. `tx[r]` holds locals and uncommitted rows |
| `EventDelivery` | relay, topology, broker, consumers | `SelectRows`, `Publish`, `MarkPublished`, `CommitBatch`; `AssertTopology`; `Deliver`, `InsertMarker`, `InsertEffect`, `CommitEffect`, `Ack`, `Nack`. The rows of a relay are a set, published in the order of their numbers. `handler[s]` is one of the `Prefetch` callbacks of a consumer |
| `TokenFamily` | promise of rotation | a family has one current token, moved on or closed |
| `AuthTokens` | `login`, `refresh`, `logout` | `LockToken`, `LockUser` (FOR UPDATE through the JOIN), `ScanFamily` and `RevokeRow` (the UPDATE by family: snapshot, then rows), `Deny`, `CommitRevocation`, `Rotate`, `DeadlockVictim` |
| `AtomicPurchase` | promise of `checkout` | stock and money in one step |
| `Checkout` | `checkout` | `TakeStock`, `TakeMoney`, `Commit`, `Publish` |
| `TaskWorkers` | `runWorker`; composed with `Checkout` | `ClaimTask` (SKIP LOCKED), `FinishTask`, `LookAgain` (`hasPendingTasks`) |
| `OrderStream` | status updates, `OrderEventsService`, the SSE handler, EventSource clients | `CommitStatus` then `Emit` (the await between them), `Stream` (replay, subscribe, listen for `close`: one turn), `Close`, `Restart`. The ids of a buffer ascend, so that `getEventsAfter`, a filter, is the rest of the buffer from the first larger id (`EventsAfter`) |
| `OrderRooms` | `OrdersGateway`; composed with `OrderStream` | `JoinOrderRoom` up to the await, `CheckOwner` and `EnterRoom` after it; `Broadcast` is the subscription of `afterInit` and a part of the step that emits; `CloseSockets` goes with `Restart` |
| `ProductCache` | `getOrLoadCached` for one product | `Get`, `TakeLock` (SET NX PX), `Recheck`, `Load`, `Store`, `Release` (the script), `Wait` (a turn of the loop, and the fallback after the last); `LoseLock` and `LoseEntry` are TTLs and the eviction of `allkeys-lru` |
| `RedisClock` | the time by which keys expire | base of the next two |
| `RateLimiter` | `RedisRateLimiter.check` and `reset` | `SendCheck` is `Date.now()` on the clock of an instance, `Allow` and `Refuse` the two ends of the Lua script, which runs up to `MaxDelay` later; no clock is more than `MaxSkew` ahead of another; a lost answer lets ioredis send the script again |
| `Sessions` | `createSession`, `getSession`, `deleteSession` | `GetValue` and `Expire` are the two commands of `getSession` |
| `AccessControl` | `AuthGuard`, `isAccessTokenDenied`, the denylist row `logout` writes | `VerifyAccessToken` on the clock of the process, `CanActivate` with the SELECT on that of the database, `DbAhead` ticks ahead |
| `FileUploads` | `FilesService` behind the guard; extends `AccessControl` | `CreateUploadIntent`; `PutObject` with the presigned URL, past the API; `FindFile`, `HeadObject`, `UpdateFile` are the awaits of `commitUpload` |
| `MultipartUploads` | `multipart.ts` and the processes of `demo-multipart.ts`, each `main()` from its first `clean()` to its last | `CreateMultipartUpload`, `PutPart`, `Resume`, `ListForComplete` and `CompleteMultipartUpload` (the two calls of `completeMultipartUpload`); `ListUploads`, `AbortUpload`, `DeleteDemoObject` are `clean()` of one process, at any time beside that of another |
| `EdgeServer` | `edge-server.ts`, content-hashed names | `Request` up to `GetObject`, `Keep` is `cache.set` |
| `SerializableRetry` | `incrementBalance` in `runWithRetry` | `Read` takes the snapshot, `Update` waits for the row, `Conflict` is 40001 and its catch block |
| `OrderPlacementProofs`, `EventDeliveryProofs`, `AuthTokensProofs`, `SerializableRetryProofs` | theorems on the modules of these names | section 5 |
| `TaskWorkersProofs` | theorems on `Checkout` and `TaskWorkers` | section 5 |
| `OrderRoomsProofs` | theorems on `OrderStream` and `OrderRooms` | section 5 |
| `RedisProofs` | theorems on `ProductCache`, `Sessions` and `RateLimiter` | section 5 |
| `StorageProofs` | theorems on `FileUploads`, `EdgeServer` and `MultipartUploads` | section 5 |
| `MC...` | instances for TLC | values of constants and restrictions to a representative of symmetric behaviours |

External code is modelled from its use here: PostgreSQL's row locks, unique
keys and deadlock detection; RabbitMQ's exchange, queues, confirms and
redelivery; EventSource's reconnection; socket.io's rooms; the bucket. Such definitions are marked external in
`PROJECT.json`.

Data abstracted: hashes, signatures, passwords, uuids and dates (a token is a
number, its age one of fresh, access token expired, refresh token expired);
product and user rows beyond price, stock and balance; message bodies (an event
is its order). Quantities and prices are integers without a width. The relay's
`attempts` column and the `stats` objects are left out. The content hash in a name
at the edge, which the code cuts to eight digits, is taken to be injective.
`ListMultipartUploads` gives 1,000 uploads at once; fewer are taken to be open. The
SDK's own repetition of `CreateMultipartUpload` after a lost answer, which can leave
a second upload in progress, is modelled as the failure of the call only.

## 3. What is checked

`MaxFaults` bounds failures in a run: any query may fail, a commit may take
effect and its answer be lost, a process may end, a connection may be cut.

| Run | Instance | Shows |
|---|---|---|
| `placement` | 3 requests, 2 of them with one key and the third with that key or its own, a pool of 2, 3 bodies (empty, two lines, an inactive product), a price change, a fault | one order for a key whatever the order of the awaits; key, order and outbox row match at every moment; two 201 answers to one key agree on the order; the stored total is the sum of the lines unless the price changed between the two loops; `create` implements `IdempotentOrders`: an order and its event appear together; every request is answered although requests that wait for a key hold a connection |
| `replay_response` | 3 requests | finding: the repeated request is answered with the order's present status |
| `delivery` | two stories: 2 events, 2 relays with batches of 2, 2 consumers with one slot, an empty broker, a fault; and 1 event, a ready broker, two slots each, 3 faults | a published row has an effect, a copy, a dead letter, or was published before the queue was bound; with copies redelivered and handled side by side the effect is applied at most once, and the marker is there exactly when the effect is; every event is settled if somebody operates the system |
| `unrouted_event` | 1 event, an empty broker | finding: a confirmed message that reached no queue |
| `auth` | 2 calls at a time, 3 token pairs, an expiry (of one token of a pair or of both) or a fault | at most one usable token in a family, each used token with one successor; reuse and (unless overtaken) logout close the family for good, and a logout that denies the access token revokes the family with it; `AuthTokens` implements `TokenFamily`; every call ends, those that lock rows in different orders included |
| `logout_race` | the same without expiry and faults | finding: a refresh that overtakes a logout |
| `workers` | 3 checkouts of 2 users and 2 products with stock and money for some of them, 2 workers, 2 faults | a checkout that returns has its order, task and event; each task is processed once and none is left to a worker that stopped early; `checkout` implements `AtomicPurchase`, so that nothing is oversold and stock and money are taken together |
| `order_stream` | 2 orders of 2 users, 3 updates, a buffer of 1, a restart; 1 client with 2 connections, or a socket | in order and each once; a client that reconnects has all that is buffered; the last event tells the settled status; subscriptions of clients that left end; a socket hears each event of the orders it has joined, and nothing of another user's |
| `attempts` | 3 reads of a cold key, 2 turns of the waiting loop, a change of the product, a failure, any number of expiries; or 4 calls with 3 retries, any number of lost connections | nobody but its owner and Redis removes the stampede lock; one load unless a lock, a read or the entry is disturbed; a stale value goes although no write removes it; every read ends, also behind a lock whose owner is gone; every committed increment is counted once; nobody runs out of retries; every call ends |
| `redis_state` | 4 checks with a limit of 2 by 2 instances whose clocks differ by a tick, a delay of a tick, a window of 4, a lost answer, a reset; 2 sessions with a TTL of 2, 2 readers | no more than the limit in a window less the spread of the clocks; refusals only when it is full; waiting Retry-After seconds is enough; a session that has ended does not come back through a late EXPIRE |
| `storage` | 2 tokens of 2 users, 3 guarded requests, a file, 2 sizes, a database a tick ahead; 2 processes that upload up to 3 parts (one of which a page of 2 does not list) and each clean up first and last, 2 lost calls or deaths; 3 requests to the edge for an asset of 2 contents and a plain key | the guard shuts out who logged out, but for a tick of the clocks; a completed row and every answer tell the object's size unless it was replaced after it had been asked for; a multipart object has no gap, and all its parts unless there are more than a page; a `clean()` that returns has aborted all it listed, one that throws met an upload completed or aborted by another process, and a process whose last one returned leaves nothing of its own in progress; the edge answers alike unless it asked twice at a time for a plain key |
| `first_page` | 1 process, a file of 3 parts, pages of 2 | finding: an object without the parts after the first page |

Why these bounds. The hazards are races of two (two requests for a key, two
relays, two consumers, two calls for a token, two workers), so each instance
has two actors that conflict; placement has a third request that fills the pool
or retries later. Batches, prefetch, the buffer and the pool are small enough to
be full. Three token pairs are a family with a rotation beside another login, or
a chain of two rotations. The copies of one event come to two consumers with
two slots, and with three faults it comes again after a crash, a cut and a
failed query. Three reads of the cache are the owner of the lock, one that waits
for it and one that comes after either. Four checks fill a window of two, are
refused, and are allowed again in the next; half-second ticks make the rounding
of Retry-After visible. Three guarded requests are an upload
intent and two commits of its file, which may come from two users; two processes
are an upload beside the cleanup of another, and two cleanups with one upload in
both their lists; three parts and pages of two put one part past the page; three
requests to the edge are two that miss at once and one that hits. Four calls with three
retries are as many as the retries suffice for. `MCAttempts` uses the cache or
`incrementBalance` in a behaviour, which share nothing; `MCRedisState` uses the limiter or the sessions in a
behaviour, which share only the time; `MCStorage` uses one of its three parts,
whose keys in the bucket differ; `MCOrderStream` uses the stream or the socket,
which know nothing of each other; a behaviour of `MCEventDelivery` is of one of
its stories, and its fairness is that of the steps that stay in it.
`MCOrderPlacement`, `MCAuthTokens` and `MCOrderStream` number
interchangeable requests in the order they are used; `MCAuthTokens` lets the
first pair be the one that gets old. In `placement`, `workers`,
`order_stream`, `attempts`, `redis_state` and `storage` the clients or the time stop, so deadlock is not checked there; `EveryRequestAnswered`,
`EverythingEnds`, `EveryReadEnds`, `EveryCallEnds` and the fairness of the stream say that nothing else stops.

### Fairness

- Weak fairness of every step of work that has begun: Node runs each ready
  continuation, PostgreSQL answers each query that it can answer. No fairness for
  clients, failures, price changes, or the start of a process.
- `ProductCache`: a TTL passes, so locks and entries go (weak fairness of
  `LoseLock` and `LoseEntry`).
- `SerializableRetry`: weak fairness of every step of a call (in `MCAttempts`, in
  the behaviours that have such calls). A call that waits
  for the row gets on because the transaction that has it ends; none for lost
  connections.
- `AuthTokens` has strong fairness: a transaction that waits for a row stands in
  PostgreSQL's queue for it, and later ones do not overtake it for ever.
- Nothing in the code runs the relay again (`outbox/run-relay.ts` runs one
  batch) or connects a consumer again (`rabbitmq/broker.ts` only rejects
  what is pending). `EveryEventSettled` therefore has the hypothesis `Operated`:
  relays are run again and again, and from some time on a consumer is there.

## 4. Where code and documentation differ

1. `openapi/openapi.yaml:115` promises the original response to a repeated request;
   the code answers with the order as it is now (`orders.service.ts:113`).
2. `README.md:149` promises at-least-once delivery; a message published when the
   exchange is there and the queue is not bound is confirmed, and gone.
3. `README.md:433` says logout revokes the family; a refresh of the usable token
   overtakes a logout that presents a used one.
4. `README.md:603` says that multipart uploads respect the limit of 10,000 parts
   (`MAX_PARTS`, `multipart.ts:18`) and skip parts already uploaded; `ListParts` is
   asked once (`multipart.ts:97`) and gives 1,000 parts at most, so that a file of
   more is completed without its end, and resumed from the first page on.

Each is a run that TLC ends with the behaviour, and the passing runs state what
remains true: `SameKeySameOrder`, `PublishedAccountedFor`,
`LogoutRevokesFamilyUnlessOvertaken`, `WholeUnlessPastAPage`. Plain from the source, and without a run:
`openapi/openapi.yaml:324` describes a 422 for a key that comes with another body,
and `create` keeps nothing of the body to compare; `README.md:189` speaks of replay
of buffered events by Last-Event-ID, and ids start again with the process
(`order-events.service.ts:19`), so that an id from before a restart hides new
events: `CaughtUp` exempts clients with such an id.

Other properties with an "unless" exempt a case that the code does not handle, and
of which the repository promises nothing: overlapping status updates whose events
come in the other order, a connection that closes before there is a listener, a
stampede lock that lapses under its owner, an object replaced after its size was
asked for, two misses of one plain name at the edge, a price changed between the
two loops. Such a property does not catch the exempted case; it shows that there is
no other.

## 5. What is proved

Every theorem is of the form `Spec => []Inv` (or of a refinement) and rests on
the named assumptions about the constants alone: any number of requests, calls,
relays, consumers, clients, clocks, buffers, and faults. Bounds that a model has
for TLC (`MaxFaults`, `MaxRestarts`, `MaxTokens`, ...) are constants like the
others. The safety properties are seldom inductive: they speak of tables, and
what a commit does to these depends on the locals of the transaction. Each proof
has an invariant that adds what those locals are worth at each await, one lemma
for each action or for a few alike, one for the initial states, and lemmas on
the operators (finite sets, sequences, least elements); TLC has checked each
invariant on the instances of section 3.

**`OrderPlacementProofs`** (`PlacementAssumption`): `TypeCorrect` (`TypeOK`, with
the limit of the pool), `KeyRowsComplete` (`KeyNamesItsOrder`, so that the error
"Idempotency key exists without completed order" cannot be reached),
`NoDuplicateOrders` (`OneOrderPerKey`), `RepliesAgree` (`SameKeySameOrder`), and
`Refinement` of `IdempotentOrders` under `placed <- keyRow`, `existing <- DOMAIN
orders`, `announced <-` the orders of the outbox. `IInv` consists of

- `KeyHeld`: a request past `reserve` holds its key's lock, and while it creates,
  the key has no row, so that no second creator is ever beside it;
- `StagedByStep`: what a transaction has staged is decided by the await it is at;
  at `commit` a creator has staged order, event and link;
- `LoopsInRange`: the loops' index stays in the request's items, and the
  lines are of active products;
- `FreshIds`: no two transactions, and no committed order, share an id below
  `nextId`;
- `CreatorsDone`: who has created a committed order has ended, not with a 400;
- `KeyNamesItsOrder` and `EventPerOrder`: the tables match.

`RepliesAgree` adds `AnswersTrue`: an answer, or what a replay has read, names
the order of its key and its total. No step takes an order away or changes its
creator or total (`OrdersStay`), so that what was true when it was read is true
when it is answered, and two answers to a key agree because it has one order.

`TotalsMatch` (`TotalMatchesLinesUnlessRepriced`) adds `TotalsByStep`: at its
await, a request that saw no price change has added up the lines of the items
behind it, and has written those behind the index of the second loop. The
property sums with `FoldLeft`, so the proof first finds out what a fold does,
without an induction rule: a set of naturals that has 0 and all successors is
`Nat`, because the others would have a least element (`Inductive`); hence the
function on sets of positions that `FoldLeft` chooses exists (`AdderExists`) and
is the same where lists agree (`SameSum`); so a row that is appended adds its
price times its quantity (`SumOfAppended`).

**`EventDeliveryProofs`** (`DInv`): `AppliedOnce` and `PublishedIsAccountedFor`.
`OneMarkerHolder` says that a marker not yet committed belongs to one transaction,
whose event is not processed: the unique key makes the second wait. `BatchOk`
says of each row a relay has published and not yet committed what the property
says of committed ones, so that the commit of the batch transfers it.
`TopologyInOrder` is needed for the nack: what has been delivered finds a
dead-letter queue, because it is declared before the queue is.

**`TaskWorkersProofs`** (`TInv`): `ReturnedCheckoutIsComplete`, `TaskProcessedOnce`,
and `CheckoutIsAtomicPurchase`. `RowsHaveOneWriter` and `FoundStillHolds`: the row
a checkout has updated is its own until the commit, so that the stock and money
its WHERE found are still there, and the commit of both is one step of
`AtomicPurchase`. `ClaimsAreExclusive`: a claimed task is pending, and one
worker's.

**`AuthTokensProofs`** (`AInv`): `OneTokenIsUsable`, `ReuseRevokesTheFamily`,
`LogoutRevokesTheFamily`, and `TokensFormFamilies`, the refinement of
`TokenFamily`. `Chains` is the shape of the table; `LocksOk` and `LocksExclusive`
say what each await holds; `WholeFamily` is the heart: a revocation that nobody
has overtaken has written, or will write, every row of its family. For a reuse
the lock on the row of users keeps a rotation from adding one, which is just
what `logout` lacks.

**`OrderRoomsProofs`**: `StatusIsAnnounced` from `StreamInv` (an order that is not
disturbed has one update on its way at most, `OneUpdateOnItsWay`);
`StreamsAreInOrder` and `StreamsCatchUp` from `ClientInv`; `RoomsAreComplete` from
`RoomsInv`, under `RoomsSpec`, the stream with the gateway. `ClientInv` says that
ids of a buffer ascend and are ids of emitted events (`BuffersAscend`), that a
client has one live connection, which asks for what comes after the last event
the client got (`AsksAfterTheLast`), and that up to this event the client has all
that is buffered (`KnownUpToTheLast`); the replay then is exactly what it lacks.
A client that knew an earlier process may lack events, but not their order.

**`RedisProofs`**: of `ProductCache`, `LockIsItsOwners` and `ColdKeyIsLoadedOnce`
from `CacheInv`: as long as nothing is disturbed, a waiting read waits for the
read that works under the lock or finds an entry (`WaitersAreServed`), and each
load beyond the first is paid by an entry that has gone (`LoadsCounted`). Of
`Sessions`, `SessionsStayEnded`. Of `RateLimiter`, `WindowIsRespected`,
`RefusedOnlyIfFull` and `RetryAfterIsLongEnough`, for any skew up to `MaxSkew` and
delay up to `MaxDelay`, from `LimiterInv`: times of checks and of scripts are at
most so far apart (`ClocksApart`); a member of the set is an allowed check
(`MembersWereAllowed`), and an allowed check stays a member for a window less the
spread (`AllowedStay`), so that more than the limit of them never fit into that;
as long as nobody is allowed after a refusal, the members left when it comes back
leave room for it (`RoomAfterWait`).

**`StorageProofs`**: of `FileUploads`, `GuardHolds` (`LoggedOutIsShutOut`) and
`CommittedSizeTrue` (`SizeIsTrueUnlessReplaced`) for any difference of the clocks.
`UInv` has `DeniedUntilExpiry` and `OutIsLoggedOut` (the row of a token that is
logged out lasts exactly as long as the token), `WorksOnOwnFile` and
`AdmittedHasToken`, and `AboutToTellTruth`: the size a commit has got and not yet
written is that of the object, unless it is counted as replaced. Of `EdgeServer`,
`EdgeAnswersAlike`: under a name with a hash there is one content wherever it has
got to (`HashesAreTrue`), and of a key that nobody asked for twice at a time one
request fills the cache (`OneFillsTheCache`). Of `MultipartUploads`,
`ObjectIsWhole` (`WholeUnlessPastAPage`) and `CleanupSettles`
(`CleanupSettlesWhatItListed`): what a client has put and has still to put is its
file (`PartsAreOfTheFile`); an upload is aborted by one process, and for good
(`AbortedForGood`); what some `clean()` has listed is in progress, or completed, or
aborted by that one or another (`ListedIsSettled`); and the last `clean()` of a
process has the upload of its own before it (`OwnUploadIsListed`). Any number of
processes may clean up at once.

**`SerializableRetryProofs`**: `IncrementsCounted` (`EveryIncrementCounted`) and
`RetriesSuffice` (`NobodyExhausted`), for any number of calls and retries. The
argument of the second is an account,
`ConflictsPaid`: a call has caught no more errors than transactions had
committed before its snapshot, because a conflict means a commit since; and the
call itself is not among those, so MAX_RETRIES + 1 calls never run out.
`SnapshotsTrue` says that the transaction that has written the row has read the
newest balance.

Two models have the form that is easiest to reason about: the rows a relay has
selected are a set, published by number, and not the array; `EventsAfter` is the
rest of an ascending buffer, and not a filter.

Only model-checked: liveness (`EveryRequestAnswered`, `EveryEventSettled`,
`EveryCallEnds`, `EverythingEnds`, `StaleValueGoes`, `EveryReadEnds`,
`SubscriptionsEndUnlessClosedEarly`), because fairness is out of the provers'
reach.

## 6. Not modelled, and why

- Migrations other than the tables above, seeding and reports (`seed.ts`
  appears as `ChangePrice`), decorators, DTO validation and bootstrapping:
  no state of their own.
- Demonstrations: `demo-upload.ts`, `demo-multipart.ts` and `demo-cdn.ts` are
  modelled as the clients they are of the storage, `demo-workers.ts` and
  `demo-retry.ts` as programs of their own; the rest drive the components above and
  print what they see. `resetTasks` runs before the workers do.
- Roles and passwords: `RolesGuard` decides on the token alone, and keeps nothing.
- The job queue (`redis/queue.ts`): BullMQ keeps its state; the code here defines
  one job and its number of attempts.
- Products (`app.controller.ts`, `repositories/*`): one INSERT, and reads.
- The second SET NX of `ProductCache` that ioredis sends when the answer to the first
  is lost: the read would find the lock it has itself taken, and wait for it to
  lapse as for that of a process that is gone.
- The check of `incrementBalance` for a user that is missing (`demo-retry.ts:87`):
  the seed has written the row, and nothing deletes it.
- Widths of integers: a total past the integer column makes the INSERT fail, as any
  query may.

## 7. Plan

1. Done: all components of section 1; proofs of every safety property that a
   passing run checks, and of the three refinements.
2. Next:
   - `SubscriptionsEndUnlessClosedEarly` has a safety half worth a theorem: a
     client that has gone and is still subscribed has closed early, or Node is
     about to say so;
   - lemmas that several proofs share (least elements, ascending sequences).
   No module with proofs uses a RECURSIVE operator.

## 8. Running

In this directory: `tlc -workers 2 -config OrderPlacement.cfg MCOrderPlacement`
(and likewise for the other runs of `PROJECT.json`), and
`tlapm OrderPlacementProofs.tla` (and the other seven `...Proofs`). `mutants` of `PROJECT.json` names, for every
property, a small change of the model that a mistake in the code would amount
to and that the property detects.
