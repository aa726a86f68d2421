# Formal models of Go-Zero-Project

TLA+ models of the core logic of this repository (a go-zero content community:
likes, follows, articles, users), TLC configurations that check them, and TLAPS
proofs of the properties that matter most. Paths below are relative to the root
of the repository.

    tlc -config ThumbupRpc.cfg MCThumbupRpc.tla      # a run
    tlapm ThumbupRpcProofs.tla                       # a proof

## 1. The system

| Component | State | Operations | Talks to |
|---|---|---|---|
| like-rpc (`application/like/rpc`) | idempotency key per user and object in Redis, `"P:type"` 5 s, `"D:type"` 120 s; row cache | `Thumbup`, `IsThumbup` | Kafka (push), MySQL `like_record`, `like_count` (reads), Redis |
| like-mq (`application/like/mq`) | `like_record`, `like_count`; row cache | `Consume` (8 processors) | Kafka, MySQL transactions, Redis |
| pkg/deltalike | none | deltas of inserts and switches, clamp | like-rpc, like-mq |
| follow-rpc (`application/follow/rpc`) | `follow`, `follow_count`; two Redis sorted sets per user | `Follow`, `UnFollow`, `FollowList`, `FansList` | MySQL transactions, Redis |
| article-mq (`application/article/mq`) | `article.like_num`, feed sets, Elasticsearch | canal consumers of `like_count` and `article` | Kafka, MySQL, Redis, ES, user-rpc |
| article-rpc (`application/article/rpc`) | `article`, feed sets | `Publish`, `ArticleDelete`, `Articles`, `ArticleDetail` | MySQL, Redis |
| article-api (`application/article/api`) | none | checks and forwards; uploads covers | article-rpc, user-rpc, object storage |
| user-rpc (`application/user/rpc`) | `user`; row cache | `Register`, `FindById`, `FindByMobile`, `SendSms` (stub) | MySQL, Redis |
| applet (`application/applet`) | verification codes and daily counters in Redis | verification, register, login; forwards the rest | user-, like-, follow-rpc, Redis |
| pkg/xcode, pkg/interceptors | none | business codes to gRPC status and back | every service |
| pkg/consul | one TTL check per service | register, update, deregister | Consul |
| pkg/orm, pkg/es | counters, a span per statement or request | callbacks around SQL, a transport around Elasticsearch | Prometheus, tracing |
| other support (jwt, encrypt, util, pipeline stub; generated protobuf code) | none | library wrappers | - |

A like travels: applet -> like-rpc (reserve the key, look the record up, read the
counts, push, mark the key done, answer with *expected* counts) -> Kafka -> like-mq
(one transaction on `like_record` and `like_count`) -> canal -> article-mq
(`article.like_num`). A follow is one transaction in follow-rpc, followed by
updates of two Redis sets that list calls fill in the background. An HTTP request
passes the token check, the parser and the handler's own checks; its RPCs pass an
interceptor on either side, which in some services is not installed. A registration
takes a code out of Redis, a row into user-rpc and deletes the code.

What is hard in it: several calls of one user overlap and every external call is a
separate step; keys expire under their owners; retries meet what the first attempt
left; Kafka redelivers and reorders; transactions of several processors meet on one
count row and read it before they lock it; the row cache and the Redis sets are
changed at other moments than the rows they copy; cursors name places in lists that
change or expire between two pages; a limit is read in one command and raised in
another; a client gives up while the service goes on; processes die in between. Each is
listed at its line under `hazards` in `PROJECT.json`, with the properties about it.

What makes each part correct:

- like-rpc: one owner of the key at a time; a duplicate is turned away only for an
  intent that has reached, or is on its way to, Kafka; a failed call does not block
  its retry.
- like-mq: each commit moves record and counts together, duplicates change nothing,
  what is acknowledged was recorded, the cache agrees with the rows when all is quiet
  (but for entries whose deletion failed), no transaction hangs.
- follow-rpc: the counters equal the rows; a call is answered "done" only if the
  row says so; a set that says it is complete is.
- article-rpc/-mq: paging shows each article once and ends; `like_num` follows
  `like_count`; a deleted article leaves the feed and the index.
- applet: at most the documented number of codes per day, a code names its mobile and is used once.
- gateways and xcode: success means the service did it, a refusal that nothing was done;
  a business code survives the trip through gRPC.
- consul: a process that is alive is listed, one that is not does not stay so.
- orm and es: each statement is counted once, with the error it returned.

## 2. Modules

| Module | Models |
|---|---|
| `Deltalike` | `pkg/deltalike`; the reference `CountsOf` (count the records) |
| `ThumbupRpc`, `MCThumbupRpc` | `Thumbup` of like-rpc |
| `ThumbupRpcProofs` | its type invariant and safety properties, proved |
| `LikeLedger` | abstract: a vote moves record and counts in one step |
| `ThumbupConsumer`, `MCThumbupConsumer` | `Consume` of like-mq, refining `LikeLedger` |
| `ThumbupConsumerProofs` | the deltas are exact; like-mq's types, counts, cache and the refinement, proved |
| `FollowGraph`, `MCFollowGraph` | `Follow` and `UnFollow` up to the commit |
| `FollowCache`, `MCFollowCache` | `FollowGraph` plus the Redis sets and the list calls that fill them |
| `FollowProofs` | types, counters, and what the lists promise, proved |
| `ArticleFeed`, `MCArticleFeed` | `Publish`, `ArticleDelete`, the loads of `Articles`, and `articleOperate` of article-mq |
| `ArticleFeedProofs` | its types, the index and the feeds, proved |
| `LikeSync` | `ArticleLikeNumLogic` of article-mq: `like_count` to `article.like_num` |
| `Paging`, `MCPaging` | the pages of `FollowList`, `FansList` and `Articles`, on top of `LikeSync` |
| `PagingProofs` | types, `LikesAgree` and `NothingSkipped`, proved |
| `Verification`, `MCVerification` | codes, registration and login of applet, with user-rpc |
| `VerificationProofs` | its types and safety properties, proved |
| `XCode` | pkg/xcode: the codes, gRPC statuses, the HTTP error handler |
| `Services` | the clients, service descriptions and servers of the five services; the routes and logics of the two gateways |
| `Gateway`, `MCGateway` | requests on their way through a gateway and its services |
| `GatewayProofs` | what a client is told and what was done for it, proved |
| `Registration` | pkg/consul and Consul's side of it |
| `Monitoring`, `MCMonitoring` | the plugin of pkg/orm and the transport of pkg/es, on top of `Registration` |
| `MonitoringProofs` | listing, types and counters, proved |

Which builds on which: `FollowCache` extends `FollowGraph`; `ThumbupConsumer` uses `Deltalike` and
implements `LikeLedger`; `Paging` extends `LikeSync`; `Gateway` extends `Services`, which extends `XCode`;
`Monitoring` extends `Registration`.

Names ending in `_Something` beside a definition (`Push_IgnoresError`) are plausible
bugs of that definition; each breaks the property it is listed with in `PROJECT.json`.

### ThumbupRpc (like-rpc)

One action per external call of `Thumbup`. `pc[r]` is the place of call `r`, `idem[u]`
the user's key, `held[r]` the local `idemState == idemReserveProcessing`. The Lua
script is atomic in Redis: `ReserveFree`, `ReserveDuplicate` and `ReserveConflict` are
its three results; a lost reply or an error is the value `idemReserveConflict` with
which the code goes on. `Lookup` reads the record through the row cache: the committed
record or an older value (`past`); equal types short-circuit without touching the key.
`Push` may report an error for a message that arrived. `Release` is the `DEL` of the
error paths. `Expire` may strike at any moment, since the model has no clock. `Consume` and
`Refresh` stand for like-mq and the row cache: messages commit in any order, because
the pusher sets no user key and eight processors drain the topic. `like_type` is not
validated by like-rpc, so the types sent include one like-mq drops.

Left out: `getStateFromCache` never hits, because nothing writes that key
(`setStateCache` has no caller); the counts of the answer (`Deltalike` and its proof
are about them); `json.Marshal` of a struct of scalars, which cannot fail.
Assumption: a `Push` without error means the message is in Kafka.
`svc/servicecontext.go` builds go-queue's pusher with default options, which batches
in the background; what a batch loses after the answer is not in the model.

### ThumbupConsumer (like-mq)

`Take` delivers a message (at most `MaxDeliveries` times) to a free processor; then one
action per query, statement, cache fill or cache deletion of the transaction until
`Commit`, `Rollback` (an error the code itself runs into) or `Fail` (an external call
fails, or the process dies; only under `Failures`). `tx[w]` holds the snapshot (repeatable read, taken by the first
plain query), what the two `FindOne`s returned and the uncommitted writes. INSERT and
UPDATE see the newest committed row and wait for rows another transaction has written
(`RecordFree`, `RowFree`). The two row-cache entries of a row (by index and by id) are
one value here: the first leads to the second, and one DEL removes both. "Not found" is
cached with SETNX, as go-zero does. `Update` looks the row up by id before its statement
(`LoadRecord`, `StoreRecord`; `LoadRow`, `StoreRow`), which may fill the cache from the snapshot.
`Reader`s are like-rpc calls that fill the same cache. `applyCountDelta` in the source
lacks its last `return`; the model returns the error of `Update`, which is what its
callers need. Cache fills inside the transaction happen on the same goroutine, so they
are separate steps only to let others run between them. `applied` and `recorded` are history.

A deletion of cached rows that fails is not an error for the code: sqlc (go-zero's `DelCtx`)
logs it, tries again after 1 s, 5 s, 1 min, 5 min and 1 h, then gives up, forgets it when
the process dies, and reports success, so that the transaction commits and the old entry
stays. `DeleteRecord` and `DeleteRow` allow it under `"delete" \in Failures`;
`undeletedRecords` and `undeletedRow` remember which entries stayed, `stale` that there has
been one, and `ExpireRecord` and `ExpireRow` are the end of such an entry, by a retry or
by its expiry. A later message may act on the old entry, so `LikeLedger` promises nothing
from then on (`LeaveStale`), and `AckMeansRecorded` stops there too. `AckedWasOnRecord` is what
remains for good: an acknowledged vote was on record once, perhaps no longer.
Shared locks that InnoDB takes on a duplicate key, and the deadlocks they can add, end
a transaction with an error: `Fail` covers them.

### FollowGraph and FollowCache (follow-rpc)

`Begin` is the checks, `Lookup` the read outside the transaction, `WriteRow`,
`WriteFollows` and `WriteFans` the three statements, `Commit` makes them visible. Locks
are derived from where a call is (`Held`): the pair's row, then each user's counter
row. A call that waits may be ended by MySQL as a deadlock victim or by its timeout
(`Abort` of a `Blocked` call). The increments and the guarded decrements are done by
the database on the newest row under its lock, so applying them at the commit is the
same as applying them at the statement. `stale` (history) collects pairs whose row was
updated by a call whose lookup no longer held.

`FollowCache` continues a committed call: EXISTS, ZADD, ZREMRANGEBYRANK for the two sets,
or two ZREMs. A set is a set of members; the closing member `-1` is `End`. Scores are
kept only as far as the trim needs them: `End` has score 0 and is evicted first, among
the others (scores are whole seconds) any may be the oldest. A `FollowList` or `FansList`
call that finds its page renews the TTL (`Hit`, at any time); one that does not (`Miss`, a
`Loader`) reads at most `CacheMax` rows and adds them one ZADD at a time in the background, `End` last and only
if there were fewer rows than `CacheMax`, then sets the TTL. Timing assumption: without
a Redis error a set does not expire while a list call that renewed it is still
loading (TTL two days). The pages are
the subject of `Paging`.

### ArticleFeed (article-rpc, article-mq)

One author with two sorted sets, by publish time and by likes. `Publish` and `ArticleDelete`
commit the row (and append to `binlog`) and leave the worker a `job` on the two sets, one
after the other: EXISTS and ZADD, or ZREM. `Take` gives article-mq's only processor the
oldest row change and a job of the same kind, followed by `Index` (`FindById` and the search
document); `Leave` takes the message from `binlog` when the job is over. What happens to it
after an error is go-queue's affair: it leaves or is delivered again, and the document
may have been written though an error came back. go-queue commits offsets once a second,
not with each message: in the mode `mqDies`, `handled` holds what is done but not
committed, `CommitOffset` empties it, and `Restart` is a death after which article-mq
begins again behind the last committed offset, with all of `handled` and its unfinished message. The same
Redis error is logged in one place and ends the message in another; `Zadd` says where.
`Miss`, `ArticlesByUserId` and `Fill` are a call of `Articles` that finds no page. A first page reads
every visible row (but for one of the same second, as `publish_time < ?` is strict), a
later page (`deep`) the rows below its cursor; calls of one author and order share a
query whatever their cursors (`Flight`). TTLs need no variable: each page found gives the
key one, so that any set may expire. Scores are left out: the sets are compared as sets.

Left out: `UpdateLikeNum` also changes rows and so reaches `articleOperate`, with the status the
row has by then; a binlog message with several rows counts
as several messages; validation, which changes nothing. Assumption: row changes of one
article arrive in commit order (one consumer, one processor).

### LikeSync and Paging (article-mq, article-rpc, follow-rpc)

`Vote` is a row change of like-mq's `like_count`, of an article or of another business with
the same number; `Consume` applies the oldest one as an absolute value. A failed UPDATE is
logged and the message counts as done (`missed`); `Restart` goes back to the committed
offset and applies rows again. Nothing here touches the cached rows of article-rpc.

`Paging` has one reader. `reader` holds the `Cursor` and `Id` that the next request will carry,
`score` the sorted set, `todo` what a background fill still has to add. A page is one step:
either the set has one (`Cached`: the window below the cursor, the rows behind it, the cut at
`Id`, the closing member as `IsEnd`) or MySQL gives rows (`FromRows`) and a fill (`Load`, at most
`max` rows) starts. That is
enough because rows outlive their membership and keep their times, so that what
happens between the two reads of one page could as well happen before or after it. The three
lists differ as in the source: `FollowList` reads its rows with `IN` and without an order, and its
query ignores the cursor; `FansList` returns an empty reply for an empty cached page, or for
nobody; `Articles` reads each row through the row cache and sorts the page again. A member
that is followed again keeps its `create_time` but gets a new score. Ties are in the order of
member names in Redis and in no order in MySQL.

What the module shows by the conditions of its properties (each is needed; without it TLC
finds a counterexample): pages of `FollowList` may lose rows when the cut at `Id` meets rows
in another order; a paging by likes whose cursor reaches 0 starts again; as many ties as a
page has members leave gaps, because MySQL compares strictly; a page of size 1 never
advances; a list longer than a load takes (`max`), or a fill that failed, leaves a set without its closing
member; a page as long as a load is called the end although the load was cut, for no handler bounds
`PageSize`; an empty list of fans never says `IsEnd`, although the comment at
`followlistlogic.go:68` calls an empty page the end. SingleFlight is the subject of `ArticleFeed`, a
change that reaches the set later than the row of `FollowCache` and `ArticleFeed`.

### Verification (applet, user-rpc)

One action per Redis command or RPC. `count` and `ttl` are the counter of a mobile and whether it
has an expiry, `activation` its code, `user` user-rpc's table under the unique key of the
encrypted mobile. Calls are numbered in the order in which they begin. Mobiles come in
spellings: register and login trim them, verification does not, so that counters and codes
are kept per spelling. Random codes are taken as different from each other; `made` remembers for
whom each was made. `LastSecond` and `Midnight` are the ends of a day: EXPIREAT sets 23:59:59, so
a counter raised in the last second goes at once. `EndOfDay` computes that time and
`ExpireAt` sends it later: an EXPIREAT that is delayed over midnight names a time that is past and
deletes the counter of the new day, so that what was sent before is `forgiven` and the
limit begins anew. A read of the counter that fails counts
as zero, one of the code as none; a call over the limit returns the error of the read, which
is nil, so that its caller takes it as success. An INCR without its EXPIREAT leaves a
counter that never goes, and blocks its mobile once above the limit (`LimitEndsWithDay` needs
`~faulty`). The comment "30分钟内验证码不再变化" (`verificationlogic.go:46`) holds without failures for a
client whose calls do not overlap: that is `CodeStable`.
Left out: password and name; user-rpc's `Insert` deletes the cache key of id 0, which no row has.

### XCode, Services and Gateway (applet, article-api, every service)

`XCode` translates codes and conversions as functions on records: a business code becomes a
status with a detail, a status becomes a code again, an error of gRPC or of a context
becomes one of the common codes, `ErrHandler` the HTTP answer. `Services` holds as data what is
data in the code: stubs, `ServiceDesc` tables, servers, interceptors per service and client,
routes and, per logic, the checks and RPCs in order (`Logic`) with the errors they choose.
`Gateway` moves one request: `Authorize`, `Parse`, `Check`, then for each RPC `Invoke`, `Serve` in the
service (with any outcome of its logic, having changed something or not), `Receive`, and
`Finish`. `GiveUp` is the client's deadline or a lost connection, while the service goes on;
`Crash` loses the jobs of a service. What the services do with their state is the other modules'
subject. Facts that the model shows and a reader should know: only user-rpc installs the
server interceptor, so the codes of the others arrive as 500; the clients of article-api have no
interceptor at all, so every error of an RPC is a 500 there; an error of a cancelled context is
a 500; `MobileHasRegistered` and `LoginMobileEmpty` share 100003; the list of articles
drops the cursor and `IsEnd`; `ArticleDelete` has no route; a failed upload may have stored the
file. Left out: go-zero's breaker and load shedding. Articles are named by their authors
(`target`), Redis steps of the logics are `Verification`'s.

### Registration and Monitoring (pkg/consul, pkg/orm, pkg/es)

`Registration` has a clock of seconds (`Tick`): `entry` is the age of the last update of each address
in Consul, `ticker` the time to the next one, `lost` how many updates in a row did not arrive. An
update counts as lost if it takes longer than the rest of its second, the unit of the clock, though
Consul may still get it: `StaysListed` counts such an update against `lost`, never in its favour. `Register`'s two calls are two
steps, each may fail or succeed unnoticed; main prints the error and goes on. A process ends
in order (the listener deregisters) or dies; it may come back at another address (POD_IP,
all interfaces). user-rpc, article-rpc and article-api register, with the Prometheus
address. Consul drops an entry three TTLs after it turned critical; its own lower limit for
this (a minute) and its reaper's interval are left out, which only makes the model's
entries go sooner. Nothing registers a dropped entry again.

`Monitoring` runs statements at once through gorm's callbacks: before (start time, span), the SQL, after
(counter, span). Settings belong to a statement (`InstanceSet`). gorm puts callbacks whose
neighbour it does not know at the end of the chain, so that both may run after the SQL
(`mode.around` allows either; durations, which are left out, are then close to zero). The
transport of Elasticsearch defers its two, so a panic is counted there, without an error, and
not in gorm. Of the services only follow-rpc uses gorm and article-mq the client of
Elasticsearch. A missing record counts as an error. The two have no common verdict. The
counter of either goes by the error that was returned, `err != nil`. A span of gorm only
records the error and never sets its status. A span of Elasticsearch ends in error when an
error was returned and also when the answer refuses the request (`es.go:81-83`, HTTP 4xx
or 5xx), which the counter takes for `is_error="false"` (`es.go:64`). `Accounted` says for each
statement what its counter and its span show.

## 3. Runs

| Run | Shows |
|---|---|
| `ThumbupRpc` | one user, three calls of any type, every mode: types, `DoneMeansPushed`, `AtMostOneHolder`, `FailedRequestFreesKey`, `KeyLifecycle`; a user who calls one at a time while nothing fails gets success only for what was pushed (`AckedIntentReachedMQ`) |
| `ThumbupRpcLastAcked` (violation) | no failure: like, dislike, like within 120 s loses the last like |
| `ConsumerSerial` | one processor, redelivery, statements and deletions of cached rows that fail, deaths: when all is quiet the cache agrees with MySQL but for entries a failed deletion left (`CacheCoherent`); until there is one, every commit is a step of `LikeLedger` and an acknowledged vote is the one on record |
| `ConsumerConcurrent` | two processors and a reader: counts are never higher than the votes recorded, an acknowledged vote was on record (`AckedWasOnRecord`, for failures see its proof), every transaction ends |
| `ConsumerDuplicate` (violation) | a redelivery in progress with the first delivery counts twice |
| `FollowGraph` | three calls of two users who follow each other, every mode: counters drift only through out-of-date lookups, and never for users who call one at a time; the counter rows are locked in opposite orders, and the victim of a deadlock leaves no trace |
| `FollowCache` | three calls and a loader: every listed user has a row, whatever fails; for sequential users, lists loaded between calls, settled sets agree with MySQL and are closed only if complete (`ListsTruthful`) |
| `ArticleFeed` | two articles, two calls at a time, two loads, one kind of trouble at a time: every listed article has a row and article-mq makes up for what article-rpc lost (`FeedTruthful`), and what it repeats after a death does no harm; closed sets are complete; the search index agrees with the rows |
| `Paging` | every list, empty or with rows, with ties, changes, votes, expiry or failures: a reader who is told "the end" has missed nothing that was there all the time, the end comes, likes reach the articles |
| `Verification` | three calls in two spellings of a mobile, or two with failures and crashes: the daily limit up to the calls that overlap and those a late EXPIREAT forgives, tokens name the mobile's own user, codes are used once and not replaced, a reached limit ends with the day |
| `Gateway` | every route with every user, body and target, next to another call on the same services, with failures, deadlines and deaths: success means served, a refusal that nothing was done, codes are those that were meant |
| `Monitoring` | TTLs of one to three seconds and the default, two addresses, up to four lost updates, restarts and moves; three statements at once: who updates is listed, who does not goes, every statement is counted once, by the error it returned, and its span shows errors and refusals |

Modes. What surrounds a behaviour is a variable that is chosen in `Init` and never
changes: `mode` says whether a user waits for an answer before calling again
(`sequential`) and whether external calls fail and processes die (`faulty`), `overlap`
whether lists are loaded while a call is changing them. `ArticleFeed` tells failures of
article-rpc, failures of article-mq and deaths of article-mq apart, and has `deep` for readers of later pages; `Paging`
says which list is read and what happens to it meanwhile, `Monitoring` the TTL and addresses. One run
then covers every combination, and a property that needs a quiet surrounding names it.

Bounds. One object in the like models: no state is shared between objects. Three calls
of one user are an owner of a key, one that meets it and one that comes after it
expired, and the lost last like. For like-mq two users and the messages
like/dislike/like reach every branch of `Consume`, a redelivery (`MaxDeliveries = 2`)
included. For follow-rpc three calls are needed for a row that was followed, unfollowed
and is then followed again, and two users who follow each other make a lock cycle.
Two articles, one there when the set is filled and one that comes later, are what a closed
set can get wrong; calls and workers that are told apart by nothing are interchangeable
(symmetry in `ThumbupRpc` and `ArticleFeed`, whose runs check no liveness).
`CacheMax = 2` and `DefaultLimit = 2` reach the full page, the trim and the eviction of the
closing member. In `Paging` four rows and pages of two make three pages, with a page from
MySQL, a fill, an expiry and pages from the set in one paging; the modes of `Cut` load three rows of four. In `Verification` a limit of 1 and
three calls go over the limit, come back on the next day or let two calls race for the last
message; more calls than that are needed before a late EXPIREAT lets a code through that the limit
would have refused, so that `forgiven` is exercised by `LimitHolds` rather than by TLC; one mobile in two spellings is a mobile twice. In `Gateway` the first call may be
anything and the second is user 2 unfollowing user 1: requests share nothing but their
services, whose jobs a death takes together. In `Monitoring` TTLs beyond three differ from three in
nothing but the length of the periods; the default is checked for its value (`MaxLost = 4`: the entry goes
with the fourth loss). Counters are bounded by the number of calls. `CHECK_DEADLOCK
FALSE` throughout: a behaviour ends when its calls or deliveries are used up.

Fairness. `ThumbupRpc`, `ArticleFeed`, `FollowGraph`, `FollowCache` and `Gateway` are checked for safety only. Elsewhere, weak
fairness of each call's or processor's own next step: a goroutine that has begun runs on,
and each external call returns (with a result, an error or a timeout). Nothing is
assumed of calls that have not begun, of failures or of deliveries.
In `Verification` days end; in `Paging` a reader who got a page asks for the
next one; in `Monitoring` time passes.

## 4. Proofs

All for any values of the constants: users, calls, messages, mobiles, articles, TTLs, addresses.

- `ThumbupConsumerProofs`. `DeltaExact`: with C(t) the number of voters of type t, a vote adds one
  to its type unless it was there (`CountGains`) and takes one from the other if it was
  there (`CountLoses`), and a type that has a voter counts at least one (`VoterCounted`),
  so the clamp at zero never acts.
  `TypeCorrect` needs `Typed`, which adds to the types what each phase has read by then.
  `NeverInvented` needs `Sound`: not only the row, but every copy of it that is still to be
  used - in the cache, in a snapshot, in what a transaction has read - is within the votes
  `applied` records, and what it is about to write within them and its own vote (`Cautious`);
  those only grow, so an old copy stays within them. It holds for any number of processors and readers.
  `AckedVoteWasRecorded` holds for any number of processors and readers and every failure, failed
  deletions included. Its invariant `Known` says that no copy of a record - cached, in a snapshot, in
  a reader's fill, in what a transaction has read - shows a vote the record never had.
  `ImplementsLedger`, `AckRecords` and `CacheStaysCoherent` are about behaviours in which the
  messages of the object are handled one at a time and no reader still holds an old row
  while one is handled (`Alone`): without it the refinement is false, as the run
  `ConsumerDuplicate` and the hazard at `thumbuplogic.go:182` show, so `Spec /\ []Alone` is the most
  there is to prove. `CacheStaysCoherent` has the invariant `Neat`, which excepts just the entries that a
  failed deletion left (`CacheTrue`). For the ledger the invariant `Serial` says that rows and counts agree, that cached rows are
  the committed ones, but for those the running transaction will delete, and what each phase has read
  (`Progress`); `CommitCounts` then maps a commit to a vote of the ledger, with `DeltaExact`, and
  `OnlyCommits` every other step to a stutter. `Serial` holds as long as `stale` does not, for until then no
  entry is left in the cache (`Noted`), and `stale` never goes back. `SingleConsumer` shows where these conditions hold: one processor without
  readers is always alone (`OneProcessorAlone`), whatever is redelivered, fails or dies.
- `ThumbupRpcProofs`: `TypeCorrect` for `TypeOK`, then one inductive invariant that adds what the
  properties need (who holds a key that has not lapsed is its last creator; a
  done key has its message in Kafka; a call past the push has pushed) for
  `DoneIsPushed`, `OneHolder`, `FailureFreesKey` and, as an action property, `KeyLifecycleHolds`.
  `SuccessIsPushed` adds `Acked`: for a user who waits while nothing fails, a vote on record, old or new,
  has been pushed, a call about to answer has its vote in Kafka, and so has a key that says
  "processing" unless its maker is at work, which meets no other call of that user.
- `FollowProofs`, rows: `TypeCorrect`; `CountsHold`, from `RowLocked` (one transaction at a time past the
  row's statement), `InsertFresh` (a pair being inserted has no row) and `Needed` (a
  transaction runs only for a call with something to change). Without `InsertFresh` the
  counters would not be inductive: an insert could commit over a row. A commit on an
  up-to-date row moves a counter as it moves the set it counts (`CountJoin`,
  `CountLeave`); on another it marks the pair. `SequentialCountsHold` adds `OneAtWork`: a user's
  only call keeps its lookup true, which gives `CountsMatch`.
- `FollowProofs`, lists: `CacheKeepsGraph` is the refinement `SpecCache => Spec`, so that the theorems about rows
  hold beside the lists. `ListsStayTruthful`: its first part, whatever fails, needs that who is about to be
  listed has a row (`RowsBehind`) - rows are never removed. The second part is for users who
  wait, lists loaded between calls and no failure (`Calm`), as the property says: at most one call is active
  (`OneActive`), a list differs from the rows in nothing but the pair of that call
  (`ListsAgree`), and a loader has read what the rows still say (`LoadsAgree`), so that the closing member, which it
  adds last, closes a list that is complete up to `CacheMax`.
- `ArticleFeedProofs`: types with `JobShaped` and `AtHead` (article-mq is at work on the first message).
  `Log` is what has been handled since the last committed offset, followed by `binlog`: a death moves
  the one into the other, and work and commits of offsets only drop messages at its beginning
  (`LogShifts`), so what is said of `Log` survives redelivery.
  `IndexConverges`: a message whose status is out of date is followed by one that is not (`Superseded`), and
  an article without a message has its row's status in the index (`IndexAgrees`).
  `FeedStaysTruthful` and `ClosedMeansComplete` are compensation: a listed article that is deleted has a
  message whose removal is still to reach that set, and what a closed set lacks has one that adds
  it (`Compensated`, with `Due`) - whatever article-rpc lost or did in another order. For this, a writer's own
  job may not list what was deleted since (`WritersAgree`), a loader may not hold rows of another time
  (`LoadsAgree`), and what a message is about has a row that has not gone back (`RowsBehind`).
- `VerificationProofs`: `CodeInv` adds to the types that each step belongs to its kind of call
  (`KindOK`), that codes are with the mobile they were made for, in Redis and in every call
  that sends or has presented one (`CodesPlaced`), and that the calls of a client who waits are
  alone (`Alone`). The types need it: only a placed code is one that was made. `TokensHold` and
  `CodesStable` add, for clients who wait while nothing fails, `UsedOnce` (a code that gave a token is left
  in nothing but the call about to delete it) and `SentIsKept`. `LimitHolds` counts calls
  per step (`Size`): what was sent is counted or about to be, and what was sent and not forgiven plus what is
  allowed is within the limit plus the overlap (`LimitOK`). The second follows when a counter
  is read, since who reads it is not yet among those counted (`Share`).
- `PagingProofs`: `LikesHold`, from `LastOnRecord` (the last row change on its way for an article is the
  count) and `WorkedOff` (of what has been worked off, the last that could be written is in
  the row), which hold through redelivery because the rows are absolute.
  `PagesMissNothing`: the replies first, for any set and any rows (`HitAnswer`, `MissAnswer`: what a page leaves
  out is behind its last item), from lemmas about the first n of a finite set; then `PageInv` for the modes
  of the property (`Plain`). `Order` says that rows and scores are all different and that what is to be added
  has its row's value. `Course` follows the reader: what it is still to see is behind its cursor (`Behind`); of this a
  closed set lacks nothing, and one about to be closed only what is about to be added (`AllIn`); what a
  set lacks comes behind what it has, since fills begin at the top (`TopFirst`). Hence a page from the
  set leaves no gap above its last item, and one with the closing member is followed by nothing.
- `GatewayProofs`, for any requests and any number of them, with deaths, deadlines and lost connections. First the operators: what
  each kind of error becomes on its way through server, status and client (`SentCode`, `SentInternal`,
  `ClientCode`, `PassedError`), which gives the answer for an error of a service, of the network or of a check
  (`ServiceAnswer`, `LostAnswer`, `CheckAnswer`); that each method ends in the logic of its name
  (`UserLogics` and the three after it); and that the logic of every route is `WellMade`: it calls
  what the route stands for with the right user and target, what changes anything is its last RPC with
  no check after it, and its own checks share no error with the RPC beside them. Then the invariant `IInv`:
  an answer is one the error of the call can have (`Verdict`), a service's job is the current RPC of its call
  (`JobsSound`), an RPC is served once and only an error without a code may follow a change (`ServedSound`), a
  reply is that of what was served (`RepliesSound`), and finished stages were served without an error (`Progressed`).
- `MonitoringProofs`: `ListedHolds`, from the invariant that the age of a listed entry is at most the time of its
  lost updates plus the part of the period gone by, (lost + 1) x period - ticker. `AccountsHold`
  relates each statement's place in its chain to its setting, its count and what its span shows, with
  requests that fail and requests that are refused kept apart.

Assumptions of the proofs are the named ASSUMEs of the modules; sets that are counted are
finite. Only model-checked: liveness (`TransactionEnds`, `EntriesGo`,
`PagingEnds`, `LimitEndsWithDay`), which this prover cannot do.

## 5. Where code and comments disagree

Two runs end in a violation of what a comment promises; `PROJECT.json` quotes each
comment: like-rpc's promise that success means "in the MQ", and the idempotence of like-mq
under redelivery. Four more disagreements are only told here. In like-mq the read
after a duplicate entry (comment at `thumbuplogic.go:165`) goes to the transaction's snapshot or a
cached "not found" and finds nothing again, so that the vote is rolled back; the cache keys,
deleted after the statement as the comment at `thumbuplogic.go:182` says, are deleted before the commit,
and a reader may fill them with the old row. In follow-rpc a set that expires between EXISTS and
ZADD is rebuilt with one member, which the guard (`followlogic.go:88`) is there to avoid.
In pkg/orm the comment `//status: ok（或 error）` (`plugin.go:134`) stands where no status is set: the span of a failed statement carries the error as an event and ends without the status `Error`.

Properties that are conditional because the code does not give more:
`AckedIntentReachedMQ` fails once calls may fail: a retry within 5 s is answered as a duplicate
of a call that died, or failed without deleting its key, before it pushed.
`LedgerSpec` and `AckMeansRecorded` fail once a deletion of cached rows fails: the transaction commits,
the old record stays in the cache, and the next message of that user with the old type is
acknowledged as a repetition, or one with the new type counted a second time;
counts left in the cache take the next vote back to them. `CacheCoherent` excepts those entries.
`CountsMatch` fails once a user's calls overlap: two follows at once of a user unfollowed before are
both counted, since `UpdateFields` does not check the status again. That is what
`stale` in `CountsMatchUnlessStale` isolates.
`ClosedIsComplete` (of `ArticleFeed`) fails for readers who go on with a later page after the set expired:
the rows below their cursor are all that is loaded, the closing member is added when
they are fewer than 200, and first pages are then served from that set.
`NothingSkipped`, `PagingEnds` (of `Paging`), `CodeStable`, `LimitEndsWithDay` (of `Verification`) and `StaysListed` with a TTL
of one second: see those modules above (`NothingSkipped`, for one, needs pages shorter than a load). `LikesAgree` excepts an article whose last change could
not be written: the error is swallowed and only the next vote makes up for it.

## 6. Not modelled, and what is left

Not modelled: the generated code of the protobuf messages (accessors and descriptors; the
clients, servers and service descriptions are in `Services`), the benchmark script, SQL schemas,
configuration and deployment files, the directories chat, member, message and qa (no
logic), pkg/pipeline (no service uses it), `EncPassword` (no service keeps its result), the
construction of clients from configuration, the wording of logs and traces.

Every safety property of the passing runs is proved; liveness is left to TLC.
