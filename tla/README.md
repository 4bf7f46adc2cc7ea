# A TLA+ model of the XMTP node

The node (`xmtp-node-go`) stores MLS messages and identity updates in Postgres
and streams the messages to clients. This directory models the parts of it whose
correctness depends on the order in which things happen: the subscription
streams and the goroutines behind them, the writes and the reads of the message
tables, the identity log, the key packages, the jobs that work on the tables in
the background, the older message API and the rate limiter. TLC checks each model on a small
instance; TLAPS proves the safety properties for every value of the constants.

Contents: [the system](#the-system), [the modules](#the-modules),
[the runs](#the-runs), [fairness](#fairness), [the proofs](#the-proofs),
[disagreements found](#disagreements-between-code-and-text),
[what is not modelled](#what-is-not-modelled), [plan](#plan).

## The system

### Parts, state, operations

| part | source | state | operations |
|---|---|---|---|
| Subscribe stream, writer | `pkg/mls/api/v1/subscribe.go` | high-water marks, gated and live topics, pending buffer, waves, topic → wave | one per case of the `select`: Mutate, half-close, batch, live envelope, ticker, ending |
| Catch-up lane | same file, `acquireScanSlot`, `reserveCatchUpBytes`, `freeCatchUpBytes` | scan slots, byte counter, wake-up channel, batch channel | acquire, query, reserve (load, compare-and-swap, park), hand over, take, free, wake |
| Transport | same file, `send`, `flush`, reader and sender goroutines | outbound queue, request channel, ping state, timers | send, flush, sender step, reader step, tick, Pong |
| Dispatcher | `pkg/subscriptions` | per subscription: topics, bounded channel | Subscribe, Add, Remove, HandleEnvelope (closes a full channel), Unsubscribe |
| Pollers | `pkg/mls/api/v1/worker.go` | `currentID` per table | read the rows above it from the replica, dispatch them |
| Message store | `pkg/mls/store/{store,readStore}.go`, `queries.sql`, migrations | `group_messages`, `welcome_messages`, id sequence | insert under a per-topic advisory lock, paged query, wave scan |
| Server streams of the older kind | `pkg/mls/api/v1/service.go` | high-water mark per topic, channel, history goroutines | register, fetch history, drain the channel, end |
| Identity log | `store.go` `PublishIdentityUpdate`, `transactions.go` | `inbox_log`, `inboxes`, `address_log` | lock, read, validate, insert, commit, retry |
| Rate limiter | `pkg/ratelimiter` | two generations of buckets, entries | Spend, Refill, Janitor |
| Interceptor, gating, allow list | `pkg/api`, `pkg/authz` | the allow list map | cost of a request, refusal |
| Commit log | `service.go`, `store.go`, `readStore.go` | `commit_log_v2` | publish a batch, query a group |
| Key packages, installations | `store.go`, `backfiller_installations.go` | `installations`, `key_packages` | upload, fetch, backfill, prune |
| Background jobs | `backfiller_group_messages.go`, `pkg/prune` | `is_commit`, row locks, expired rows | select, classify, update; count, delete a batch, repeat |
| v1 message API | `pkg/api/message/v1`, `pkg/store` | `message` table, subscriptions | Publish (always refused), Query, Subscribe, Subscribe2, SubscribeAll, the cleaner |
| Server | `pkg/server`, `cmd` | lifecycle | start, Shutdown |

### How the parts interact

A publish call inserts rows on the primary database. A row becomes visible on
the read replica when its transaction has committed and been replayed. One
poller per table reads the replica upwards by id and gives each row to the
dispatcher, which offers it to every subscription with its topic and closes the
channel of one that is full. A stream merges two sources: the rows the
dispatcher hands it (live) and the rows a scan reads from the replica (history).
The seam between the two, with no row lost, doubled or out of order, is the
heart of the system.

In a Subscribe stream one goroutine, the writer, owns all of the state. The
client's Mutate frames add and remove topics; each Mutate with fresh adds opens
a *wave*, with a scan per kind of topic. While a topic is in a wave its live
envelopes are held back (the *gate*). Scans share slots and a byte budget and
hand batches to the writer. When a wave's last scan is done, the writer folds
the buffered envelopes in, sends CatchupComplete and opens the gates. The
sender goroutine writes frames to the network behind a bounded queue; the
reader goroutine feeds the writer; a ticker probes the client with Pings.

### What is hard, and what must hold

| part | hard | correct when |
|---|---|---|
| Subscribe | removes, resets and re-adds of a topic while batches and envelopes of its earlier life are under way; several waves; half-close | what a client holds is exactly its rows, in order; CatchupComplete is never early; each Mutate is answered once; no gate outlives its wave; each wave ends |
| Catch-up lane | stale loads, a wake-up channel of one slot, a turn larger than the budget | the lock-free steps implement an atomic budget; nobody sleeps for ever |
| Transport | stalls, errors after the last frame, timeouts racing answers | OK means delivered; a client that does not read is reaped; a half-close ends |
| Message log | ids drawn before commit, lost answers, replica lag | per-topic order, nothing behind a cursor, stored once |
| Older streams | history and live overlapping, several filters sharing marks, failed fetches | ascending, no gap, all arrive |
| Identity log | snapshot older than the lock, retries | validated against what is stored, stored once, address log in agreement |
| Key packages | upload and backfill of one installation, in transactions that skip each other's rows | the newest upload is the last row; every installation is appended |
| Background jobs | pruner and backfiller on one table, several of each, shutdown in between | a commit is never pruned; a run that says OK left nothing it could delete; everything is classified; shutdown ends |
| v1 API | overflow, resubscription, a table that changes between pages | what is sent is all there is of the request, in order; pages miss and repeat nothing; streams return |
| Rate limiter | janitor against requests, clock read outside the lock | one entry per bucket, never overspent, idle entries go |

The list of hazards, each at its line and with the properties aimed at it, is in
`PROJECT.json`.

## The modules

`Subscribe` is the core and is written on top of two abstractions that other
modules examine: its byte budget is atomic (`CatchUpBudget`, implemented by
`CatchUpLane`), and its rows become visible in id order (`MessageLog`). Frames
leave it instantly; their journey is `StreamTransport`.

**Subscribe** models one stream. `table` and `polled` are the two tables on the
replica and the pollers; `subTopics`, `messagesCh`, `registered` the
dispatcher's entry; `hwm`, `catchingUp`, `pending`, `pendingBytes`,
`subscribed`, `waves`, `topicWave`, `nextWave` the writer's variables of the
same names; `scans`, `catchUpCh`, `catchUpBytes` the fetchers. Each case of the
writer's `select` is one action or several, split by its outcome: `Mutate`,
`RefuseMutate`, `HalfClose`, `HoldEnvelope`, `SendLive`, `ConsumerTooSlow`,
`FailBatch`, `DropStraggler`, `ReplayBatch`, `ScanDrained`, `CompleteWave`,
`StreamEnds`. A Mutate is one step except for `sub.Add`, which takes the
dispatcher's mutex topic by topic, with the poller running between two of them
(`SubAdd`); other writer steps wait until it is done. A scan probes its ceiling,
waits for a slot, takes turns over batches of topics and hands over its done
marker. Every payload has size 1. Ghost variables record what the client asked,
was answered and was sent.

**CatchUpBudget** states the promise of the budget in ten lines. **CatchUpLane**
has the steps of `reserveCatchUpBytes` (load, compare-and-swap, park, retry),
`freeCatchUpBytes` (subtract, wake without blocking) and `acquireScanSlot`.

**StreamTransport** has the writer's `send` with its stall timer, `flush`, the
sender, the reader, the ticker, the Ping nonce, and a client that may stop
reading, half-close, break or cancel at any time. Time is a tick; timers are
ages that stop at the value they are compared with.

**MessageLog** models one table, of groups, of welcomes or the commit log. `insert` follows each
message of each call through lock, insert (which draws the id) and commit;
`wal` is the order of the commits and `replica` how much of it is visible. A
welcome call inserts in parallel, a group call one after the other, as
`errgroup` and the loop in `service.go` do. A call may fail or lose its answer
after the commit; a client's retry is another call with the same data. The
commit log has the lock and the sequence, but no unique index and no poller.

**InboxLog** models `PublishIdentityUpdate` under REPEATABLE READ. The first
statement, which fixes the snapshot, is the wait for the advisory lock, so the
snapshot may be older than the lock. The touch of the `inboxes` row turns a
stale snapshot into a serialization failure. Validation is a predicate on the
log, external to the node: an address can be added when it is not a member and
removed when it is.

**LegacySubscribe** models `SubscribeGroupMessages` and
`SubscribeWelcomeMessages`, which share their structure (the variable `kind`
tells them apart): registration, a history goroutine per filter with pages and
marks under `streamLock`, `wg.Wait`, then the live `select`. `sent` is what was
handed to `stream.Send`, a page as a whole. From then on the goroutine, or the
handler, is `"sending"`, and a goroutine holds the lock: `PageSent` and `Delivered`
return the Send, `PageFails` and `DeliverFails` fail it when the client has left. A
client may stop reading for good (`StopReading`); a Send may still return then, but
nothing says that it does.

**RateLimiter** models `Spend` at the grain of its locks, with entries that keep
their identity after deletion, and the janitor's scan, deletions and swap.

**KeyPackages** models an installation's row in `installations`, the rows of
`key_packages` in id order, `CreateOrUpdateInstallation` as a transaction of two
statements, the installations backfiller of several nodes (select with locks,
insert, mark, commit, any of which may fail), and the statements that prune the
two tables. `stored` and `pruned` are ghosts: what was uploaded, and what was
pruned.

**StoreJobs** has the loop of the `is_commit` backfiller of each node, the
executors of `cmd/prune` with a pruner per table, and a node's `Shutdown` as far
as it concerns the backfiller. A transaction is its lock step, its work and its
commit; locked rows are passed over, as `SKIP LOCKED` does. The delete of old key
packages takes every package of an owner, so it can meet rows that another
executor's statement has locked: it waits for them, and when two wait for each
other Postgres fails one (`FailPruner`). `Fitting` and
`TooLarge` are the batching by bytes of `classifyMessages`.

**MessageStore** is the table of the v1 API: what `InsertMessage` and the cleaner
do to it, and the page a query reads, with its cursor. A page is the set of its
rows: of those beyond the cursor the first ones of `ORDER BY` and `LIMIT`. **MessageV1** runs on it:
the streams (`handler`, `reader` and the channel of each subscription) beside
the dispatcher, and clients that page through the table. A handler with an envelope
in `Send` is `"sending"` and looks at nothing else; the clients of `Stalling` may
stop reading. Streams and queries do
not touch the same state, so a scenario has one or the other.

The `MC...` modules give the constants of the runs. A definition *Mutant of X*
in a module is a plausible mistake in `X`; no specification uses it. It shows
that a property would notice the mistake. `PROJECT.json` maps each definition to
the lines it models.

## The runs

| run | shows | bounds |
|---|---|---|
| `subscribe` | `RealRows`, `DeliveredExactly`, `NothingLost`, `CatchupIsComplete`, `AnsweredOnce`, `WaveBooks`, `GatesHaveOwners`, `LiveLaneOrdered`, `Seam` | five scenarios, see below |
| `subscribe_liveness` | `WavesComplete`, `HalfClosedReturns` | a group and an installation, two waves that contend for one slot, turns above the budget, a channel of one |
| `catch_up_lane` | `SlotsBounded`, `ImplementsBudget`, `ScansFinish` | three fetchers, two slots, sizes 1 and 3 in a budget of 2 |
| `transport` | `OkMeansDelivered`, `NonReaderReaped`, `HalfCloseEnds` | queues of one, interval and deadline of one tick |
| `message_log` | `TopicOrder`, `ReaderComplete`, `StoredOnce`, `PollerComplete` | each kind of table; three calls, one a retry, two topics |
| `inbox_log` | `ValidatedInOrder`, `StoredOnce`, `AddressLogAgrees` | three calls on one inbox and one on another, two attempts each |
| `legacy` | `NoGap`, `SentIsPrefix`, `AllArrive`, `StreamReturns` | three rows, pages of two, a channel of one, any two failures together, among them a client that stops reading |
| `key_packages` | `NewestIsLast`, `AllAppended` | two installations from before the table, two uploads for one of them, two backfillers, batches of one, two steps of time with a lifetime of one |
| `store_jobs` | `CommitsKept`, `RunReports`, `AllClassified`, `ShutdownCompletes` | five scenarios of up to two nodes and two executors, three messages (one a commit not yet classified), four key packages of two owners, batches of one, two cycles |
| `v1_messages` | `PrefixDelivered`, `PagesComplete`, `StreamsReturn` | a Subscribe beside a SubscribeAll, or a Subscribe2 with three requests; a Subscribe's or Subscribe2's client may stop reading; three envelopes, channels of one; pages of one and of two over rows of equal times |
| `limiter` | `OneEntry`, `NeverOverspent`, `IdleEntriesGo` | two requests on one bucket, two ticks to a minute |
| `stale_envelope_hides_history` | a disagreement, [below](#disagreements-between-code-and-text) | |

`TypeOK` of each module states the shape of its state for a reader. It was
checked with TLC while the modules were written; the runs above spend their time
on the other properties, and TLAPS proves it for `Subscribe`, `CatchUpLane`,
`StreamTransport`, `MessageLog`, `InboxLog`, `LegacySubscribe`, `KeyPackages` and
`RateLimiter`.

Why the bounds are enough to meet the cases. Limits are set to 1 or 2 so that
every one of them is reached: a channel of one overflows with two rows, a page
of one is exactly full with every row, a budget of one is smaller than a turn.
The scenarios of `subscribe` (module `MCSubscribeScenarios`) are:

* `buffer`: one Mutate, three rows, a gate that may hold two;
* `groups`: two groups, added alone, together and twice in one frame, removed,
  re-added in the frame that removes them, reset by a lower cursor;
* `reset`: three Mutates on one group, so that a batch and an envelope of the
  first subscription can meet the third;
* `kinds`: a group and an installation in one wave, welcomes of an unknown type,
  and one frame for each way a Mutate is refused;
* `history`: `history_only` reads, removed and repeated, beside a live topic.

A stream that has returned takes no further step (`Returned`), so deadlock is
checked in every passing run. `LegacySubscribe`'s run keeps fewer welcomes of
an unknown type than a page holds, for the reason given under the observations.
`NeverOverspent` compares each entry with an account that is credited on the
entry's minutes; the account and the ages are capped, always to the entry's
disadvantage, so a pass is a pass without the caps.

What the newer properties leave out, each because the code does so on purpose or
because it is an observation below: `NewestIsLast` excepts a package that was
pruned and an older package that is uploaded again; `AllClassified` excepts a
table with a message above the payload limit; `RunReports` lets rows stay that
another transaction held at the last look; `PagesComplete` speaks of rows with a
time other than 0 that were there all along; `StoredOnce` says nothing of copies
in the commit log, which has no unique index. `AllArrive` is about a client that
reads. `StreamReturns` and `StreamsReturn` promise the end of a stream whose client
has left, and, while the client reads, of one whose service stops or whose channel
overflowed: a client that stays and does not read holds its stream in `Send`, as an
observation below says.

## Fairness

* Subscribe, CatchUpLane: weak fairness of the goroutines that can move (the Go
  scheduler) and of the writer's handling of batches. Nothing is assumed of the
  client: it need not publish, mutate or leave. Its frames leave at once here; a
  client that does not read is the matter of StreamTransport, whose stall timer
  ends the stream.
* LegacySubscribe: weak fairness of the poller, of the history goroutines and of the
  handler's `select`. A `Send` is the client's: it has weak fairness only while the
  client reads (it returns) or once it has left (it fails), `SendReturns`. Of a client
  that stays and does not read nothing is assumed, and nothing promised to it.
* StreamTransport: weak fairness of the clock, the sender and a `send` or
  `flush` in progress; strong fairness of the ticker, of the requests and of the
  end of a wave, because `select` picks at random among the cases that are
  ready: one that is ready again and again is taken.
* RateLimiter: weak fairness of the clock, of requests under way and of the
  janitor's steps; strong fairness of the swap, because a waiting writer of a
  `sync.RWMutex` keeps new readers out.

* KeyPackages: strong fairness of each step of a backfiller's cycle, which can
  be interrupted by locks and failures but is tried again every second; weak
  fairness of an upload that holds its lock, which commits or fails.
* StoreJobs: weak fairness of a backfiller's loop and of a Shutdown that has
  begun; strong fairness of its select, of the request that carries a given
  message and of its update, so that not every attempt fails. Nothing is assumed
  of the executors.
* MessageV1: weak fairness of the handlers, and of a `Send` whose client reads or has
  left (`Reached`); strong fairness of the case of `ctx.Done`, which competes with
  others in a `select`.

Safety properties are checked in the same runs and use no fairness.

## The proofs

All are checked by `tlapm`, from the assumptions on the constants that the
modules name (`TopicsAssumption`, `MutatesAssumption`, `BoundsAssumption`,
`LaneAssumption`, `TransportAssumption`, `LimiterAssumption`, `LogAssumption`,
`InboxAssumption`, `LegacyAssumption`, `KeyPackagesAssumption`, `NoRowAssumption`,
`StoreJobsAssumption`, `MessageStoreAssumption`, `MessageV1Assumption`) and, for the
completeness of the older streams, from `PagesShow`, explained there. TLC evaluates
each assumption in a run.

A module of proofs extends the module it is about. Two of them extend two:
`StreamPartsProofs` is about `CatchUpLane` and `StreamTransport`, `StoreProofs` about
`StoreJobs` and `MessageV1`. For that the second of each pair gives its specification
names of its own (`TransportSpec`, `V1Spec` and so on).

| theorem | states | module |
|---|---|---|
| `TypeCorrect`, `RowsAreReal` | `TypeOK`, `RealRows` of Subscribe | `SubscribeProofs` |
| `LiveLaneIsOrdered`, `GatesAreOwned`, `MutatesAreAnswered` | `LiveLaneOrdered`, `GatesHaveOwners`, `AnsweredOnce` | |
| `WaveBooksAreExact`, `ClientsHoldTheirPrefix`, `NothingIsLost` | `WaveBooks`, `DeliveredExactly`, `NothingLost` | |
| `CatchupOfLiveTopicsIsComplete`, `SeamOfLiveTopics` | `CatchupIsComplete` and `Seam` for the topics followed live | |
| `LaneTypeCorrect`, `SlotsAreBounded`, `BudgetImplemented` | `TypeOK`, `SlotsBounded`, the refinement `ImplementsBudget` | `StreamPartsProofs` |
| `TransportTypeCorrect`, `OkStreamsDelivered` | `TransportTypeOK`, `OkMeansDelivered` of StreamTransport | |
| `LegacyTypeCorrect`, `NothingFallsBetween`, `SentWithoutGap` | `TypeOK`, `NoGap`, `SentIsPrefix` | `LegacySubscribeProofs` |
| `LogTypeCorrect`, `TopicsAreOrdered`, `SentAgainStoredOnce`, `ReadersMissNothing`, `PollerLeavesOnlyOvertaken` | `TypeOK`, `TopicOrder`, `StoredOnce`, `ReaderComplete`, `PollerComplete` | `MessageLogProofs` |
| `InboxTypeCorrect`, `UpdatesValidatedInOrder`, `UpdatesStoredOnce`, `AddressesAgree` | `TypeOK`, `ValidatedInOrder`, `StoredOnce`, `AddressLogAgrees` | `InboxLogProofs` |
| `PackagesTypeCorrect`, `ServedIsNewest` | `TypeOK`, `NewestIsLast` | `KeyPackagesProofs` |
| `CommitsAreKept`, `RunsReportTruly` | `CommitsKept`, `RunReports` | `StoreProofs` |
| `V1PrefixDelivered`, `V1PagesComplete` | `PrefixDelivered`, `PagesComplete` of MessageV1 | |
| `LimiterTypeCorrect`, `OneEntryPerBucket`, `EntriesNeverOverspend` | `TypeOK`, `OneEntry`, `NeverOverspent` | `RateLimiterProofs` |

**`SubscribeProofs`, types.** `TypeCorrect` and `RowsAreReal`, with the inductive
invariant `TypeOK /\ RealRows`. `TypeOK` alone is not inductive: a high-water
mark is the greatest id of a frame, and it exists because the ids are rows of a
finite table. `RealRows` says this of everything under way, in the channel, the
buffer and the batches. The module also proves what `Least` and `Greatest`
return, and that the sets the model counts are finite.

**`SubscribeProofs`, the live lane.** `LiveLaneIsOrdered` rests on `ChannelOrder` (the
channel ascends per kind and is behind the poller), `PendingPassed` and
`LivePassed` (what was taken from the channel is below what is left in it).
`GatesAreOwned` adds the books: a wave's `owned` is the number of topics that
point to it (`OwnedExact`), such a wave is in flight (`OwnersInFlight`), a gated
topic is in a wave (`GatedInWave`), only gated topics have buffered envelopes
and their count is exact (`HeldIfGated`, `HeldCount`); the last one needs
`PendingPassed`, since a held envelope must be new to the set.
`MutatesAreAnswered` follows: the waves a Mutate empties are those it answers
early, each counted once because a `mutate_id` in flight is refused.

**`SubscribeProofs`, delivery.** What a client gets: `ClientsHoldTheirPrefix`
(`DeliveredExactly`), `NothingIsLost`, `WaveBooksAreExact`, and
`CatchupOfLiveTopicsIsComplete` and `SeamOfLiveTopics`. `DeliveredExactly`, that a
client holds exactly its rows up to the mark, says nothing of the rows above the
mark, and the next frame could skip one of them. The invariant therefore says
where each of them is. For a topic in `subscribed` (`Owed`):

* `ExactFor`: what was sent is the prefix up to the mark;
* `BatchesContiguous`, `ScansContiguous`: a batch in the channel, and what a scan
  has read so far, leave out no row above the mark;
* `LiveCovered`: a row the poller has passed is in the dispatcher's channel, in
  the pending buffer, in a batch, or still ahead of the wave's scan;
* `DueCovered`: a row below the wave's ceiling is sent, in a batch, or ahead of
  the scan.

A topic whose `sub.Add` has not been made yet gets no envelopes; `Registering` says
that its scan has not probed its ceiling, so the scan will read all that is missed.
A gate opens when the last done marker of its wave arrives, and it has to be shown that nothing is left in a batch or with a scan then. This is what the
books are for (`BookInv`): a wave has at most one scan per kind, `scansLeft` is the
number of its scans that run plus its done markers in the channel
(`ScansCounted`), and behind every batch of a wave there is a done marker or a scan
to come (`BatchesFollowed`). So the row that was owed is in the buffer or in the
channel; the buffer is sent in the same step, and the channel's rows are above what
it held (`PendingPassed`, from the lane's invariant). `ConsumerTooSlow` and a failed
scan end the stream instead, which the invariant carries as `Abandoned`: a wave
whose scan gave up never completes.

For topics read with `history_only` the last two are false, as the run
`stale_envelope_hides_history` shows; the theorems state them for the topics that
are followed live.

**`StreamPartsProofs`, the catch-up lane.** `LaneTypeCorrect`; `SlotsAreBounded`;
`BudgetImplemented`, the refinement `Spec => Lane!Spec`. Its invariant adds
`Sized` (a fetcher with a turn has its size) and `Justified` (a fetcher about to
swap loaded a count that its turn fits), which makes a successful swap an atomic
`Reserve` although its load is older.

**`StreamPartsProofs`, the transport.** `OkStreamsDelivered` rests on what the end of
a stream knows of the sender: the queue is closed only by the flush or by the return
(`ClosedAtEnd`), a sender that is done has emptied the closed queue and its hand
(`DoneIsDrained`), one that failed has said so before the writer can return
(`FailureIsSeen`), and OK is returned only after a flush that saw it done
(`OkIsFlushed`). `TransportTypeCorrect` includes the depths of the queues and the caps
of the timers; that a request's age grows one tick at a time is a lemma on the whole
queue (`AgedRequests`).

**`LegacySubscribeProofs`.** History and live channel are joined by nothing but a
high-water mark per topic, and each may overtake the other. `MarksLead` bounds what was
sent of a topic by its mark. For the only filter of a topic (two share a mark, see the
observations) `FilterInv` follows each row the filter is owed: while the history comes
in the mark is behind the page in hand, so that a page is never dropped as old
(`NotAhead`); all up to the cursor of the fetch was sent or is in its page
(`ReadSoFar`); once the fetch has read the table to its end, every row the poller has
passed was sent, is in the page or in the channel, or came after the channel was
closed and is above all that will be sent (`Gapless`, `Missed`); and what was sent is
all there is up to the mark (`PrefixSent`). The step that matters is the last page: it
is read after the subscription was registered, so a row it does not show is one that
the poller has yet to pass. `NothingFallsBetween` and the second half of
`SentWithoutGap` need `PagesShow`, that fewer welcomes of an unknown type exist than a
page holds: a page of nothing else ends the fetch, and both are false without it. The
run has the same bound. `LegacyTypeCorrect` does not need it.

**`KeyPackagesProofs`.** `ServedIsNewest` compares two tables through the ghost
`stored`: an installation serves what was stored last (`ServedIsStored`), and the rows
of `key_packages` are in the order in which they were stored (`RowsInOrder`), so a
package that is there and was not replaced is the last. That it is there when
`is_appended` says so (`AppendedIsKept`) depends on the transactions: what a backfiller
has selected is still what is there when it commits (`SelectedIsCurrent`), and an insert
that found its package already there leaves it to that row (`FoundIsKept`), because the
row locks keep upload and backfill of one installation apart (`LocksExclude`). An
upload and a backfiller are different transactions: the model names them from disjoint
sets (`KeyPackagesAssumption`).

**`RateLimiterProofs`.** `OneEntryPerBucket`, `EntriesNeverOverspend` and
`LimiterTypeCorrect`. The strengthening of the first is
`AbsentInOld`: between its look in the old generation and its insertion into the
new one, a `Spend` may rely on the bucket's absence from the old one, because
the read lock keeps the swap away. `NeverOverspent` compares an entry with the
whole minutes since its last refill, and these begin elsewhere than the minutes of
its account. `Due` counts the account's minutes since the last refill instead:
`Covered`, with it in place of the whole minutes, is inductive. A tick raises
`Due` exactly when it credits the account; a refill takes no more than is due,
because the whole minutes of two spans are no more than those of both together
(`MinutesAdd`), whichever moment the request read the clock at.

**`MessageLogProofs`.** `TopicsAreOrdered` and `SentAgainStoredOnce`, for any
calls, topics and messages. `TopicOrder` is not inductive: the order of the
commits is decided when the ids are drawn. `IdsAhead` says that a row inserted
but not visible has an id above those of its topic that are, and holds because
`OneTransaction`, the advisory lock, lets at most one transaction of a topic be
between its lock and its commit. The same lock makes `NotYetStored` stable (what
passed the unique index is not stored by anyone else before it commits), and
with `DoneIsStored` and `OkIsDone` gives `StoredOnce`. `ReadersMissNothing` and
`PollerLeavesOnlyOvertaken` rest on `CursorsBehind` (a row that is not visible yet
is above the cursor of its topic), `IdsUnique` and `PollerStands`, and on what
`ORDER BY ... LIMIT` returns: the rows of a page are those below its last one
(`FirstRows` is closed downwards, and the ascending list of a finite set of ids has
each of them once). `LogTypeCorrect` follows.

**`InboxLogProofs`.** `UpdatesValidatedInOrder` and `UpdatesStoredOnce`. The
version of an inbox's row counts its entries (`VersionsCount`), and a
transaction's snapshot is the prefix of the log that its version counts
(`SnapshotsArePrefixes`), on which the update was accepted
(`InsertedWasAccepted`). A commit finds the version unchanged, so the snapshot is
the whole log. That nothing is stored twice follows, since the validation
refuses an update that it has applied. `AddressesAgree`: the association that a
revocation ends is the newest of its address (`LiveIsNewest`), and an id drawn for
a new one is above those of its inbox (`FreshId`), because a transaction that lost
the race cannot commit. `InboxTypeCorrect` includes that the limit of entries,
looked up on a snapshot, is never passed.

**`StoreProofs`, the jobs.** `CommitsAreKept`. A pruner decides when it locks and
deletes later, and the backfillers change the column it tests meanwhile; the
invariant says that a commit is never classified as something else
(`NoCommitFalse`) and therefore never locked by a pruner (`NoCommitLocked`).
`RunsReportTruly` says what a run without an error leaves behind. A pruner stops at
a batch that is not full, so the invariant says of the batch under way that, if it
is short, every other row that could be deleted was locked when it was selected
(`BatchIsAll`), and that a statement's rows stay in the table until it deletes them.
The latter needs the row locks also against the delete of key packages, which
takes rows that it did not select.

**`StoreProofs`, the v1 API.** `V1PrefixDelivered`: an envelope is in what a stream
sent or in its channel exactly when the stream wants it (`Wants`), that is, when it
came between the subscription and its end and is on a topic of the request; a
subscription in the dispatcher's map has an open channel (`OpenIfThere`), so an envelope
that is offered is either taken or ends the subscription there. A resubscription begins
again at its own place. `V1PagesComplete`: between two pages the cursor is the key of
the last row the client has, the rows it has are up to the cursor, and each row that
matched all along is one of them or beyond it (`Between`). Rows inserted behind the
cursor and rows the cleaner deletes do not matter to that. The order of the keys is
strict because no two rows have one key (`KeysDiffer`, the table's primary key, with an
id that is a digest of the topic). A row of time 0 in a page makes the cursor compare
ids alone, and the theorem, like the property, says nothing from then on.

What recursive functions and finite lists compute (`Members` of an inbox, ascending
lists, pages) is proved by least counterexample, with the theorems on well-founded
relations, since an induction rule cannot be instantiated here.

Only model-checked: every liveness property (out of the prover's reach), and
`CatchupIsComplete` and `Seam` as the run `subscribe` states them, for all topics: they
hold in its scenarios and are false in general, as `stale_envelope_hides_history`
shows, so what is proved is their part for the topics followed live.

## Disagreements between code and text

The run `stale_envelope_hides_history` ends with a counterexample;
`PROJECT.json` quotes the lines. An envelope that was queued when its topic was
removed is sent live during a later `history_only` wave of the topic. It raises
the mark, the wave's rows are dropped as duplicates, and CatchupComplete is sent
over the gap (`subscribe.go:1243`, against 148-150).

Observations without a run:

Streams and messages:

* The same envelope also breaks the seam that `subscribe.go:480-482` promises: a
  live frame of the wave's topic before its CatchupComplete.
* `subscribe.go:653-656` assumes that ids become visible in id order. The
  advisory lock is per topic, so ids of different topics commit in any order, and
  the poller and the scan ceiling can pass a row that is not visible yet
  (`PollerComplete` says exactly which rows).
* `service.go:531` and 740 wait for all history before anything of the
  subscription is sent. After a failed fetch `select` may take a live message
  before the error (546), over the missing history.
* A Pong that arrived in time but waits in the request channel loses to the
  ticker when `select` takes the latter (`subscribe.go:862-864`, 1280).
* `highWaterMarks` of the older streams is not seeded with the cursor
  (`service.go:442`): a message at or below it can be streamed, where
  `streaming_test.go:402-403` expects none.
* A page of nothing but welcomes of an unknown type ends the history fetch
  (`service.go:700-703`), and with it the welcomes behind the page.
* Of a stream of the older kind or of v1 whose client stays and does not read,
  nothing on the node ends the `Send` (`service.go:455`, `message/v1/service.go:149`,
  256): it has no timer, the handler looks at no context and no channel meanwhile,
  and `Server.Close` (`pkg/api/server.go:335`) cancels the context of the services and
  closes the listeners, but never stops the gRPC server. Such a stream outlives the
  shutdown of its service, the cutover and the overflow of its channel, also the
  overflow that is meant for it, and ends with the connection or the process. Subscribe
  has a stall timer for this (`StreamTransport`).
* A welcome stream cut off as too slow ends with OK, a group stream with Aborted.
* Two filters of one topic share a mark; the one with the higher cursor can
  raise it past rows of the other.
* A batch of commit log entries that is sent again after a lost answer is stored
  twice: `commit_log_v2` has no unique index.

Key packages and jobs:

* A package uploaded again keeps its first row, so the newest is not last,
  against `backfiller_installations.go:36-38`; `is_appended` is not set when an
  upload updates an installation, against 27-30, so the backfiller does it.
* `DeleteOldKeyPackagesBatch` deletes all packages of an installation that has an
  old one. `DeleteOldInstallationsBatch` goes by `created_at`, which an upload
  does not renew. A backfilled row takes the installation's `created_at`.
* `UploadKeyPackage` indexes the first validation result without a length check.
* A message that is too large, or that the validation service refuses, fails its
  whole batch, which is selected again: the messages behind it wait for ever. The
  size of a batch is the sum of the payloads, so that one just under the limit
  may exceed it with its framing.
* Counting old installations and key packages compares a BIGINT with a timestamp
  and always fails; the timeout of a count is recognised by an error type of
  another driver.
* A prune loop ends at a short batch, also when rows were skipped as locked.
* `Shutdown` closes the databases before the gRPC server and the backfillers
  (`server.go:347`); a backfiller's sleep is not cut short, so `Close` may take a
  minute. The cleaner's goroutine is not waited for.

v1 API and limiter:

* `Subscribe2`: the reader may stay blocked handing over a request after the
  handler has returned; the handler spins on the closed request channel until its
  context is done.
* A cursor of time 0 compares ids alone, so pages over such rows miss or repeat
  some. The cleaner deletes nothing while fewer rows than a batch are expired.
* `InsertMessage` has no caller: `Publish` always answers Unavailable.
* A sender that never pauses for a minute gets no credit: every refill moves
  `lastSeen`, also one that adds nothing because less than a minute has gone by
  (`rate_limiter.go:58`, against the comments at 35 and 59-60).
* The cost of a batch is its length cut to 16 bits (`interceptor.go:118`).

## What is not modelled

Contents of messages, signatures, MLS validation (a predicate), encoding,
configuration, metrics and logging: no property here depends on them. Several
Subscribe streams at once: the dispatcher treats each subscription by itself, and
the poller does not wait for any (`MessageV1` runs two beside each other).
Failures of Postgres other than a failed statement, a serialization failure and
a lost answer.

The interceptor, the gating by cutover and the allow list keep no state across
requests beyond one map that is replaced under a lock and read by one lookup;
there is no order of steps to examine, and the limiter they call is modelled. The
gateway and the start of the server are wiring. GetIdentityUpdates, GetInboxIds,
GetNewestGroupMessage and the signature checks read and change nothing.

Most of the repository's lines are generated: the protocol buffers, their
gateways and clients, and the mocks. There is nothing to model in them. Of the
generated queries (`queries.sql.go`) the statements are modelled where the
modules above execute them.

## Plan

Done, in order of importance: `Subscribe` with its proofs, `CatchUpLane`
against `CatchUpBudget`, `StreamTransport`, `MessageLog`, `InboxLog`,
`LegacySubscribe`, `RateLimiter`, then `KeyPackages`, `StoreJobs`, `MessageStore`
with `MessageV1`, and the commit log in `MessageLog`.

Each safety property that a run checks is proved, as far as it is true. What could
follow: several Subscribe streams on one dispatcher, the interceptor with the limiter
it calls, and properties for the hazards of `PROJECT.json` that have a note instead of
one, most of which would state a disagreement listed above.
