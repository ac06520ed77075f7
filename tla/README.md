# Verification of evo-bot-runtime

TLA+ models of the message pipeline of evo-bot-runtime, TLC runs that check them on
small instances, and theorems about them checked by TLAPS.

## 1. Inventory

evo-bot-runtime stands between a CRM and an AI Processor. The CRM posts message
events; the runtime collects the messages of one contact+conversation *pair* over a
debounce window, sends the collected text to the AI, and posts the answer back in
parts. A new message interrupts the turn in progress. The service runs in two replicas
(`k8s/deployment.yaml`) that share one Redis.

| Component | State | Operations | Correct when |
|---|---|---|---|
| Pair store, `pkg/pipeline/repository` | Redis keys per pair: `state`, `buffer`, `attach` (TTL 10 min), `timer` (TTL DebounceTime), `lock` (redsync, 8 s) | SetState, GetState, ClearState, AppendToBuffer, AppendAttachments, SetTimer, TimerExists, AcquireLock (one try), ScanStates | ClearState leaves nothing of a turn behind; the lock excludes |
| Debounce engine, `pkg/debounce` | none of its own | Start, Reset (append text, append media, set timer), GetBuffer, GetAttachments | no message is lost or left behind when the window closes |
| Pipeline service, `pkg/pipeline/service` | `entries`: pair -> context, cancel func, config, URLs; one poller goroutine | Process, Start (recovery), pollDebounceExpiry, advanceToAI, runAIStage, runDispatchStage, Shutdown, Cancel | one turn per window; the timer is respected; a turn runs with the config and the URL of its window; a newer message's state is left alone by older turns |
| HTTP handler, `pkg/pipeline/handler` | none | handleEvent (validate, persist `incoming`, start Process, 202), health | an accepted event is processed |
| AI adapter, `pkg/ai` | none | Call: download media within a budget, attempts with timeout, backoff and a ceiling | a timeout is reported as one, a cancellation as one; the call and its downloads take a bounded time; the media fit the budget |
| Dispatch engine, `pkg/dispatch` | none | Dispatch: segment, merge, post parts in order with delays, look at the context before each | no word of the text lost, parts within the limit and no more than needed, short ones merged, in order, each at most once; at most the part under way gets through after a cancel |
| Lifecycle, `cmd/server/main.go` | the process | Start before listening; on SIGTERM drain HTTP, then Shutdown | open windows survive a restart |
| Config, errors, middleware, domain model | environment; constants | load, validate | - |

How they interact: the handler writes `incoming` and starts a goroutine that runs
Process; Process and advanceToAI (called by the poller and by Start) take the pair's
lock, read the stage and drive the debounce engine; both end in launchAIStage, whose
goroutine runs *without the lock* through the AI call, the dispatch and the clean-up.
They share Redis (across replicas) and the `entries` map (within a replica). The only
callback is the cancel function of an entry's context.

What is hard: everything above interleaves at each Redis command, each HTTP request and
each access to `entries`; the lock is tried once and lost events are not queued; turns
write Redis outside the lock; cancellation is per replica and cooperative; replicas
crash, are shut down and restart; a Redis command may fail and have been applied.
`PROJECT.json` lists these hazards at their lines.

## 2. Modules

| Module | Models |
|---|---|
| `PairStore` | the Redis keys of one pair and the operations of the repository on them |
| `Pipeline` | handler, Process, Start, poller, advanceToAI, AI and dispatch goroutines of every replica, crashes, shutdowns, TTLs; the properties |
| `TurnLedger` | abstract specification: the life of the debounce windows of a pair |
| `PipelineLedger` | the refinement mapping under which `Pipeline` implements `TurnLedger` |
| `PipelineLapse` | `Pipeline` with a lock whose TTL may run out on a holder at work |
| `PoliteCustomer` | `Pipeline` with a customer who writes one message at a time, and what is promised then |
| `MCPipeline` | symmetry for TLC |
| `TurnContext` | the context of a turn, which the two modules below share |
| `AIAdapter` | `Call`: downloads, attempts, backoffs, and their timers |
| `Dispatch` | `Dispatch`: media URLs, segments, the loop of postbacks |
| `Reply` | one turn: runAIStage and runDispatchStage, composed of the adapter and the dispatch engine |
| `MCReply` | the constants of `Reply` for TLC |
| `PipelineProofs` | theorems about `Pipeline` |
| `LedgerProofs` | `Pipeline` implements `TurnLedger` |
| `PoliteProofs` | the theorem about `PoliteCustomer` |
| `Recursion` | lemmas about recursive functions, which the modules below rest on |
| `AIAdapterProofs` | the inductive invariant of a call and what follows from it |
| `SegmentProofs` | what `ExtractMediaURLs`, `Split` and `Merge` return for any text |
| `DispatchProofs` | the inductive invariant of a dispatch and what follows from it |
| `ReplyProofs` | the inductive invariant of a turn; the theorems about `Reply` and its parts |

There are two levels. `Pipeline` EXTENDS `PairStore` and looks at all actors of a pair; it
takes a call of the adapter as an outcome and an answer as a number of parts. `Reply`
EXTENDS `AIAdapter` and `Dispatch` and looks at one turn, command by command, with a
cancel that may come at any time. `TurnLedger` holds them together: `Pipeline` implements
it, and so does every step of a turn put together from the adapter and the dispatch
engine (`TurnFollowsLedger`), so that what `Pipeline` assumes of the two is what they do.

Definitions commented "Variant" are deliberately wrong versions of a neighbour, used to
see that the properties can fail; no specification uses them.

### State and code: Pipeline

| Variable | In the code |
|---|---|
| `state` | `bot_runtime:state:*`: the stage and, for `debounce`, the event whose BotConfig and URLs are persisted with it |
| `buffer`, `media`, `timer`, `lock` | the other keys of the pair; `lock` is who holds the mutex |
| `entry[i]` | the pair's `pipelineEntry` in replica `i`'s `entries`, named by the event it was made from |
| `cancelled[i]` | the entries whose `cancel()` was called on replica `i`; a turn is interrupted when its entry is in it |
| `pc[e]` | where the handler and the Process goroutine of event `e` are: the call made next |
| `pc[i]` | where Start, the poller or advanceToAI of replica `i` is |
| `snap[a]` | the locals of an actor: what GetBuffer and GetAttachments returned, and the window it is about (for a tick of the poller, the entry it found) |
| `turn[t]` | the goroutine of the t-th launchAIStage: where it is, the replica it runs on, the entry that gave it its context, config and postback URL (`ctx`), the entry that gave the request its outgoing URL, key and metadata (`url`), the text and media it was given, parts left and sent |
| `mode[i]` | replica down, in Start, serving, in Shutdown |
| `host[e]` | the replica whose handler took the event |
| `launches`, `crashes`, `faults` | counters; the last two bound the runs, and `faults` tells `WindowSurvivesCrash` that a Redis command failed |

A window is named by the event that opened it. `window`, `sent` and `noticed` of a turn
and `launches` are recorded for the properties and guard nothing in the program's steps
(`launches` only against its bound).

### Actions and code: Pipeline

| Code | Actions |
|---|---|
| handleEvent | `Accept` |
| Process | `LockForEvent`, `ReadStage`, `Supersede` (cancelPair), `ClearInterrupted`, `Unlock` |
| startDebounce / skipDebounce | `StoreAndAppend`, `Attach`, then `StartTimer`, `OpenWindow` or `ReadBuffer`, `ReadMedia`, `EnterAI` |
| resetDebounce | `ExtendWindow` |
| Start | `Recover`, `RecoverExpired` |
| pollDebounceExpiry | `Poll`, `ProbeTimer` |
| advanceToAI | `LockForAdvance`, `RecheckStage`, `RecheckTimer`, `ReadBuffer`, `ReadMedia`, `EnterAI`, `Unlock` |
| runAIStage, sendAIFailureNotice | `LoadRequest` (its second entries.Load), `CallAI`, `ClearFailed`, `Notify`, `SetDispatch` |
| Dispatch, sendPart, runDispatchStage | `CheckContext`, `Post`, `Drop`, `SetDone`, `Tidy`, `Forget` |
| recoverPipeline | `Panic`, `Tidy`, `Forget` |
| Shutdown, main, the kubelet | `Shutdown`, `Exit`, `Boot`, `Crash` |
| TTLs | `TimerExpires`, `MediaExpires`, `LockExpires` |

### State and code: Reply, AIAdapter, Dispatch

| Variable | In the code |
|---|---|
| `stage` | where runAIStage, or the goroutine of runDispatchStage after it, is |
| `cancelled` | the turn's context is done; for the notice, the context of noticeCtx |
| `config` | the fields of `aiAdapter` |
| `items`, `room`, `forwarded` | buildFileParts: attachments left, `remaining`, the file parts built |
| `callPc`, `attempt`, `answered` | where Call and doOnce are, the loop counter, a status has come for the attempt |
| `now`, `budget`, `ceiling`, `due` | time, and the deadlines of budgetCtx, overallCtx and of the wait under way (dlCtx, timeoutCtx, time.After) |
| `outcome` | what Call returned |
| `content`, `bot` | the answer or the notice, and the BotConfig |
| `plan`, `next`, `sendPc` | the parts and the media piece, the loop index, where Dispatch is |
| `wire`, `result` | what the CRM has received; what Dispatch returned, or that the turn ended in a failed Redis command or a panic |

| Code | Definitions |
|---|---|
| NewAIAdapter, attachmentTimeout, backoffDelay | `NewAIAdapter`, `AttachmentTimeout`, `Backoff`, `BackoffDelays` |
| buildFileParts, downloadAttachment | `SkipItem`, `StopMedia`, `StartDownload`, `EndDownload` (`Forward`, `PassOver`) |
| Call, doOnce | `Send`, `RequestFails`, `Responds`, `Decode`, `Retry`, `EndBackoff`, `Ceiling` |
| extractMediaURLs | `ExtractMediaURLs`, `RemoveURL` |
| segmentContent | `Split` (`Whole`, `Greedy`), then `Merge` |
| Dispatch, sendPart | `Cut`, `Skip`, `Check`, `Post`, `Delay`, `Sent` |
| runAIStage, launchDispatchStage, sendAIFailureNotice | `CallReturns`, `AIAnswers`, `AICancelled`, `AIFails`, `Launch` |
| recoverPipeline | `Panic` (`PutAway`, `DispatchPanics`) |
| cancelPair, Shutdown, noticeCtx's timeout | `ContextEnds` |

Time is counted in ticks and passes while the call waits. A deadline may take effect when
it is due and must within `Late` ticks, so a late timer can be overtaken by another one:
that is what the slack in the ceiling is for. `AdapterAssumption` asks that the lateness of
all timers of a call fits in that slack.

### The ledger

`TurnLedger` names a window by the event that opens it and says, without locks, replicas,
Redis or timers, how it may live: new, open, then lost or asking, telling, saying, over.
A window is asked at most once and with every message that waits then; its answer has a
number of parts that goes down with each part; no part is begun once the window is hushed;
what is lost or over does not come back. In `PipelineLedger` a window is open when Redis
says so or when a poller that holds it between its stage check and its launch says so; it is
hushed when the cancel has reached the context of its turn. The ledger allows windows to be
lost, because the code loses them (findings 1, 2, 4). It does not rule those losses out, and it
counts a window as hushed only on the replica that the cancel reaches: a turn on the other
replica is not interrupted, here as in the code.

### Abstractions

- One pair. The keys and the map entries of two pairs are disjoint, and no operation
  touches two pairs except Start's loop, which treats them one after the other.
- One step per Redis command, HTTP request and access to `entries`. Joined into one step
  because nothing another actor can see lies between, or only what another order of
  existing steps shows too: entries.Store with the RPUSH after it, SetState(StageAI) with
  the launch, RPUSH with EXPIRE of the media list, cancelPair's LoadAndDelete with cancel.
- A message and its attachments are one value, and of its config and URLs it matters whose
  they are: the config and postback URL a turn was launched with, and the outgoing URL, key
  and metadata it loads later. Of a message only `DebounceTime = 0` or not, and attachments or
  none, are told apart. The buffer is a set: its order is left out.
- A request without an outgoing URL fails; it gets no answer.
- An AI timeout and any other AI error have the same effect on state and are one outcome.
  The number of parts of an answer is any number up to `MaxParts`.
- A failed Redis write may have been applied or not; a failed SET NX of the lock may have
  set the key for nobody.
- Every event has a postback URL, since Validate refuses one without
  (`pkg/pipeline/model/pipeline.go:84`): the `no_postback` branch of sendAIFailureNotice is
  never taken.
- A panic of the adapter or the dispatch engine may come at any point of a turn's AI call,
  dispatch or notice. It ends the turn without a word and leaves Redis and the entries map to
  recoverPipeline (`Tidy`, `Forget`).
- In `Dispatch` a text is a sequence of words. Of its characters only the numbers count,
  which media URL is found in a word, the whole of it or a part as in `(https://x/v.mp4).`, at
  most one (`URLOf`), and which words a media URL's string occurs in (`Within`, `Torn`).
  `Fields` and `TrimSpace` are in this representation; a text with other white space than single spaces is one of its
  class. The signature is a mark on the first part: segmentContent does not count it.
- In `AIAdapter` a duration is a two's complement number of `Width` bits, which a shift
  (`Backoff`) and the sum of the worst case (`Ceiling`) may overflow (`Wrapped`).
  A download ends with some number of bytes that the adapter takes, or with nothing; which
  MIME type it sends, and why it skips one, is left out. Everything from ContextID to
  metadata is passed on and read by nothing here.
- Redis in `Reply` is the success or failure of the one SetState(StageDispatch).
- The lock's TTL does not run out on a holder that is still at work (`LockExpires`): the
  8 s are taken to be longer than the handful of Redis commands made under it.
- `Cancel` has no caller in the program and is left out.

## 3. Runs

The runs `reply`, `url` and `short_parts` have module `MCReply`, all others `MCPipeline`.
`CHECK_DEADLOCK FALSE` in each: the system rests when every event was handled and no replica is to crash any
more, and a turn rests when it is over.

| Run | Instance | Shows |
|---|---|---|
| `replicas` | 2 events, 2 replicas, 1 crash or shutdown, 1 failed command or panic | `TypeOK`, `LockExclusion`, `WindowLaunchedOnce`, `TimerRespected`, `SnapshotIsWholeBuffer`, `EntriesAreLive`, `ConfigMatchesWindow`, `ImplementsLedger` |
| `recovery` | 1 event with media, 2 replicas, 2 crashes or shutdowns, 1 failed command or panic, 2 parts; fair | `WindowSurvivesCrash`, `LockEventuallyFree`, `ImplementsLedger` |
| `one_at_a_time` | 2 events one after the other, 2 replicas; fair | `TurnIsItsMessage`, `EveryMessageAnswered` |
| `loser` | 2 events, 1 replica; fair | violated: two events race and neither is ever answered |
| `durability` | 1 event, 1 replica, 1 crash; fair | violated: an accepted event is lost in a crash |
| `interrupted` | 2 events, 1 replica | violated: an interrupted dispatch clears the new window |
| `address` | 2 events (one without debounce), 1 replica | violated: a turn calls the AI without its URL |
| `other_replica` | 2 events, 2 replicas | violated: a turn runs with the config of an earlier message |
| `lapse` | 1 event, 2 replicas, 1 crash, lock lapses | violated: `WindowLaunchedOnce` |
| `reply` | one turn; fair | the budgets, outcomes, segments, order and end of a turn (below) |
| `url` | one turn without attachments | violated: `OtherWordsStay` |
| `short_parts` | one turn without attachments | violated: `ShortPartsMerged` |

What `reply` says of a turn:

- the media sent fit the total and the per-file cap (`MediaWithinBudget`), and downloading
  holds the request back for a fixed time however many attachments there are
  (`MediaTimeBounded`);
- before a retry there is a real wait, jitter included: at least half of the base doubled as
  often as there were retries, or of the cap, and at most the cap, though the shift may
  overflow (`RetriesBackOff`); and all attempts end within their worst case (`CallIsBounded`);
- the call is reported as cancelled only if it was, as timed out only after a whole timeout
  (`OutcomeIsTrue`), and a cancel during a request or a backoff is never taken for anything
  else (`CancelIsSeen`; in the decoding the code does not tell it from an error);
- the parts, joined, are the text (`TextKept`), a part over the limit is a single word
  (`SegmentsFit`), and no other way to cut the text within the limit makes fewer parts
  (`FewestParts`);
- what the CRM received is a beginning of the plan, each piece once, media last
  (`DeliveredIsPrefix`), and a cancel lets at most one more piece through
  (`AtMostOneAfterCancel`);
- a turn in which the customer hears nothing was cancelled, failed at Redis or at the CRM,
  panicked, failed with the notice turned off, or had an empty answer (`SilenceHasAReason`);
- each step is a step of the ledger (`TurnFollowsLedger`), and the turn ends (`TurnEnds`).

Bounds. Two events are enough for every race between a turn and its successor; two replicas for
every race of pollers, of a poller with Process on the other side, and for a restart watched by
a survivor. One fault and one crash give every single failure at every point, and both may
come in one behaviour; `recovery` has a second crash, so that the survivor may fail too.
`MaxTurns` equals the number of events and never holds a launch up: each event opens at most
one window or launches itself, and SetState(StageAI) uses the window up, so its guard in
`Launch` cuts nothing off. `MaxParts = 2` gives an interrupt before, between and after
postbacks. An event without debounce is in `one_at_a_time` and `address`; what the safety
properties of `replicas` are for such events, for media, three events and more parts rests on the
theorems, which hold for all of them. `WindowSurvivesCrash` is about behaviours in which no
Redis command fails; `LockEventuallyFree` and `ImplementsLedger` are about all of them.

`reply`: timeouts 0 (none of the ceiling, every attempt over at once) and 6, which is under
`MaxDownload = 7`, so that the downloads run on either timeout; no retries (from a setting
below 0) and 2; the default base, which doubles up to the cap, and a base of 48 over the cap,
which shifted once is negative in a 7-bit duration; up to three attachments, of a size that
fits three times and of one that fits once in the total; timers one tick late. The words have
1, 2, 3, 3 and 3 characters and the limit is 4, so that words fit alone, in pairs or not at all; one of
them is a media URL, one a page whose address has that URL in it, one has a media URL inside;
all answers of up to three words without the last, of up to two with it, and up to five where
no URL is among them. Between them the bounds make every action of the adapter and the dispatch
engine happen, and every branch of the helpers they call but three: the merge in `PutPart`,
which cannot happen (finding 8), a segmentation without a limit, which Validate refuses, and a
`Ceiling` that wraps, which `WidthAssumption` excludes. Each property was seen to fail when one
definition is replaced by its variant.

`url` and `short_parts` have the same words; without attachments and with one timeout, since
the cut depends on neither.

Symmetry (`Interchangeable`) is used in `replicas` only, whose events and replicas are
not told apart by its constants and whose properties are invariants and an initial condition
with an action property (`ImplementsLedger`), none of them naming an event or a replica.

Fairness of `Pipeline` (`Fairness`): each Process goroutine, poller and turn keeps going, since Go
schedules runnable goroutines and every AI call, postback and Redis command has a
timeout; the timer and lock TTLs run out; a replica in Shutdown exits within its 10 s and
the kubelet restarts an exited one. Nothing is assumed of customers, failures, crashes,
or of the media TTL. The disjunction within one actor is weakly fair as a whole: which
way an AI call or a postback ends is never forced. Fairness of `Reply` is of the same kind: the
turn keeps going and time passes; a cancel is never forced, nor is a way for a request to end.

`one_at_a_time` constrains the customer (`OneAtATime`), not the system: the next event is
posted when the pair is quiet. It says what the pipeline promises when nothing races; the
finding runs say what it does not promise when something does.

## 4. Findings

1. **Two racing events may both be lost** (`loser`). The handler of the second event writes
   `StageIncoming` without the lock, over the `StageDebounce` that the first one's Process has
   just stored, and its own Process gives up on the lock. The poller looks for
   `StageDebounce` only, so no turn is ever launched. The test comment
   (`test/e2e/e2e_test.go:486`) says the second event is processed once the lock is released;
   the test itself posts events without debounce, whose winner launches without looking at the stage again.
2. **Accepted events are not durable** (`durability`). `StageIncoming` is persisted without
   the message and `Start` recovers `StageDebounce` only, against `handler.go:59-60`.
3. **An interrupted dispatch clears the new window** (`interrupted`). A cancel during the
   POST comes back as an ordinary error, and the error branch calls ClearState, which the
   comment at `pipeline_service.go:494` says must not happen on an interrupt.
4. **A turn may ask the AI without its URL** (`address`). The context, config and postback URL of
   a turn come from the entry that launchAIStage loaded; the outgoing URL, API key and metadata
   come from a second load in runAIStage (`pipeline_service.go:375`). The success tail of the
   previous turn deletes whoever's entry the map holds (line 527); when it does so in between, the
   request has no address and the turn fails, although the comment at line 39 says the entry
   carries the URL to the AI stage. When it does so a moment earlier, launchAIStage itself finds
   nothing and the pair stays in `ai` without a turn, which lines 336-342 say should not happen.
5. **Once is not once when the lock lapses** (`lapse`). The mutex has redsync's default TTL of
   8 s, nothing extends it, and the commands under it have no deadline of their own. When Redis
   is slow enough, the next poller launches the same window again, against the
   "exactly-once guarantee" of `pipeline_service.go:278`.
6. **A media URL may tear another URL** (`url`). `strings.Replace` takes the media URL out where
   its string first occurs; when an earlier URL contains it (`https://h/p.png/view` before
   `https://h/p.png`), that one is torn and the media URL stays in the text, against the
   comment at `dispatch_engine.go:285`.
7. **Another replica's config** (`other_replica`). A replica keeps the live entry of a message
   it took when the next message of the pair goes to the other replica, whose cancelPair does not
   reach it. Its poller sees the later window expired and launches it with the earlier message's
   context, config and postback URL. The comments at `pipeline_service.go:37-38` say the entry
   carries those of the message to the dispatch stage, and `k8s/deployment.yaml:8` runs two
   replicas. What does hold is `ConfigMatchesWindow`: the replica that took the message which
   opened the window launches it with the right ones.
8. **Short parts are not merged** (`short_parts`). A part is closed only when the next word does
   not fit, so what follows cannot be merged into it within the limit, and
   `text_segmentation_min_size` has no effect; `dispatch_engine.go:187-189` says that parts
   shorter than it are merged with their predecessor. `MergingIsIdle` proves that it never
   happens, for any text and settings.

## 5. Proofs

Every invariant, action property and refinement that a passing run checks is also a theorem,
for all values of the constants, from `StoreAssumption`, `PipelineAssumption`,
`AdapterAssumption`, `WidthAssumption`, `DispatchAssumption` and `ReplyAssumption` (which TLC
evaluates in the runs). One theorem, `TurnsAreTheirMessages`, has a hypothesis of its own,
named below. The run shows a property on a small instance
and that a plausible bug breaks it; the theorem shows that the instance hid nothing.

### Pipeline (`PipelineProofs`)

- `TypeCorrectness`: `Spec => []TypeOK`. Types alone are not inductive: a write through
  `host[e]` needs a replica there, and `left - 1` needs a part left to post. `TypeInv`
  adds `Hosted` (an event past the handler has a replica) and `TurnsSound` (sent + left
  stays within `MaxParts`, and a turn that has yet to look its request up is on a replica).
- `MutualExclusion`: `LockExclusion` is inductive given the types. `ExclusionFrame` states
  the four ways a step can keep it: stay inside, take the free lock, stay outside, leave.
- `TimerIsRespected`: a poller passes the second look at the timer only when it is off,
  the timer is set only by a Process goroutine inside its critical section, and by mutual
  exclusion no such goroutine exists meanwhile.
- `SnapshotIsComplete`: likewise for the buffer, which grows under the lock only.
- `AtMostOneTurnPerWindow`: the invariant `LaunchLedger` strengthens `WindowLaunchedOnce`:
  whenever Redis says `debounce` the window is *fresh* (its opener has passed SetState and
  no turn has it), whenever a poller is between its stage check and its launch its window
  is fresh, every window that has a turn has an opener that is past its own launch, and
  slots beyond `launches` are empty.
- `LiveEntries`: that no map keeps a cancelled entry holds on any number of replicas.
  `MapsInv` adds that an event that has not reached entries.Store is in no map and in no set
  of cancelled contexts (so that what it stores is live), and that a replica that starts has
  cancelled nothing. Putting a persisted entry back (`Recover`) is sound because of the
  first part and of `LaunchLedger`: what Redis says is open was stored by an event that is
  past its own errors.
- `ConfigOfTheWindow`: `ConfigMatchesWindow` for any number of replicas. `OwnInv` is about the
  replica that took the event which opens, or has opened, the window: from entries.Store on,
  while the window is open and while that replica advances it, its map holds the entry of
  that event or none. Nothing is said of the other replicas' maps, where old entries may be left
  (finding 7). Three facts keep it: under the lock only one event at a time is opening a
  window (`HolderAlone`), what Start puts back is the entry of the window that is open, and a replica
  that took an event is known for good (`HostStays`).

### The ledger (`LedgerProofs`)

`Implementation`: `Spec => ImplementsLedger`. Initial states map to initial states
(`InitImplements`); `NextImplements` shows that under `TypeInv`, `LaunchLedger`,
`SnapshotIsWholeBuffer` and `TurnsHosted` every step maps to a step of the ledger or none.
It treats a window according to whether it has a turn before and after the step:

- with a turn (`TurnWindowStep`): `TurnMoves` lists what a step may do to a turn; since a
  window has one turn at most, `TurnOf` keeps choosing the same one. `HushStays`: a turn that
  is interrupted stays so while it lives, for contexts are never un-cancelled but by the
  exit of their replica, which ends the turn too.
- without one (`NoTurnWindowStep`): only who can still open a window opens it
  (`CanOpenFrom`, `IsOpenFrom`), and what is lost does not come back (`OpenIsFresh`).
- getting one (`LaunchWindowStep`): the launcher held the window open, and took every waiting
  message along (`SnapshotIsWholeBuffer`).

### One message at a time (`PoliteProofs`)

`TurnsAreTheirMessages`: `PoliteSpec => []TurnIsItsMessage` where **no command fails and no
replica exits** (`MaxFaults = 0`, `MaxCrashes = 0`, as in the run `one_at_a_time`); with a
failed command or a crash the text of an earlier message may stay in the list. `PoliteInv`
says who has the pair in hand: one event that is handled (`HandledAlone`), one open window
(`WindowAlone`) or one turn (`TurnAlone`), and that what waits in Redis is that one's
message. A turn leaves nothing because every way it can end, but for a cancel, clears the
keys, and while it runs nobody is there to cancel it. An old entry that an earlier turn left
in the map of another replica is allowed: a poller there may launch the window on it, with
the right message.

### A turn (`AIAdapterProofs`, `SegmentProofs`, `DispatchProofs`, `ReplyProofs`)

`ReplyInvariant` shows `ReplyInv` inductive: `CallInv` (the adapter), `DispatchInv` (the
dispatch engine), and how one follows the other. Each invariant lives with its component, and
a step of one component leaves the other's alone.

- The adapter: `MediaWithinBudget`, `MediaTimeBounded`, `RetriesBackOff`, `OutcomeIsTrue`,
  `CallIsBounded`, `CancelIsSeen`. `RoomIsLeft` ties `room` to the total of what was
  forwarded. `AttemptClock` bounds `now` and `due` by `Spent`, the longest that the attempts
  and backoffs so far may have taken; the ceiling, with its slack, is never due before the
  last attempt's own timeout, because the lateness of all timers fits in the slack
  (`AdapterAssumption`). That the shift's overflow shows: a base is a multiple of `2^Grain`
  (milliseconds in nanoseconds are multiples of 2^6), so the base shifted by n, wrapped or not,
  is a multiple of `2^(n + Grain)` (`WrappedShift`); once it overflows, for a base within the
  cap, that is more than the cap (`OverflowShows`, from `WidthAssumption`: the cap squared is
  less than `2^(Width - 1 + Grain)`, as the 5 s are), so what is left is 0, negative or over the cap and the
  test in backoffDelay takes it for what it is. `BackoffBounds` concludes that the backoff is
  the lesser of the true product and the cap, and `RetryWaits` that the wait with its jitter is
  at least half of that.
- The text: `TextKept`, `SegmentsFit`, `FewestParts`, and that merging changes nothing
  (`MergingIsIdle`), for texts of any length and any words. Joining the parts gives the text at
  every step of the loop; a part is `Tight`: within the limit or one word, and with no room for the first word of the next one.
  The latter makes merging idle (`MergeIsIdle`). For `FewestParts`, `Ahead` compares the
  greedy loop with any other way to cut, word by word: it has made fewer parts so far, or as
  many and its last part starts no earlier.
- The loop of postbacks: `DeliveredIsPrefix` and `AtMostOneAfterCancel`, with what was
  received tied to the loop's index, for any number of parts.
- The turn: `SilenceHasAReason`, with a panic at any point of it (`PanicInv`), and
  `TurnFollowsLedger` step by step.

### Recursion

The prover cannot use the library's induction theorems, which take an operator as a
parameter. `Recursion` goes round that: `LeastNat` (a non-empty set of numbers has a least
element, from the library's `WFMin`), from it `UpTo` (a set that contains 0 and is closed
under the next number contains all numbers up to a bound, the property being given as a
set), `RecursiveFunction` (a function that starts with a value and goes on by given steps
exists) and `SameValues` (two such functions agree). With it each recursive function of the models
is unfolded once (`SizeSteps`, `GreedySteps`, `MergeSteps`, `FlattenSteps`, `PlannedSteps`, ...) and its results
are proved by induction over the words or pieces. For this the models' recursion is written as recursive
functions, and sums as `Total`.

### Model-checked only

Liveness: `WindowSurvivesCrash`, `LockEventuallyFree`, `EveryMessageAnswered`, `TurnEnds`.
They rest on fairness and ENABLED, which is beyond the prover. The runs that expect a
violation show counterexamples and have nothing to prove.

## 6. Not modelled

- `Cancel` of the pipeline service: nothing but its tests calls it.
- The JSON on the wire, the identity fields (`contextId`, `userId`), the choice of a MIME type
  and the rules for hosts and redirects: conversions and conditions without state.
- Payload validation but for the segmentation rule, the secret middleware, health, logging,
  addresses and secrets in the configuration.
- Several pairs: the 10 000 of ScanStates, the growth of `entries`, the poller's time for one
  round over many of them.
- The order of the texts in the buffer.
- The signature adds to the length of the first part, so that part may exceed the limit;
  `SegmentsFit` is about what segmentContent returns.
- A disabled failure notice in the runs: `NoticeEnabled = FALSE` takes steps away and adds none.

## 7. Plan

The modelling plan is done, and so is the proof of every property that is not about
liveness. What is left:

1. What `TurnIsItsMessage` becomes when replicas may exit: the exit of a replica that has
   nothing of the pair in hand should change nothing.
2. Steps towards liveness that are invariants: a window that Redis says is open has an entry
   on a replica that is up, or one that starts will find it (the safety half of
   `WindowSurvivesCrash`).
