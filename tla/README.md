# notify-hub in TLA+

notify-hub takes one `POST /notify` and delivers it to the messaging channels of
the caller's profile, through two BullMQ queues on Redis, with its configuration
in one SQLite file that an admin panel edits while the system runs. This
directory holds TLA+ models of it, the TLC runs that check them and the proofs.
Paths below are relative to the repository.

## 1. The system

| component | state it keeps | operations | talks to |
|---|---|---|---|
| API, `src/api` | none | `POST /notify`, `GET /channels`, `GET /health` | reads SQLite, adds dispatch jobs |
| queue, `src/queue/bullmq-queue.ts` | two queues in Redis: waiting, active, delayed, failed jobs | add, take, complete, fail, find stalled | API, worker |
| DispatchService | none | `handleDispatch` | reads SQLite, adds delivery jobs |
| DeliveryService | none | `deliver` | reads SQLite, calls an adapter |
| channel adapters, `src/channels` | none | `send` | the provider, over HTTP or SMTP |
| repositories, `src/db` | SQLite tables `channels`, `profiles`, `profile_channels`, `telemetry` | get, list, upsert, delete | three processes share the file |
| boot, `src/container.ts`, `src/db/seed-from-env.ts` | none | open, seed when empty, install id, heartbeat | SQLite, PostHog |
| admin API, `src/admin` | none | `GET/PUT /api/config`, test-send, status | SQLite, gateway, worker logs |
| admin UI, `src/admin/ui` | working copy, saved snapshot, dirty flag | edit, save, discard, refresh | admin API |
| MCP servers, `src/mcp` | none | one tool per configuration or send operation | as the admin API, or the gateway |
| Claude Code hook, `clients/claude-code` | three files per session: start, activity, pending | start, end, needs-input, deferred send | the gateway |
| local TTS player, `clients/local-tts-player` | FIFO of speech requests | speak, voices | `say` |

API, worker and admin are separate processes (containers restarted by Docker).
They share the SQLite file; API and worker share Redis. Both services read the
database each time they run, so an edit takes effect on the very next job: there
is no cache, and no coordination between an edit and a job in progress.

### What is hard, and what makes each part correct

* **Pipeline** (API, queues, both services). Handlers interleave with each other,
  with edits, with crashes of the worker and with the expiry of BullMQ's locks;
  an answer of a provider may be lost. Correct: what is accepted with 202 ends as
  delivered, skipped or dead-lettered, never nowhere; a dispatch job completes
  with its whole fan-out or not at all; a channel is enqueued once per run;
  retries are bounded and counted right; a settled job stays settled.
* **Configuration** (repositories, admin API, MCP, UI). A `PUT` is a series of
  separate writes computed from what a browser loaded earlier; the browser's
  requests overtake each other while the user goes on editing. Correct: an
  invalid state is never written, a rejected write changes nothing, no edit is
  lost without the save bar showing it, a save changes only what was edited, and
  a profile's defaults exist.
* **Boot**. Two processes start on one empty file and either may die halfway.
  Correct: both come up, and the seed is complete.
* **Hook**. Detached processes wake in any order and share files, and each reads
  its settings anew. Correct: at most one push per idle period, one for the last
  Stop of a quiet session, each with its own payload and the duration of its own
  task.
* **Speech player**. Correct: no two `say` overlap, a failure does not stop the
  queue, and a request is answered however long the speeches before it take.
* **Test-send, status, MCP sends**. They learn of a delivery from the gateway's
  answer and from the worker's log. Correct: "ok" proves a delivery, a refusal
  means that nothing goes out later, and every call ends.

## 2. Plan

The modules were written in this order, each with its runs before the next:

1. `BullMqJob` (the life of one job), `NotifyPipeline` (API, queues, services,
   edits, faults), `DeliveryContract` (what the pipeline promises) and the
   refinement; theorems on retry accounting, fan-out, the 202 and the contract.
2. `ConfigStore` (the tables and the repositories' writes), `AdminConfig` (`PUT`
   row by row, entity operations), `ConfigReaders` (the worker's reads in
   between), with theorems.
3. `Boot`: the environment, two processes seeding, the install id, crashes, edits.
4. `HookDebounce` and `SpeechQueue`, with theorems.
5. `HookSession` and `SpeechPlayer`, the programs around those two, built on
   their actions.
6. `AdminPanel`: one browser tab over `AdminConfig`; `VoiceField`: the voice
   field of its cards and the requests behind it.
7. `ChannelAdapters` (limits, texts, what counts as success) and `TestSend`:
   tests, MCP sends and the status, over the gateway, Redis and the worker's log.

Composition: `ConfigReaders`, `AdminPanel` and `Boot` extend `AdminConfig`, which
extends `ConfigStore`; `HookSession` extends `HookDebounce`, `SpeechPlayer` extends
`SpeechQueue`, `TestSend` extends `ChannelAdapters`.

Each component's invariants were proved after its runs: `AdminPanel`, `VoiceField`
and the answers of `TestSend` last.

What remains worth doing: several tabs of the panel as actors of their own instead
of as entity operations, and the voice field as part of the tab whose working copy
it edits.

## 3. Modules

### `BullMqJob`

A job is a record: state `none`, `queued`, `active`, `completed` or `failed`;
`started`, the number of times a handler was started; `made`, BullMQ's
`attemptsMade`; `stalls`, its stalled counter. `NewJob`, `Started`, `Finished`,
`Thrown` and `Stalled` are the transitions, as the job options of
`BullMqQueue` (attempts, removeOnComplete, removeOnFail) and BullMQ's own stall
limit make them. Waiting, delayed and prioritised jobs are one state, `queued`:
a backoff only delays. `completed` stands for a job removed from Redis.

A handler that outlived its lock finds the job in another state when it reports:
`Finished` and `Thrown` then change nothing.

### `NotifyPipeline`

| variable | in the code |
|---|---|
| `instance` | rows of `channels`: absent, disabled, enabled |
| `profiles` | rows of `profiles` with `profile_channels`, or `NoProfile` |
| `body`, `reply`, `checked`, `jobOf` | a request, where its handling stands, the ids the route has looked up, the jobId of its 202 |
| `dispatch`, `delivery`, `target` | the two queues; the `channel` of each delivery job |
| `dispatcher`, `deliverer` | the local state of the handler each worker runs |
| `outcome`, `received` | the `DeliveryResult`; copies the provider has accepted |
| `plan` | history only: what the last run of a dispatch job resolved |
| `edits`, `crashes` | bounds |

Each `await` of the code is a boundary between two actions, and so is each
database read, since another process may write between them: the handler of a
dispatch job is `TakeDispatch` (reads the enabled ids), `ResolveTargets` (reads
the defaults, intersects), `EnqueueDelivery` once per channel or
`EnqueueDeliveryThrows`, `FinishDispatch`. A delivery is `TakeDelivery` (reads
the row), `ProviderAccepts`, then `FinishDelivery` or `SendThrows`; a send may
throw before or after the provider acted. In the API `Post` is the lookup of the
token, `CheckChannel` that of one id; then `add()` is awaited: `StoreDispatch` and
`CollapseDispatch` are Redis taking it, `Accept` the 202 that follows,
`EnqueueUnavailable` the 503 of an `add()` that rejects, before Redis took the job
or after. `ApiCrash` may come between any two of these; a job may then be stored,
and run, without its client having an answer. An `add()` that is on its way when
the API dies is taken before that or not at all, and a command that ioredis sends
once more because its answer was lost is not modelled. `SaveChannel`, `DeleteChannel`, `SaveProfile` and
`DeleteProfile` are the writes of the repositories, whoever makes them.
`WorkerCrash` ends both handlers; `StallDispatch` and `StallDelivery` are the
stalled-job checker, which also hits jobs whose handler still runs.

Each worker takes one job at a time (BullMQ's default concurrency) and any
queued job may be next, which contains every order that priorities, backoff and
FIFO can give.

Job ids: a dispatch job is named by its request, a delivery job by request, run
of the handler and position in the resolved list. `Holders` finds the job that
holds the id a dedupKey pins. Names not used yet stand for ids BullMQ would
assign later.

### `DeliveryContract`

The promise, without queues, workers or a database: a request is open, accepted,
done or dead; a delivery is none, owed, sent, skipped or dead; copies reach a
provider only while owed, up to a limit. `ImplementsContract` states that
`NotifyPipeline` implements it under the mapping at the end of that module.

### `ConfigStore`

`channel` is the table `channels`, reduced to what validation and dispatch tell
apart: absent, disabled, enabled, or enabled without a required key
(`incomplete`). `profile` is `profiles` joined with `profile_channels`: a token
and a set of defaults. Each write of a repository is one operator, with the
cascade of the foreign key, the pruning of `replaceDefaultChannels` and the
UNIQUE token as its guard. A statement or a transaction is atomic, a series of
them is not.

### `AdminConfig`

`put` is the PUT being applied: what it wants and what each of the four loops
has still to do. `BeginPut` validates and computes the ids to delete;
`WriteChannel`, `WriteProfile`, `DropProfile`, `DropChannel` are one iteration
each; `WriteProfileClashes` is the UNIQUE violation and its 500, `AbortPut` a
crash or a lock that could not be had. Other processes read between any two of
them. The admin process runs the handler without a break, so its own requests
do not come in between: the entity operations of `config-service.ts` need
`put = NoPut`, and are atomic because their only write is one statement or
transaction. `torn` is history.

### `ConfigReaders`

`handleDispatch`'s three statements (enabled ids, profile row, defaults) as three
actions against every step of `AdminConfig`. `moments` is history: the right
answer at each moment since the read began.

### `Boot`

`SeedChannels` and `SeedProfiles` are what `loadConfig` and `slugify` make of the
environment, of which `channelsEnabled` is chosen at the start and stays. `proc` is where each of api and worker stands in `buildContainer`:
the emptiness check, one step per seeded row, the read and the insert of the
install id, up, or down. A UNIQUE violation of either insert sends it down;
Docker restarts it. The panel edits the store through the entity operations of
`AdminConfig`. `edited`, `emptied` and `cut` are history.

### `HookDebounce`

`activity` and `pending` are the two files of a session, `sender` the detached
process of each Stop, named by its `stopTs`. A sender reads the activity marker
(`Wake`), then the pending file (`CheckPending`), awaits its POST (`Post`), then
deletes the file (`DeletePending`). `prompts`, `posted` and `deletedAt` are
history.

### `SpeechQueue`

`pending` and `running` are the closure's variables, `playing` the live `say`
processes, `settled` the promises whose continuation has not run yet. `RunNext`
includes its recursion: any number of calls may throw at once before one starts.
`accepted` and `tried` are history.

### `HookSession`

The files of the debounce plus `startFile`; `inFile` and `held` are the payloads
in the pending file and in each sender's hands; `settings` is what
`resolveConfig` finds at the moment, which the user may edit, and `hasUrl` what
each sender found when it started. A prompt writes the start file before any
toggle is looked at (`SessionPrompt`), a Stop reads and removes it when it builds
its payload (`Build`), and is then written for a sender (`DebouncedStop`) or
posted at once (`ImmediateStop`). The actions that concern the debounce are those
of `HookDebounce` with payloads and settings added, so its promises are checked and
proved of the whole hook under the names they have there.

### `SpeechPlayer`

`handling` and `status` are the state of each HTTP request: reading its body,
waiting for `say -v ?`, or answered. `Speak` is the one place that reaches the
queue, in the same step as its answer. What happens to the queue is an action of
`SpeechQueue`.

### `AdminPanel`

`working`, `snapshot` and `dirty` are `config`, `savedSnapshot` and `dirty` of
`admin-state.js`; `save` is the PUT of the tab and `gets` its GETs in flight;
`form` is the Add form with the ids and the configuration object it captured.
Every handler that changes the working copy is an action (`ToggleChannel`,
`EditCard`, `DeleteCard`, `ToggleChip`, `EditProfile`, `RemoveProfile`,
`AddProfile`, `AddChannel`, `DefaultVoice`), each with the pruning and the
marking its code does. `StartSave`, `SaveSucceeds`, `SaveFails`, `Refresh`,
`Adopt`, `GetFails` and `Discard` are the requests; the admin process answers
them through `AdminConfig`'s own steps, while others write. An answer may be
lost at any point, of a save that was applied too. `behind`, `touched`, `open`
and `raced` are history: whether the store was written since the snapshot was
taken, what was edited since, whether some edit is neither stored nor discarded,
and whether an edit was made, or given up, around a request in flight.

### `VoiceField`

`url` and `voice` are the keys of `channel.config`, `field` what is drawn: a text
input or the combobox with its options, its filtered list, highlight and text.
`fetches` are the requests for voices in flight, each for the drawing of the card
that asked: `Answered` takes any of them. The combobox's event handlers are the
actions `Focus`, `TypeQuery`, `Arrow`, `Enter`, `Click` and `Close`. `picked` and
`lastUrl` are history: what the user last gave as the voice, and the URL of the last
fetch unless two were under way at once.

### `ChannelAdapters`

Operators without state: `Truncated` is the decorator, `Text` what an adapter
makes of title and message, `Throws` what it takes for a failure. `Outcomes` is
the provider, external: what it may take and answer.

### `TestSend`

`pc`, `started`, `polls`, `asks` and `reply` are a call of the panel or of an MCP
client, `request` its POST at the gateway, `delivery`, `attempts` and `copies` its
delivery job, `log` the worker's log. What the parser and `runTestSend` keep of the
log is the set of places of the lines they keep (`Parsed`, `Recent`, `Matches`). `Start` does the checks of `runTestSend`,
`Refuse`, `Admit`, `Add` (the job is stored), `Accept` (202) and `Unavailable`
(503, with the job stored or not) are the gateway, `Skip` and `Deliver` the worker,
`Poll` an iteration of the poll loop, `GiveUp` a connection that fails or times
out on the caller's side while the gateway goes on. `Add` waits for Redis, as
ioredis does with `maxRetriesPerRequest: null`; a POST that is waiting outlives
its caller.

### Proof and MC modules

The modules named `...Proofs` hold the theorems of section 6, one module for each of
`NotifyPipeline`, `AdminConfig`, `ConfigReaders`, `Boot`, `AdminPanel` and `TestSend`;
`HookSessionProofs` is about `HookDebounce` and `HookSession`, `LocalTtsProofs` about
`SpeechQueue`, `SpeechPlayer` and `VoiceField`. Those named `...MC` hold the initial
states and constants of the runs. The inductive invariants are definitions of the
modules they are about, so that TLC can check them.

## 4. Runs

| run | what it asks |
|---|---|
| `pipeline_retries` | one channel: do the retry counters and the copies a provider gets add up, over every mixture of rejections, lost answers, a crash and expired locks; does a settled job stay settled; does every delivery settle. The API answers at once |
| `pipeline_fanout` | two channels, a list that repeats an id, a crash and an edit of the database between any two steps: no channel twice in a run, no completed job with part of its fan-out, no channel a request did not name; the inductive invariant of the proofs. The API answers at once |
| `pipeline_dedup` | two requests that may share a dedupKey, around the life of each other's jobs, with deaths of the API, an `add()` that rejects with or without the job stored, and a crash of the worker: is every 202 backed by a job and worked off, also when collapsed onto another's; is nothing stored for a request that was refused; does the pipeline implement `DeliveryContract` |
| `config_readers` | every PUT on every state it can meet, entity operations, clashes and crashes, and the reads of a dispatch job in between: is a save that is answered 200 stored exactly, do defaults exist at every moment, does the store stay valid; can a job be sent to a channel that was at no moment an enabled default of its profile; is a read atomic while at most one row is written |
| `boot` | two seeders at once, two crashes, two edits: is the seed complete when both are up, does a later boot seed again only after the panel has emptied the table, do both have one install id, do both come up in the end, whoever gets in whose way; with `CHANNELS_ENABLED` set and left empty |
| `hook_session` | one push per burst of Stops, none after a prompt in the window, one for the last Stop unless it met a POST; the payload of each push and the duration it gives, with toggles edited in between |
| `speech_player` | no two `say` at once, order kept, 202 exactly for what is queued, answers while a `say` hangs, everything accepted tried if speeches end |
| `admin_panel` | a tab with a save and two loads in flight, an edit of others, lost answers: does the save bar show every edit that is not stored, does a clean panel show what is live, what does a save change |
| `voice_field` | is the voice that a save ships the one the user gave, whatever the players answer and in whatever order; does the closed field show it; whose list is it |
| `test_send` | a test, an MCP send and a status around one channel with an outage of Redis, a rejected `add()` and an edit: what "ok", "refused" and "queued" prove, what a truncated message becomes, does every call end |
| `test_send_events` | fails: each attempt of the worker is an event of the parser |
| `panel_edit_in_put` | fails: the snapshot after a save is what was saved |

A component's inductive invariant is one property of its run (`PipelineInv`,
`AdminInv`, `BootInv`, `SessionInv`, `PlayerInv`, `SendInv`, `PanelInv`) and includes
its type invariant; `VoiceInv` is the three properties of `voice_field` with the
types and `LastFetch`. Some of their
conjuncts are properties in their own right: `OneDeliveryPerChannel` in
`PipelineInv`, `DefaultsExist` and `StoreValid` in `AdminInv`, `OneInstallId` in
`BootInv`, `NeverOverlap` and `FirstInFirstOut` in `PlayerInv`, `MessageFits` and
`LogStands` in `SendInv`, `DurationIsOfTask`, `StartUsedOnce` and `PushesItsOwn` in `SessionInv`,
`DefaultsInCopy` and `FormKnowsAllIds` in `PanelInv`.

The runs that fail are disagreements of the code with its comments, quoted in
`PROJECT.json`:

* `test_send_events`: the worker writes "delivery failed for instance", the
  parser looks for "delivery failed for channel". A test of a broken channel ends
  as "no delivery result observed", never as failed, and the status lists
  successes only. `OkMeansReceived` holds all the same.
* `panel_edit_in_put`: `markSaved` copies the working copy when the PUT is
  answered; edits made since the PUT was sent count as saved and vanish with the
  load that follows. This is one of the exceptions `raced` names in `NoEditLost`.

More limits of the code, the first three of them against its documents, show in
what the properties do not say:

* The README (lines 156-161) and `.env.example` say the seed variables are read once.
  The code asks at each boot whether `channels` is empty now, so after the panel has
  deleted the last channel the next start seeds again, over edited profiles too.
  `ReseedsOnlyEmptied` is what holds.
* HOOK-06.3 (`.specs/features/hook-status/spec.md:77`) says that a Stop which
  supersedes another keeps the start of the session. The first Stop of a burst reads
  and removes the start file, so the one payload that is pushed, the last Stop's, has
  neither start nor duration. `DurationIsOfTask` says that a start which is given is
  right, and `StartUsedOnce` that it is given once; neither says that a push has one.
* `notify.ts:5` and `.specs/features/notification-gateway/spec.md:64` promise a 503
  and no hang when Redis is unreachable. With `maxRetriesPerRequest: null` the
  `add()` waits, and so does the POST; the 503 is for a Redis that answers with an
  error. Callers end by their own timeouts, and the notification may still go out:
  `RequestsStand` promises of "refused" that nothing follows, and of "unreachable"
  and "unavailable" nothing.
* A save is row by row. One that moves a token between profiles violates UNIQUE
  halfway and leaves the rows before it written, though `admin-save-flow.js:4`
  calls it atomic; `StoreValid` excepts such a store (`torn`).
* Of two first boots one may die on the install id, though `container.ts:117`
  says that telemetry never crashes boot; `ComesUp` shows that the restart heals
  it. Malformed `TOKENS` end every boot.
* With `CHANNELS_ENABLED` empty, its default, no boot leaves a channel and so every
  boot seeds the profiles again. Once the panel has given the token of a seeded
  profile to another one, that insert violates UNIQUE at every start and the
  processes restart for ever. `ComesUp` excepts exactly this (`TokenTaken`), and
  the run, which has both kinds of environment, shows that nothing else keeps them
  down.
* "Empty" is judged by the channels alone. A seed that was cut short counts as done
  by the same rule, which is why `SeededTogether` speaks only of seeders that were
  not.
* A sender of the hook deletes the pending file after its POST without looking at
  it again, so a Stop during the POST goes unpushed (`notify-hook.mjs:642` says
  otherwise). `SilentOnlyDuringPost` shows that this is the only way.
* The limit of `TruncatingChannel` counts the message alone: with a title and its
  markup a truncated text exceeds the limit of Discord or Telegram and is refused
  at every attempt. `MessageFits` is about the message.
* A title of symbols only gives an empty speech, which the player refuses.

And more of the pipeline. A dispatch job
that is retried enqueues the channels before the failure once more, under a new
`dispatchJobId`: `OneDeliveryPerChannel` holds per run of the handler. A dedupKey
collapses a retry only while its job is stored: completion removes the job
(`removeOnComplete: true`), and a request with the same key afterwards is a new
one. A dead-lettered job is kept and still holds its key: a request that collapses
onto it is answered 202 and nothing is sent, which `NoSilentLoss` and
`DeliveryContract` count as failed with the dead letter. That one key has one stored
job is BullMQ's own uniqueness of job ids, which the model takes as given. A 503, or
no answer at all, says nothing: the job may be stored and its notification go out.
`NoSilentLoss` counts a delivery as settled when it was skipped because its
channel was disabled in the meantime. And a save
of two rows between the enabled ids and the defaults that a dispatch job reads
can leave their intersection empty, though the profile had an enabled default at
every moment: `OneWriteIsAtomic` is the most that holds.

Bounds. The constants are given in the `.cfg` files, which say at the top what
the run is sized for. Two attempts and one tolerated stall are the smallest
numbers for which a job can be retried after either and exhaust either; two
channels are the least that make a partial fan-out; two requests the least that
make a collapse, and the second can meet the first one's key held, dead-lettered
or freed. One crash
suffices for each single-run hazard, and the run that needs it allows it while
locks expire freely. `pipeline_fanout` tolerates no stall, so that a crash or an
expired lock dead-letters its job and its reruns are those of a throw: with one
tolerated stall it has more than 14 million states. The rerun after a crash is in
`pipeline_retries` for one channel, and for all sizes in the theorems. In
`pipeline_retries` and `pipeline_fanout` the 202 follows at once on the job being
stored (the action constraint `AnswersAtOnce`): what may happen in between is the
subject of `pipeline_dedup`, and the services do not see it. The runs are kept small
enough to explore every state; the theorems of section 6 hold for all sizes.

For the configuration, two channels, two profiles and one token are the least in
which a token moves and a default is replaced; `MCWanted` leaves out payloads
that are refused for a missing key. In `boot` the two seed rows of each kind make a
partial seed of either kind possible, and two edits suffice to take a seed's
token and to empty the table; `CHANNELS_ENABLED` lists two channels or none, which
behave differently. The hook runs for five units with an idle window of
two: a Stop, a superseding Stop and the one after, each in every order with
prompts and one edit of the settings. Three speech requests give one that plays,
one that waits and one behind it, any of which fails at once or later; one of
each other kind is enough since they share no state. The panel has one instance
and one profile, of which each operation has an effect on the other; two GETs
overtake each other and a PUT, two edits fall on either side of a request, and
one write of others makes a tab stale. Three fetches give one that is overtaken
and one of a card since replaced. In `test_send` two calls meet on one channel of
the type whose errors hide in a 2xx, with a limit that its message exceeds by
one; a call may find the other's line, and one attempt per delivery is enough for
that. A line of an earlier attempt of the same delivery is left to the theorems.

Liveness. Fairness is weak fairness on each worker and on the stalled-job checker
for jobs nobody holds: Redis and the providers answer the worker in the end, Docker
restarts a dead one, BullMQ runs its checker on a timer. There is none on clients,
the API, the admin, crashes or the expiry of the lock of a live handler. A Redis
that never comes back is therefore excluded there; `TestSend` has outages, which
end. `FairBoot` is weak
fairness on each process (it runs, and `restart: unless-stopped` starts it
again), none on crashes and edits. The hook's runs ask for
safety only, and `SessionSpec` states no fairness. `PlayerSpec` says that a body that is coming in ends, as JSON or by
breaking off, that `say -v ?` ends and that Node runs the continuation of a
settled promise; that a `say` ends is an assumption of `SpeechIsTried` alone.
`SendFairness` says that a caller's awaits end (fetch has a timeout, `docker
compose logs` returns), that gateway and worker go on, and that Redis comes
back; nothing makes anybody begin a call.

## 5. Abstractions

Payloads, formatting and logging are left out where no property depends on them.
In the pipeline tokens stand for their profile. The database's
`enabled` and existence bits are kept, the configuration values are not, apart
from whether a required key is missing; in `AdminPanel` a disabled instance does
not show which keys it has, and enabling it may find it complete or not. A
payload has no two profiles of one id: the panel and the MCP tools cannot produce
one. In `Boot` the ids and tokens of the environment are distinct (`IsSeeded`
would otherwise ask for two rows in one), and two names with one slug lose the
first one's token. In `HookDebounce` and `HookSession` a hook call takes less
than one unit of time, at most one Stop comes in a unit, a POST that fails is not
told from one that succeeds (the code does not retry), and a sender that is
killed is left out: its push is lost, by design of a detached process. In
`SpeechPlayer` each request is one of a kind given beforehand. In `AdminPanel`
another tab is its writes. In `VoiceField` a query is the set of voices it
matches, and labels are their values. In `TestSend` a text is its length, the
requests of a status are answered or fail without their contents, a delivery
stands for the two queues between gateway and adapter, and `Refuse` and `Admit`
look at the token the POST carries and the target's row as they are then.
`ChannelOrder` is the `ORDER BY channel_id` of the defaults. A database error in
a handler acts as a throw of the same handler and adds nothing to the failures
modelled.

## 6. Proofs

For every set of requests, channels, profiles and keys, every list, every number
of attempts and stalls, edits and crashes:

| theorem | states |
|---|---|
| `PipelineInvariant` | `PipelineInv`, from which the rest follow |
| `TypeCorrect` | `TypeOK`: no counter leaves its range |
| `DeadLettersAreExhausted` | dead-lettered only when attempts or stalls are used up; every start accounted for |
| `SentDeliveriesWereReceived` | a delivery reported as sent has reached its provider |
| `FanOutRepeatsNoChannel` | no channel twice in a run |
| `FanOutIsComplete` | a completed dispatch job has its whole fan-out |
| `AcceptedRequestsAreBacked` | a 202 names a job that Redis took, of the request or of one with its key |
| `OnlyAskedAreSent` | a request that names channels is delivered to no other |
| `SettledStaysSettled` | a settled job is not revived, completed or run again |
| `PipelineImplementsContract` | `NotifyPipeline` implements `DeliveryContract` |

Assumptions: the named ASSUMEs of the modules only (bounds are natural numbers,
at least one attempt, lists no longer than `MaxLen`, the special values are not
members of the sets they extend, at least one process boots).

The argument. `PipelineInv` has three layers. `AccountingInv` is inductive on
its own: the types, the accounting of each job, and that a handler about to
reach the provider holds a start no copy has used (`CopiesAccounted`); without
the last conjunct the number of copies could not be bounded by the number of
starts. `ApiInv` is inductive given the types; between Redis and the answer it needs `AddedIsBacked`.
`FanOutInv` needs both: a run is
the latest of its job (`RunIsLatest`), so its delivery names are fresh when it
begins, and the loop has enqueued exactly the positions it has passed
(`LoopProgress`); completion then gives the complete fan-out, and the absence of
repeated channels comes from `resolveChannels` keeping first occurrences only.
`RunIsLatest` is what an expired lock threatens: the worker is still busy with
the old run, so no second one can start.

The last three theorems rest on `StepMoves`: a step leaves the jobs alone, moves one
dispatch job, moves one delivery job, or hands a provider a copy, and each move
starts from a state that is not settled. What `PipelineInv` contributes is that a
new delivery takes a name nobody had (`LoopProgress`), of a request that was
accepted (`RunIsLatest`), that "sent" is recorded of a copy that exists, and that
a copy is of a delivery that exists and within the limit (`CopiesAccounted`). Two
facts more are carried along: a completed delivery has an outcome
(`OutcomeRecorded`), and a run of a request that names channels goes through that
very list (`ListIsAsked`).

For every set of channels, profiles and tokens, every set of payloads, every
idle time and clock, every set of requests, loads in flight, players, voices and
calls, and every table of limits:

| theorem | states |
|---|---|
| `AdminInvariant` | `AdminInv` |
| `DefaultsAlwaysExist` | defaults name existing rows between any two writes |
| `SavedIsStored` | a PUT that completes has stored exactly what it wanted |
| `StoreStaysValid` | outside of a PUT, and of one cut short, the store is valid |
| `ReadInvariant`, `ReadsAreAtomic` | a read that at most one row is written during is atomic |
| `ReadsAreReal` | a job goes only to channels that were enabled defaults at some moment of the read |
| `BootInvariant` | `BootInv`, for environments whose names give distinct ids |
| `SeedersAgree` | seeders together leave the whole seed, unless one was cut short or the panel saved |
| `SeedsOnlyOnce` | no boot seeds over what the panel saved, unless the panel emptied the table |
| `HookInvariant`, `PromptsCancel`, `BurstsPushOnce`, `LossesAreOverlaps` | the four invariants of `HookDebounce` |
| `SessionInvariant` | `SessionInv`: payload and duration of a push are those of its own Stop |
| `SessionDebounces` | the promises of the debounce, of the whole session |
| `QueueInvariant`, `SpeechNeverOverlaps`, `SpeechKeepsOrder` | the three of `SpeechQueue` |
| `PlayerInvariant`, `PlayerNeverOverlaps` | `PlayerInv`: 202 for exactly what is queued; no two `say` of the player |
| `PanelInvariant` | `PanelInv`, from which the next three follow |
| `EditsAreKept` | an edit that is not stored shows in the save bar, but for the overlaps `raced` names |
| `CleanPanelIsLive` | a panel with nothing to save shows what is live |
| `SavesChangeEditsOnly` | a save differs from the store in what was edited only |
| `DefaultsStayInCopy` | the defaults a tab ships name channels it ships |
| `VoiceInvariant` | `VoiceInv`, from which the next three follow |
| `VoiceIsNeverDropped` | the voice a save ships is the one that was given |
| `ComboIsHonest` | a closed combobox shows that voice, and its highlight is in its list |
| `OfferedListIsOfUrl` | the list offered is of the player whose URL is entered |
| `SendInvariant` | `SendInv` |
| `OkIsReceived` | "ok", and a delivery that a status lists as sent, prove a delivery |
| `QueuedIsKept` | what was queued is owed or settled |

`AdminInv` is inductive because of `PutProgress`: the rows a PUT has left behind
are as it wants them and those it does not want are still on its lists. With the
payload's validity that is why the pruning of `replaceDefaultChannels` and the
cascade of a delete never take anything the payload has: the channels are all
there before the first profile is written, and no profile refers to a channel
when it is deleted. `ReadsAreReal` needs `AdminInv` and `DefaultsWereSeen`: a
channel in the listing that is a default now was in the right answer at some
moment, and after a single write the two reads together are the answer before it
or after it, since no write changes both what is enabled and what is a default
but the delete of a channel, which takes it out of both. In `HookInv`, `PendingIsNewest` ties the pending file to the newest Stop
or to a POST that overlapped it, and `AwayWhenAwake` keeps what a sender saw when
it passed its reads. In `QueueInv` the flag is set exactly while one `say` or one
continuation is under way, which is what makes `runNext` safe to call from both
`enqueue` and the continuation.

`BootInv` is inductive because of two conjuncts. `SeedProgress` says which rows a
seeder has behind it, and that while the panel has saved nothing the seed is
complete, somebody is at it, or nobody has begun: a process that skips the seeding
saw a row, so one of the first two holds. The channels come first, which is why
the pruning of a profile's defaults takes nothing. `StartedFull` says that whoever
is past the seeding has left or seen a channel; the table then stays filled until
the panel empties it, and no check finds it empty. Two names with one id would
overwrite each other's row and make `IsSeeded` unsatisfiable: the theorems of
`Boot` have `SlugsDistinct` as their hypothesis.

`HookSession` and `SpeechPlayer` are built on the actions of the module they extend
(the lemmas `SessionFollowsDebounce` and `PlayerStepQueues`), so its invariants carry
over by temporal logic alone; these lemmas say nothing of the code and are not results. `SessionInv` needs `HookInv` on top of its own conjuncts: that the
pending file holds the payload of the Stop it names follows from who may write it.
In `SendInv` the conjunct `RequestsStand` ties each answer to the POST behind it:
what was refused is never delivered, what was answered 202 was stored before, and
no later outage or edit moves either back. `LogStands` ties each answer
that was read from the log to a line of it, and each line that says "sent" to a
copy at the provider: this is where it matters that an adapter which does not throw
was believed rightly, `SilentMeansTaken`, of CallMeBot too.

`PanelInv` is `AdminInv`, `StoreComplete` (no write of the admin process stores an
enabled row without its keys) and `TabInv`, what the tab knows. Three of its
conjuncts carry the argument. `Overlaps` says what a tab that has not raced cannot
have: a load in flight next to an edit, or a save of a clean copy. `SaveStands`
follows the PUT: what is being applied is valid and, unless the tab has raced, it is
the working copy; once applied, and until others write, it is the store.
`Freshness` says that a snapshot nobody has written behind is the store and that
the copy differs from it in `touched` only: `SaveStands` carries it over the answer
of a PUT, and `Overlaps` over that of a load. `StoreComplete` is what keeps
`DefaultVoice`, which fills in a voice when a card is drawn, from making a clean
tab differ from the store. The handlers are taken together: `EditSteps` gives what any
of them may do to the copy (`WithChannelTyped`, `WithProfileTyped` and
`PrunedIsWhole` are the facts about its operators), and `AdminSteps` what anyone may
do to the store.

`VoiceInv` needs little more than the properties themselves: a combobox is only ever
drawn with the voice at hand among its options (`OptionsTyped`), which is why an
answer for a card that was since redrawn leaves the voice alone, and `LastFetch`,
which says that the fetch for the entered URL is the only one under way and is for the field
on the page.

Only model-checked: liveness (`EveryDeliverySettles`, `NoSilentLoss`, `ComesUp`,
`AnsweredWhileSpeaking`, `SpeechIsTried`, `EveryCallEnds`), which is out of the
prover's reach. Every safety property of a passing run is stated by a theorem.

## 7. Not modelled

The rendering of the UI (markup, icons, toasts, the status view, the collapse of
cards): it keeps no state that a request depends on. Priorities, tags and the
shape of the providers' requests: they are passed through. Ports, URLs and
logging levels of the environment. Telemetry's HTTP call: it is not awaited and
its failure is swallowed. The in-memory queue: a test double. The MCP transports,
static files and the registry's route: stateless. The text of the hook's
messages, taken from the transcript: data. BullMQ, Redis, SQLite, nodemailer and
the providers are external and modelled by what the code asks of them.
