--------------------------- MODULE NotifyPipeline ---------------------------
(***************************************************************************)
(* The notification path, from POST /notify to the provider of a channel:  *)
(*                                                                         *)
(*   API (src/api/routes/notify.ts) --dispatch queue--> DispatchService    *)
(*       --delivery queue--> DeliveryService --HTTP--> provider            *)
(*                                                                         *)
(* Both services read the channel instances and profiles from SQLite when  *)
(* they run, and the admin panel edits those rows at any moment.  The two  *)
(* BullMQ workers live in one process, each with BullMQ's default          *)
(* concurrency of one; the process may crash and is restarted by Docker,   *)
(* and so may the API.                                                     *)
(*                                                                         *)
(* A dispatch job is named by the request that created it; a delivery job  *)
(* by <<request, run, position>>: `run` is the handler run that enqueued   *)
(* it (the code's fresh dispatchJobId) and `position` the place of its     *)
(* channel in the list that run resolved.  The queues are unordered: any   *)
(* waiting job may be taken next, which covers BullMQ's FIFO and backoff.  *)
(***************************************************************************)
EXTENDS BullMqJob, Sequences, FiniteSets

CONSTANTS
  Request,       \* the POST /notify calls of a behaviour
  Channel,       \* channel instance ids
  Profile,       \* profile ids
  Key,           \* values of metadata.dedupKey
  NoKey,         \* a request without dedupKey
  Unspecified,   \* a request without `channels`
  NoProfile,     \* a profile id with no row
  ChannelOrder,  \* every instance id, in the ORDER BY channel_id order
  Lists,         \* the `channels` arrays clients send
  MaxLen,        \* bound: length of those arrays
  MaxEdits,      \* bound: admin edits in a behaviour
  MaxCrashes     \* bound: worker crashes in a behaviour (the API's are bounded by its requests)

Positions == 1 .. MaxLen

ASSUME ListsAssumption ==
  /\ MaxLen \in Nat
  /\ \A l \in Lists \cup {ChannelOrder} : l \in Seq(Channel) /\ Len(l) <= MaxLen
  /\ Unspecified \notin Lists
ASSUME OrderAssumption == \A c \in Channel : \E i \in DOMAIN ChannelOrder : ChannelOrder[i] = c
ASSUME NamesAssumption ==
  Channel # {} /\ NoKey \notin Key /\ \A ids \in SUBSET Channel : ids # NoProfile
ASSUME BoundsAssumption == MaxEdits \in Nat /\ MaxCrashes \in Nat

VARIABLES
  instance,    \* channels table: "absent", "disabled" or "enabled" per id
  profiles,    \* profiles and profile_channels: the default ids, or NoProfile
  body,        \* what each client posts: profile of its token, channels, dedupKey
  reply,       \* where each POST stands
  checked,     \* how many ids of its `channels` the route has looked up
  jobOf,       \* the request whose dispatch job add() answered with
  dispatch,    \* the dispatch queue's jobs
  dispatcher,  \* the run of handleDispatch in progress
  plan,        \* history: positions the last run of a dispatch job resolved
  delivery,    \* the delivery queue's jobs
  target,      \* the `channel` field of each delivery job
  deliverer,   \* the run of deliver() in progress
  outcome,     \* the DeliveryResult a delivery job completed with
  received,    \* copies of a delivery its provider has accepted
  edits, crashes

db      == <<instance, profiles>>
api     == <<body, reply, checked, jobOf>>
worker  == <<dispatcher, deliverer>>
sending == <<outcome, received>>
vars == <<instance, profiles, body, reply, checked, jobOf, dispatch, dispatcher, plan,
          delivery, target, deliverer, outcome, received, edits, crashes>>

Body == [profile : Profile, channels : Lists \cup {Unspecified}, key : Key \cup {NoKey}]
\* The POST is in the route's hands; its client has 202, 400/401, 503 or no answer.
Pending  == {"checking", "added"}
Answered == {"accepted", "refused", "unavailable", "lost"}
DeliveryId == Request \X (1 .. MaxRuns) \X Positions

Idle == [pc |-> "idle"]
DispatchRun ==
  {Idle}
    \cup [pc : {"resolve"}, job : Request, run : 1 .. MaxRuns, enabled : SUBSET Channel]
    \cup [pc : {"fanout"}, job : Request, run : 1 .. MaxRuns,
          source : Lists \cup {ChannelOrder}, todo : SUBSET Positions]
DeliveryRun == {Idle} \cup [pc : {"sending", "accepted", "skipped"}, job : DeliveryId]

Enabled == {c \in Channel : instance[c] = "enabled"}
Existing == {c \in Channel : instance[c] # "absent"}

-----------------------------------------------------------------------------

(***************************************************************************)
(* resolveChannels: the positions of `source` it keeps.  An id survives at *)
(* its first occurrence, if allowed.                                       *)
(***************************************************************************)
Surviving(source, allowed) ==
  {i \in DOMAIN source :
     source[i] \in allowed /\ \A j \in 1 .. i - 1 : source[j] # source[i]}

\* profileRepo.get(profileId)?.defaultChannels ?? []
DefaultsOf(p) == IF profiles[p] = NoProfile THEN {} ELSE profiles[p]

-----------------------------------------------------------------------------
(* POST /notify *)

\* Requests whose dispatch job holds the BullMQ job id that r's key pins.
Holders(r) ==
  {q \in Request : /\ body[r].key # NoKey
                   /\ body[q].key = body[r].key
                   /\ dispatch[q].st \in Stored}

\* How many ids the route looks up.
ToCheck(r) == IF body[r].channels = Unspecified THEN 0 ELSE Len(body[r].channels)

\* Nothing is left to look up: the handler calls add() and awaits it.
Enqueueing(r) == reply[r] = "checking" /\ checked[r] = ToCheck(r)

\* The auth preHandler resolves the token: 401 unless a profile has it.
Post(r) ==
  /\ reply[r] = "unsent"
  /\ reply' = [reply EXCEPT ![r] =
                 IF profiles[body[r].profile] # NoProfile THEN "checking" ELSE "refused"]
  /\ UNCHANGED <<db, body, checked, jobOf, dispatch, worker, plan, delivery, target, sending,
                 edits, crashes>>

\* One turn of the route's loop looks up the next id: 400 unless it has a row.
CheckChannel(r) ==
  /\ reply[r] = "checking" /\ checked[r] < ToCheck(r)
  /\ checked' = [checked EXCEPT ![r] = @ + 1]
  /\ reply' = [reply EXCEPT ![r] =
                 IF body[r].channels[checked[r] + 1] \in Existing THEN @ ELSE "refused"]
  /\ UNCHANGED <<db, body, jobOf, dispatch, worker, plan, delivery, target, sending,
                 edits, crashes>>

\* Redis takes the add() and its id is free: the job is stored.
StoreDispatch(r) ==
  /\ Enqueueing(r)
  /\ Holders(r) = {}
  /\ dispatch' = [dispatch EXCEPT ![r] = NewJob]
  /\ reply' = [reply EXCEPT ![r] = "added"]
  /\ jobOf' = [jobOf EXCEPT ![r] = r]
  /\ UNCHANGED <<db, body, checked, worker, plan, delivery, target, sending, edits, crashes>>

\* Mutant: the answer names an id of the request's own.
CollapseOntoNothing(r) ==
  /\ Enqueueing(r)
  /\ Holders(r) # {}
  /\ reply' = [reply EXCEPT ![r] = "added"]
  /\ UNCHANGED <<db, body, checked, jobOf, dispatch, worker, plan, delivery, target, sending,
                 edits, crashes>>

\* Redis takes the add() and its id is taken: it answers with the id and stores nothing.
CollapseDispatch(r) ==
  /\ Enqueueing(r)
  /\ \E q \in Holders(r) : jobOf' = [jobOf EXCEPT ![r] = q]
  /\ reply' = [reply EXCEPT ![r] = "added"]
  /\ UNCHANGED <<db, body, checked, dispatch, worker, plan, delivery, target, sending,
                 edits, crashes>>

\* Mutant: the route answers 202 without waiting for add().
AcceptUnawaited(r) ==
  /\ reply[r] = "added" \/ Enqueueing(r)
  /\ reply' = [reply EXCEPT ![r] = "accepted"]
  /\ UNCHANGED <<db, body, checked, jobOf, dispatch, worker, plan, delivery, target, sending,
                 edits, crashes>>

\* add() resolves: 202 with the id.
Accept(r) ==
  /\ reply[r] = "added"
  /\ reply' = [reply EXCEPT ![r] = "accepted"]
  /\ UNCHANGED <<db, body, checked, jobOf, dispatch, worker, plan, delivery, target, sending,
                 edits, crashes>>

\* add() rejects, before Redis took the job or after: 503.
EnqueueUnavailable(r) ==
  /\ reply[r] = "added" \/ Enqueueing(r)
  /\ reply' = [reply EXCEPT ![r] = "unavailable"]
  /\ UNCHANGED <<db, body, checked, jobOf, dispatch, worker, plan, delivery, target, sending,
                 edits, crashes>>

(***************************************************************************)
(* The API process dies: no request it holds is ever answered.  (An add()  *)
(* still on its way to Redis is taken before the crash or not at all.)     *)
(***************************************************************************)
ApiCrash ==
  /\ \E r \in Request : reply[r] \in Pending
  /\ reply' = [r \in Request |-> IF reply[r] \in Pending THEN "lost" ELSE reply[r]]
  /\ UNCHANGED <<db, body, checked, jobOf, dispatch, worker, plan, delivery, target, sending,
                 edits, crashes>>

-----------------------------------------------------------------------------
(* DispatchService.handleDispatch *)

\* Mutant: the dispatchJobId is the job's, not the run's.
TakeDispatchSameRun(r) ==
  /\ dispatcher = Idle
  /\ dispatch[r].st = "queued"
  /\ dispatch' = [dispatch EXCEPT ![r] = Started(@)]
  /\ dispatcher' = [pc |-> "resolve", job |-> r, run |-> 1, enabled |-> Enabled]
  /\ UNCHANGED <<db, api, plan, delivery, target, deliverer, sending, edits, crashes>>

\* The worker takes the job and its handler reads listEnabled().
TakeDispatch(r) ==
  /\ dispatcher = Idle
  /\ dispatch[r].st = "queued"
  /\ dispatch' = [dispatch EXCEPT ![r] = Started(@)]
  /\ dispatcher' = [pc |-> "resolve", job |-> r, run |-> dispatch[r].started + 1,
                    enabled |-> Enabled]
  /\ UNCHANGED <<db, api, plan, delivery, target, deliverer, sending, edits, crashes>>

\* Mutant: an empty `channels` array counts as absent.
ResolveTargetsEmptyIsAbsent ==
  /\ dispatcher.pc = "resolve"
  /\ LET asked  == body[dispatcher.job].channels
         byName == asked \notin {Unspecified, <<>>}
         source == IF byName THEN asked ELSE ChannelOrder
         allowed == IF byName THEN dispatcher.enabled
                    ELSE dispatcher.enabled \cap DefaultsOf(body[dispatcher.job].profile)
         kept   == Surviving(source, allowed)
     IN /\ dispatcher' = [pc |-> "fanout", job |-> dispatcher.job, run |-> dispatcher.run,
                          source |-> source, todo |-> kept]
        /\ plan' = [plan EXCEPT ![dispatcher.job] = kept]
  /\ UNCHANGED <<db, api, dispatch, delivery, target, deliverer, sending, edits, crashes>>

(***************************************************************************)
(* A second query, only for a job without requestedChannels, reads the     *)
(* profile's defaults; then resolveChannels.  An empty result leaves an    *)
(* empty `todo`: the handler returns without enqueuing anything.           *)
(***************************************************************************)
ResolveTargets ==
  /\ dispatcher.pc = "resolve"
  /\ LET asked  == body[dispatcher.job].channels
         byName == asked # Unspecified
         source == IF byName THEN asked ELSE ChannelOrder
         allowed == IF byName THEN dispatcher.enabled
                    ELSE dispatcher.enabled \cap DefaultsOf(body[dispatcher.job].profile)
         kept   == Surviving(source, allowed)
     IN /\ dispatcher' = [pc |-> "fanout", job |-> dispatcher.job, run |-> dispatcher.run,
                          source |-> source, todo |-> kept]
        /\ plan' = [plan EXCEPT ![dispatcher.job] = kept]
  /\ UNCHANGED <<db, api, dispatch, delivery, target, deliverer, sending, edits, crashes>>

\* One turn of the loop: `await queue.enqueueDelivery(...)` succeeds.
EnqueueDelivery ==
  /\ dispatcher.pc = "fanout"
  /\ \E i \in dispatcher.todo :
       LET d == <<dispatcher.job, dispatcher.run, i>>
       IN /\ \A j \in dispatcher.todo : i <= j
          /\ delivery' = [delivery EXCEPT ![d] = NewJob]
          /\ target' = [target EXCEPT ![d] = dispatcher.source[i]]
          /\ dispatcher' = [dispatcher EXCEPT !.todo = @ \ {i}]
  /\ UNCHANGED <<db, api, dispatch, plan, deliverer, sending, edits, crashes>>

\* Mutant: the loop logs the rejection and goes on with the next channel.
EnqueueDeliverySwallowed ==
  /\ dispatcher.pc = "fanout"
  /\ \E i \in dispatcher.todo : dispatcher' = [dispatcher EXCEPT !.todo = @ \ {i}]
  /\ UNCHANGED <<db, api, dispatch, plan, delivery, target, deliverer, sending, edits, crashes>>

(***************************************************************************)
(* The same await rejects: the handler throws and BullMQ fails the         *)
(* attempt.  A rejection after Redis took the job shows as one of the next *)
(* turn; after the last turn only a crash or a stall repeats the run.      *)
(***************************************************************************)
EnqueueDeliveryThrows ==
  /\ dispatcher.pc = "fanout"
  /\ dispatcher.todo # {}
  /\ dispatch' = [dispatch EXCEPT ![dispatcher.job] = Thrown(@)]
  /\ dispatcher' = Idle
  /\ UNCHANGED <<db, api, plan, delivery, target, deliverer, sending, edits, crashes>>

\* The handler returns.
FinishDispatch ==
  /\ dispatcher.pc = "fanout"
  /\ dispatcher.todo = {}
  /\ dispatch' = [dispatch EXCEPT ![dispatcher.job] = Finished(@)]
  /\ dispatcher' = Idle
  /\ UNCHANGED <<db, api, plan, delivery, target, deliverer, sending, edits, crashes>>

-----------------------------------------------------------------------------
(* DeliveryService.deliver *)

\* The worker takes the job and its handler reads the instance's row.
TakeDelivery(d) ==
  /\ deliverer = Idle
  /\ delivery[d].st = "queued"
  /\ delivery' = [delivery EXCEPT ![d] = Started(@)]
  /\ deliverer' = [pc |-> IF target[d] \in Enabled THEN "sending" ELSE "skipped", job |-> d]
  /\ UNCHANGED <<db, api, dispatch, dispatcher, plan, target, sending, edits, crashes>>

\* The request of channel.send() reaches the provider, which acts on it.
ProviderAccepts ==
  /\ deliverer.pc = "sending"
  /\ received' = [received EXCEPT ![deliverer.job] = @ + 1]
  /\ deliverer' = [deliverer EXCEPT !.pc = "accepted"]
  /\ UNCHANGED <<db, api, dispatch, dispatcher, plan, delivery, target, outcome, edits, crashes>>

\* Mutant: deliver() does not await channel.send().
FinishDeliveryUnawaited ==
  /\ deliverer.pc \in {"sending", "accepted", "skipped"}
  /\ delivery' = [delivery EXCEPT ![deliverer.job] = Finished(@)]
  /\ outcome' = [outcome EXCEPT ![deliverer.job] =
                   IF delivery[deliverer.job].st # "active" THEN @
                   ELSE IF deliverer.pc = "skipped" THEN "skipped" ELSE "sent"]
  /\ deliverer' = Idle
  /\ UNCHANGED <<db, api, dispatch, dispatcher, plan, target, received, edits, crashes>>

\* deliver() resolves, after a send (attempts: 1) or a skip (attempts: 0).
FinishDelivery ==
  /\ deliverer.pc \in {"accepted", "skipped"}
  /\ delivery' = [delivery EXCEPT ![deliverer.job] = Finished(@)]
  /\ outcome' = [outcome EXCEPT ![deliverer.job] =
                   IF delivery[deliverer.job].st # "active" THEN @
                   ELSE IF deliverer.pc = "accepted" THEN "sent" ELSE "skipped"]
  /\ deliverer' = Idle
  /\ UNCHANGED <<db, api, dispatch, dispatcher, plan, target, received, edits, crashes>>

\* Mutant: deliver() logs the failure and does not rethrow.
SendFailureSwallowed ==
  /\ deliverer.pc \in {"sending", "accepted"}
  /\ delivery' = [delivery EXCEPT ![deliverer.job] = Finished(@)]
  /\ outcome' = [outcome EXCEPT ![deliverer.job] = "sent"]
  /\ deliverer' = Idle
  /\ UNCHANGED <<db, api, dispatch, dispatcher, plan, target, received, edits, crashes>>

\* channel.send() rejects, whether or not the provider had acted; rethrown.
SendThrows ==
  /\ deliverer.pc \in {"sending", "accepted"}
  /\ delivery' = [delivery EXCEPT ![deliverer.job] = Thrown(@)]
  /\ deliverer' = Idle
  /\ UNCHANGED <<db, api, dispatch, dispatcher, plan, target, sending, edits, crashes>>

-----------------------------------------------------------------------------
(***************************************************************************)
(* Faults.  A crash ends both handlers; the jobs stay active in Redis      *)
(* until the stalled-job checker finds their lock expired.  The lock of a  *)
(* handler still running can expire too (a blocked event loop, Redis out   *)
(* of reach): the job then goes back while the handler carries on.         *)
(***************************************************************************)
WorkerCrash ==
  /\ crashes < MaxCrashes
  /\ ~ (dispatcher = Idle /\ deliverer = Idle)
  /\ crashes' = crashes + 1
  /\ dispatcher' = Idle
  /\ deliverer' = Idle
  /\ UNCHANGED <<db, api, dispatch, plan, delivery, target, sending, edits>>

\* Mutant: only a handler still running is watched, not one that a crash ended.
StallDeliveryLive(d) ==
  /\ delivery[d].st = "active"
  /\ deliverer # Idle /\ deliverer.job = d
  /\ delivery' = [delivery EXCEPT ![d] = Stalled(@)]
  /\ UNCHANGED <<db, api, dispatch, worker, plan, target, sending, edits, crashes>>

StallDispatch(r) ==
  /\ dispatch[r].st = "active"
  /\ dispatch' = [dispatch EXCEPT ![r] = Stalled(@)]
  /\ UNCHANGED <<db, api, worker, plan, delivery, target, sending, edits, crashes>>

StallDelivery(d) ==
  /\ delivery[d].st = "active"
  /\ delivery' = [delivery EXCEPT ![d] = Stalled(@)]
  /\ UNCHANGED <<db, api, dispatch, worker, plan, target, sending, edits, crashes>>

-----------------------------------------------------------------------------
(***************************************************************************)
(* The admin process commits to the same database.  Each action is one     *)
(* SQLite transaction of a repository; PUT /api/config is a series of      *)
(* them, so any state they reach is one the worker may read.               *)
(***************************************************************************)
Edit ==
  /\ edits < MaxEdits
  /\ edits' = edits + 1
  /\ UNCHANGED <<api, dispatch, worker, plan, delivery, target, sending, crashes>>

SaveChannel(c, setting) ==
  /\ Edit
  /\ instance' = [instance EXCEPT ![c] = setting]
  /\ UNCHANGED profiles

\* ON DELETE CASCADE takes the id out of every profile's defaults.
DeleteChannel(c) ==
  /\ Edit
  /\ instance[c] # "absent"
  /\ instance' = [instance EXCEPT ![c] = "absent"]
  /\ profiles' = [p \in Profile |->
                    IF profiles[p] = NoProfile THEN NoProfile ELSE profiles[p] \ {c}]

\* replaceDefaultChannels prunes ids that have no row.
SaveProfile(p, ids) ==
  /\ Edit
  /\ profiles' = [profiles EXCEPT ![p] = ids \cap Existing]
  /\ UNCHANGED instance

DeleteProfile(p) ==
  /\ Edit
  /\ profiles[p] # NoProfile
  /\ profiles' = [profiles EXCEPT ![p] = NoProfile]
  /\ UNCHANGED instance

-----------------------------------------------------------------------------
Settled ==
  /\ \A r \in Request : reply[r] \in Answered /\ dispatch[r].st \in Terminal \cup {"none"}
  /\ \A d \in DeliveryId : delivery[d].st \in Terminal \cup {"none"}
  /\ dispatcher = Idle /\ deliverer = Idle

\* Nothing left to do: the only state in which the pipeline may stop.
Rest == Settled /\ UNCHANGED vars

Init ==
  /\ instance \in [Channel -> {"absent", "disabled", "enabled"}]
  /\ profiles \in [Profile -> SUBSET Existing]
  /\ body \in [Request -> Body]
  /\ reply = [r \in Request |-> "unsent"]
  /\ checked = [r \in Request |-> 0]
  /\ jobOf = [r \in Request |-> r]
  /\ dispatch = [r \in Request |-> NoJob]
  /\ dispatcher = Idle
  /\ plan = [r \in Request |-> {}]
  /\ delivery = [d \in DeliveryId |-> NoJob]
  /\ target = [d \in DeliveryId |-> CHOOSE c \in Channel : TRUE]
  /\ deliverer = Idle
  /\ outcome = [d \in DeliveryId |-> "none"]
  /\ received = [d \in DeliveryId |-> 0]
  /\ edits = 0 /\ crashes = 0

Route(r) ==
  \/ Post(r) \/ CheckChannel(r)
  \/ StoreDispatch(r) \/ CollapseDispatch(r)
  \/ Accept(r) \/ EnqueueUnavailable(r)

DispatchWorker ==
  \/ \E r \in Request : TakeDispatch(r)
  \/ ResolveTargets
  \/ EnqueueDelivery
  \/ EnqueueDeliveryThrows
  \/ FinishDispatch

DeliveryWorker ==
  \/ \E d \in DeliveryId : TakeDelivery(d)
  \/ ProviderAccepts
  \/ FinishDelivery
  \/ SendThrows

AdminEdit ==
  \/ \E c \in Channel, setting \in {"disabled", "enabled"} : SaveChannel(c, setting)
  \/ \E c \in Channel : DeleteChannel(c)
  \/ \E p \in Profile, ids \in SUBSET Channel : SaveProfile(p, ids)
  \/ \E p \in Profile : DeleteProfile(p)

Next ==
  \/ \E r \in Request : Route(r)
  \/ ApiCrash
  \/ DispatchWorker
  \/ DeliveryWorker
  \/ WorkerCrash
  \/ \E r \in Request : StallDispatch(r)
  \/ \E d \in DeliveryId : StallDelivery(d)
  \/ AdminEdit
  \/ Rest

\* Whether a handler of the worker process is running the job.
DispatchHeld(r) == dispatcher # Idle /\ dispatcher.job = r
DeliveryHeld(d) == deliverer # Idle /\ deliverer.job = d

(***************************************************************************)
(* Each BullMQ worker keeps taking jobs and its handler keeps running; the *)
(* stalled-job checker finds every job whose handler is gone.  Clients,    *)
(* the API, the admin, crashes and the expiry of a live handler's lock are *)
(* under no obligation.                                                    *)
(***************************************************************************)
Fairness ==
  /\ WF_vars(DispatchWorker)
  /\ WF_vars(DeliveryWorker)
  /\ \A r \in Request : WF_vars(~ DispatchHeld(r) /\ StallDispatch(r))
  /\ \A d \in DeliveryId : WF_vars(~ DeliveryHeld(d) /\ StallDelivery(d))

Spec == Init /\ [][Next]_vars
FairSpec == Spec /\ Fairness

-----------------------------------------------------------------------------
(* Properties *)

\* The type of every variable.
TypeOK ==
  /\ instance \in [Channel -> {"absent", "disabled", "enabled"}]
  /\ profiles \in [Profile -> {NoProfile} \cup SUBSET Channel]
  /\ body \in [Request -> Body]
  /\ reply \in [Request -> {"unsent"} \cup Pending \cup Answered]
  /\ checked \in [Request -> 0 .. MaxLen]
  /\ jobOf \in [Request -> Request]
  /\ dispatch \in [Request -> Job]
  /\ dispatcher \in DispatchRun
  /\ plan \in [Request -> SUBSET Positions]
  /\ delivery \in [DeliveryId -> Job]
  /\ target \in [DeliveryId -> Channel]
  /\ deliverer \in DeliveryRun
  /\ outcome \in [DeliveryId -> {"none", "sent", "skipped"}]
  /\ received \in [DeliveryId -> 0 .. MaxRuns]
  /\ edits \in 0 .. MaxEdits
  /\ crashes \in 0 .. MaxCrashes

(***************************************************************************)
(* Retry accounting (bullmq-queue.ts jobOpts, NOTIF-02): whatever mixture  *)
(* of throws, crashes, expired locks and late completions a job meets, it  *)
(* is dead-lettered exactly when its attempts or its stalls are used up,   *)
(* and every start of a handler is accounted for.                          *)
(***************************************************************************)
DeadLetterOnlyWhenExhausted ==
  /\ \A r \in Request : Accounted(dispatch[r])
  /\ \A d \in DeliveryId : Accounted(delivery[d])

(***************************************************************************)
(* Fan-out (resolveChannels, handleDispatch): one run of a dispatch job    *)
(* never enqueues two deliveries for the same channel, even when the       *)
(* client repeats an id in `channels`.                                     *)
(***************************************************************************)
OneDeliveryPerChannel ==
  \A d, e \in DeliveryId :
    /\ delivery[d].st # "none" /\ delivery[e].st # "none"
    /\ d[1] = e[1] /\ d[2] = e[2] /\ target[d] = target[e]
    => d = e

(***************************************************************************)
(* No half fan-out (handleDispatch's loop): when a dispatch job completes, *)
(* and so disappears from Redis, the run that completed it has enqueued a  *)
(* delivery for every channel it resolved.                                 *)
(***************************************************************************)
CompleteFanOut ==
  \A r \in Request : dispatch[r].st = "completed" =>
    \A i \in plan[r] : delivery[<<r, dispatch[r].started, i>>].st # "none"

(***************************************************************************)
(* Explicit targeting (NOTIF-03.2): a request that names channels is never *)
(* delivered to any other, in particular not to the profile's defaults     *)
(* when the array it sends is empty or resolves to nothing.                *)
(***************************************************************************)
OnlyAskedChannels ==
  \A d \in DeliveryId :
    LET asked == body[d[1]].channels
    IN delivery[d].st # "none" /\ asked # Unspecified =>
         \E i \in DOMAIN asked : asked[i] = target[d]

\* The job add() answered r with was stored, for r or for one with its dedupKey.
Backed(r) ==
  /\ dispatch[jobOf[r]].st # "none"
  /\ jobOf[r] # r => body[jobOf[r]].key = body[r].key /\ body[r].key # NoKey

(***************************************************************************)
(* What an answer tells the client (notify.ts): the jobId of a 202 names a *)
(* job that Redis really stored, for this request or for one with the same *)
(* dedupKey, whatever became of the other's own answer; after a 400 or 401 *)
(* no job exists, whatever was edited between the route's reads.  A 503 or *)
(* no answer at all tells nothing: Redis may have the job.                 *)
(***************************************************************************)
AcceptedIsBacked ==
  \A r \in Request :
    /\ reply[r] = "accepted" => Backed(r)
    /\ reply[r] = "refused" => dispatch[r].st = "none"

(***************************************************************************)
(* A delivery reported ok with attempts 1 reached its provider, and no     *)
(* delivery job reaches it more often than RETRY_ATTEMPTS plus the stalls  *)
(* BullMQ tolerates, crashes and lost acknowledgements included.           *)
(***************************************************************************)
SentWasReceived ==
  \A d \in DeliveryId :
    /\ outcome[d] = "sent" => received[d] >= 1
    /\ received[d] <= delivery[d].started

(***************************************************************************)
(* A settled job stays as it is: a dead letter (removeOnFail: false) is    *)
(* not resurrected or completed by a handler that outlived its lock, and a *)
(* completed job is not run again.                                         *)
(***************************************************************************)
SettledForGood ==
  [][ /\ \A r \in Request : dispatch[r].st \in Terminal => dispatch'[r] = dispatch[r]
      /\ \A d \in DeliveryId :
           delivery[d].st \in Terminal =>
             delivery'[d] = delivery[d] /\ outcome'[d] = outcome[d] ]_vars

(***************************************************************************)
(* Nothing accepted is silently lost (NOTIF-02.3): once a request has its  *)
(* 202, the job it names ends in the dead-letter set, or completes with    *)
(* every delivery it resolved sent, skipped or dead-lettered in its turn.  *)
(***************************************************************************)
NoSilentLoss ==
  \A r \in Request :
    reply[r] = "accepted" ~>
      \/ dispatch[jobOf[r]].st = "failed"
      \/ /\ dispatch[jobOf[r]].st = "completed"
         /\ \A i \in plan[jobOf[r]] :
              delivery[<<jobOf[r], dispatch[jobOf[r]].started, i>>].st \in Terminal

(***************************************************************************)
(* Isolation (NOTIF-03.3): every delivery that was enqueued settles, even  *)
(* if its dispatch job, or the deliveries around it, fail for good.        *)
(***************************************************************************)
EveryDeliverySettles ==
  \A d \in DeliveryId : delivery[d].st = "queued" ~> delivery[d].st \in Terminal

-----------------------------------------------------------------------------
(* What the properties rest on *)

(***************************************************************************)
(* Copies are accounted for by handler starts: a handler still to reach    *)
(* the provider holds a start that no copy has used yet.                   *)
(***************************************************************************)
CopiesAccounted ==
  /\ SentWasReceived
  /\ deliverer.pc = "sending" =>
       received[deliverer.job] < delivery[deliverer.job].started
  /\ deliverer.pc = "accepted" => received[deliverer.job] >= 1

\* The handler's run is the latest of its job, which it alone can complete.
RunIsLatest ==
  /\ dispatcher # Idle =>
       /\ dispatcher.run = dispatch[dispatcher.job].started
       /\ dispatch[dispatcher.job].st \notin {"none", "completed"}
  /\ \A d \in DeliveryId :
       delivery[d].st # "none" => d[2] <= dispatch[d[1]].started

(***************************************************************************)
(* Where the loop stands: the positions of the plan already passed, and no *)
(* others, have a delivery of this run, for the channel at that position;  *)
(* the plan repeats no channel.                                            *)
(***************************************************************************)
LoopProgress ==
  /\ dispatcher.pc = "resolve" =>
       \A i \in Positions : delivery[<<dispatcher.job, dispatcher.run, i>>].st = "none"
  /\ dispatcher.pc = "fanout" =>
       /\ dispatcher.todo \subseteq plan[dispatcher.job]
       /\ plan[dispatcher.job] \subseteq DOMAIN dispatcher.source
       /\ \A i, j \in plan[dispatcher.job] :
            dispatcher.source[i] = dispatcher.source[j] => i = j
       /\ \A i \in Positions :
            LET d == <<dispatcher.job, dispatcher.run, i>>
            IN /\ (delivery[d].st # "none") <=> (i \in plan[dispatcher.job] \ dispatcher.todo)
               /\ delivery[d].st # "none" => target[d] = dispatcher.source[i]

\* Retry accounting and copies, inductive together with the types.
AccountingInv == TypeOK /\ DeadLetterOnlyWhenExhausted /\ CopiesAccounted

\* The fan-out, inductive relative to AccountingInv and ApiInv.
FanOutInv == RunIsLatest /\ LoopProgress /\ OneDeliveryPerChannel /\ CompleteFanOut

\* Between Redis and the answer: a job is there once add() was taken, not before.
AddedIsBacked ==
  \A r \in Request :
    /\ reply[r] = "added" => Backed(r)
    /\ dispatch[r].st # "none" =>
         reply[r] \in {"added", "accepted", "unavailable", "lost"} /\ jobOf[r] = r

\* The API's side of the dispatch queue, inductive relative to AccountingInv.
ApiInv == AcceptedIsBacked /\ AddedIsBacked

PipelineInv == AccountingInv /\ FanOutInv /\ ApiInv

-----------------------------------------------------------------------------
(* What the pipeline implements *)

PromiseOf(r) ==
  CASE dispatch[r].st = "none"                -> "open"
    [] dispatch[r].st \in {"queued", "active"} -> "accepted"
    [] dispatch[r].st = "completed"           -> "done"
    [] dispatch[r].st = "failed"              -> "dead"

DebtOf(d) ==
  CASE delivery[d].st = "none"                -> "none"
    [] delivery[d].st \in {"queued", "active"} -> "owed"
    [] delivery[d].st = "completed"           -> outcome[d]
    [] delivery[d].st = "failed"              -> "dead"

RequestOfDelivery(d) == d[1]

Contract == INSTANCE DeliveryContract WITH
  RequestOf <- RequestOfDelivery,
  Limit     <- MaxRuns,
  promise   <- [r \in Request |-> PromiseOf(r)],
  debt      <- [d \in DeliveryId |-> DebtOf(d)],
  copies    <- received

(***************************************************************************)
(* The two queues, their workers and their faults keep the contract: a     *)
(* crash, a retry or an expired lock never unsettles a delivery, reports   *)
(* one as sent that no provider has, or works for a request whose job was  *)
(* never stored.                                                           *)
(***************************************************************************)
ImplementsContract == Contract!Spec
=============================================================================
