------------------------ MODULE NotifyPipelineProofs ------------------------
(***************************************************************************)
(* Theorems about NotifyPipeline, for every set of requests, channels,     *)
(* lists and bounds its assumptions allow.                                 *)
(***************************************************************************)
EXTENDS NotifyPipeline, TLAPS

-----------------------------------------------------------------------------
(* One job *)

\* A job not yet stored, and a job just stored, have nothing to account for.
LEMMA FreshJobs ==
  /\ NoJob \in Job /\ Accounted(NoJob) /\ NoJob.st = "none" /\ NoJob.started = 0
  /\ NewJob \in Job /\ Accounted(NewJob) /\ NewJob.st = "queued" /\ NewJob.started = 0
BY AttemptsAssumption, MaxStallsAssumption
DEF NoJob, NewJob, Job, JobState, Accounted, MaxRuns

\* The fields of a job are in the ranges its type gives them.
LEMMA JobFields ==
  ASSUME NEW j \in Job
  PROVE  /\ j.st \in JobState
         /\ j.made \in Nat /\ j.stalls \in Nat /\ j.started \in Nat
         /\ j.made <= Attempts /\ j.stalls <= MaxStalls + 1 /\ j.started <= MaxRuns
BY AttemptsAssumption, MaxStallsAssumption DEF Job, MaxRuns

\* Starting a queued job stays within the runs it is allowed.
LEMMA StartedJob ==
  ASSUME NEW j \in Job, Accounted(j), j.st = "queued"
  PROVE  /\ Started(j) \in Job /\ Accounted(Started(j))
         /\ Started(j).st = "active" /\ Started(j).started = j.started + 1
         /\ j.started + 1 \in 1 .. MaxRuns
<1>1. /\ j.started = j.made + j.stalls
      /\ j.made < Attempts /\ j.stalls <= MaxStalls
  BY JobFields DEF Accounted
<1>2. j.started + 1 \in 1 .. MaxRuns /\ j.started + 1 \in 0 .. MaxRuns
  BY <1>1, JobFields, AttemptsAssumption, MaxStallsAssumption DEF MaxRuns
<1>3. /\ Started(j).st = "active" /\ Started(j).made = j.made
      /\ Started(j).stalls = j.stalls /\ Started(j).started = j.started + 1
  BY DEF Started, Job
<1>4. Started(j) \in Job
  BY <1>2 DEF Started, Job, JobState
<1>5. Accounted(Started(j))
  BY <1>1, <1>3, JobFields DEF Accounted
<1>6. QED
  BY <1>2, <1>3, <1>4, <1>5

\* A handler that returns completes the job it still holds, and no other.
LEMMA FinishedJob ==
  ASSUME NEW j \in Job, Accounted(j)
  PROVE  /\ Finished(j) \in Job /\ Accounted(Finished(j))
         /\ Finished(j).started = j.started
         /\ j.st = "active" => Finished(j).st = "completed"
         /\ j.st # "active" => Finished(j) = j
<1>1. CASE j.st # "active"
  BY <1>1 DEF Finished
<1>2. CASE j.st = "active"
  <2>1. /\ Finished(j).st = "completed" /\ Finished(j).made = j.made
        /\ Finished(j).stalls = j.stalls /\ Finished(j).started = j.started
    BY <1>2 DEF Finished, Job
  <2>2. Finished(j) \in Job
    BY <1>2 DEF Finished, Job, JobState
  <2>3. Accounted(Finished(j))
    BY <1>2, <2>1 DEF Accounted
  <2>4. QED
    BY <1>2, <2>1, <2>2, <2>3
<1>3. QED
  BY <1>1, <1>2

\* A throw uses up one attempt of a job still held.
LEMMA ThrownJob ==
  ASSUME NEW j \in Job, Accounted(j)
  PROVE  /\ Thrown(j) \in Job /\ Accounted(Thrown(j))
         /\ Thrown(j).started = j.started
         /\ j.st = "active" => Thrown(j).st \in {"queued", "failed"}
         /\ j.st # "active" => Thrown(j) = j
<1>1. CASE j.st # "active"
  BY <1>1 DEF Thrown
<1>2. CASE j.st = "active"
  <2>1. /\ j.started = j.made + j.stalls + 1
        /\ j.made < Attempts /\ j.stalls <= MaxStalls
    BY <1>2 DEF Accounted
  <2>2. /\ Thrown(j).st = (IF j.made + 1 < Attempts THEN "queued" ELSE "failed")
        /\ Thrown(j).made = j.made + 1
        /\ Thrown(j).stalls = j.stalls /\ Thrown(j).started = j.started
    BY <1>2 DEF Thrown, Job
  <2>3. j.made + 1 \in 0 .. Attempts
    BY <2>1, JobFields, AttemptsAssumption
  <2>4. Thrown(j) \in Job
    BY <1>2, <2>3 DEF Thrown, Job, JobState
  <2>5. Accounted(Thrown(j))
    BY <2>1, <2>2, JobFields, AttemptsAssumption, MaxStallsAssumption DEF Accounted
  <2>6. QED
    BY <1>2, <2>2, <2>4, <2>5
<1>3. QED
  BY <1>1, <1>2

\* An expired lock uses up one stall.
LEMMA StalledJob ==
  ASSUME NEW j \in Job, Accounted(j), j.st = "active"
  PROVE  /\ Stalled(j) \in Job /\ Accounted(Stalled(j))
         /\ Stalled(j).started = j.started
         /\ Stalled(j).st \in {"queued", "failed"}
<1>1. /\ j.started = j.made + j.stalls + 1
      /\ j.made < Attempts /\ j.stalls <= MaxStalls
  BY DEF Accounted
<1>2. /\ Stalled(j).st = (IF j.stalls + 1 > MaxStalls THEN "failed" ELSE "queued")
      /\ Stalled(j).made = j.made
      /\ Stalled(j).stalls = j.stalls + 1 /\ Stalled(j).started = j.started
  BY DEF Stalled, Job
<1>3. j.stalls + 1 \in 0 .. MaxStalls + 1
  BY <1>1, JobFields, MaxStallsAssumption
<1>4. Stalled(j) \in Job
  BY <1>3 DEF Stalled, Job, JobState
<1>5. Accounted(Stalled(j))
  BY <1>1, <1>2, JobFields, AttemptsAssumption, MaxStallsAssumption DEF Accounted
<1>6. QED
  BY <1>2, <1>4, <1>5
-----------------------------------------------------------------------------
(* The accounting invariant *)

LEMMA AccountingInit == Init => AccountingInv
<1> SUFFICES ASSUME Init PROVE AccountingInv
  OBVIOUS
<1>2. TypeOK
  BY FreshJobs, ListsAssumption, NamesAssumption, BoundsAssumption, AttemptsAssumption, MaxStallsAssumption
  DEF Init, TypeOK, Existing, DispatchRun, DeliveryRun, MaxRuns
<1>3. DeadLetterOnlyWhenExhausted
  BY FreshJobs DEF Init, DeadLetterOnlyWhenExhausted
<1>4. CopiesAccounted
  BY FreshJobs DEF Init, CopiesAccounted, SentWasReceived, Idle
<1>5. QED
  BY <1>2, <1>3, <1>4 DEF AccountingInv

LEMMA PostAccounting ==
  ASSUME AccountingInv, NEW r \in Request, Post(r)
  PROVE  AccountingInv'
BY DEF AccountingInv, TypeOK, DeadLetterOnlyWhenExhausted, CopiesAccounted, SentWasReceived,
       Post, db, worker, sending, Pending, Answered

LEMMA CheckChannelAccounting ==
  ASSUME AccountingInv, NEW r \in Request, CheckChannel(r)
  PROVE  AccountingInv'
<1>1. ToCheck(r) \in 0 .. MaxLen
  <2>1. body[r].channels \in Lists \cup {Unspecified}
    BY DEF AccountingInv, TypeOK, Body
  <2>2. body[r].channels \in Lists => Len(body[r].channels) \in 0 .. MaxLen
    BY ListsAssumption
  <2> QED
    BY <2>1, <2>2, ListsAssumption DEF ToCheck
<1>2. checked[r] \in 0 .. MaxLen /\ checked[r] < ToCheck(r)
  BY DEF CheckChannel, AccountingInv, TypeOK
<1>3. checked[r] + 1 \in 0 .. MaxLen
  BY <1>1, <1>2, ListsAssumption
<1>4. checked' \in [Request -> 0 .. MaxLen]
  BY <1>3 DEF CheckChannel, AccountingInv, TypeOK
<1> QED
  BY <1>4
  DEF AccountingInv, TypeOK, DeadLetterOnlyWhenExhausted, CopiesAccounted, SentWasReceived,
      CheckChannel, db, worker, sending, Pending, Answered

LEMMA StoreDispatchAccounting ==
  ASSUME AccountingInv, NEW r \in Request, StoreDispatch(r)
  PROVE  AccountingInv'
BY FreshJobs
DEF AccountingInv, TypeOK, DeadLetterOnlyWhenExhausted, CopiesAccounted, SentWasReceived,
    StoreDispatch, db, worker, sending, Pending

LEMMA TakeDispatchAccounting ==
  ASSUME AccountingInv, NEW r \in Request, TakeDispatch(r)
  PROVE  AccountingInv'
<1>1. /\ dispatch[r] \in Job /\ Accounted(dispatch[r])
      /\ Started(dispatch[r]) \in Job /\ Accounted(Started(dispatch[r]))
      /\ dispatch[r].started + 1 \in 1 .. MaxRuns
  BY StartedJob DEF AccountingInv, TypeOK, DeadLetterOnlyWhenExhausted, TakeDispatch
<1>2. dispatcher' \in DispatchRun
  BY <1>1 DEF TakeDispatch, DispatchRun, Enabled
<1>3. QED
  BY <1>1, <1>2
  DEF AccountingInv, TypeOK, DeadLetterOnlyWhenExhausted, CopiesAccounted, SentWasReceived,
      TakeDispatch, db, api, sending

LEMMA CollapseDispatchAccounting ==
  ASSUME AccountingInv, NEW r \in Request, CollapseDispatch(r)
  PROVE  AccountingInv'
BY DEF AccountingInv, TypeOK, DeadLetterOnlyWhenExhausted, CopiesAccounted, SentWasReceived,
       CollapseDispatch, Holders, db, worker, sending, Pending

\* The answers: 202, 503, or none.
LEMMA AnswerAccounting ==
  ASSUME AccountingInv,
         (\E r \in Request : Accept(r) \/ EnqueueUnavailable(r)) \/ ApiCrash
  PROVE  AccountingInv'
BY DEF AccountingInv, TypeOK, DeadLetterOnlyWhenExhausted, CopiesAccounted, SentWasReceived,
       Accept, EnqueueUnavailable, ApiCrash, db, worker, sending, Pending, Answered

\* What resolveChannels keeps are positions, and no two of the same channel.
LEMMA SurvivingPositions ==
  ASSUME NEW source \in Lists \cup {ChannelOrder}, NEW allowed
  PROVE  /\ Surviving(source, allowed) \subseteq Positions
         /\ Surviving(source, allowed) \subseteq DOMAIN source
         /\ \A i, j \in Surviving(source, allowed) : source[i] = source[j] => i = j
<1>1. source \in Seq(Channel) /\ Len(source) \in Nat /\ Len(source) <= MaxLen /\ MaxLen \in Nat
  BY ListsAssumption
<1>2. DOMAIN source = 1 .. Len(source)
  BY <1>1
<1>3. Surviving(source, allowed) \subseteq DOMAIN source
  BY DEF Surviving
<1>4. ASSUME NEW i \in Surviving(source, allowed), NEW j \in Surviving(source, allowed),
             source[i] = source[j], i < j
      PROVE  FALSE
  <2>1. i \in Nat /\ j \in Nat /\ i \in 1 .. j - 1
    BY <1>2, <1>3, <1>4
  <2>2. source[i] # source[j]
    BY <2>1 DEF Surviving
  <2>3. QED
    BY <1>4, <2>2
<1>5. \A i, j \in Surviving(source, allowed) : i \in Nat /\ j \in Nat
  BY <1>2, <1>3
<1>6. \A i, j \in Surviving(source, allowed) : source[i] = source[j] => i = j
  BY <1>4, <1>5
<1>7. QED
  BY <1>1, <1>2, <1>3, <1>6 DEF Positions

LEMMA ResolveTargetsAccounting ==
  ASSUME AccountingInv, ResolveTargets
  PROVE  AccountingInv'
<1> DEFINE asked == body[dispatcher.job].channels
           source == IF asked # Unspecified THEN asked ELSE ChannelOrder
           allowed == IF asked # Unspecified THEN dispatcher.enabled
                      ELSE dispatcher.enabled \cap DefaultsOf(body[dispatcher.job].profile)
           kept == Surviving(source, allowed)
<1>1. /\ dispatcher.job \in Request /\ dispatcher.run \in 1 .. MaxRuns
      /\ body[dispatcher.job] \in Body
  BY DEF AccountingInv, TypeOK, ResolveTargets, DispatchRun, Idle
<1>2. source \in Lists \cup {ChannelOrder}
  BY <1>1 DEF Body
<1>3. kept \subseteq Positions
  BY <1>2, SurvivingPositions
<1>4. /\ dispatcher' = [pc |-> "fanout", job |-> dispatcher.job, run |-> dispatcher.run,
                        source |-> source, todo |-> kept]
      /\ plan' = [plan EXCEPT ![dispatcher.job] = kept]
  BY DEF ResolveTargets
<1>5. dispatcher' \in DispatchRun
  BY <1>1, <1>2, <1>3, <1>4 DEF DispatchRun
<1>6. plan' \in [Request -> SUBSET Positions]
  BY <1>1, <1>3, <1>4 DEF AccountingInv, TypeOK
<1>7. QED
  BY <1>5, <1>6
  DEF AccountingInv, TypeOK, DeadLetterOnlyWhenExhausted, CopiesAccounted, SentWasReceived,
      ResolveTargets, db, api, sending

\* The loop never enqueues over a delivery job that exists.
LEMMA EnqueueDeliveryAccounting ==
  ASSUME AccountingInv, LoopProgress, EnqueueDelivery
  PROVE  AccountingInv'
<1>1. PICK i \in dispatcher.todo :
        /\ delivery' = [delivery EXCEPT ![<<dispatcher.job, dispatcher.run, i>>] = NewJob]
        /\ target' = [target EXCEPT ![<<dispatcher.job, dispatcher.run, i>>] = dispatcher.source[i]]
        /\ dispatcher' = [dispatcher EXCEPT !.todo = @ \ {i}]
  BY DEF EnqueueDelivery
<1> DEFINE d == <<dispatcher.job, dispatcher.run, i>>
<1>2. /\ dispatcher \in [pc : {"fanout"}, job : Request, run : 1 .. MaxRuns,
                         source : Lists \cup {ChannelOrder}, todo : SUBSET Positions]
      /\ dispatcher.pc = "fanout"
  BY DEF AccountingInv, TypeOK, EnqueueDelivery, DispatchRun, Idle
<1>3. /\ i \in Positions /\ i \in DOMAIN dispatcher.source
      /\ i \notin plan[dispatcher.job] \ dispatcher.todo
  BY <1>2 DEF LoopProgress
<1>4. d \in DeliveryId /\ delivery[d].st = "none"
  BY <1>2, <1>3 DEF DeliveryId, LoopProgress
<1>5. dispatcher.source[i] \in Channel
  BY <1>2, <1>3, ListsAssumption
<1>6. dispatcher' \in DispatchRun
  BY <1>1, <1>2 DEF DispatchRun
<1>7. TypeOK' /\ DeadLetterOnlyWhenExhausted'
  BY <1>1, <1>4, <1>5, <1>6, FreshJobs
  DEF AccountingInv, TypeOK, DeadLetterOnlyWhenExhausted, EnqueueDelivery, db, api, sending
<1>8. received[d] = 0 /\ delivery[d].started = 0
  BY <1>4, AttemptsAssumption, MaxStallsAssumption
  DEF AccountingInv, TypeOK, DeadLetterOnlyWhenExhausted, CopiesAccounted, SentWasReceived, Accounted, MaxRuns
<1>9. CopiesAccounted'
  <2>1. UNCHANGED <<deliverer, received, outcome>>
    BY DEF EnqueueDelivery, sending
  <2>2. \A e \in DeliveryId : delivery'[e].started = delivery[e].started
    BY <1>1, <1>4, <1>8, FreshJobs DEF AccountingInv, TypeOK
  <2>3. deliverer.pc = "sending" => deliverer.job \in DeliveryId
    BY DEF AccountingInv, TypeOK, DeliveryRun, Idle
  <2>4. QED
    BY <2>1, <2>2, <2>3 DEF AccountingInv, CopiesAccounted, SentWasReceived
<1>10. QED
  BY <1>7, <1>9 DEF AccountingInv

LEMMA EnqueueDeliveryThrowsAccounting ==
  ASSUME AccountingInv, EnqueueDeliveryThrows
  PROVE  AccountingInv'
<1>1. dispatcher.job \in Request
  BY DEF AccountingInv, TypeOK, EnqueueDeliveryThrows, DispatchRun, Idle
<1>2. Thrown(dispatch[dispatcher.job]) \in Job /\ Accounted(Thrown(dispatch[dispatcher.job]))
  BY <1>1, ThrownJob DEF AccountingInv, TypeOK, DeadLetterOnlyWhenExhausted
<1>3. QED
  BY <1>1, <1>2
  DEF AccountingInv, TypeOK, DeadLetterOnlyWhenExhausted, CopiesAccounted, SentWasReceived,
      EnqueueDeliveryThrows, DispatchRun, db, api, sending

LEMMA FinishDispatchAccounting ==
  ASSUME AccountingInv, FinishDispatch
  PROVE  AccountingInv'
<1>1. dispatcher.job \in Request
  BY DEF AccountingInv, TypeOK, FinishDispatch, DispatchRun, Idle
<1>2. Finished(dispatch[dispatcher.job]) \in Job /\ Accounted(Finished(dispatch[dispatcher.job]))
  BY <1>1, FinishedJob DEF AccountingInv, TypeOK, DeadLetterOnlyWhenExhausted
<1>3. QED
  BY <1>1, <1>2
  DEF AccountingInv, TypeOK, DeadLetterOnlyWhenExhausted, CopiesAccounted, SentWasReceived,
      FinishDispatch, DispatchRun, db, api, sending

LEMMA TakeDeliveryAccounting ==
  ASSUME AccountingInv, NEW d \in DeliveryId, TakeDelivery(d)
  PROVE  AccountingInv'
<1>1. /\ delivery[d] \in Job /\ Started(delivery[d]) \in Job /\ Accounted(Started(delivery[d]))
      /\ Started(delivery[d]).started = delivery[d].started + 1
  BY StartedJob DEF AccountingInv, TypeOK, DeadLetterOnlyWhenExhausted, TakeDelivery
<1>2. deliverer' \in DeliveryRun
  BY DEF TakeDelivery, DeliveryRun
<1>3. received[d] \in Nat /\ delivery[d].started \in Nat /\ received[d] <= delivery[d].started
  BY <1>1, JobFields DEF AccountingInv, TypeOK, DeadLetterOnlyWhenExhausted, CopiesAccounted, SentWasReceived
<1>4. TypeOK' /\ DeadLetterOnlyWhenExhausted'
  BY <1>1, <1>2
  DEF AccountingInv, TypeOK, DeadLetterOnlyWhenExhausted, TakeDelivery, db, api, sending
<1>5. CopiesAccounted'
  BY <1>1, <1>3
  DEF AccountingInv, TypeOK, DeadLetterOnlyWhenExhausted, CopiesAccounted, SentWasReceived, TakeDelivery, sending
<1>6. QED
  BY <1>4, <1>5 DEF AccountingInv

\* The copy uses up the start that TakeDelivery reserved for it.
LEMMA ProviderAcceptsAccounting ==
  ASSUME AccountingInv, ProviderAccepts
  PROVE  AccountingInv'
<1> DEFINE d == deliverer.job
<1>1. /\ deliverer \in [pc : {"sending", "accepted", "skipped"}, job : DeliveryId]
      /\ d \in DeliveryId /\ deliverer.pc = "sending"
  BY DEF AccountingInv, TypeOK, ProviderAccepts, DeliveryRun, Idle
<1>2. /\ received[d] \in Nat /\ delivery[d].started \in Nat
      /\ received[d] < delivery[d].started /\ delivery[d].started <= MaxRuns
  BY <1>1, JobFields, AttemptsAssumption, MaxStallsAssumption
  DEF AccountingInv, TypeOK, CopiesAccounted, MaxRuns
<1>3. received[d] + 1 \in 0 .. MaxRuns /\ received[d] + 1 <= delivery[d].started
      /\ received[d] + 1 >= 1
  BY <1>2, AttemptsAssumption, MaxStallsAssumption DEF MaxRuns
<1>4. /\ deliverer' \in DeliveryRun /\ deliverer'.pc = "accepted" /\ deliverer'.job = d
  BY <1>1 DEF ProviderAccepts, DeliveryRun
<1>5. TypeOK' /\ DeadLetterOnlyWhenExhausted'
  BY <1>1, <1>3, <1>4
  DEF AccountingInv, TypeOK, DeadLetterOnlyWhenExhausted, ProviderAccepts, db, api
<1>6. CopiesAccounted'
  BY <1>1, <1>3, <1>4
  DEF AccountingInv, TypeOK, DeadLetterOnlyWhenExhausted, CopiesAccounted, SentWasReceived, ProviderAccepts
<1>7. QED
  BY <1>5, <1>6 DEF AccountingInv

LEMMA FinishDeliveryAccounting ==
  ASSUME AccountingInv, FinishDelivery
  PROVE  AccountingInv'
<1> DEFINE d == deliverer.job
<1>1. d \in DeliveryId
  BY DEF AccountingInv, TypeOK, FinishDelivery, DeliveryRun, Idle
<1>2. /\ Finished(delivery[d]) \in Job /\ Accounted(Finished(delivery[d]))
      /\ Finished(delivery[d]).started = delivery[d].started
  BY <1>1, FinishedJob DEF AccountingInv, TypeOK, DeadLetterOnlyWhenExhausted
<1>3. /\ delivery' = [delivery EXCEPT ![d] = Finished(@)]
      /\ deliverer' = Idle /\ received' = received
  BY DEF FinishDelivery
<1>4. ASSUME NEW e \in DeliveryId, outcome'[e] = "sent"
       PROVE  received[e] >= 1
  <2>1. CASE e # d
    BY <1>4, <2>1 DEF FinishDelivery, AccountingInv, TypeOK, CopiesAccounted, SentWasReceived
  <2>2. CASE e = d
    <3>1. outcome[d] = "sent" \/ deliverer.pc = "accepted"
      BY <1>1, <1>4, <2>2 DEF FinishDelivery, AccountingInv, TypeOK
    <3>2. QED
      BY <1>1, <2>2, <3>1 DEF AccountingInv, CopiesAccounted, SentWasReceived
  <2>3. QED
    BY <2>1, <2>2
<1>5. outcome' \in [DeliveryId -> {"none", "sent", "skipped"}]
  BY <1>1 DEF FinishDelivery, AccountingInv, TypeOK
<1>6. TypeOK' /\ DeadLetterOnlyWhenExhausted'
  BY <1>1, <1>2, <1>3, <1>5
  DEF AccountingInv, TypeOK, DeadLetterOnlyWhenExhausted, FinishDelivery, DeliveryRun, db, api
<1>7. CopiesAccounted'
  BY <1>1, <1>2, <1>3, <1>4
  DEF AccountingInv, TypeOK, CopiesAccounted, SentWasReceived, Idle
<1>8. QED
  BY <1>6, <1>7 DEF AccountingInv

LEMMA SendThrowsAccounting ==
  ASSUME AccountingInv, SendThrows
  PROVE  AccountingInv'
<1>1. deliverer.job \in DeliveryId
  BY DEF AccountingInv, TypeOK, SendThrows, DeliveryRun, Idle
<1>2. /\ Thrown(delivery[deliverer.job]) \in Job /\ Accounted(Thrown(delivery[deliverer.job]))
      /\ Thrown(delivery[deliverer.job]).started = delivery[deliverer.job].started
  BY <1>1, ThrownJob DEF AccountingInv, TypeOK, DeadLetterOnlyWhenExhausted
<1>3. QED
  BY <1>1, <1>2
  DEF AccountingInv, TypeOK, DeadLetterOnlyWhenExhausted, CopiesAccounted, SentWasReceived,
      SendThrows, DeliveryRun, Idle, db, api, sending

LEMMA WorkerCrashAccounting ==
  ASSUME AccountingInv, WorkerCrash
  PROVE  AccountingInv'
BY BoundsAssumption
DEF AccountingInv, TypeOK, DeadLetterOnlyWhenExhausted, CopiesAccounted, SentWasReceived,
    WorkerCrash, DispatchRun, DeliveryRun, Idle, db, api, sending

LEMMA StallDispatchAccounting ==
  ASSUME AccountingInv, NEW r \in Request, StallDispatch(r)
  PROVE  AccountingInv'
<1>1. Stalled(dispatch[r]) \in Job /\ Accounted(Stalled(dispatch[r]))
  BY StalledJob DEF AccountingInv, TypeOK, DeadLetterOnlyWhenExhausted, StallDispatch
<1>2. QED
  BY <1>1
  DEF AccountingInv, TypeOK, DeadLetterOnlyWhenExhausted, CopiesAccounted, SentWasReceived,
      StallDispatch, db, api, worker, sending

LEMMA StallDeliveryAccounting ==
  ASSUME AccountingInv, NEW d \in DeliveryId, StallDelivery(d)
  PROVE  AccountingInv'
<1>1. /\ Stalled(delivery[d]) \in Job /\ Accounted(Stalled(delivery[d]))
      /\ Stalled(delivery[d]).started = delivery[d].started
  BY StalledJob DEF AccountingInv, TypeOK, DeadLetterOnlyWhenExhausted, StallDelivery
<1>2. QED
  BY <1>1
  DEF AccountingInv, TypeOK, DeadLetterOnlyWhenExhausted, CopiesAccounted, SentWasReceived,
      StallDelivery, db, api, worker, sending

LEMMA AdminEditAccounting ==
  ASSUME AccountingInv, AdminEdit
  PROVE  AccountingInv'
<1>1. /\ edits' \in 0 .. MaxEdits
      /\ UNCHANGED <<api, dispatch, worker, plan, delivery, target, sending, crashes>>
  BY BoundsAssumption
  DEF AdminEdit, SaveChannel, DeleteChannel, SaveProfile, DeleteProfile, Edit, AccountingInv, TypeOK
<1>2. /\ instance' \in [Channel -> {"absent", "disabled", "enabled"}]
      /\ profiles' \in [Profile -> {NoProfile} \cup SUBSET Channel]
  BY DEF AdminEdit, SaveChannel, DeleteChannel, SaveProfile, DeleteProfile, Existing,
         AccountingInv, TypeOK
<1>3. QED
  BY <1>1, <1>2
  DEF AccountingInv, TypeOK, DeadLetterOnlyWhenExhausted, CopiesAccounted, SentWasReceived, api, worker, sending

\* Every step preserves the accounting invariant.
LEMMA AccountingNext ==
  ASSUME AccountingInv, LoopProgress, [Next]_vars
  PROVE  AccountingInv'
<1>1. CASE UNCHANGED vars
  BY <1>1 DEF vars, AccountingInv, TypeOK, DeadLetterOnlyWhenExhausted, CopiesAccounted, SentWasReceived
<1>2. CASE (\E r \in Request : Route(r)) \/ ApiCrash
  BY <1>2, PostAccounting, CheckChannelAccounting, StoreDispatchAccounting,
     CollapseDispatchAccounting, AnswerAccounting DEF Route
<1>3. CASE DispatchWorker
  BY <1>3, TakeDispatchAccounting, ResolveTargetsAccounting, EnqueueDeliveryAccounting,
     EnqueueDeliveryThrowsAccounting, FinishDispatchAccounting DEF DispatchWorker
<1>4. CASE DeliveryWorker
  BY <1>4, TakeDeliveryAccounting, ProviderAcceptsAccounting, FinishDeliveryAccounting,
     SendThrowsAccounting DEF DeliveryWorker
<1>5. CASE WorkerCrash \/ (\E r \in Request : StallDispatch(r))
                      \/ (\E d \in DeliveryId : StallDelivery(d))
  BY <1>5, WorkerCrashAccounting, StallDispatchAccounting, StallDeliveryAccounting
<1>6. CASE AdminEdit
  BY <1>6, AdminEditAccounting
<1>7. QED
  BY <1>1, <1>2, <1>3, <1>4, <1>5, <1>6 DEF Next, Rest

-----------------------------------------------------------------------------
(* The fan-out invariant *)

\* Delivery ids are triples.
LEMMA DeliveryIdParts ==
  ASSUME NEW d \in DeliveryId
  PROVE  /\ d = <<d[1], d[2], d[3]>>
         /\ d[1] \in Request /\ d[2] \in 1 .. MaxRuns /\ d[3] \in Positions
BY DEF DeliveryId

\* Steps that touch neither the handler, nor what exists, nor who is complete.
LEMMA FanOutFrame ==
  ASSUME AccountingInv, FanOutInv, UNCHANGED <<dispatcher, plan, target>>,
         \A r \in Request :
           /\ dispatch'[r].started = dispatch[r].started
           /\ dispatch'[r].st = "completed" => dispatch[r].st = "completed"
           /\ dispatch'[r].st = "none" => dispatch[r].st = "none",
         \A d \in DeliveryId : (delivery'[d].st = "none") <=> (delivery[d].st = "none")
  PROVE  FanOutInv'
<1>1. dispatcher # Idle =>
        /\ dispatcher.job \in Request /\ dispatcher.run \in 1 .. MaxRuns
        /\ dispatcher.pc \in {"resolve", "fanout"}
  BY DEF AccountingInv, TypeOK, DispatchRun
<1>2. \A i \in Positions : dispatcher # Idle =>
        <<dispatcher.job, dispatcher.run, i>> \in DeliveryId
  BY <1>1 DEF DeliveryId
<1>3. RunIsLatest'
  <2>1. (dispatcher # Idle =>
          /\ dispatcher.run = dispatch[dispatcher.job].started
          /\ dispatch[dispatcher.job].st \notin {"none", "completed"})'
    BY <1>1 DEF FanOutInv, RunIsLatest
  <2>2. ASSUME NEW d \in DeliveryId, delivery'[d].st # "none"
        PROVE  d[2] <= dispatch'[d[1]].started
    BY <2>2, DeliveryIdParts DEF FanOutInv, RunIsLatest
  <2>3. QED
    BY <2>1, <2>2 DEF RunIsLatest
<1>4. LoopProgress'
  BY <1>2 DEF FanOutInv, LoopProgress, Idle
<1>5. OneDeliveryPerChannel'
  BY DEF FanOutInv, OneDeliveryPerChannel
<1>6. CompleteFanOut'
  <2> SUFFICES ASSUME NEW r \in Request, dispatch'[r].st = "completed", NEW i \in plan[r]
               PROVE  delivery'[<<r, dispatch'[r].started, i>>].st # "none"
    BY DEF CompleteFanOut
  <2>0. plan[r] \in SUBSET Positions /\ dispatch[r].st = "completed" /\ dispatch[r] \in Job
    BY DEF AccountingInv, TypeOK
  <2>1. delivery[<<r, dispatch[r].started, i>>].st # "none"
    BY <2>0 DEF FanOutInv, CompleteFanOut
  <2>2. <<r, dispatch[r].started, i>> \in DeliveryId
    <3>1. dispatch[r].started \in 1 .. MaxRuns
      BY <2>0, JobFields, AttemptsAssumption, MaxStallsAssumption
      DEF AccountingInv, DeadLetterOnlyWhenExhausted, Accounted, MaxRuns
    <3>2. i \in Positions
      BY <2>0
    <3>3. QED
      BY <3>1, <3>2 DEF DeliveryId
  <2>3. QED
    BY <2>1, <2>2
<1>7. QED
  BY <1>3, <1>4, <1>5, <1>6 DEF FanOutInv

\* A handler that goes away leaves nothing behind but the deliveries it made.
LEMMA FanOutLeave ==
  ASSUME AccountingInv, FanOutInv, dispatcher' = Idle, UNCHANGED <<plan, target, delivery>>,
         \A r \in Request :
           /\ dispatch'[r].started = dispatch[r].started
           /\ dispatch'[r].st = "completed" =>
                \A i \in plan[r] : delivery[<<r, dispatch[r].started, i>>].st # "none"
  PROVE  FanOutInv'
<1>1. RunIsLatest'
  BY DeliveryIdParts DEF FanOutInv, RunIsLatest
<1>2. LoopProgress'
  BY DEF LoopProgress, Idle
<1>3. OneDeliveryPerChannel'
  BY DEF FanOutInv, OneDeliveryPerChannel
<1>4. CompleteFanOut'
  BY DEF CompleteFanOut
<1>5. QED
  BY <1>1, <1>2, <1>3, <1>4 DEF FanOutInv

\* The steps of the API that store no job.
RepliesOnly ==
  \/ \E r \in Request :
       Post(r) \/ CheckChannel(r) \/ CollapseDispatch(r) \/ Accept(r) \/ EnqueueUnavailable(r)
  \/ ApiCrash

LEMMA RepliesFrame ==
  ASSUME RepliesOnly
  PROVE  UNCHANGED <<body, dispatch, dispatcher, deliverer, plan, delivery, target, outcome,
                     received, edits, crashes>>
BY DEF RepliesOnly, Post, CheckChannel, CollapseDispatch, Accept, EnqueueUnavailable, ApiCrash,
       worker, sending

LEMMA RepliesFanOut ==
  ASSUME AccountingInv, FanOutInv, RepliesOnly
  PROVE  FanOutInv'
BY RepliesFrame, FanOutFrame

\* A job is only stored for a request that has none.
LEMMA StoreDispatchFanOut ==
  ASSUME AccountingInv, FanOutInv, ApiInv, NEW r \in Request, StoreDispatch(r)
  PROVE  FanOutInv'
<1>1. dispatch[r].st = "none" /\ dispatch[r].started = 0
  BY DEF ApiInv, AddedIsBacked, StoreDispatch, Enqueueing, AccountingInv,
     DeadLetterOnlyWhenExhausted, Accounted
<1>2. /\ dispatch' = [dispatch EXCEPT ![r] = NewJob]
      /\ dispatch \in [Request -> Job]
      /\ UNCHANGED <<dispatcher, plan, delivery, target>>
  BY DEF StoreDispatch, worker, AccountingInv, TypeOK
<1>3. \A q \in Request : /\ dispatch'[q].started = dispatch[q].started
                         /\ dispatch'[q].st = "completed" => dispatch[q].st = "completed"
  BY <1>1, <1>2, FreshJobs
<1>4. dispatcher # Idle => dispatcher.job # r /\ dispatcher.job \in Request
  BY <1>1 DEF FanOutInv, RunIsLatest, AccountingInv, TypeOK, DispatchRun
<1>5. RunIsLatest'
  <2>1. \A d \in DeliveryId : delivery'[d].st # "none" => d[2] <= dispatch'[d[1]].started
    BY <1>2, <1>3, DeliveryIdParts DEF FanOutInv, RunIsLatest
  <2>2. QED
    BY <1>2, <1>4, <2>1 DEF FanOutInv, RunIsLatest
<1>6. LoopProgress' /\ OneDeliveryPerChannel'
  BY <1>2 DEF FanOutInv, LoopProgress, OneDeliveryPerChannel
<1>7. CompleteFanOut'
  BY <1>2, <1>3 DEF FanOutInv, CompleteFanOut
<1>8. QED
  BY <1>5, <1>6, <1>7 DEF FanOutInv

\* A new run has enqueued nothing yet.
LEMMA TakeDispatchFanOut ==
  ASSUME AccountingInv, FanOutInv, NEW r \in Request, TakeDispatch(r)
  PROVE  FanOutInv'
<1>1. /\ dispatch[r] \in Job /\ Accounted(dispatch[r])
      /\ dispatch[r].started \in Nat /\ dispatch[r].started + 1 \in 1 .. MaxRuns
      /\ Started(dispatch[r]).st = "active"
      /\ Started(dispatch[r]).started = dispatch[r].started + 1
  BY StartedJob, JobFields DEF AccountingInv, TypeOK, DeadLetterOnlyWhenExhausted, TakeDispatch
<1>2. /\ dispatch' = [dispatch EXCEPT ![r] = Started(@)] /\ dispatch \in [Request -> Job]
      /\ dispatcher' = [pc |-> "resolve", job |-> r, run |-> dispatch[r].started + 1,
                        enabled |-> Enabled]
      /\ UNCHANGED <<plan, delivery, target>>
  BY DEF TakeDispatch, AccountingInv, TypeOK
<1>3. \A q \in Request : /\ dispatch[q].started \in Nat /\ dispatch'[q].started \in Nat
                         /\ dispatch[q].started <= dispatch'[q].started
  BY <1>1, <1>2, JobFields
<1>4. RunIsLatest'
  <2>1. ASSUME NEW d \in DeliveryId, delivery'[d].st # "none"
        PROVE  d[2] <= dispatch'[d[1]].started
    BY <1>2, <1>3, <2>1, DeliveryIdParts, AttemptsAssumption, MaxStallsAssumption
    DEF FanOutInv, RunIsLatest, MaxRuns
  <2>2. QED
    BY <1>1, <1>2, <2>1 DEF RunIsLatest
<1>5. LoopProgress'
  <2>1. ASSUME NEW i \in Positions
        PROVE  delivery[<<r, dispatch[r].started + 1, i>>].st = "none"
    <3> DEFINE d == <<r, dispatch[r].started + 1, i>>
    <3>1. d \in DeliveryId /\ d[1] = r /\ d[2] = dispatch[r].started + 1
      BY <1>1 DEF DeliveryId
    <3>2. delivery[d].st # "none" => d[2] <= dispatch[d[1]].started
      BY <3>1 DEF FanOutInv, RunIsLatest
    <3>3. QED
      BY <1>1, <3>1, <3>2
  <2>2. QED
    BY <1>2, <2>1 DEF LoopProgress
<1>6. OneDeliveryPerChannel'
  BY <1>2 DEF FanOutInv, OneDeliveryPerChannel
<1>7. CompleteFanOut'
  BY <1>1, <1>2 DEF FanOutInv, CompleteFanOut
<1>8. QED
  BY <1>4, <1>5, <1>6, <1>7 DEF FanOutInv

LEMMA ResolveTargetsFanOut ==
  ASSUME AccountingInv, FanOutInv, ResolveTargets
  PROVE  FanOutInv'
<1> DEFINE asked == body[dispatcher.job].channels
           source == IF asked # Unspecified THEN asked ELSE ChannelOrder
           allowed == IF asked # Unspecified THEN dispatcher.enabled
                      ELSE dispatcher.enabled \cap DefaultsOf(body[dispatcher.job].profile)
           kept == Surviving(source, allowed)
<1>1. /\ dispatcher.pc = "resolve" /\ dispatcher # Idle
      /\ dispatcher.job \in Request /\ dispatcher.run \in 1 .. MaxRuns
      /\ body[dispatcher.job] \in Body
  BY DEF AccountingInv, TypeOK, ResolveTargets, DispatchRun, Idle
<1>2. source \in Lists \cup {ChannelOrder}
  BY <1>1 DEF Body
<1>3. /\ kept \subseteq Positions /\ kept \subseteq DOMAIN source
      /\ \A i, j \in kept : source[i] = source[j] => i = j
  BY <1>2, SurvivingPositions
<1> HIDE DEF kept, source
<1>4. /\ dispatcher' = [pc |-> "fanout", job |-> dispatcher.job, run |-> dispatcher.run,
                        source |-> source, todo |-> kept]
      /\ plan' = [plan EXCEPT ![dispatcher.job] = kept] /\ plan \in [Request -> SUBSET Positions]
      /\ UNCHANGED <<dispatch, delivery, target>>
  BY DEF ResolveTargets, source, kept, AccountingInv, TypeOK
<1>5. RunIsLatest' /\ OneDeliveryPerChannel'
  BY <1>1, <1>4 DEF FanOutInv, RunIsLatest, OneDeliveryPerChannel, Idle
<1>6. LoopProgress'
  BY <1>1, <1>3, <1>4 DEF FanOutInv, LoopProgress
<1>7. CompleteFanOut'
  BY <1>1, <1>4 DEF FanOutInv, CompleteFanOut, RunIsLatest
<1>8. QED
  BY <1>5, <1>6, <1>7 DEF FanOutInv

\* The one step that adds a delivery: for a channel this run has not passed yet.
LEMMA EnqueueDeliveryFanOut ==
  ASSUME AccountingInv, FanOutInv, EnqueueDelivery
  PROVE  FanOutInv'
<1>1. PICK i \in dispatcher.todo :
        /\ delivery' = [delivery EXCEPT ![<<dispatcher.job, dispatcher.run, i>>] = NewJob]
        /\ target' = [target EXCEPT ![<<dispatcher.job, dispatcher.run, i>>] = dispatcher.source[i]]
        /\ dispatcher' = [dispatcher EXCEPT !.todo = @ \ {i}]
  BY DEF EnqueueDelivery
<1> DEFINE r == dispatcher.job
           n == dispatcher.run
           d == <<r, n, i>>
<1>2. /\ dispatcher \in [pc : {"fanout"}, job : Request, run : 1 .. MaxRuns,
                         source : Lists \cup {ChannelOrder}, todo : SUBSET Positions]
      /\ dispatcher.pc = "fanout" /\ dispatcher # Idle
      /\ r \in Request /\ n \in 1 .. MaxRuns /\ i \in Positions
      /\ delivery \in [DeliveryId -> Job] /\ target \in [DeliveryId -> Channel]
      /\ UNCHANGED <<dispatch, plan>>
  BY DEF AccountingInv, TypeOK, EnqueueDelivery, DispatchRun, Idle
<1>3. /\ dispatcher'.pc = "fanout" /\ dispatcher'.job = r /\ dispatcher'.run = n
      /\ dispatcher'.source = dispatcher.source /\ dispatcher'.todo = dispatcher.todo \ {i}
  BY <1>1, <1>2
<1>4. /\ n = dispatch[r].started /\ dispatch[r].st \notin {"none", "completed"}
  BY <1>2 DEF FanOutInv, RunIsLatest
<1>5. /\ i \in plan[r] /\ dispatcher.todo \subseteq plan[r]
      /\ plan[r] \subseteq DOMAIN dispatcher.source
      /\ \A j, k \in plan[r] : dispatcher.source[j] = dispatcher.source[k] => j = k
      /\ \A j \in Positions :
           /\ (delivery[<<r, n, j>>].st # "none") <=> (j \in plan[r] \ dispatcher.todo)
           /\ delivery[<<r, n, j>>].st # "none" => target[<<r, n, j>>] = dispatcher.source[j]
  BY <1>2 DEF FanOutInv, LoopProgress
<1>6. \A j \in Positions : <<r, n, j>> \in DeliveryId
  BY <1>2 DEF DeliveryId
<1>7. /\ delivery'[d].st = "queued" /\ target'[d] = dispatcher.source[i]
      /\ \A e \in DeliveryId : e # d => delivery'[e] = delivery[e] /\ target'[e] = target[e]
  BY <1>1, <1>2, <1>6, FreshJobs
<1>8. RunIsLatest'
  <2>1. ASSUME NEW e \in DeliveryId, delivery'[e].st # "none"
        PROVE  e[2] <= dispatch'[e[1]].started
    <3>1. CASE e = d
      BY <1>2, <1>4, <3>1, AttemptsAssumption, MaxStallsAssumption DEF MaxRuns
    <3>2. CASE e # d
      BY <1>2, <1>7, <2>1, <3>2 DEF FanOutInv, RunIsLatest
    <3>3. QED
      BY <3>1, <3>2
  <2>2. QED
    BY <1>2, <1>3, <1>4, <2>1 DEF RunIsLatest
<1>9. LoopProgress'
  <2>1. ASSUME NEW j \in Positions
        PROVE  /\ (delivery'[<<r, n, j>>].st # "none")
                    <=> (j \in plan[r] \ (dispatcher.todo \ {i}))
               /\ delivery'[<<r, n, j>>].st # "none" => target'[<<r, n, j>>] = dispatcher.source[j]
    <3>1. CASE j = i
      BY <1>5, <1>7, <3>1
    <3>2. CASE j # i
      BY <1>5, <1>6, <1>7, <3>2
    <3>3. QED
      BY <3>1, <3>2
  <2>2. QED
    BY <1>2, <1>3, <1>5, <2>1 DEF LoopProgress
<1>10. OneDeliveryPerChannel'
  <2>1. ASSUME NEW e \in DeliveryId, e # d, delivery[e].st # "none", e[1] = r, e[2] = n,
               target[e] = dispatcher.source[i]
        PROVE  FALSE
    <3>1. e = <<r, n, e[3]>> /\ e[3] \in Positions
      BY <2>1, DeliveryIdParts
    <3>2. e[3] \in plan[r] \ dispatcher.todo /\ dispatcher.source[e[3]] = dispatcher.source[i]
      BY <1>5, <2>1, <3>1
    <3>3. e[3] = i
      BY <1>5, <3>2
    <3>4. QED
      BY <2>1, <3>1, <3>3
  <2>2. ASSUME NEW e \in DeliveryId, NEW f \in DeliveryId,
               delivery'[e].st # "none", delivery'[f].st # "none",
               e[1] = f[1], e[2] = f[2], target'[e] = target'[f]
        PROVE  e = f
    <3>1. CASE e # d /\ f # d
      BY <1>7, <2>2, <3>1 DEF FanOutInv, OneDeliveryPerChannel
    <3>2. CASE e = d /\ f # d
      BY <1>7, <2>1, <2>2, <3>2
    <3>3. CASE f = d /\ e # d
      BY <1>7, <2>1, <2>2, <3>3
    <3>4. QED
      BY <3>1, <3>2, <3>3
  <2>3. QED
    BY <2>2 DEF OneDeliveryPerChannel
<1>11. CompleteFanOut'
  <2>1. ASSUME NEW q \in Request, dispatch[q].st = "completed", NEW j \in plan[q]
        PROVE  delivery'[<<q, dispatch[q].started, j>>].st # "none"
    <3>1. q # r
      BY <1>4, <2>1
    <3>2. delivery[<<q, dispatch[q].started, j>>].st # "none"
      BY <2>1 DEF FanOutInv, CompleteFanOut
    <3>3. delivery'[<<q, dispatch[q].started, j>>] = delivery[<<q, dispatch[q].started, j>>]
      BY <1>1, <1>2, <3>1
    <3>4. QED
      BY <3>2, <3>3
  <2>2. QED
    BY <1>2, <2>1 DEF CompleteFanOut
<1>12. QED
  BY <1>8, <1>9, <1>10, <1>11 DEF FanOutInv

\* The run that completes a job has worked off its plan; the others complete nothing.
LEMMA HandlerEndsFanOut ==
  ASSUME AccountingInv, FanOutInv, EnqueueDeliveryThrows \/ FinishDispatch
  PROVE  FanOutInv'
<1> DEFINE r == dispatcher.job
<1>1. /\ dispatcher.pc = "fanout" /\ dispatcher # Idle
      /\ r \in Request /\ dispatch[r] \in Job /\ Accounted(dispatch[r])
      /\ dispatch \in [Request -> Job]
      /\ dispatcher' = Idle /\ UNCHANGED <<plan, target, delivery>>
  BY DEF AccountingInv, TypeOK, DeadLetterOnlyWhenExhausted, EnqueueDeliveryThrows,
         FinishDispatch, DispatchRun, Idle
<1>2. \A q \in Request : dispatch[q].st = "completed" =>
        \A i \in plan[q] : delivery[<<q, dispatch[q].started, i>>].st # "none"
  BY DEF FanOutInv, CompleteFanOut
<1>3. CASE EnqueueDeliveryThrows
  <2>1. /\ dispatch' = [dispatch EXCEPT ![r] = Thrown(@)]
        /\ Thrown(dispatch[r]).started = dispatch[r].started
        /\ Thrown(dispatch[r]).st = "completed" => dispatch[r].st = "completed"
    BY <1>1, <1>3, ThrownJob DEF EnqueueDeliveryThrows
  <2>2. \A q \in Request :
          /\ dispatch'[q].started = dispatch[q].started
          /\ dispatch'[q].st = "completed" => dispatch[q].st = "completed"
    BY <1>1, <2>1
  <2>3. QED
    BY <1>1, <1>2, <2>2, FanOutLeave
<1>4. CASE FinishDispatch
  <2>1. /\ dispatch' = [dispatch EXCEPT ![r] = Finished(@)]
        /\ Finished(dispatch[r]).started = dispatch[r].started
    BY <1>1, <1>4, FinishedJob DEF FinishDispatch
  <2>2. ASSUME NEW i \in plan[r]
        PROVE  delivery[<<r, dispatch[r].started, i>>].st # "none"
    <3>1. dispatcher.run = dispatch[r].started
      BY <1>1 DEF FanOutInv, RunIsLatest
    <3>2. i \in Positions /\ i \in plan[r] \ dispatcher.todo
      BY <1>1, <1>4 DEF FinishDispatch, AccountingInv, TypeOK
    <3>3. QED
      BY <1>1, <3>1, <3>2 DEF FanOutInv, LoopProgress
  <2>3. \A q \in Request :
          /\ dispatch'[q].started = dispatch[q].started
          /\ q # r => dispatch'[q] = dispatch[q]
    BY <1>1, <2>1
  <2>4. \A q \in Request : dispatch'[q].st = "completed" =>
          \A i \in plan[q] : delivery[<<q, dispatch[q].started, i>>].st # "none"
    BY <1>2, <2>2, <2>3
  <2>5. QED
    BY <1>1, <2>3, <2>4, FanOutLeave
<1>5. QED
  BY <1>3, <1>4

LEMMA WorkerCrashFanOut ==
  ASSUME AccountingInv, FanOutInv, WorkerCrash
  PROVE  FanOutInv'
<1>1. dispatcher' = Idle /\ UNCHANGED <<plan, target, delivery, dispatch>>
  BY DEF WorkerCrash
<1>2. QED
  BY <1>1, FanOutLeave DEF FanOutInv, CompleteFanOut

LEMMA StallFanOut ==
  ASSUME AccountingInv, FanOutInv, \/ \E r \in Request : StallDispatch(r)
                                   \/ \E d \in DeliveryId : StallDelivery(d)
  PROVE  FanOutInv'
<1>1. ASSUME NEW r \in Request, StallDispatch(r) PROVE FanOutInv'
  <2>1. /\ Stalled(dispatch[r]).started = dispatch[r].started
        /\ Stalled(dispatch[r]).st \in {"queued", "failed"}
    BY <1>1, StalledJob DEF AccountingInv, TypeOK, DeadLetterOnlyWhenExhausted, StallDispatch
  <2>2. QED
    BY <1>1, <2>1, FanOutFrame DEF StallDispatch, worker, AccountingInv, TypeOK
<1>2. ASSUME NEW d \in DeliveryId, StallDelivery(d) PROVE FanOutInv'
  <2>1. Stalled(delivery[d]).st \in {"queued", "failed"} /\ delivery[d].st = "active"
    BY <1>2, StalledJob DEF AccountingInv, TypeOK, DeadLetterOnlyWhenExhausted, StallDelivery
  <2>2. QED
    BY <1>2, <2>1, FanOutFrame DEF StallDelivery, worker, AccountingInv, TypeOK
<1>3. QED
  BY <1>1, <1>2

LEMMA DeliveryWorkerFanOut ==
  ASSUME AccountingInv, FanOutInv, DeliveryWorker
  PROVE  FanOutInv'
<1>1. ASSUME NEW d \in DeliveryId, TakeDelivery(d) PROVE FanOutInv'
  <2>1. Started(delivery[d]).st = "active"
    BY <1>1, StartedJob DEF AccountingInv, TypeOK, DeadLetterOnlyWhenExhausted, TakeDelivery
  <2>2. QED
    BY <1>1, <2>1, FanOutFrame DEF TakeDelivery, AccountingInv, TypeOK
<1>2. CASE ProviderAccepts
  BY <1>2, FanOutFrame DEF ProviderAccepts
<1>3. CASE FinishDelivery \/ SendThrows
  <2>1. /\ deliverer.job \in DeliveryId /\ delivery[deliverer.job] \in Job
        /\ Accounted(delivery[deliverer.job])
    BY <1>3 DEF AccountingInv, TypeOK, DeadLetterOnlyWhenExhausted, FinishDelivery, SendThrows,
                DeliveryRun, Idle
  <2>2. /\ (Finished(delivery[deliverer.job]).st = "none") <=> (delivery[deliverer.job].st = "none")
        /\ (Thrown(delivery[deliverer.job]).st = "none") <=> (delivery[deliverer.job].st = "none")
    BY <2>1, FinishedJob, ThrownJob
  <2>3. /\ UNCHANGED <<dispatcher, dispatch, plan, target>>
        /\ \A d \in DeliveryId : (delivery'[d].st = "none") <=> (delivery[d].st = "none")
    BY <1>3, <2>1, <2>2 DEF FinishDelivery, SendThrows, AccountingInv, TypeOK
  <2>4. QED
    BY <2>3, FanOutFrame
<1>4. QED
  BY <1>1, <1>2, <1>3 DEF DeliveryWorker

LEMMA AdminEditFanOut ==
  ASSUME AccountingInv, FanOutInv, AdminEdit
  PROVE  FanOutInv'
<1>1. UNCHANGED <<dispatch, dispatcher, plan, delivery, target>>
  BY DEF AdminEdit, SaveChannel, DeleteChannel, SaveProfile, DeleteProfile, Edit, worker
<1>2. QED
  BY <1>1, FanOutFrame

\* Every step preserves the fan-out invariant.
LEMMA FanOutNext ==
  ASSUME AccountingInv, FanOutInv, ApiInv, [Next]_vars
  PROVE  FanOutInv'
<1>1. CASE UNCHANGED vars
  BY <1>1, FanOutFrame DEF vars
<1>2. CASE (\E r \in Request : Route(r)) \/ ApiCrash
  BY <1>2, RepliesFanOut, StoreDispatchFanOut DEF Route, RepliesOnly
<1>3. CASE DispatchWorker
  BY <1>3, TakeDispatchFanOut, ResolveTargetsFanOut, EnqueueDeliveryFanOut, HandlerEndsFanOut
  DEF DispatchWorker
<1>4. CASE DeliveryWorker
  BY <1>4, DeliveryWorkerFanOut
<1>5. CASE WorkerCrash \/ (\E r \in Request : StallDispatch(r))
                      \/ (\E d \in DeliveryId : StallDelivery(d))
  BY <1>5, WorkerCrashFanOut, StallFanOut
<1>6. CASE AdminEdit
  BY <1>6, AdminEditFanOut
<1>7. QED
  BY <1>1, <1>2, <1>3, <1>4, <1>5, <1>6 DEF Next, Rest

-----------------------------------------------------------------------------
(* The API's invariant *)

\* Workers and faults neither store dispatch jobs nor revive removed ones.
LEMMA ApiFrame ==
  ASSUME AccountingInv, ApiInv, UNCHANGED <<body, reply, jobOf>>,
         \A r \in Request : (dispatch'[r].st = "none") <=> (dispatch[r].st = "none")
  PROVE  ApiInv'
<1>1. jobOf \in [Request -> Request]
  BY DEF AccountingInv, TypeOK
<1>2. QED
  BY <1>1 DEF ApiInv, AcceptedIsBacked, AddedIsBacked, Backed

\* No step takes a reply from one that comes before add() to one that promises a job.
LEMMA ReplyApi ==
  ASSUME AccountingInv, ApiInv,
         \/ \E r \in Request :
              Post(r) \/ CheckChannel(r) \/ Accept(r) \/ EnqueueUnavailable(r)
         \/ ApiCrash
  PROVE  ApiInv'
<1>1. UNCHANGED <<body, jobOf, dispatch>>
  BY DEF Post, CheckChannel, Accept, EnqueueUnavailable, ApiCrash
<1>2. ASSUME NEW q \in Request
      PROVE  \/ reply'[q] = reply[q]
             \/ reply[q] \in {"unsent", "checking"} /\ reply'[q] \in {"checking", "refused"}
             \/ reply[q] = "added" /\ reply'[q] = "accepted"
             \/ reply[q] \in {"checking", "added"} /\ reply'[q] \in {"unavailable", "lost"}
  BY DEF Post, CheckChannel, Accept, EnqueueUnavailable, Enqueueing, ApiCrash, Pending,
     AccountingInv, TypeOK
<1>3. \A q \in Request : Backed(q)' <=> Backed(q)
  BY <1>1 DEF Backed
<1>4. AcceptedIsBacked'
  BY <1>1, <1>2, <1>3 DEF ApiInv, AcceptedIsBacked, AddedIsBacked
<1>5. AddedIsBacked'
  BY <1>1, <1>2, <1>3 DEF ApiInv, AddedIsBacked
<1> QED
  BY <1>4, <1>5 DEF ApiInv

LEMMA StoreDispatchApi ==
  ASSUME AccountingInv, ApiInv, NEW r \in Request, StoreDispatch(r)
  PROVE  ApiInv'
<1>1. /\ dispatch[r].st = "none" /\ reply[r] = "checking"
      /\ dispatch'[r].st = "queued" /\ reply'[r] = "added" /\ jobOf'[r] = r
      /\ \A q \in Request : q # r => /\ reply'[q] = reply[q] /\ jobOf'[q] = jobOf[q]
                                     /\ dispatch'[q] = dispatch[q]
      /\ body' = body /\ \A q \in Request : jobOf[q] \in Request
  BY FreshJobs DEF StoreDispatch, Enqueueing, AccountingInv, TypeOK, ApiInv, AddedIsBacked
<1>2. \A q \in Request : q # r /\ Backed(q) => Backed(q)'
  BY <1>1 DEF Backed
<1>3. Backed(r)'
  BY <1>1 DEF Backed
<1>4. AcceptedIsBacked' /\ AddedIsBacked'
  BY <1>1, <1>2, <1>3 DEF ApiInv, AcceptedIsBacked, AddedIsBacked
<1>5. QED
  BY <1>4 DEF ApiInv

LEMMA CollapseDispatchApi ==
  ASSUME AccountingInv, ApiInv, NEW r \in Request, CollapseDispatch(r)
  PROVE  ApiInv'
<1>1. PICK q \in Holders(r) : jobOf' = [jobOf EXCEPT ![r] = q]
  BY DEF CollapseDispatch
<1>2. /\ q \in Request /\ body[r].key # NoKey /\ body[q].key = body[r].key
      /\ dispatch[q].st # "none"
  BY <1>1 DEF Holders, Stored
<1>3. /\ reply'[r] = "added" /\ jobOf'[r] = q /\ dispatch[r].st = "none"
      /\ \A p \in Request : p # r => reply'[p] = reply[p] /\ jobOf'[p] = jobOf[p]
      /\ UNCHANGED <<body, dispatch>>
  BY <1>1 DEF CollapseDispatch, Enqueueing, AccountingInv, TypeOK, ApiInv, AddedIsBacked
<1>4. \A p \in Request : p # r /\ Backed(p) => Backed(p)'
  BY <1>3 DEF Backed
<1>5. Backed(r)'
  BY <1>2, <1>3 DEF Backed
<1>6. QED
  BY <1>3, <1>4, <1>5 DEF ApiInv, AcceptedIsBacked, AddedIsBacked

\* Every step preserves the API's invariant.
LEMMA ApiNext ==
  ASSUME AccountingInv, FanOutInv, ApiInv, [Next]_vars
  PROVE  ApiInv'
<1>1. CASE UNCHANGED vars
  BY <1>1, ApiFrame DEF vars
<1>2. CASE (\E r \in Request : Route(r)) \/ ApiCrash
  BY <1>2, ReplyApi, StoreDispatchApi, CollapseDispatchApi DEF Route
<1>3. ASSUME NEW r \in Request, TakeDispatch(r) PROVE ApiInv'
  <2>1. Started(dispatch[r]).st = "active"
    BY <1>3, StartedJob DEF AccountingInv, TypeOK, DeadLetterOnlyWhenExhausted, TakeDispatch
  <2>2. QED
    BY <1>3, <2>1, ApiFrame DEF TakeDispatch, api, AccountingInv, TypeOK
<1>4. CASE ResolveTargets \/ EnqueueDelivery
  BY <1>4, ApiFrame DEF ResolveTargets, EnqueueDelivery, api
<1>5. CASE EnqueueDeliveryThrows \/ FinishDispatch
  <2>1. /\ dispatcher.job \in Request /\ dispatch[dispatcher.job] \in Job
        /\ Accounted(dispatch[dispatcher.job])
    BY <1>5 DEF AccountingInv, TypeOK, DeadLetterOnlyWhenExhausted, EnqueueDeliveryThrows,
                FinishDispatch, DispatchRun, Idle
  <2>2. /\ (Finished(dispatch[dispatcher.job]).st = "none") <=> (dispatch[dispatcher.job].st = "none")
        /\ (Thrown(dispatch[dispatcher.job]).st = "none") <=> (dispatch[dispatcher.job].st = "none")
    BY <2>1, FinishedJob, ThrownJob
  <2>3. QED
    BY <1>5, <2>1, <2>2, ApiFrame DEF EnqueueDeliveryThrows, FinishDispatch, api, AccountingInv, TypeOK
<1>6. CASE DeliveryWorker \/ WorkerCrash \/ (\E d \in DeliveryId : StallDelivery(d)) \/ AdminEdit
  <2>1. UNCHANGED <<api, dispatch>>
    BY <1>6 DEF DeliveryWorker, TakeDelivery, ProviderAccepts, FinishDelivery, SendThrows,
                WorkerCrash, StallDelivery, AdminEdit, SaveChannel, DeleteChannel, SaveProfile,
                DeleteProfile, Edit
  <2>2. QED
    BY <2>1, ApiFrame DEF api
<1>7. ASSUME NEW r \in Request, StallDispatch(r) PROVE ApiInv'
  <2>1. Stalled(dispatch[r]).st \in {"queued", "failed"} /\ dispatch[r].st = "active"
    BY <1>7, StalledJob DEF AccountingInv, TypeOK, DeadLetterOnlyWhenExhausted, StallDispatch
  <2>2. QED
    BY <1>7, <2>1, ApiFrame DEF StallDispatch, api, AccountingInv, TypeOK
<1>8. QED
  BY <1>1, <1>2, <1>3, <1>4, <1>5, <1>6, <1>7 DEF Next, Rest, DispatchWorker

-----------------------------------------------------------------------------
(* What a step does to the jobs *)

Live == {"queued", "active"}

\* At most the dispatch job r moves.
DispatchMoves(r) ==
  /\ UNCHANGED <<delivery, outcome, received>>
  /\ \A q \in Request \ {r} : dispatch'[q] = dispatch[q]
  /\ \/ dispatch'[r] = dispatch[r]
     \/ dispatch[r].st = "none" /\ dispatch'[r].st = "queued"
     \/ dispatch[r].st \in Live /\ dispatch'[r].st \in Live \cup Terminal

\* At most the delivery job d moves, and is settled with its outcome.
DeliveryMoves(d) ==
  /\ UNCHANGED <<dispatch, received>>
  /\ \A e \in DeliveryId \ {d} : delivery'[e] = delivery[e] /\ outcome'[e] = outcome[e]
  /\ \/ delivery'[d] = delivery[d] /\ outcome'[d] = outcome[d]
     \/ /\ delivery[d].st = "none" /\ dispatch[d[1]].st # "none"
        /\ delivery'[d].st = "queued" /\ outcome'[d] = outcome[d]
     \/ /\ delivery[d].st \in Live /\ delivery'[d].st \in Live \cup {"failed"}
        /\ outcome'[d] = outcome[d]
     \/ /\ delivery[d].st \in Live /\ delivery'[d].st = "completed"
        /\ outcome'[d] \in {"sent", "skipped"}
        /\ outcome'[d] = "sent" => received[d] > 0

\* A provider takes a copy of d.
CopyMoves(d) ==
  /\ UNCHANGED <<dispatch, delivery, outcome>>
  /\ received' = [received EXCEPT ![d] = @ + 1]
  /\ delivery[d].st # "none" /\ received[d] < MaxRuns

LEMMA DispatchSteps ==
  ASSUME PipelineInv,
         \/ \E r \in Request : StoreDispatch(r) \/ TakeDispatch(r) \/ StallDispatch(r)
         \/ EnqueueDeliveryThrows \/ FinishDispatch
  PROVE  \E r \in Request : DispatchMoves(r)
<1>0. /\ dispatch \in [Request -> Job] /\ \A q \in Request : Accounted(dispatch[q])
      /\ \A q \in Request : reply[q] = "checking" => dispatch[q].st = "none"
  BY DEF PipelineInv, AccountingInv, TypeOK, DeadLetterOnlyWhenExhausted, ApiInv, AddedIsBacked
<1>1. ASSUME NEW r \in Request, StoreDispatch(r)
      PROVE  DispatchMoves(r)
  <2>1. dispatch[r].st = "none" /\ dispatch'[r].st = "queued"
    BY <1>0, <1>1, FreshJobs DEF StoreDispatch, Enqueueing
  <2> QED
    BY <1>0, <1>1, <2>1 DEF StoreDispatch, DispatchMoves, sending
<1>2. ASSUME NEW r \in Request, TakeDispatch(r)
      PROVE  DispatchMoves(r)
  <2>1. dispatch'[r].st = "active"
    BY <1>0, <1>2, StartedJob DEF TakeDispatch
  <2> QED
    BY <1>0, <1>2, <2>1 DEF TakeDispatch, DispatchMoves, sending, Live
<1>3. ASSUME NEW r \in Request, StallDispatch(r)
      PROVE  DispatchMoves(r)
  <2>1. dispatch'[r].st \in {"queued", "failed"}
    BY <1>0, <1>3, StalledJob DEF StallDispatch
  <2> QED
    BY <1>0, <1>3, <2>1 DEF StallDispatch, DispatchMoves, sending, Live, Terminal
<1>4. CASE EnqueueDeliveryThrows \/ FinishDispatch
  <2> DEFINE r == dispatcher.job
             j == dispatch[r]
  <2>1. r \in Request /\ j \in Job
    BY <1>0, <1>4 DEF PipelineInv, AccountingInv, TypeOK, EnqueueDeliveryThrows, FinishDispatch,
       DispatchRun, Idle
  <2>2. \/ dispatch' = [dispatch EXCEPT ![r] = Thrown(j)]
        \/ dispatch' = [dispatch EXCEPT ![r] = Finished(j)]
    BY <1>4 DEF EnqueueDeliveryThrows, FinishDispatch
  <2>3. /\ j.st \notin {"active"} => Thrown(j) = j /\ Finished(j) = j
        /\ j.st = "active" => Thrown(j).st \in {"queued", "failed"} /\ Finished(j).st = "completed"
    BY <2>1 DEF Thrown, Finished, Job
  <2>4. UNCHANGED <<delivery, outcome, received>>
    BY <1>4 DEF EnqueueDeliveryThrows, FinishDispatch, sending
  <2>5. /\ \A q \in Request \ {r} : dispatch'[q] = dispatch[q]
        /\ dispatch'[r] \in {Thrown(j), Finished(j)}
    BY <1>0, <2>1, <2>2
  <2>6. DispatchMoves(dispatcher.job)
    BY <2>3, <2>4, <2>5 DEF DispatchMoves, Live, Terminal
  <2> QED
    BY <2>1, <2>6
<1> QED
  BY <1>1, <1>2, <1>3, <1>4

LEMMA DeliverySteps ==
  ASSUME PipelineInv,
         \/ \E d \in DeliveryId : TakeDelivery(d) \/ StallDelivery(d)
         \/ FinishDelivery \/ SendThrows \/ EnqueueDelivery
  PROVE  \E d \in DeliveryId : DeliveryMoves(d)
<1>0. /\ delivery \in [DeliveryId -> Job] /\ \A e \in DeliveryId : Accounted(delivery[e])
      /\ outcome \in [DeliveryId -> {"none", "sent", "skipped"}]
      /\ received \in [DeliveryId -> 0 .. MaxRuns]
  BY DEF PipelineInv, AccountingInv, TypeOK, DeadLetterOnlyWhenExhausted
<1>1. ASSUME NEW d \in DeliveryId, TakeDelivery(d)
      PROVE  DeliveryMoves(d)
  <2>1. delivery'[d].st = "active"
    BY <1>0, <1>1, StartedJob DEF TakeDelivery
  <2> QED
    BY <1>0, <1>1, <2>1 DEF TakeDelivery, DeliveryMoves, sending, Live
<1>2. ASSUME NEW d \in DeliveryId, StallDelivery(d)
      PROVE  DeliveryMoves(d)
  <2>1. delivery'[d].st \in {"queued", "failed"}
    BY <1>0, <1>2, StalledJob DEF StallDelivery
  <2> QED
    BY <1>0, <1>2, <2>1 DEF StallDelivery, DeliveryMoves, sending, Live
<1>3. CASE SendThrows
  <2> DEFINE d == deliverer.job
             j == delivery[d]
  <2>1. d \in DeliveryId /\ j \in Job
    BY <1>0, <1>3 DEF PipelineInv, AccountingInv, TypeOK, SendThrows, DeliveryRun, Idle
  <2>2. delivery' = [delivery EXCEPT ![d] = Thrown(j)] /\ UNCHANGED <<dispatch, outcome, received>>
    BY <1>3 DEF SendThrows, sending
  <2>3. /\ j.st # "active" => Thrown(j) = j
        /\ j.st = "active" => Thrown(j).st \in {"queued", "failed"}
    BY <2>1 DEF Thrown, Job
  <2>4. DeliveryMoves(deliverer.job)
    BY <1>0, <2>1, <2>2, <2>3 DEF DeliveryMoves, Live
  <2> QED
    BY <2>1, <2>4
<1>4. CASE FinishDelivery
  <2> DEFINE d == deliverer.job
             j == delivery[d]
             o == IF j.st # "active" THEN outcome[d]
                  ELSE IF deliverer.pc = "accepted" THEN "sent" ELSE "skipped"
  <2>1. d \in DeliveryId /\ j \in Job /\ (deliverer.pc = "accepted" => received[d] > 0)
    <3>1. d \in DeliveryId
      BY <1>4 DEF PipelineInv, AccountingInv, TypeOK, FinishDelivery, DeliveryRun, Idle
    <3>2. deliverer.pc = "accepted" => received[d] >= 1
      BY DEF PipelineInv, AccountingInv, CopiesAccounted
    <3>3. received[d] \in Nat
      BY <1>0, <3>1
    <3> QED
      BY <1>0, <3>1, <3>2, <3>3
  <2>2. /\ delivery' = [delivery EXCEPT ![d] = Finished(j)]
        /\ outcome' = [outcome EXCEPT ![d] = o]
        /\ UNCHANGED <<dispatch, received>>
    BY <1>4 DEF FinishDelivery
  <2>3. /\ j.st # "active" => Finished(j) = j /\ o = outcome[d]
        /\ j.st = "active" => Finished(j).st = "completed" /\ o \in {"sent", "skipped"}
        /\ j.st = "active" /\ o = "sent" => received[d] > 0
    BY <2>1 DEF Finished, Job
  <2> HIDE DEF o
  <2>4. /\ \A e \in DeliveryId \ {d} : delivery'[e] = delivery[e] /\ outcome'[e] = outcome[e]
        /\ delivery'[d] = Finished(j) /\ outcome'[d] = o
    BY <1>0, <2>1, <2>2
  <2>5. DeliveryMoves(deliverer.job)
    BY <2>2, <2>3, <2>4 DEF DeliveryMoves, Live
  <2> QED
    BY <2>1, <2>5
<1>5. CASE EnqueueDelivery
  <2>1. PICK i \in dispatcher.todo :
          delivery' = [delivery EXCEPT ![<<dispatcher.job, dispatcher.run, i>>] = NewJob]
    BY <1>5 DEF EnqueueDelivery
  <2>2. PICK d : d = <<dispatcher.job, dispatcher.run, i>>
    OBVIOUS
  <2>3. /\ dispatcher.pc = "fanout" /\ dispatcher # Idle /\ i \in Positions
        /\ d \in DeliveryId /\ d[1] = dispatcher.job
        /\ UNCHANGED <<dispatch, outcome, received>>
    BY <1>5, <2>2 DEF EnqueueDelivery, sending, PipelineInv, AccountingInv, TypeOK, DispatchRun,
       Idle, DeliveryId
  <2>4. dispatch[d[1]].st # "none"
    BY <2>3 DEF PipelineInv, FanOutInv, RunIsLatest
  <2>5. delivery[d].st = "none"
    BY <2>1, <2>2, <2>3 DEF PipelineInv, FanOutInv, LoopProgress
  <2>6. /\ delivery'[d].st = "queued"
        /\ \A e \in DeliveryId \ {d} : delivery'[e] = delivery[e]
    BY <1>0, <2>1, <2>2, <2>3, FreshJobs
  <2> QED
    BY <2>3, <2>4, <2>5, <2>6 DEF DeliveryMoves
<1> QED
  BY <1>1, <1>2, <1>3, <1>4, <1>5

LEMMA CopySteps ==
  ASSUME PipelineInv, ProviderAccepts
  PROVE  \E d \in DeliveryId : CopyMoves(d)
<1> DEFINE d == deliverer.job
<1>1. /\ d \in DeliveryId /\ delivery[d] \in Job /\ received[d] \in 0 .. MaxRuns
      /\ Accounted(delivery[d]) /\ received[d] < delivery[d].started
  BY DEF ProviderAccepts, PipelineInv, AccountingInv, TypeOK, DeadLetterOnlyWhenExhausted,
     CopiesAccounted, DeliveryRun, Idle
<1>2. delivery[d].started \in 0 .. MaxRuns /\ MaxRuns \in Nat
  BY <1>1, AttemptsAssumption, MaxStallsAssumption DEF Job, MaxRuns
<1>3. received[d] < MaxRuns
  BY <1>1, <1>2
<1>4. delivery[d].started # 0
  BY <1>1, <1>2
<1>5. delivery[d].st # "none"
  BY <1>1, <1>4 DEF Accounted
<1>6. CopyMoves(deliverer.job)
  BY <1>3, <1>5 DEF ProviderAccepts, CopyMoves
<1> QED
  BY <1>1, <1>6

LEMMA StepMoves ==
  ASSUME PipelineInv, [Next]_vars
  PROVE  \/ UNCHANGED <<dispatch, delivery, outcome, received>>
         \/ \E r \in Request : DispatchMoves(r)
         \/ \E d \in DeliveryId : DeliveryMoves(d) \/ CopyMoves(d)
<1>1. CASE UNCHANGED vars
  BY <1>1 DEF vars
<1>2. RepliesOnly => UNCHANGED <<dispatch, delivery, outcome, received>>
  BY RepliesFrame
<1>3. CASE ResolveTargets \/ WorkerCrash \/ AdminEdit
  BY <1>3 DEF ResolveTargets, WorkerCrash, AdminEdit, SaveChannel, DeleteChannel, SaveProfile,
     DeleteProfile, Edit, sending
<1> QED
  BY <1>1, <1>2, <1>3, DispatchSteps, DeliverySteps, CopySteps
  DEF Next, Rest, Route, RepliesOnly, DispatchWorker, DeliveryWorker

-----------------------------------------------------------------------------
(* What was asked, and what came of it *)

\* The loop of a request that names channels goes through the list it sent.
ListIsAsked ==
  dispatcher.pc = "fanout" /\ body[dispatcher.job].channels # Unspecified =>
    dispatcher.source = body[dispatcher.job].channels

\* A completed delivery has its DeliveryResult.
OutcomeRecorded ==
  \A d \in DeliveryId : delivery[d].st = "completed" => outcome[d] # "none"

LEMMA AskedStep ==
  ASSUME PipelineInv, ListIsAsked, OnlyAskedChannels, [Next]_vars
  PROVE  ListIsAsked' /\ OnlyAskedChannels'
<1>0. body' = body
  BY DEF Next, vars, Route, Post, CheckChannel, StoreDispatch, CollapseDispatch, Accept, EnqueueUnavailable,
     ApiCrash,
     DispatchWorker, TakeDispatch, ResolveTargets, EnqueueDelivery, EnqueueDeliveryThrows,
     FinishDispatch, DeliveryWorker, TakeDelivery, ProviderAccepts, FinishDelivery, SendThrows,
     WorkerCrash, StallDispatch, StallDelivery, AdminEdit, SaveChannel, DeleteChannel, SaveProfile,
     DeleteProfile, Edit, Rest, api
<1>1. CASE EnqueueDelivery
  <2>1. PICK i \in dispatcher.todo :
          /\ delivery' = [delivery EXCEPT ![<<dispatcher.job, dispatcher.run, i>>] = NewJob]
          /\ target' = [target EXCEPT ![<<dispatcher.job, dispatcher.run, i>>] = dispatcher.source[i]]
          /\ dispatcher' = [dispatcher EXCEPT !.todo = @ \ {i}]
    BY <1>1 DEF EnqueueDelivery
  <2>2. PICK d : d = <<dispatcher.job, dispatcher.run, i>>
    OBVIOUS
  <2>3. /\ dispatcher \in [pc : {"fanout"}, job : Request, run : 1 .. MaxRuns,
                           source : Lists \cup {ChannelOrder}, todo : SUBSET Positions]
        /\ delivery \in [DeliveryId -> Job] /\ target \in [DeliveryId -> Channel]
    BY <1>1 DEF PipelineInv, AccountingInv, TypeOK, EnqueueDelivery, DispatchRun, Idle
  <2>4. /\ i \in Positions /\ d \in DeliveryId /\ d[1] = dispatcher.job
        /\ dispatcher'.pc = "fanout" /\ dispatcher'.job = dispatcher.job
        /\ dispatcher'.source = dispatcher.source
    BY <2>1, <2>2, <2>3 DEF DeliveryId
  <2>5. /\ target'[d] = dispatcher.source[i]
        /\ \A e \in DeliveryId \ {d} : delivery'[e] = delivery[e] /\ target'[e] = target[e]
    BY <2>1, <2>2, <2>3, <2>4
  <2>6. i \in DOMAIN dispatcher.source
    BY <2>3 DEF PipelineInv, FanOutInv, LoopProgress
  <2>7. body[d[1]].channels # Unspecified =>
          \E j \in DOMAIN body[d[1]].channels : body[d[1]].channels[j] = target'[d]
    BY <2>3, <2>4, <2>5, <2>6 DEF ListIsAsked
  <2>8. \A e \in DeliveryId \ {d} :
          delivery'[e].st # "none" /\ body[e[1]].channels # Unspecified =>
            \E j \in DOMAIN body[e[1]].channels : body[e[1]].channels[j] = target'[e]
    BY <2>5 DEF OnlyAskedChannels
  <2>9. OnlyAskedChannels'
    BY <1>0, <2>7, <2>8 DEF OnlyAskedChannels
  <2> QED
    BY <1>0, <2>3, <2>4, <2>9 DEF ListIsAsked
<1>2. CASE ~ EnqueueDelivery
  <2>1. /\ target' = target
        /\ \A d \in DeliveryId : delivery'[d].st # "none" => delivery[d].st # "none"
    <3>1. target' = target
      BY <1>2 DEF Next, vars, Route, Post, CheckChannel, StoreDispatch, CollapseDispatch, Accept, EnqueueUnavailable,
     ApiCrash,
         DispatchWorker, TakeDispatch, ResolveTargets, EnqueueDeliveryThrows, FinishDispatch,
         DeliveryWorker, TakeDelivery, ProviderAccepts, FinishDelivery, SendThrows, WorkerCrash,
         StallDispatch, StallDelivery, AdminEdit, SaveChannel, DeleteChannel, SaveProfile,
         DeleteProfile, Edit, Rest
    <3>2. \/ UNCHANGED delivery
          \/ FinishDelivery \/ SendThrows
          \/ \E d \in DeliveryId : TakeDelivery(d) \/ StallDelivery(d)
      BY <1>2 DEF Next, vars, Route, Post, CheckChannel, StoreDispatch, CollapseDispatch, Accept, EnqueueUnavailable,
     ApiCrash,
         DispatchWorker, TakeDispatch, ResolveTargets, EnqueueDeliveryThrows, FinishDispatch,
         DeliveryWorker, ProviderAccepts, WorkerCrash, StallDispatch, AdminEdit, SaveChannel,
         DeleteChannel, SaveProfile, DeleteProfile, Edit, Rest
    <3>3. delivery \in [DeliveryId -> Job]
      BY DEF PipelineInv, AccountingInv, TypeOK
    <3>4. ASSUME NEW d \in DeliveryId, TakeDelivery(d) \/ StallDelivery(d)
          PROVE  \A e \in DeliveryId : delivery'[e].st # "none" => delivery[e].st # "none"
      BY <3>3, <3>4 DEF TakeDelivery, StallDelivery
    <3>5. ASSUME FinishDelivery \/ SendThrows
          PROVE  \A e \in DeliveryId : delivery'[e].st # "none" => delivery[e].st # "none"
      <4> DEFINE j == delivery[deliverer.job]
      <4>1. /\ deliverer.job \in DeliveryId
            /\ delivery' = [delivery EXCEPT ![deliverer.job] = Finished(j)]
               \/ delivery' = [delivery EXCEPT ![deliverer.job] = Thrown(j)]
        BY <3>5 DEF FinishDelivery, SendThrows, PipelineInv, AccountingInv, TypeOK, DeliveryRun, Idle
      <4>2. j.st = "none" => Finished(j) = j /\ Thrown(j) = j
        BY DEF Finished, Thrown
      <4> QED
        BY <3>3, <4>1, <4>2
    <3> QED
      BY <3>1, <3>2, <3>4, <3>5
  <2>2. OnlyAskedChannels'
    BY <1>0, <2>1 DEF OnlyAskedChannels
  <2>3. ASSUME ResolveTargets
        PROVE  ListIsAsked'
    BY <1>0, <2>3 DEF ListIsAsked, ResolveTargets
  <2>4. ASSUME dispatcher' = dispatcher
        PROVE  ListIsAsked'
    BY <1>0, <2>4 DEF ListIsAsked
  <2>5. ASSUME dispatcher'.pc # "fanout"
        PROVE  ListIsAsked'
    BY <2>5 DEF ListIsAsked
  <2>6. ResolveTargets \/ dispatcher' = dispatcher \/ dispatcher'.pc # "fanout"
    BY <1>2 DEF Next, vars, Route, Post, CheckChannel, StoreDispatch, CollapseDispatch, Accept, EnqueueUnavailable,
     ApiCrash,
       DispatchWorker, TakeDispatch, EnqueueDeliveryThrows, FinishDispatch,
       DeliveryWorker, TakeDelivery, ProviderAccepts, FinishDelivery, SendThrows, WorkerCrash,
       StallDispatch, StallDelivery, AdminEdit, SaveChannel, DeleteChannel, SaveProfile,
       DeleteProfile, Edit, Rest, worker, Idle
  <2> QED
    BY <2>2, <2>3, <2>4, <2>5, <2>6
<1> QED
  BY <1>1, <1>2

LEMMA OutcomeStep ==
  ASSUME PipelineInv, OutcomeRecorded, [Next]_vars
  PROVE  OutcomeRecorded'
<1>1. CASE UNCHANGED <<dispatch, delivery, outcome, received>>
  BY <1>1 DEF OutcomeRecorded
<1>2. ASSUME NEW r \in Request, DispatchMoves(r)
      PROVE  OutcomeRecorded'
  BY <1>2 DEF OutcomeRecorded, DispatchMoves
<1>3. ASSUME NEW d \in DeliveryId, DeliveryMoves(d)
      PROVE  OutcomeRecorded'
  BY <1>3 DEF OutcomeRecorded, DeliveryMoves, Live
<1>4. ASSUME NEW d \in DeliveryId, CopyMoves(d)
      PROVE  OutcomeRecorded'
  BY <1>4 DEF OutcomeRecorded, CopyMoves
<1> QED
  BY <1>1, <1>2, <1>3, <1>4, StepMoves

-----------------------------------------------------------------------------
(* The contract *)

\* How the states of the jobs map to what was promised.
LEMMA PromiseOfState ==
  ASSUME NEW r \in Request
  PROVE  /\ dispatch[r].st = "none" => PromiseOf(r) = "open"
         /\ dispatch[r].st \in Live => PromiseOf(r) = "accepted"
         /\ dispatch[r].st = "completed" => PromiseOf(r) = "done"
         /\ dispatch[r].st = "failed" => PromiseOf(r) = "dead"
BY DEF PromiseOf, Live

LEMMA DebtOfState ==
  ASSUME NEW d \in DeliveryId
  PROVE  /\ delivery[d].st = "none" => DebtOf(d) = "none"
         /\ delivery[d].st \in Live => DebtOf(d) = "owed"
         /\ delivery[d].st = "completed" => DebtOf(d) = outcome[d]
         /\ delivery[d].st = "failed" => DebtOf(d) = "dead"
BY DEF DebtOf, Live

\* A move of a dispatch job accepts a request, closes it, or changes no promise.
LEMMA DispatchPromise ==
  ASSUME NEW r \in Request, DispatchMoves(r)
  PROVE  [Contract!Next]_(Contract!contractVars)
<1>1. \A d \in DeliveryId : DebtOf(d)' = DebtOf(d)
  BY DEF DispatchMoves, DebtOf
<1>2. [d \in DeliveryId |-> DebtOf(d)]' = [d \in DeliveryId |-> DebtOf(d)] /\ received' = received
  BY <1>1 DEF DispatchMoves
<1>3. \A q \in Request \ {r} : PromiseOf(q)' = PromiseOf(q)
  BY DEF DispatchMoves, PromiseOf
<1>4. \/ PromiseOf(r)' = PromiseOf(r)
      \/ PromiseOf(r) = "open" /\ PromiseOf(r)' = "accepted"
      \/ PromiseOf(r) = "accepted" /\ PromiseOf(r)' \in {"done", "dead"}
  BY DEF DispatchMoves, PromiseOf, Live, Terminal
<1> DEFINE f == [q \in Request |-> PromiseOf(q)]
           v == PromiseOf(r)'
<1>5. f' = [f EXCEPT ![r] = v] /\ f[r] = PromiseOf(r)
  BY <1>3
<1>6. CASE PromiseOf(r)' = PromiseOf(r)
  BY <1>2, <1>3, <1>6 DEF Contract!contractVars
<1>7. CASE PromiseOf(r) = "open" /\ PromiseOf(r)' = "accepted"
  <2>1. Contract!Accept(r)
    BY <1>2, <1>5, <1>7 DEF Contract!Accept
  <2> QED
    BY <2>1 DEF Contract!Next
<1>8. CASE PromiseOf(r) = "accepted" /\ PromiseOf(r)' \in {"done", "dead"}
  <2>1. ASSUME NEW verdict, verdict = v
        PROVE  Contract!Close(r, verdict)
    BY <1>2, <1>5, <1>8, <2>1 DEF Contract!Close
  <2> QED
    BY <1>8, <2>1 DEF Contract!Next
<1> QED
  BY <1>4, <1>6, <1>7, <1>8

\* A move of a delivery job makes a debt, settles it, or changes none.
LEMMA DeliveryDebt ==
  ASSUME TypeOK, NEW d \in DeliveryId, DeliveryMoves(d)
  PROVE  [Contract!Next]_(Contract!contractVars)
<1>0. d[1] \in Request
  BY DeliveryIdParts
<1>1. \A q \in Request : PromiseOf(q)' = PromiseOf(q)
  BY DEF DeliveryMoves, PromiseOf
<1>2. [q \in Request |-> PromiseOf(q)]' = [q \in Request |-> PromiseOf(q)] /\ received' = received
  BY <1>1 DEF DeliveryMoves
<1>3. \A e \in DeliveryId \ {d} : DebtOf(e)' = DebtOf(e)
  BY DEF DeliveryMoves, DebtOf
<1> DEFINE f == [e \in DeliveryId |-> DebtOf(e)]
           v == DebtOf(d)'
<1>4. f' = [f EXCEPT ![d] = v] /\ f[d] = DebtOf(d)
  BY <1>3
<1>5. CASE delivery'[d] = delivery[d] /\ outcome'[d] = outcome[d]
  <2>1. DebtOf(d)' = DebtOf(d)
    BY <1>5 DEF DebtOf
  <2> QED
    BY <1>2, <1>3, <2>1 DEF Contract!contractVars
<1>6. CASE delivery[d].st = "none" /\ dispatch[d[1]].st # "none" /\ delivery'[d].st = "queued"
  <2>1. DebtOf(d) = "none" /\ DebtOf(d)' = "owed"
    BY <1>6 DEF DebtOf
  <2>2. PromiseOf(d[1]) # "open"
    <3>1. dispatch[d[1]].st \in JobState
      BY <1>0 DEF TypeOK, Job
    <3> QED
      BY <1>6, <3>1 DEF PromiseOf, JobState
  <2>3. Contract!Owe(d)
    BY <1>0, <1>2, <1>4, <2>1, <2>2 DEF Contract!Owe, RequestOfDelivery
  <2> QED
    BY <2>3 DEF Contract!Next
<1>7. CASE delivery[d].st \in Live /\ delivery'[d].st \in Live
  <2>1. DebtOf(d)' = DebtOf(d)
    BY <1>7 DEF DebtOf, Live
  <2> QED
    BY <1>2, <1>3, <2>1 DEF Contract!contractVars
<1>8. ASSUME delivery[d].st \in Live,
             \/ delivery'[d].st = "failed"
             \/ /\ delivery'[d].st = "completed" /\ outcome'[d] \in {"sent", "skipped"}
                /\ outcome'[d] = "sent" => received[d] > 0
      PROVE  Contract!Next
  <2>1. DebtOf(d) = "owed" /\ v \in {"sent", "skipped", "dead"} /\ (v = "sent" => received[d] > 0)
    BY <1>8 DEF DebtOf, Live
  <2>2. ASSUME NEW how, how = v
        PROVE  Contract!Settle(d, how)
    BY <1>2, <1>4, <2>1, <2>2 DEF Contract!Settle
  <2> QED
    BY <2>1, <2>2 DEF Contract!Next, Contract!Settlement
<1> QED
  BY <1>5, <1>6, <1>7, <1>8 DEF DeliveryMoves

LEMMA CopyDebt ==
  ASSUME OutcomeRecorded, TypeOK, NEW d \in DeliveryId, CopyMoves(d)
  PROVE  Contract!Next
<1>1. /\ [q \in Request |-> PromiseOf(q)]' = [q \in Request |-> PromiseOf(q)]
      /\ [e \in DeliveryId |-> DebtOf(e)]' = [e \in DeliveryId |-> DebtOf(e)]
  BY DEF CopyMoves, PromiseOf, DebtOf
<1>2. delivery[d].st \in JobState
  BY DEF TypeOK, Job
<1>3. DebtOf(d) # "none"
  BY <1>2 DEF CopyMoves, OutcomeRecorded, DebtOf, JobState
<1>4. Contract!Copy(d)
  BY <1>1, <1>3 DEF CopyMoves, Contract!Copy
<1> QED
  BY <1>4 DEF Contract!Next

-----------------------------------------------------------------------------
(* The theorems *)

\* The invariant the theorems below are read off from.
THEOREM PipelineInvariant == Spec => []PipelineInv
<1>1. Init => PipelineInv
  <2> SUFFICES ASSUME Init PROVE PipelineInv
    OBVIOUS
  <2>1. AccountingInv
    BY AccountingInit
  <2>2. \A r \in Request : dispatch[r].st = "none" /\ reply[r] = "unsent"
    BY FreshJobs DEF Init
  <2>3. \A d \in DeliveryId : delivery[d].st = "none"
    BY FreshJobs DEF Init
  <2>4. FanOutInv
    BY <2>2, <2>3
    DEF Init, FanOutInv, RunIsLatest, LoopProgress, OneDeliveryPerChannel, CompleteFanOut, Idle
  <2>5. ApiInv
    BY <2>2 DEF ApiInv, AcceptedIsBacked, AddedIsBacked
  <2>6. QED
    BY <2>1, <2>4, <2>5 DEF PipelineInv
<1>2. PipelineInv /\ [Next]_vars => PipelineInv'
  BY AccountingNext, FanOutNext, ApiNext DEF PipelineInv, FanOutInv
<1>3. QED
  BY <1>1, <1>2, PTL DEF Spec

(***************************************************************************)
(* Types are kept: in particular no sequence of throws, crashes and stalls *)
(* takes a counter of a BullMQ job beyond the retry configuration.         *)
(***************************************************************************)
THEOREM TypeCorrect == Spec => []TypeOK
<1>1. PipelineInv => TypeOK
  BY DEF PipelineInv, AccountingInv
<1>2. QED
  BY <1>1, PipelineInvariant, PTL

(***************************************************************************)
(* Retry accounting: a dead letter has used up its attempts or its stalls, *)
(* and a job that still lives has some of both left.                       *)
(***************************************************************************)
THEOREM DeadLettersAreExhausted == Spec => []DeadLetterOnlyWhenExhausted
<1>1. PipelineInv => DeadLetterOnlyWhenExhausted
  BY DEF PipelineInv, AccountingInv
<1>2. QED
  BY <1>1, PipelineInvariant, PTL

(***************************************************************************)
(* A delivery reported as sent was received, and none is received more     *)
(* often than its handler was started (at most Attempts + MaxStalls).      *)
(***************************************************************************)
THEOREM SentDeliveriesWereReceived == Spec => []SentWasReceived
<1>1. PipelineInv => SentWasReceived
  BY DEF PipelineInv, AccountingInv, CopiesAccounted
<1>2. QED
  BY <1>1, PipelineInvariant, PTL

\* One run of handleDispatch enqueues at most one delivery per channel.
THEOREM FanOutRepeatsNoChannel == Spec => []OneDeliveryPerChannel
<1>1. PipelineInv => OneDeliveryPerChannel
  BY DEF PipelineInv, FanOutInv
<1>2. QED
  BY <1>1, PipelineInvariant, PTL

\* A completed dispatch job has a delivery for every channel it resolved.
THEOREM FanOutIsComplete == Spec => []CompleteFanOut
<1>1. PipelineInv => CompleteFanOut
  BY DEF PipelineInv, FanOutInv
<1>2. QED
  BY <1>1, PipelineInvariant, PTL

(***************************************************************************)
(* A 202 names a dispatch job that was stored; after a 400 or 401 there is *)
(* none.  What lies between Redis taking the add() and the answer (a crash *)
(* of the API, a rejection, another request collapsing onto the job) does  *)
(* not change that, for any number of requests and edits.                  *)
(***************************************************************************)
THEOREM AcceptedRequestsAreBacked == Spec => []AcceptedIsBacked
<1>1. PipelineInv => AcceptedIsBacked
  BY DEF PipelineInv, ApiInv
<1>2. QED
  BY <1>1, PipelineInvariant, PTL

\* A dead letter is not revived, and a completed job is not run again.
THEOREM SettledStaysSettled == Spec => SettledForGood
<1>1. ASSUME PipelineInv, [Next]_vars
      PROVE  /\ \A r \in Request : dispatch[r].st \in Terminal => dispatch'[r] = dispatch[r]
             /\ \A d \in DeliveryId :
                  delivery[d].st \in Terminal =>
                    delivery'[d] = delivery[d] /\ outcome'[d] = outcome[d]
  <2>1. Terminal \cap Live = {} /\ "none" \notin Terminal
    BY DEF Terminal, Live
  <2>2. ASSUME NEW r \in Request, DispatchMoves(r), NEW q \in Request, dispatch[q].st \in Terminal
        PROVE  dispatch'[q] = dispatch[q]
    BY <2>1, <2>2 DEF DispatchMoves
  <2>3. ASSUME NEW d \in DeliveryId, DeliveryMoves(d), NEW e \in DeliveryId,
               delivery[e].st \in Terminal
        PROVE  delivery'[e] = delivery[e] /\ outcome'[e] = outcome[e]
    BY <2>1, <2>3 DEF DeliveryMoves
  <2>4. ASSUME NEW r \in Request, DispatchMoves(r)
        PROVE  UNCHANGED <<delivery, outcome>>
    BY <2>4 DEF DispatchMoves
  <2>5. ASSUME NEW d \in DeliveryId, DeliveryMoves(d)
        PROVE  UNCHANGED dispatch
    BY <2>5 DEF DeliveryMoves
  <2>6. ASSUME NEW d \in DeliveryId, CopyMoves(d)
        PROVE  UNCHANGED <<dispatch, delivery, outcome>>
    BY <2>6 DEF CopyMoves
  <2> QED
    BY <1>1, <2>2, <2>3, <2>4, <2>5, <2>6, StepMoves
<1>2. PipelineInv /\ [Next]_vars =>
        [ /\ \A r \in Request : dispatch[r].st \in Terminal => dispatch'[r] = dispatch[r]
          /\ \A d \in DeliveryId :
               delivery[d].st \in Terminal =>
                 delivery'[d] = delivery[d] /\ outcome'[d] = outcome[d] ]_vars
  BY <1>1
<1> QED
  BY <1>2, PipelineInvariant, PTL DEF Spec, SettledForGood

\* A request that names channels is delivered to no other.
THEOREM OnlyAskedAreSent == Spec => []OnlyAskedChannels
<1>1. Init => ListIsAsked /\ OnlyAskedChannels
  <2> SUFFICES ASSUME Init PROVE ListIsAsked /\ OnlyAskedChannels
    OBVIOUS
  <2>1. \A d \in DeliveryId : delivery[d].st = "none"
    BY FreshJobs DEF Init
  <2> QED
    BY <2>1 DEF Init, ListIsAsked, OnlyAskedChannels, Idle
<1>2. PipelineInv /\ ListIsAsked /\ OnlyAskedChannels /\ [Next]_vars
        => ListIsAsked' /\ OnlyAskedChannels'
  BY AskedStep
<1> QED
  BY <1>1, <1>2, PipelineInvariant, PTL DEF Spec

(***************************************************************************)
(* The pipeline implements its contract: whatever is retried, dropped with *)
(* a crash or run twice, requests and debts move only as promised, and     *)
(* "sent" is only said of a delivery that a provider has.                  *)
(***************************************************************************)
THEOREM PipelineImplementsContract == Spec => ImplementsContract
<1>1. Init => Contract!Init /\ OutcomeRecorded
  <2> SUFFICES ASSUME Init
               PROVE  Contract!Init /\ OutcomeRecorded
    OBVIOUS
  <2>1. /\ \A r \in Request : dispatch[r].st = "none"
        /\ \A d \in DeliveryId : delivery[d].st = "none"
        /\ received = [d \in DeliveryId |-> 0]
    BY FreshJobs DEF Init
  <2>2. /\ \A r \in Request : PromiseOf(r) = "open"
        /\ \A d \in DeliveryId : DebtOf(d) = "none"
    BY <2>1, PromiseOfState, DebtOfState
  <2> QED
    BY <2>1, <2>2 DEF Contract!Init, OutcomeRecorded
<1>2. PipelineInv /\ OutcomeRecorded /\ [Next]_vars => OutcomeRecorded'
  BY OutcomeStep
<1>3. PipelineInv /\ OutcomeRecorded /\ [Next]_vars => [Contract!Next]_(Contract!contractVars)
  <2> SUFFICES ASSUME PipelineInv, OutcomeRecorded, [Next]_vars
               PROVE  [Contract!Next]_(Contract!contractVars)
    OBVIOUS
  <2>1. CASE UNCHANGED <<dispatch, delivery, outcome, received>>
    BY <2>1 DEF Contract!contractVars, PromiseOf, DebtOf
  <2>2. TypeOK
    BY DEF PipelineInv, AccountingInv
  <2> QED
    BY <2>1, <2>2, StepMoves, DispatchPromise, DeliveryDebt, CopyDebt
<1> QED
  BY <1>1, <1>2, <1>3, PipelineInvariant, PTL DEF Spec, ImplementsContract, Contract!Spec
=============================================================================
