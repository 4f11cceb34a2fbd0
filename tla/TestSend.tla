------------------------------- MODULE TestSend -------------------------------
(***************************************************************************)
(* Proving a channel end to end, and what goes on around it: runTestSend   *)
(* (src/admin/test-send-service.ts), for the panel and for the MCP tool    *)
(* test_channel, posts a notification with the first profile's token and   *)
(* then looks for its outcome in the log of the worker, which MCP clients' *)
(* send_notification calls fill too; getStatusSummary reads the same log.  *)
(* Redis may be out of reach for a while: ioredis then holds the commands  *)
(* (maxRetriesPerRequest: null), so the gateway answers neither POST       *)
(* /notify nor GET /health until it is back.                               *)
(*                                                                         *)
(* The queues between the gateway and the adapter are the ones of          *)
(* NotifyPipeline; here a notification it took is owed until it is settled.*)
(***************************************************************************)
EXTENDS ChannelAdapters, Sequences, FiniteSets

CONSTANTS
  Call,        \* calls on the admin server and the MCP servers
  Tool,        \* the tool of each: "test", "send" or "status"
  Instance,    \* channel instance ids
  Type,        \* the type of each
  TargetOf,    \* the instance each call names
  Note,        \* what each call sends
  Token,       \* tokens a profile may have
  NoToken,
  Attempts,    \* the queue's maxAttempts
  MaxPolls,    \* DEFAULT_POLL_ATTEMPTS
  MaxEvents,   \* MAX_EVENTS, the tail of the log that is looked at
  MaxClock,    \* bound on the clock
  MaxEdits,    \* bound on edits of the configuration
  MaxOutages   \* bound on outages of Redis

ASSUME SendAssumption ==
  /\ Tool \in [Call -> {"test", "send", "status"}]
  /\ Type \in [Instance -> Kind]
  /\ TargetOf \in [Call -> Instance]
  /\ Note \in [Call -> Notification]
  /\ NoToken \notin Token
  /\ {Attempts, MaxPolls, MaxEvents} \subseteq Nat \ {0}
  /\ {MaxClock, MaxEdits, MaxOutages} \subseteq Nat

VARIABLES
  setting,   \* the channels table: "absent", "disabled" or "enabled"
  token,     \* the first profile's token, or NoToken
  pc,        \* where each call stands on its client's side
  started,   \* its sentAt and the token it took
  polls,     \* reads of the log so far
  asks,      \* a status call's requests without an answer
  reply,     \* its answer
  request,   \* where its POST stands at the gateway
  delivery,  \* "none", "owed", "sent", "skipped" or "dead"
  attempts,  \* failed attempts of its delivery
  copies,    \* history: the messages its provider took
  log,       \* the worker's log
  redis, clock, edits, outages

config == <<setting, token>>
client == <<pc, started, polls, asks, reply>>
gateway == <<request, delivery, attempts, copies, log>>
world == <<redis, clock, edits, outages>>
sendVars == <<config, client, gateway, world>>

Nothing == [end |-> "none", events |-> {}]
End(how) == [end |-> how, events |-> {}]

-----------------------------------------------------------------------------
(* The log of the worker *)

\* parseWorkerDeliveryLogs: the lines that are events, by their places in the log.
\* deliver() words its failures "for instance".
Parsed == {n \in DOMAIN log : log[n].msg \in {"notification sent", "delivery failed for channel"}}

Recent(lines) == {n \in lines : Cardinality({later \in lines : later > n}) < MaxEvents}

Events == Recent(Parsed)

Matches(c) ==
  {n \in Events : log[n].instance = TargetOf[c] /\ log[n].time >= started[c].at}

Line(c, message) ==
  [instance |-> TargetOf[c], msg |-> message, time |-> clock, call |-> c]

-----------------------------------------------------------------------------
(* The tools *)

Reply(c, answer) ==
  /\ pc' = [pc EXCEPT ![c] = "replied"]
  /\ reply' = [reply EXCEPT ![c] = answer]

\* The checks of runTestSend; send_notification posts at once.
Start(c) ==
  /\ pc[c] = "idle" /\ Tool[c] # "status"
  /\ IF Tool[c] = "test" /\ setting[TargetOf[c]] # "enabled"
     THEN /\ Reply(c, End(setting[TargetOf[c]]))
          /\ UNCHANGED <<started, request>>
     ELSE /\ pc' = [pc EXCEPT ![c] = "posting"]
          /\ started' = [started EXCEPT ![c] = [at |-> clock, token |-> token]]
          /\ request' = [request EXCEPT ![c] = "sent"]
          /\ UNCHANGED reply
  /\ UNCHANGED <<config, polls, asks, delivery, attempts, copies, log, world>>

\* What the client makes of an answer: sendTestNotification, send_notification.
Answer2xx(c) ==
  IF Tool[c] = "test" THEN pc' = [pc EXCEPT ![c] = "polling"] /\ UNCHANGED reply
  ELSE Reply(c, End("queued"))

\* A refused or reset connection, or fetch's own timeout; the POST may be through.
GiveUp(c) ==
  /\ pc[c] = "posting"
  /\ Reply(c, End("unreachable"))
  /\ \/ request' = request
     \/ request[c] = "sent" /\ request' = [request EXCEPT ![c] = "none"]
  /\ UNCHANGED <<config, started, polls, asks, delivery, attempts, copies, log, world>>

\* Mutant: nothing is returned after the loop.
PollUnanswered(c) ==
  /\ pc[c] = "polling" /\ polls[c] < MaxPolls
  /\ \E seen \in {{}, Matches(c)} :
       /\ polls' = [polls EXCEPT ![c] = @ + 1]
       /\ IF seen # {} THEN Reply(c, End("ok")) ELSE UNCHANGED <<pc, reply>>
  /\ UNCHANGED <<config, started, asks, gateway, world>>

\* fetchWorkerDeliveryEvents: a command that fails has seen nothing.
Seen(c) == {{}, Matches(c)}

\* The last of what was seen is the outcome.
Verdict(seen) ==
  IF \E last \in seen : (\A n \in seen : n <= last) /\ log[last].msg = "notification sent"
  THEN "ok" ELSE "failed"

Poll(c) ==
  /\ pc[c] = "polling"
  /\ \E seen \in Seen(c) :
       /\ polls' = [polls EXCEPT ![c] = @ + 1]
       /\ IF seen # {} THEN Reply(c, End(Verdict(seen)))
          ELSE IF polls[c] + 1 = MaxPolls THEN Reply(c, End("unobserved"))
          ELSE UNCHANGED <<pc, reply>>
  /\ UNCHANGED <<config, started, asks, gateway, world>>

-----------------------------------------------------------------------------
(* The status of getStatusSummary: two requests at once, then the log *)

StartStatus(c) ==
  /\ pc[c] = "idle" /\ Tool[c] = "status"
  /\ pc' = [pc EXCEPT ![c] = "asking"]
  /\ asks' = [asks EXCEPT ![c] = {"health", "channels"}]
  /\ UNCHANGED <<config, started, polls, reply, gateway, world>>

\* allSettled: an answer, which /health owes to a ping of Redis, or a failure.
AskSettles(c, ask) ==
  /\ pc[c] = "asking" /\ ask \in asks[c]
  /\ asks' = [asks EXCEPT ![c] = @ \ {ask}]
  /\ UNCHANGED <<config, pc, started, polls, reply, gateway, world>>

ReadLog(c) ==
  /\ pc[c] = "asking" /\ asks[c] = {}
  /\ \E lines \in {{}, Events} :
       Reply(c, [end |-> "status", events |-> {log[n] : n \in lines}])
  /\ UNCHANGED <<config, started, polls, asks, gateway, world>>

-----------------------------------------------------------------------------
(* The gateway *)

Admitted(c) ==
  started[c].token # NoToken /\ started[c].token = token /\ setting[TargetOf[c]] # "absent"

\* 401 and 400.
Refuse(c) ==
  /\ request[c] = "sent" /\ ~ Admitted(c)
  /\ request' = [request EXCEPT ![c] = "none"]
  /\ IF pc[c] = "posting" THEN Reply(c, End("refused")) ELSE UNCHANGED <<pc, reply>>
  /\ UNCHANGED <<config, started, polls, asks, delivery, attempts, copies, log, world>>

Admit(c) ==
  /\ request[c] = "sent" /\ Admitted(c)
  /\ request' = [request EXCEPT ![c] = "adding"]
  /\ UNCHANGED <<config, client, delivery, attempts, copies, log, world>>

\* Queue.add waits for Redis, which stores the job.
Add(c) ==
  /\ request[c] = "adding" /\ redis
  /\ delivery' = [delivery EXCEPT ![c] = "owed"]
  /\ request' = [request EXCEPT ![c] = "taken"]
  /\ UNCHANGED <<config, client, attempts, copies, log, world>>

\* Mutant: 202 without waiting for the queue.
AcceptUnawaited(c) ==
  /\ request[c] \in {"adding", "taken"} /\ pc[c] = "posting"
  /\ Answer2xx(c)
  /\ UNCHANGED <<config, started, polls, asks, gateway, world>>

\* 202, once add() has resolved, unless the client is gone.
Accept(c) ==
  /\ request[c] = "taken" /\ pc[c] = "posting"
  /\ Answer2xx(c)
  /\ UNCHANGED <<config, started, polls, asks, gateway, world>>

\* 503: an error of Redis rejects add(), before or after the job is stored.
Unavailable(c) ==
  /\ \/ request[c] = "adding" /\ redis /\ request' = [request EXCEPT ![c] = "none"]
     \/ request[c] = "taken" /\ pc[c] = "posting" /\ request' = request
  /\ IF pc[c] = "posting" THEN Reply(c, End("unavailable")) ELSE UNCHANGED <<pc, reply>>
  /\ UNCHANGED <<config, started, polls, asks, delivery, attempts, copies, log, world>>

-----------------------------------------------------------------------------
(* The worker *)

\* A row that is gone or disabled: no attempt, and a line nobody looks for.
Skip(c) ==
  /\ delivery[c] = "owed" /\ redis
  /\ setting[TargetOf[c]] # "enabled"
  /\ delivery' = [delivery EXCEPT ![c] = "skipped"]
  /\ UNCHANGED <<config, client, request, attempts, copies, log, world>>

\* deliver() on the adapter of the instance; what throws is retried.
Deliver(c) ==
  LET kind == Type[TargetOf[c]]
      note == Truncated(kind, Note[c])
  IN  /\ delivery[c] = "owed" /\ redis
      /\ setting[TargetOf[c]] = "enabled"
      /\ \E outcome \in Outcomes(kind, Text(kind, note)) :
           /\ copies' = IF outcome[1] THEN [copies EXCEPT ![c] = @ \cup {note.message}] ELSE copies
           /\ IF Throws(kind, outcome[2])
              THEN /\ log' = Append(log, Line(c, "delivery failed for instance"))
                   /\ attempts' = [attempts EXCEPT ![c] = @ + 1]
                   /\ delivery' = [delivery EXCEPT ![c] =
                                     IF attempts[c] + 1 = Attempts THEN "dead" ELSE "owed"]
              ELSE /\ log' = Append(log, Line(c, "notification sent"))
                   /\ delivery' = [delivery EXCEPT ![c] = "sent"]
                   /\ UNCHANGED attempts
      /\ UNCHANGED <<config, client, request, world>>

-----------------------------------------------------------------------------
(* The world *)

Edit ==
  /\ edits < MaxEdits /\ edits' = edits + 1
  /\ \/ /\ \E i \in Instance : \E value \in {"absent", "disabled", "enabled"} \ {setting[i]} :
             setting' = [setting EXCEPT ![i] = value]
        /\ UNCHANGED token
     \/ token' \in (Token \cup {NoToken}) \ {token} /\ UNCHANGED setting
  /\ UNCHANGED <<client, gateway, redis, clock, outages>>

LoseRedis ==
  /\ redis /\ outages < MaxOutages
  /\ redis' = FALSE /\ outages' = outages + 1
  /\ UNCHANGED <<config, client, gateway, clock, edits>>

FindRedis ==
  /\ ~ redis /\ redis' = TRUE
  /\ UNCHANGED <<config, client, gateway, clock, edits, outages>>

Pass ==
  /\ clock < MaxClock /\ clock' = clock + 1
  /\ UNCHANGED <<config, client, gateway, redis, edits, outages>>

SendInit ==
  /\ setting \in [Instance -> {"disabled", "enabled"}]
  /\ token \in Token \cup {NoToken}
  /\ pc = [c \in Call |-> "idle"]
  /\ started = [c \in Call |-> [at |-> 0, token |-> NoToken]]
  /\ polls = [c \in Call |-> 0]
  /\ asks = [c \in Call |-> {}]
  /\ reply = [c \in Call |-> Nothing]
  /\ request = [c \in Call |-> "none"]
  /\ delivery = [c \in Call |-> "none"]
  /\ attempts = [c \in Call |-> 0]
  /\ copies = [c \in Call |-> {}]
  /\ log = <<>>
  /\ redis = TRUE /\ clock = 0 /\ edits = 0 /\ outages = 0

ClientStep(c) == GiveUp(c) \/ Poll(c) \/ ReadLog(c) \/ \E ask \in asks[c] : AskSettles(c, ask)
ServerStep(c) ==
  Refuse(c) \/ Admit(c) \/ Add(c) \/ Accept(c) \/ Unavailable(c) \/ Skip(c) \/ Deliver(c)

SendNext ==
  \/ \E c \in Call : Start(c) \/ StartStatus(c) \/ ClientStep(c) \/ ServerStep(c)
  \/ Edit \/ LoseRedis \/ FindRedis \/ Pass

(***************************************************************************)
(* A client's awaits end: fetch has a timeout for headers, and `docker     *)
(* compose logs` returns.  The gateway and the worker do what they can,    *)
(* and Redis comes back.                                                   *)
(***************************************************************************)
SendFairness ==
  /\ \A c \in Call : WF_sendVars(ClientStep(c)) /\ WF_sendVars(ServerStep(c))
  /\ WF_sendVars(FindRedis)

SendSpec == SendInit /\ [][SendNext]_sendVars /\ SendFairness

-----------------------------------------------------------------------------
(* Properties *)

Ends == {"none", "absent", "disabled", "unreachable", "refused", "unavailable", "queued", "ok",
         "failed", "unobserved", "status"}

(***************************************************************************)
(* Every variable stays in its type, a delivery has its attempts counted   *)
(* (job attempts of the delivery queue), and a call polls at most as often *)
(* as runTestSend's loop allows.                                           *)
(***************************************************************************)
SendTypeOK ==
  /\ setting \in [Instance -> {"absent", "disabled", "enabled"}]
  /\ token \in Token \cup {NoToken}
  /\ pc \in [Call -> {"idle", "posting", "polling", "asking", "replied"}]
  /\ started \in [Call -> [at : Nat, token : Token \cup {NoToken}]]
  /\ polls \in [Call -> 0..MaxPolls]
  /\ asks \in [Call -> SUBSET {"health", "channels"}]
  /\ reply = [c \in Call |-> reply[c]] /\ \A c \in Call : reply[c].end \in Ends
  /\ request \in [Call -> {"none", "sent", "adding", "taken"}]
  /\ delivery \in [Call -> {"none", "owed", "sent", "skipped", "dead"}]
  /\ attempts \in [Call -> 0..Attempts]
  /\ copies \in [Call -> SUBSET Nat]
  /\ \A c \in Call : delivery[c] = "dead" <=> attempts[c] = Attempts
  /\ redis \in BOOLEAN /\ clock \in Nat /\ edits \in Nat /\ outages \in Nat

\* A provider has a copy of the notification of a call on c's instance.
Proof(c, line) == line.instance = TargetOf[c] /\ copies[line.call] # {}

(***************************************************************************)
(* "proving delivery end-to-end, not just enqueued" (test-send-service.ts: *)
(* 6): when a test is answered ok, the provider of that channel took a     *)
(* notification after the test began, the test's own unless another call   *)
(* was at work on the channel.  The same holds of every delivery a status  *)
(* shows as sent, with providers that word their errors in a 2xx too.      *)
(***************************************************************************)
OkMeansReceived ==
  \A c \in Call :
    /\ reply[c].end = "ok" =>
         \E n \in DOMAIN log : log[n].time >= started[c].at /\ Proof(c, log[n])
    /\ reply[c].end = "ok" /\ (\A d \in Call \ {c} : copies[d] = {}) => copies[c] # {}
    /\ \A event \in reply[c].events :
         event.msg = "notification sent" => copies[event.call] # {}

(***************************************************************************)
(* A 202 is only given for a notification the queue has: an MCP client     *)
(* told "Notification queued", and a test that polls, have one that is     *)
(* owed or settled, outages of Redis or not (notify.ts: 63).               *)
(***************************************************************************)
QueuedIsOwed ==
  \A c \in Call : pc[c] = "polling" \/ reply[c].end \in {"queued", "ok", "unobserved"} => delivery[c] # "none"

(***************************************************************************)
(* What a provider takes is the message that was sent, or as much of it as *)
(* the channel's limit lets through, ellipsis included (TruncatingChannel).*)
(***************************************************************************)
MessageFits ==
  \A c \in Call : \A length \in copies[c] :
    /\ length = Note[c].message \/ Limited(Type[TargetOf[c]])
    /\ Limited(Type[TargetOf[c]]) =>
         /\ length <= MaxLength[Type[TargetOf[c]]]
         /\ length < Note[c].message => length = MaxLength[Type[TargetOf[c]]]

(***************************************************************************)
(* What a client was told, against where its POST and its delivery stand:  *)
(* what was answered "refused", or not posted, is never delivered, not     *)
(* even later.  "Unreachable" and "unavailable" promise nothing of the     *)
(* kind: the POST may be waiting for Redis in the gateway, or be through.  *)
(***************************************************************************)
RequestsStand ==
  \A c \in Call :
    /\ request[c] # "taken" <=> delivery[c] = "none"
    /\ delivery[c] = "none" => copies[c] = {}
    /\ pc[c] = "idle" => request[c] = "none"
    /\ pc[c] = "polling" => request[c] = "taken"
    /\ pc[c] \in {"idle", "posting", "polling"} => polls[c] < MaxPolls
    /\ reply[c].end = "none" <=> pc[c] # "replied"
    /\ reply[c].end \in {"absent", "disabled", "refused"} => request[c] = "none"
    /\ reply[c].end \in {"queued", "ok", "failed", "unobserved"} => request[c] = "taken"

LogLine == [instance : Instance, msg : {"notification sent", "delivery failed for instance"},
            time : Nat, call : Call]

\* What the log says, and what an answer took from it, against what the providers have.
LogStands ==
  /\ log \in Seq(LogLine)
  /\ \A n \in DOMAIN log :
       /\ log[n].instance = TargetOf[log[n].call]
       /\ log[n].msg = "notification sent" => copies[log[n].call] # {}
  /\ \A c \in Call :
       /\ reply[c].events \subseteq {log[n] : n \in DOMAIN log}
       /\ reply[c].end = "ok" =>
            \E n \in DOMAIN log : /\ log[n].msg = "notification sent" /\ log[n].time >= started[c].at
                                  /\ log[n].instance = TargetOf[c]

(***************************************************************************)
(* The counters of a call and of its delivery, and the text that travels:  *)
(* what the worker hands over never outgrows what a channel may carry, and *)
(* what it logs as sent is with the provider.                              *)
(***************************************************************************)
SendInv == SendTypeOK /\ MessageFits /\ RequestsStand /\ LogStands

(***************************************************************************)
(* "never a hang: the poll loop is bounded" (test-send-service.ts: 9), and *)
(* a status "never throws on a downstream failure" (status-service.ts: 8): *)
(* in the end no call that was begun is without its answer.                *)
(***************************************************************************)
EveryCallEnds == <>[](\A c \in Call : pc[c] \in {"idle", "replied"})

(***************************************************************************)
(* "only the two messages that represent an authoritative, one-per-attempt *)
(* outcome are kept" (worker-log-parser.ts: 4): the events have one for    *)
(* every attempt in the log.                                               *)
(***************************************************************************)
OneEventPerAttempt == Parsed = DOMAIN log
=============================================================================
