---------------------------- MODULE TestSendProofs ----------------------------
(***************************************************************************)
(* What the answer to a test or a send says of its delivery, for every set *)
(* of calls, instances and types, every number of attempts, polls, edits   *)
(* and outages.                                                            *)
(***************************************************************************)
EXTENDS TestSend, TLAPS

LEMMA Bounds == Attempts \in Nat /\ Attempts > 0 /\ MaxPolls \in Nat /\ MaxPolls > 0
BY SendAssumption

\* What does not speak of the log.
SendCore == SendTypeOK /\ MessageFits /\ RequestsStand

LEMMA InitSend == SendInit => SendCore /\ LogStands
<1> SUFFICES ASSUME SendInit PROVE SendCore /\ LogStands
  OBVIOUS
<1>1. SendCore
  BY SendAssumption DEF SendInit, SendCore, SendTypeOK, MessageFits, RequestsStand, Nothing, Ends
<1>2. log = <<>> /\ \A c \in Call : reply[c].events = {} /\ reply[c].end = "none"
  BY DEF SendInit, Nothing
<1> QED
  BY <1>1, <1>2 DEF LogStands

\* What is left of a message by the decorator of its channel.
LEMMA TruncatedFits ==
  ASSUME NEW kind \in Kind, NEW n \in Notification
  PROVE  LET length == Truncated(kind, n).message
         IN  /\ length \in Nat
             /\ length = n.message \/ Limited(kind)
             /\ Limited(kind) => length <= MaxLength[kind] /\ (length < n.message => length = MaxLength[kind])
<1>1. CASE Limited(kind) /\ n.message > MaxLength[kind]
  <2>1. Truncated(kind, n).message = MaxLength[kind] - 1 + 1
    BY <1>1 DEF Truncated, Notification
  <2>2. MaxLength[kind] \in Nat /\ MaxLength[kind] > 0
    BY <1>1, MaxLengthAssumption DEF Limited
  <2> QED
    BY <1>1, <2>1, <2>2
<1>2. CASE ~ (Limited(kind) /\ n.message > MaxLength[kind])
  <2>1. Truncated(kind, n) = n
    BY <1>2 DEF Truncated
  <2>2. Limited(kind) => MaxLength[kind] \in Nat
    BY MaxLengthAssumption DEF Limited
  <2> QED
    BY <1>2, <2>1, <2>2 DEF Notification
<1> QED
  BY <1>1, <1>2

\* The answer to a call touches no other.
LEMMA ReplyEnds ==
  ASSUME SendTypeOK, NEW c \in Call, NEW answer, answer.end \in Ends, Reply(c, answer)
  PROVE  /\ pc' \in [Call -> {"idle", "posting", "polling", "asking", "replied"}]
         /\ pc'[c] = "replied" /\ reply'[c].end = answer.end
         /\ \A d \in Call \ {c} : pc'[d] = pc[d] /\ reply'[d] = reply[d]
         /\ reply' = [d \in Call |-> reply'[d]]
         /\ \A d \in Call : reply'[d].end \in Ends
<1>1. reply = [d \in Call |-> reply[d]] /\ reply' = [reply EXCEPT ![c] = answer]
  BY DEF Reply, SendTypeOK
<1>2. reply' = [d \in Call |-> IF d = c THEN answer ELSE reply[d]]
  BY <1>1
<1>3. \A d \in Call : reply'[d] = IF d = c THEN answer ELSE reply[d]
  BY <1>2
<1>4. reply' = [d \in Call |-> reply'[d]]
  BY <1>2, <1>3
<1> QED
  BY <1>3, <1>4 DEF Reply, SendTypeOK

\* The steps of a client alone.
LEMMA ClientKeepsCore ==
  ASSUME SendCore, NEW c \in Call,
         Start(c) \/ StartStatus(c) \/ GiveUp(c) \/ Poll(c) \/ ReadLog(c)
           \/ \E ask \in asks[c] : AskSettles(c, ask)
  PROVE  SendCore'
<1>0. SendTypeOK /\ MessageFits /\ RequestsStand
  BY DEF SendCore
<1>1. UNCHANGED <<setting, token, delivery, attempts, copies, redis, clock, edits, outages>>
  BY DEF Start, StartStatus, GiveUp, Poll, ReadLog, AskSettles, config, gateway, world
<1>2. MessageFits'
  BY <1>0, <1>1 DEF MessageFits
<1>3. CASE Start(c)
  <2>1. pc[c] = "idle" /\ request[c] = "none" /\ UNCHANGED <<polls, asks>>
    BY <1>0, <1>3 DEF Start, RequestsStand
  <2>2. CASE Reply(c, End(setting[TargetOf[c]])) /\ setting[TargetOf[c]] # "enabled" /\ UNCHANGED <<started, request>>
    <3>1. setting[TargetOf[c]] \in {"absent", "disabled"}
      BY <1>0, <2>2, SendAssumption DEF SendTypeOK
    <3>2. End(setting[TargetOf[c]]).end = setting[TargetOf[c]] /\ setting[TargetOf[c]] \in Ends
      BY <3>1 DEF End, Ends
    <3>3. /\ pc' \in [Call -> {"idle", "posting", "polling", "asking", "replied"}]
          /\ pc'[c] = "replied" /\ reply'[c].end \in {"absent", "disabled"}
          /\ \A d \in Call \ {c} : pc'[d] = pc[d] /\ reply'[d] = reply[d]
          /\ reply' = [d \in Call |-> reply'[d]]
          /\ \A d \in Call : reply'[d].end \in Ends
      BY <1>0, <2>2, <3>1, <3>2, ReplyEnds
    <3>4. SendTypeOK'
      BY <1>0, <1>1, <2>1, <2>2, <3>3 DEF SendTypeOK
    <3>5. RequestsStand'
      BY <1>0, <1>1, <2>1, <2>2, <3>3 DEF RequestsStand
    <3> QED
      BY <1>2, <3>4, <3>5 DEF SendCore
  <2>3. CASE /\ pc' = [pc EXCEPT ![c] = "posting"]
             /\ started' = [started EXCEPT ![c] = [at |-> clock, token |-> token]]
             /\ request' = [request EXCEPT ![c] = "sent"]
             /\ UNCHANGED reply
    <3>1. [at |-> clock, token |-> token] \in [at : Nat, token : Token \cup {NoToken}]
      BY <1>0 DEF SendTypeOK
    <3>2. SendTypeOK'
      BY <1>0, <1>1, <2>1, <2>3, <3>1 DEF SendTypeOK
    <3>3. RequestsStand'
      BY <1>0, <1>1, <2>1, <2>3 DEF RequestsStand, SendTypeOK
    <3> QED
      BY <1>2, <3>2, <3>3 DEF SendCore
  <2> QED
    BY <1>3, <2>2, <2>3 DEF Start
<1>4. CASE StartStatus(c) \/ \E ask \in asks[c] : AskSettles(c, ask)
  <2>1. UNCHANGED <<started, polls, reply, request>>
    BY <1>4 DEF StartStatus, AskSettles, gateway
  <2>2. /\ pc' = pc \/ (pc[c] = "idle" /\ pc' = [pc EXCEPT ![c] = "asking"])
        /\ asks' \in [Call -> SUBSET {"health", "channels"}]
    BY <1>0, <1>4 DEF StartStatus, AskSettles, SendTypeOK
  <2>3. SendTypeOK'
    BY <1>0, <1>1, <2>1, <2>2 DEF SendTypeOK
  <2>4. RequestsStand'
    BY <1>0, <1>1, <2>1, <2>2 DEF RequestsStand, SendTypeOK
  <2> QED
    BY <1>2, <2>3, <2>4 DEF SendCore
<1>5. ASSUME NEW answer, Reply(c, answer),
             answer.end \in {"status", "unreachable", "ok", "failed", "unobserved"},
             answer.end = "status" => pc[c] = "asking",
             answer.end = "unreachable" => pc[c] = "posting",
             answer.end \in {"ok", "failed", "unobserved"} => pc[c] = "polling",
             request' = request \/ (request[c] = "sent" /\ request' = [request EXCEPT ![c] = "none"]
                                      /\ answer.end = "unreachable"),
             polls' = polls \/ (polls' = [polls EXCEPT ![c] = @ + 1] /\ pc[c] = "polling"),
             UNCHANGED <<started, asks>>
      PROVE  SendCore'
  <2>1. answer.end \in Ends
    BY <1>5 DEF Ends
  <2>2. /\ pc' \in [Call -> {"idle", "posting", "polling", "asking", "replied"}]
        /\ pc'[c] = "replied" /\ reply'[c].end = answer.end
        /\ \A d \in Call \ {c} : pc'[d] = pc[d] /\ reply'[d] = reply[d]
        /\ reply' = [d \in Call |-> reply'[d]]
        /\ \A d \in Call : reply'[d].end \in Ends
    BY <1>0, <1>5, <2>1, ReplyEnds
  <2>3. /\ polls' \in [Call -> 0..MaxPolls]
        /\ \A d \in Call \ {c} : polls'[d] = polls[d]
    BY <1>0, <1>5, SendAssumption DEF SendTypeOK, RequestsStand
  <2>4. /\ request' \in [Call -> {"none", "sent", "adding", "taken"}]
        /\ \A d \in Call \ {c} : request'[d] = request[d]
        /\ request'[c] = "taken" <=> request[c] = "taken"
    BY <1>0, <1>5 DEF SendTypeOK
  <2>5. SendTypeOK'
    BY <1>0, <1>1, <1>5, <2>2, <2>3, <2>4 DEF SendTypeOK
  <2>6. RequestsStand'
    BY <1>0, <1>1, <1>5, <2>2, <2>3, <2>4 DEF RequestsStand
  <2> QED
    BY <1>2, <2>5, <2>6 DEF SendCore
<1>6. CASE ReadLog(c)
  <2>1. PICK events : Reply(c, [end |-> "status", events |-> events])
    BY <1>6 DEF ReadLog
  <2> QED
    BY <1>5, <1>6, <2>1 DEF ReadLog, gateway
<1>7. CASE GiveUp(c)
  <2>1. Reply(c, [end |-> "unreachable", events |-> {}])
    BY <1>7 DEF GiveUp, End
  <2> QED
    BY <1>5, <1>7, <2>1 DEF GiveUp
<1>8. CASE Poll(c)
  <2>1. /\ pc[c] = "polling" /\ polls' = [polls EXCEPT ![c] = @ + 1]
        /\ UNCHANGED <<started, asks, request>>
    BY <1>8 DEF Poll, gateway
  <2>2. ASSUME NEW how \in {"ok", "failed", "unobserved"}, Reply(c, End(how))
        PROVE  SendCore'
    <3>1. Reply(c, [end |-> how, events |-> {}])
      BY <2>2 DEF End
    <3> QED
      BY <1>5, <2>1, <3>1
  <2>3. CASE UNCHANGED <<pc, reply>> /\ polls[c] + 1 # MaxPolls
    <3>0. polls[c] \in 0..MaxPolls /\ polls[c] < MaxPolls
      BY <1>0, <2>1 DEF SendTypeOK, RequestsStand
    <3>1. polls[c] + 1 \in 0..MaxPolls /\ polls[c] + 1 < MaxPolls
      BY <2>3, <3>0, Bounds
    <3>2. SendTypeOK'
      BY <1>0, <1>1, <2>1, <2>3, <3>1 DEF SendTypeOK
    <3>3. RequestsStand'
      BY <1>0, <1>1, <2>1, <2>3, <3>1 DEF SendTypeOK, RequestsStand
    <3> QED
      BY <1>2, <3>2, <3>3 DEF SendCore
  <2> QED
    BY <1>8, <2>2, <2>3 DEF Poll, Verdict
<1> QED
  BY <1>3, <1>4, <1>6, <1>7, <1>8

\* An answer of the gateway that ends a call, whatever became of its POST.
LEMMA AnswerKeepsCore ==
  ASSUME SendCore, NEW c \in Call, pc[c] = "posting",
         NEW how \in {"refused", "unavailable", "queued"}, Reply(c, End(how)),
         request' = request \/ request' = [request EXCEPT ![c] = "none"],
         how = "refused" => request'[c] = "none",
         how = "queued" => request[c] = "taken" /\ request' = request,
         request[c] = "taken" => request' = request,
         UNCHANGED <<setting, token, started, polls, asks, delivery, attempts, copies, redis, clock,
                     edits, outages>>
  PROVE  SendCore'
<1>0. SendTypeOK /\ MessageFits /\ RequestsStand
  BY DEF SendCore
<1>1. End(how).end = how /\ how \in Ends
  BY DEF End, Ends
<1>2. /\ pc' \in [Call -> {"idle", "posting", "polling", "asking", "replied"}]
      /\ pc'[c] = "replied" /\ reply'[c].end = how
      /\ \A d \in Call \ {c} : pc'[d] = pc[d] /\ reply'[d] = reply[d]
      /\ reply' = [d \in Call |-> reply'[d]]
      /\ \A d \in Call : reply'[d].end \in Ends
  BY <1>0, <1>1, ReplyEnds
<1>3. request' \in [Call -> {"none", "sent", "adding", "taken"}]
  BY <1>0 DEF SendTypeOK
<1>4. /\ \A d \in Call \ {c} : request'[d] = request[d]
      /\ request'[c] # "taken" <=> request[c] # "taken"
  BY <1>0 DEF SendTypeOK
<1>5. SendTypeOK'
  BY <1>0, <1>2, <1>3 DEF SendTypeOK
<1>6. MessageFits'
  BY <1>0 DEF MessageFits
<1>7. RequestsStand'
  BY <1>0, <1>2, <1>4 DEF RequestsStand
<1> QED
  BY <1>5, <1>6, <1>7 DEF SendCore

LEMMA GatewayKeepsCore ==
  ASSUME SendCore, NEW c \in Call,
         Refuse(c) \/ Admit(c) \/ Add(c) \/ Accept(c) \/ Unavailable(c) \/ Skip(c)
  PROVE  SendCore'
<1>0. SendTypeOK /\ MessageFits /\ RequestsStand
  BY DEF SendCore
<1>1. UNCHANGED <<setting, token, started, polls, asks, attempts, copies, redis, clock, edits, outages>>
  BY DEF Refuse, Admit, Add, Accept, Unavailable, Skip, config, client, gateway, world
<1>2. MessageFits'
  BY <1>0, <1>1 DEF MessageFits
<1>3. CASE Accept(c) /\ Tool[c] = "test"
  <2>1. /\ pc[c] = "posting" /\ request[c] = "taken" /\ pc' = [pc EXCEPT ![c] = "polling"]
        /\ UNCHANGED <<reply, request, delivery>>
    BY <1>3 DEF Accept, Answer2xx, gateway
  <2>2. SendTypeOK'
    BY <1>0, <1>1, <2>1 DEF SendTypeOK
  <2>3. RequestsStand'
    BY <1>0, <1>1, <2>1 DEF SendTypeOK, RequestsStand
  <2> QED
    BY <1>2, <2>2, <2>3 DEF SendCore
<1>4. CASE Accept(c) /\ Tool[c] # "test"
  <2>1. /\ pc[c] = "posting" /\ request[c] = "taken" /\ Reply(c, End("queued"))
        /\ UNCHANGED <<request, delivery>>
    BY <1>4 DEF Accept, Answer2xx, gateway
  <2> QED
    BY <1>1, <2>1, AnswerKeepsCore
<1>5. CASE Unavailable(c) /\ pc[c] = "posting"
  <2>1. /\ Reply(c, End("unavailable")) /\ UNCHANGED delivery
        /\ \/ request[c] = "adding" /\ request' = [request EXCEPT ![c] = "none"]
           \/ request[c] = "taken" /\ request' = request
    BY <1>5 DEF Unavailable
  <2> QED
    BY <1>1, <1>5, <2>1, AnswerKeepsCore
<1>6. CASE Refuse(c) /\ pc[c] = "posting"
  <2>1. /\ Reply(c, End("refused")) /\ UNCHANGED delivery
        /\ request[c] = "sent" /\ request' = [request EXCEPT ![c] = "none"]
    BY <1>6 DEF Refuse
  <2>2. request'[c] = "none"
    BY <1>0, <2>1 DEF SendTypeOK
  <2> QED
    BY <1>1, <1>6, <2>1, <2>2, AnswerKeepsCore
<1>7. CASE Add(c)
  <2>1. delivery[c] = "none" /\ attempts[c] # Attempts /\ request[c] = "adding"
    BY <1>0, <1>7 DEF Add, SendTypeOK, RequestsStand
  <2>2. /\ delivery' = [delivery EXCEPT ![c] = "owed"] /\ request' = [request EXCEPT ![c] = "taken"]
        /\ UNCHANGED <<pc, reply>>
    BY <1>7 DEF Add, client
  <2>3. SendTypeOK'
    BY <1>0, <1>1, <2>1, <2>2 DEF SendTypeOK
  <2>4. RequestsStand'
    BY <1>0, <1>1, <2>1, <2>2 DEF SendTypeOK, RequestsStand
  <2> QED
    BY <1>2, <2>3, <2>4 DEF SendCore
<1>8. CASE ((Refuse(c) \/ Unavailable(c)) /\ pc[c] # "posting") \/ Admit(c) \/ Skip(c)
  <2>1. UNCHANGED <<pc, reply>>
    BY <1>8 DEF Refuse, Admit, Unavailable, Skip, client
  <2>2. /\ \/ request' = request
           \/ request[c] \in {"sent", "adding"} /\ \E r \in {"none", "adding"} : request' = [request EXCEPT ![c] = r]
        /\ delivery' = delivery \/ (delivery[c] = "owed" /\ delivery' = [delivery EXCEPT ![c] = "skipped"])
        /\ pc[c] = "posting" => request' = request \/ request' = [request EXCEPT ![c] = "adding"]
    BY <1>8 DEF Refuse, Admit, Unavailable, Skip
  <2>5. /\ request' \in [Call -> {"none", "sent", "adding", "taken"}]
        /\ delivery' \in [Call -> {"none", "owed", "sent", "skipped", "dead"}]
        /\ \A d \in Call : delivery'[d] = "dead" <=> attempts[d] = Attempts
    BY <1>0, <2>2 DEF SendTypeOK
  <2>3. SendTypeOK'
    BY <1>0, <1>1, <2>1, <2>5 DEF SendTypeOK
  <2>4. RequestsStand'
    BY <1>0, <1>1, <2>1, <2>2 DEF RequestsStand, SendTypeOK
  <2> QED
    BY <1>2, <2>3, <2>4 DEF SendCore
<1> QED
  BY <1>3, <1>4, <1>5, <1>6, <1>7, <1>8

LEMMA DeliverKeepsCore ==
  ASSUME SendCore, NEW c \in Call, Deliver(c)
  PROVE  SendCore'
<1> DEFINE kind == Type[TargetOf[c]]
           length == Truncated(kind, Note[c]).message
<1>0. SendTypeOK /\ MessageFits /\ RequestsStand
  BY DEF SendCore
<1>1. kind \in Kind /\ Note[c] \in Notification /\ Attempts \in Nat
  BY SendAssumption
<1>2. /\ length \in Nat
      /\ length = Note[c].message \/ Limited(kind)
      /\ Limited(kind) => length <= MaxLength[kind] /\ (length < Note[c].message => length = MaxLength[kind])
  BY <1>1, TruncatedFits
<1>3. /\ delivery[c] = "owed"
      /\ copies' \in {copies, [copies EXCEPT ![c] = @ \cup {length}]}
      /\ \/ /\ attempts' = [attempts EXCEPT ![c] = @ + 1]
            /\ delivery' = [delivery EXCEPT ![c] = IF attempts[c] + 1 = Attempts THEN "dead" ELSE "owed"]
         \/ delivery' = [delivery EXCEPT ![c] = "sent"] /\ attempts' = attempts
      /\ UNCHANGED <<setting, token, pc, started, polls, asks, reply, request, redis, clock, edits, outages>>
  BY DEF Deliver, config, client, world
<1>4. attempts[c] \in 0..Attempts /\ attempts[c] # Attempts
  BY <1>0, <1>3 DEF SendTypeOK
<1>5. copies' \in [Call -> SUBSET Nat] /\ \A d \in Call : copies'[d] \subseteq copies[d] \cup (IF d = c THEN {length} ELSE {})
  BY <1>0, <1>2, <1>3 DEF SendTypeOK
<1>6. SendTypeOK'
  <2>0. attempts' \in [Call -> 0..Attempts]
    <3>1. attempts[c] + 1 \in 0..Attempts
      BY <1>1, <1>4
    <3> QED
      BY <1>0, <1>3, <3>1 DEF SendTypeOK
  <2>1. delivery' \in [Call -> {"none", "owed", "sent", "skipped", "dead"}]
    BY <1>0, <1>3 DEF SendTypeOK
  <2>2. \A d \in Call : delivery'[d] = "dead" <=> attempts'[d] = Attempts
    BY <1>0, <1>1, <1>3, <1>4 DEF SendTypeOK
  <2> QED
    BY <1>0, <1>3, <1>5, <2>0, <2>1, <2>2 DEF SendTypeOK
<1>7. MessageFits'
  BY <1>0, <1>2, <1>5 DEF MessageFits
<1>8. RequestsStand'
  <2>1. delivery[c] # "none" /\ delivery'[c] # "none" /\ \A d \in Call \ {c} : delivery'[d] = delivery[d] /\ copies'[d] \subseteq copies[d]
    BY <1>0, <1>3, <1>5 DEF SendTypeOK
  <2> QED
    BY <1>0, <1>3, <2>1 DEF RequestsStand
<1> QED
  BY <1>6, <1>7, <1>8 DEF SendCore

LEMMA WorldKeepsCore == ASSUME SendCore, Edit \/ LoseRedis \/ FindRedis \/ Pass
                           PROVE  SendCore'
<1>1. UNCHANGED <<pc, started, polls, asks, reply, request, delivery, attempts, copies>>
  BY DEF Edit, LoseRedis, FindRedis, Pass, client, gateway
<1>2. SendTypeOK
  BY DEF SendCore
<1>3. /\ setting' \in [Instance -> {"absent", "disabled", "enabled"}]
      /\ token' \in Token \cup {NoToken}
  BY <1>2 DEF SendTypeOK, Edit, LoseRedis, FindRedis, Pass, config
<1>4. clock' \in Nat /\ edits' \in Nat /\ outages' \in Nat
  BY <1>2 DEF SendTypeOK, Edit, LoseRedis, FindRedis, Pass
<1>5. redis' \in BOOLEAN
  BY <1>2 DEF SendTypeOK, Edit, LoseRedis, FindRedis, Pass
<1>6. SendTypeOK'
  BY <1>1, <1>2, <1>3, <1>4, <1>5 DEF SendTypeOK
<1> QED
  BY <1>1, <1>6 DEF SendCore, MessageFits, RequestsStand

-----------------------------------------------------------------------------
(* The log *)

\* The entries of a sequence are at the places it has.
LEMMA Places ==
  ASSUME NEW S, NEW list \in Seq(S)
  PROVE  /\ Len(list) \in Nat /\ DOMAIN list = 1..Len(list)
         /\ \A n \in DOMAIN list : list[n] \in S
OBVIOUS

\* The log has a line that says ok to the call.
Shown(c, from) ==
  \E n \in DOMAIN log : /\ log[n].msg = "notification sent" /\ log[n].time >= from
                        /\ log[n].instance = TargetOf[c]

\* The log and the providers are as they were, and what is answered is in the log.
LEMMA AnswersKeepLog ==
  ASSUME LogStands, UNCHANGED <<log, copies>>,
         \A c \in Call :
           \/ reply'[c] = reply[c] /\ (reply[c].end = "ok" => started'[c] = started[c])
           \/ /\ reply'[c].events \subseteq {log[n] : n \in DOMAIN log}
              /\ reply'[c].end = "ok" => Shown(c, started'[c].at)
  PROVE  LogStands'
<1>1. PICK lines : lines = {log[n] : n \in DOMAIN log}
  OBVIOUS
<1>2. lines' = lines /\ {log'[n] : n \in DOMAIN log'} = lines
  BY <1>1
<1>3. \A c \in Call : reply'[c].events \subseteq lines
  BY <1>1 DEF LogStands
<1>4. \A c \in Call : reply'[c].end = "ok" => Shown(c, started'[c].at)
  BY DEF LogStands, Shown
<1> QED
  BY <1>1, <1>2, <1>3, <1>4 DEF LogStands, Shown

\* The events are lines of the log (parseWorkerDeliveryLogs).
LEMMA EventsAreLines == Events \subseteq DOMAIN log /\ \A c \in Call : Matches(c) \subseteq Events
BY DEF Events, Recent, Parsed, Matches

\* What is answered with an end of its own shows nothing of the log.
LEMMA EndKeepsLog ==
  ASSUME SendCore, LogStands, NEW c \in Call, NEW how, how # "ok", Reply(c, End(how)),
         UNCHANGED <<log, copies>>,
         \A d \in Call \ {c} : started'[d] = started[d]
  PROVE  LogStands'
<1>1. /\ reply'[c] = End(how)
      /\ \A d \in Call \ {c} : reply'[d] = reply[d]
  BY DEF Reply, SendCore, SendTypeOK
<1>2. reply'[c].events = {} /\ reply'[c].end # "ok"
  BY <1>1 DEF End
<1> QED
  BY <1>1, <1>2, AnswersKeepLog

\* Of a client's steps only an answer that was read from the log says ok.
LEMMA ClientKeepsLog ==
  ASSUME SendCore, LogStands, NEW c \in Call,
         Start(c) \/ StartStatus(c) \/ GiveUp(c) \/ Poll(c) \/ ReadLog(c)
           \/ \E ask \in asks[c] : AskSettles(c, ask)
  PROVE  LogStands'
<1>1. UNCHANGED <<log, copies>>
  BY DEF Start, StartStatus, GiveUp, Poll, ReadLog, AskSettles, gateway
<1>2. CASE Start(c)
  <2>1. reply[c].end = "none"
    BY <1>2 DEF Start, SendCore, RequestsStand
  <2>2. CASE Reply(c, End(setting[TargetOf[c]])) /\ UNCHANGED started
    <3>1. setting[TargetOf[c]] # "ok"
      BY SendAssumption DEF SendCore, SendTypeOK
    <3> QED
      BY <1>1, <2>2, <3>1, EndKeepsLog
  <2>3. CASE reply' = reply /\ started' = [started EXCEPT ![c] = [at |-> clock, token |-> token]]
    <3>1. \A d \in Call : reply[d].end = "ok" => started'[d] = started[d]
      BY <2>1, <2>3 DEF SendCore, SendTypeOK
    <3> QED
      BY <1>1, <2>3, <3>1, AnswersKeepLog
  <2> QED
    BY <1>2, <2>2, <2>3 DEF Start
<1>3. CASE StartStatus(c) \/ \E ask \in asks[c] : AskSettles(c, ask)
  <2>1. UNCHANGED <<started, reply>>
    BY <1>3 DEF StartStatus, AskSettles
  <2> QED
    BY <1>1, <2>1, AnswersKeepLog
<1>4. CASE GiveUp(c)
  BY <1>1, <1>4, EndKeepsLog DEF GiveUp
<1>5. CASE ReadLog(c)
  <2>1. PICK lines \in {{}, Events} : Reply(c, [end |-> "status", events |-> {log[n] : n \in lines}])
    BY <1>5 DEF ReadLog
  <2>2. /\ reply'[c] = [end |-> "status", events |-> {log[n] : n \in lines}]
        /\ \A d \in Call \ {c} : reply'[d] = reply[d]
    BY <2>1 DEF Reply, SendCore, SendTypeOK
  <2>3. lines \subseteq DOMAIN log
    BY <2>1, EventsAreLines
  <2>4. reply'[c].events \subseteq {log[n] : n \in DOMAIN log} /\ reply'[c].end # "ok"
    BY <2>2, <2>3
  <2>5. started' = started
    BY <1>5 DEF ReadLog
  <2> QED
    BY <1>1, <2>2, <2>4, <2>5, AnswersKeepLog
<1>6. CASE Poll(c)
  <2>0. started' = started
    BY <1>6 DEF Poll
  <2>1. PICK seen \in Seen(c) :
          IF seen # {} THEN Reply(c, End(Verdict(seen)))
          ELSE Reply(c, End("unobserved")) \/ UNCHANGED <<pc, reply>>
    BY <1>6 DEF Poll
  <2>2. CASE seen = {}
    BY <1>1, <2>0, <2>1, <2>2, EndKeepsLog, AnswersKeepLog
  <2>3. CASE seen # {} /\ Verdict(seen) = "ok"
    <3>1. PICK last \in seen : log[last].msg = "notification sent"
      BY <2>3 DEF Verdict
    <3>2. last \in Matches(c)
      BY <2>1, <2>3, <3>1 DEF Seen
    <3>3. last \in DOMAIN log /\ log[last].instance = TargetOf[c] /\ log[last].time >= started[c].at
      BY <3>2, EventsAreLines DEF Matches
    <3>4. Shown(c, started[c].at)
      BY <3>1, <3>3 DEF Shown
    <3>5. /\ reply'[c] = End("ok")
          /\ \A d \in Call \ {c} : reply'[d] = reply[d]
      <4>1. Reply(c, End("ok"))
        BY <2>1, <2>3
      <4> QED
        BY <4>1 DEF Reply, SendCore, SendTypeOK
    <3> QED
      BY <1>1, <2>0, <3>4, <3>5, AnswersKeepLog DEF End
  <2>4. CASE seen # {} /\ Verdict(seen) # "ok"
    BY <1>1, <2>0, <2>1, <2>4, EndKeepsLog
  <2> QED
    BY <2>2, <2>3, <2>4
<1> QED
  BY <1>2, <1>3, <1>4, <1>5, <1>6

\* The gateway writes no line of the log, and its answers show none.
LEMMA GatewayKeepsLog ==
  ASSUME SendCore, LogStands, NEW c \in Call,
         Refuse(c) \/ Admit(c) \/ Add(c) \/ Accept(c) \/ Unavailable(c) \/ Skip(c)
  PROVE  LogStands'
<1>1. UNCHANGED <<log, copies, started>>
  BY DEF Refuse, Admit, Add, Accept, Unavailable, Skip, client, gateway
<1>2. \/ UNCHANGED reply
      \/ \E how \in {"refused", "unavailable", "queued"} : Reply(c, End(how))
  BY DEF Refuse, Admit, Add, Accept, Unavailable, Skip, Answer2xx, client
<1> QED
  BY <1>1, <1>2, EndKeepsLog, AnswersKeepLog

\* What an adapter does not throw for is with the provider (send of every adapter).
LEMMA SilentMeansTaken ==
  ASSUME NEW kind, NEW text, NEW outcome \in Outcomes(kind, text), ~ Throws(kind, outcome[2])
  PROVE  outcome[1]
<1>1. \/ \E status \in {"error", "none"} : outcome = <<FALSE, [status |-> status, marker |-> FALSE]>>
      \/ kind = "whatsapp" /\ outcome = <<FALSE, [status |-> "2xx", marker |-> FALSE]>>
      \/ \E status \in {"2xx", "none"} : outcome = <<TRUE, [status |-> status, marker |-> TRUE]>>
  BY DEF Outcomes
<1>2. ASSUME NEW status, NEW taken, NEW marker, outcome = <<taken, [status |-> status, marker |-> marker]>>
      PROVE  outcome[1] = taken /\ outcome[2].status = status /\ outcome[2].marker = marker
  BY <1>2
<1> QED
  BY <1>1, <1>2 DEF Throws

\* A line more.
LEMMA LogGrows ==
  ASSUME log \in Seq(LogLine), NEW line \in LogLine, log' = Append(log, line)
  PROVE  /\ log' \in Seq(LogLine)
         /\ \A n \in DOMAIN log : n \in DOMAIN log' /\ log'[n] = log[n]
         /\ \A n \in DOMAIN log' : n \in DOMAIN log \/ log'[n] = line
<1>1. PICK S : S = LogLine
  OBVIOUS
<1>2. ASSUME NEW before \in Seq(S), NEW entry \in S, NEW after, after = Append(before, entry)
      PROVE  /\ after \in Seq(S)
             /\ \A n \in DOMAIN before : n \in DOMAIN after /\ after[n] = before[n]
             /\ \A n \in DOMAIN after : n \in DOMAIN before \/ after[n] = entry
  <2>1. Len(before) \in Nat /\ DOMAIN before = 1..Len(before)
    OBVIOUS
  <2>2. after \in Seq(S) /\ Len(after) = Len(before) + 1 /\ DOMAIN after = 1..Len(before) + 1
    BY <1>2
  <2>3. \A n \in 1..Len(before) + 1 : after[n] = IF n <= Len(before) THEN before[n] ELSE entry
    BY <1>2
  <2> QED
    BY <2>1, <2>2, <2>3
<1> QED
  BY <1>1, <1>2

\* "notification sent" is only logged of what the provider took (LoggingChannel.send).
LEMMA DeliverKeepsLog ==
  ASSUME SendCore, LogStands, NEW c \in Call, Deliver(c)
  PROVE  LogStands'
<1>1. PICK message \in {"notification sent", "delivery failed for instance"} :
        /\ log' = Append(log, Line(c, message))
        /\ \A d \in Call : copies[d] \subseteq copies'[d]
        /\ message = "notification sent" => copies'[c] # {}
  <2> DEFINE kind == Type[TargetOf[c]]
             note == Truncated(kind, Note[c])
  <2>1. PICK outcome \in Outcomes(kind, Text(kind, note)) :
          /\ copies' = IF outcome[1] THEN [copies EXCEPT ![c] = @ \cup {note.message}] ELSE copies
          /\ IF Throws(kind, outcome[2])
             THEN log' = Append(log, Line(c, "delivery failed for instance"))
             ELSE log' = Append(log, Line(c, "notification sent"))
    BY DEF Deliver
  <2> HIDE DEF note, kind
  <2>2. \A d \in Call : copies[d] \subseteq copies'[d]
    BY <2>1 DEF SendCore, SendTypeOK
  <2>3. outcome[1] => copies'[c] # {}
    BY <2>1 DEF SendCore, SendTypeOK
  <2> QED
    BY <2>1, <2>2, <2>3, SilentMeansTaken
<1>2. PICK line : line = Line(c, message)
  OBVIOUS
<1>3. line \in LogLine /\ line.instance = TargetOf[line.call] /\ line.call = c /\ line.msg = message
  BY <1>2, SendAssumption DEF Line, LogLine, SendCore, SendTypeOK
<1>4. log \in Seq(LogLine) /\ \A n \in DOMAIN log : log[n] \in LogLine
  <2>1. log \in Seq(LogLine)
    BY DEF LogStands
  <2> QED
    BY <2>1, Places
<1>5. /\ log' \in Seq(LogLine)
      /\ \A n \in DOMAIN log : n \in DOMAIN log' /\ log'[n] = log[n]
      /\ \A n \in DOMAIN log' : n \in DOMAIN log \/ log'[n] = line
  BY <1>1, <1>2, <1>3, <1>4, LogGrows
<1>6. \A n \in DOMAIN log' :
        /\ log'[n].instance = TargetOf[log'[n].call]
        /\ log'[n].msg = "notification sent" => copies'[log'[n].call] # {}
  <2> SUFFICES ASSUME NEW n \in DOMAIN log'
               PROVE  /\ log'[n].instance = TargetOf[log'[n].call]
                      /\ log'[n].msg = "notification sent" => copies'[log'[n].call] # {}
    OBVIOUS
  <2>1. CASE log'[n] = line
    BY <1>1, <1>3, <2>1
  <2>2. CASE n \in DOMAIN log
    <3>1. log'[n] = log[n] /\ log[n] \in LogLine
      BY <1>4, <1>5, <2>2
    <3>2. log[n].call \in Call
      BY <3>1 DEF LogLine
    <3> QED
      BY <1>1, <2>2, <3>1, <3>2 DEF LogStands
  <2> QED
    BY <1>5, <2>1, <2>2
<1>7. UNCHANGED <<reply, started>>
  BY DEF Deliver, client
<1>8. {log[n] : n \in DOMAIN log} \subseteq {log'[n] : n \in DOMAIN log'}
  BY <1>5
<1>9. \A d \in Call : reply'[d].events \subseteq {log'[n] : n \in DOMAIN log'}
  BY <1>7, <1>8 DEF LogStands
<1>10. \A d \in Call : reply'[d].end = "ok" =>
         \E n \in DOMAIN log' : /\ log'[n].msg = "notification sent"
                                /\ log'[n].time >= started'[d].at /\ log'[n].instance = TargetOf[d]
  <2> SUFFICES ASSUME NEW d \in Call, reply'[d].end = "ok"
               PROVE  \E n \in DOMAIN log' : /\ log'[n].msg = "notification sent"
                                             /\ log'[n].time >= started'[d].at
                                             /\ log'[n].instance = TargetOf[d]
    OBVIOUS
  <2>1. PICK n \in DOMAIN log : /\ log[n].msg = "notification sent" /\ log[n].time >= started[d].at
                                /\ log[n].instance = TargetOf[d]
    BY <1>7 DEF LogStands
  <2>2. n \in DOMAIN log' /\ log'[n] = log[n]
    BY <1>5
  <2> QED
    BY <1>7, <2>1, <2>2
<1> QED
  BY <1>5, <1>6, <1>9, <1>10 DEF LogStands

-----------------------------------------------------------------------------
(***************************************************************************)
(* No call polls or is retried more often than its bounds allow, what a    *)
(* provider takes fits its channel, and what a client was told goes with   *)
(* where its notification stands (runTestSend, TruncatingChannel).         *)
(***************************************************************************)
THEOREM SendInvariant == SendSpec => []SendInv
<1>1. SendCore /\ LogStands /\ [SendNext]_sendVars => SendCore' /\ LogStands'
  <2> SUFFICES ASSUME SendCore, LogStands, [SendNext]_sendVars
               PROVE  SendCore' /\ LogStands'
    OBVIOUS
  <2>1. CASE UNCHANGED sendVars
    <3>1. SendCore'
      BY <2>1 DEF sendVars, config, client, gateway, world, SendCore, SendTypeOK, MessageFits, RequestsStand
    <3>2. UNCHANGED <<reply, started, log, copies>>
      BY <2>1 DEF sendVars, client, gateway
    <3> QED
      BY <3>1, <3>2, AnswersKeepLog
  <2>2. CASE \E c \in Call : Start(c) \/ StartStatus(c) \/ ClientStep(c) \/ ServerStep(c)
    <3>1. SendCore'
      BY <2>2, ClientKeepsCore, GatewayKeepsCore, DeliverKeepsCore DEF ClientStep, ServerStep
    <3>2. LogStands'
      BY <2>2, ClientKeepsLog, GatewayKeepsLog, DeliverKeepsLog DEF ClientStep, ServerStep
    <3> QED
      BY <3>1, <3>2
  <2>3. CASE Edit \/ LoseRedis \/ FindRedis \/ Pass
    <3>1. SendCore'
      BY <2>3, WorldKeepsCore
    <3>2. UNCHANGED <<reply, started, log, copies>>
      BY <2>3 DEF Edit, LoseRedis, FindRedis, Pass, client, gateway
    <3> QED
      BY <3>1, <3>2, AnswersKeepLog
  <2> QED
    BY <2>1, <2>2, <2>3 DEF SendNext
<1>2. SendCore /\ LogStands => SendInv
  BY DEF SendCore, SendInv
<1> QED
  BY <1>1, <1>2, InitSend, PTL DEF SendSpec

(***************************************************************************)
(* "proving delivery end-to-end, not just enqueued" (test-send-service.ts: *)
(* 6): a test that is answered ok, and a delivery that a status shows as   *)
(* sent, are with the provider, however many calls share the channel.      *)
(***************************************************************************)
THEOREM OkIsReceived == SendSpec => []OkMeansReceived
<1>1. SendInv => OkMeansReceived
  <2> SUFFICES ASSUME SendInv, NEW c \in Call
               PROVE  /\ reply[c].end = "ok" =>
                           \E n \in DOMAIN log : log[n].time >= started[c].at /\ Proof(c, log[n])
                      /\ reply[c].end = "ok" /\ (\A d \in Call \ {c} : copies[d] = {}) => copies[c] # {}
                      /\ \A event \in reply[c].events :
                           event.msg = "notification sent" => copies[event.call] # {}
    BY DEF OkMeansReceived
  <2>1. LogStands
    BY DEF SendInv
  <2>2. \A n \in DOMAIN log : log[n] \in LogLine
    BY <2>1, Places DEF LogStands
  <2>3. \A n \in DOMAIN log : log[n].call \in Call /\ (log[n].msg = "notification sent" => copies[log[n].call] # {})
    BY <2>1, <2>2 DEF LogStands, LogLine
  <2>4. ASSUME reply[c].end = "ok"
        PROVE  \E n \in DOMAIN log : /\ log[n].time >= started[c].at /\ log[n].instance = TargetOf[c]
                                     /\ log[n].call \in Call /\ copies[log[n].call] # {}
    <3>1. PICK n \in DOMAIN log : /\ log[n].msg = "notification sent" /\ log[n].time >= started[c].at
                                  /\ log[n].instance = TargetOf[c]
      BY <2>1, <2>4 DEF LogStands
    <3> QED
      BY <2>3, <3>1
  <2>5. \A event \in reply[c].events : event.msg = "notification sent" => copies[event.call] # {}
    <3>1. \A event \in reply[c].events : \E n \in DOMAIN log : event = log[n]
      BY <2>1 DEF LogStands
    <3> QED
      BY <2>3, <3>1
  <2> QED
    BY <2>4, <2>5 DEF Proof
<1> QED
  BY <1>1, SendInvariant, PTL

(***************************************************************************)
(* A client told that its notification is queued has one that is owed or   *)
(* settled, whatever outages of Redis lie between (registerNotifyRoute).   *)
(***************************************************************************)
THEOREM QueuedIsKept == SendSpec => []QueuedIsOwed
<1>1. SendInv => QueuedIsOwed
  BY DEF SendInv, RequestsStand, QueuedIsOwed
<1> QED
  BY <1>1, SendInvariant, PTL
=============================================================================
