----------------------------- MODULE SpeechPlayer -----------------------------
(***************************************************************************)
(* The local TTS player as an HTTP server (createRequestHandler, speak and *)
(* listVoices in clients/local-tts-player/local-tts-server.mjs) around     *)
(* SpeechQueue.  Requests are handled concurrently: a body comes in, or    *)
(* `say -v ?` runs for a list of voices, while others are answered.  A     *)
(* retried delivery of a local-tts channel is another request.             *)
(***************************************************************************)
EXTENDS SpeechQueue, FiniteSets

CONSTANT Ask  \* what each request is: see Asks

Asks == {"speech", "blank", "malformed", "voices", "other"}

ASSUME AskAssumption == Ask \in [Request -> Asks]

VARIABLES
  handling,  \* "none", "reading" a body, "listing" voices or "answered"
  status     \* the status a request was answered with, or 0

playerVars == <<vars, handling, status>>

Answer(r, code) ==
  /\ handling' = [handling EXCEPT ![r] = "answered"]
  /\ status' = [status EXCEPT ![r] = code]

\* createRequestHandler's routes.
Arrive(r) ==
  /\ handling[r] = "none"
  /\ CASE Ask[r] = "other" -> Answer(r, 404)
       [] Ask[r] = "voices" -> handling' = [handling EXCEPT ![r] = "listing"] /\ UNCHANGED status
       [] OTHER -> handling' = [handling EXCEPT ![r] = "reading"] /\ UNCHANGED status
  /\ UNCHANGED vars

\* Mutant: what there is to say is not looked at before it is queued.
QueueUnchecked(r) ==
  /\ Enqueue(r)
  /\ Answer(r, IF Ask[r] = "speech" THEN 202 ELSE 400)

\* Mutant: the answer waits for the speech before it.
SpeakAwaited(r) == ~ running /\ Ask[r] = "speech" /\ Enqueue(r) /\ Answer(r, 202)

\* speak: a text is queued and answered in one go; a blank one is refused.
Speak(r) ==
  \/ Ask[r] = "speech" /\ Enqueue(r) /\ Answer(r, 202)
  \/ Ask[r] = "blank" /\ UNCHANGED vars /\ Answer(r, 400)

\* readJsonBody resolves with JSON or rejects.
BodyRead(r) ==
  /\ handling[r] = "reading"
  /\ \/ Ask[r] # "malformed" /\ Speak(r)
     \/ Ask[r] = "malformed" /\ UNCHANGED vars /\ Answer(r, 400)

\* readJsonBody rejects: the stream breaks off.
BodyBreaksOff(r) ==
  /\ handling[r] = "reading"
  /\ UNCHANGED vars /\ Answer(r, 400)

\* `say -v ?` ends; it is not of the queue.
Listed(r) ==
  /\ handling[r] = "listing"
  /\ \E code \in {200, 500} : Answer(r, code)
  /\ UNCHANGED vars

\* Mutant: no catch around a speech.
SettleSpeechUncaught(r) == SettleUncaught(r) /\ UNCHANGED <<handling, status>>

SettleSpeech(r) == Settle(r) /\ UNCHANGED <<handling, status>>
ContinueQueue(r) == Continue(r) /\ UNCHANGED <<handling, status>>

PlayerInit ==
  /\ Init
  /\ handling = [r \in Request |-> "none"]
  /\ status = [r \in Request |-> 0]

PlayerNext ==
  \E r \in Request :
    Arrive(r) \/ BodyRead(r) \/ BodyBreaksOff(r) \/ Listed(r) \/ SettleSpeech(r) \/ ContinueQueue(r)

(***************************************************************************)
(* Node handles what has come, and `say -v ?` ends.  Nothing is assumed of *)
(* the end of a speech: `say` may hang on an audio device.                 *)
(***************************************************************************)
PlayerSpec ==
  /\ PlayerInit /\ [][PlayerNext]_playerVars
  /\ \A r \in Request : /\ WF_playerVars(BodyRead(r)) /\ WF_playerVars(Listed(r))
                        /\ WF_playerVars(ContinueQueue(r))

-----------------------------------------------------------------------------
(* Properties *)

PlayerTypeOK ==
  /\ handling \in [Request -> {"none", "reading", "listing", "answered"}]
  /\ status \in [Request -> {0, 200, 202, 400, 404, 500}]
  /\ \A r \in Request : handling[r] = "answered" <=> status[r] # 0

(***************************************************************************)
(* The worker takes a 2xx for a delivery (local-tts-channel.ts: 35) and    *)
(* retries after anything else.  So what was answered 202 is in the queue, *)
(* to be tried in its turn, and what was refused is never spoken: a retry  *)
(* of it repeats nothing.                                                  *)
(***************************************************************************)
AcceptedIsQueued ==
  \A r \in Request : status[r] = 202 <=> r \in Range(tried \o pending)

PlayerInv == QueueInv /\ PlayerTypeOK /\ AcceptedIsQueued

(***************************************************************************)
(* LTTS-01 AC3, VNR-02 AC3: a request is answered however long the speech  *)
(* before it takes, even if that never ends.                               *)
(***************************************************************************)
AnsweredWhileSpeaking == \A r \in Request : handling[r] # "none" ~> handling[r] = "answered"

(***************************************************************************)
(* VNR-02 AC2: if every speech ends, well or not, all that was accepted is *)
(* tried (createSpeechQueue).                                              *)
(***************************************************************************)
SpeechIsTried ==
  (\A r \in Request : WF_playerVars(SettleSpeech(r))) =>
    \A r \in Request : status[r] = 202 ~> r \in Range(tried)
=============================================================================
