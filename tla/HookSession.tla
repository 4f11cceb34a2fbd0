----------------------------- MODULE HookSession -----------------------------
(***************************************************************************)
(* The whole hook in one session: HookDebounce with the start-time file,   *)
(* from which the end of a task takes its duration, the payloads, and the  *)
(* settings, which every process resolves once, when it starts, from the   *)
(* environment and hook.env (resolveConfig) while the user may edit that   *)
(* file: a sender goes to sleep with the URL it has found.                 *)
(*                                                                         *)
(* A Stop that is turned off or has no URL leaves everything alone; one    *)
(* without an idle window posts at once.  `posted` is whose sender is past *)
(* its POST, made or skipped for want of a URL.  The pushes of a prompt    *)
(* (NOTIFY_ON_START) and of a Notification event are posted at once and    *)
(* touch none of the files the debounce lives by.                          *)
(***************************************************************************)
EXTENDS HookDebounce, FiniteSets

CONSTANT MaxEdits  \* bound on edits of hook.env

ASSUME EditsAssumption == MaxEdits \in Nat

VARIABLES
  startFile,  \* the start-time file: the time of a prompt, or None
  inFile,     \* the payload in the pending file
  held,       \* the payload each sender read
  hasUrl,     \* if each sender found a URL when it started
  settings,   \* NOTIFY_ON_END and NOTIFY_URL, and if NOTIFY_IDLE_SECONDS > 0
  edits,
  built,      \* history: the end payloads that were built
  pushed      \* history: for each sender, the payload it posted

sessionVars == <<startFile, inFile, held, hasUrl, settings, edits, built, pushed>>
allVars == <<vars, sessionVars>>

\* A payload of the end of a task: the Stop, and the start it gives.
Payload == [stop : Time, start : {None} \cup Time]
NoPayload == [stop |-> None, start |-> None]

Settings == [onEnd : BOOLEAN, url : BOOLEAN, debounced : BOOLEAN]

-----------------------------------------------------------------------------
(* The processes of the hook *)

\* UserPromptSubmit, before any toggle is looked at.
SessionPrompt ==
  /\ clock \notin prompts
  /\ Prompt
  /\ startFile' = clock
  /\ UNCHANGED <<inFile, held, hasUrl, settings, edits, built, pushed>>

\* Mutant: the start time is read and left in place.
BuildWithoutClearing(payload) ==
  /\ payload = [stop |-> clock, start |-> startFile]
  /\ built' = built \cup {payload}
  /\ UNCHANGED startFile

\* buildPayload at a Stop: readAndClearStartTime.
Build(payload) ==
  /\ payload = [stop |-> clock, start |-> startFile]
  /\ built' = built \cup {payload}
  /\ startFile' = None

\* run, with an idle window.
DebouncedStop ==
  /\ settings.onEnd /\ settings.url /\ settings.debounced
  /\ Stop
  /\ Build([stop |-> clock, start |-> startFile])
  /\ inFile' = [stop |-> clock, start |-> startFile]
  /\ UNCHANGED <<held, hasUrl, settings, edits, pushed>>

\* NOTIFY_IDLE_SECONDS=0: posted by the hook itself.
ImmediateStop ==
  /\ settings.onEnd /\ settings.url /\ ~ settings.debounced
  /\ \A payload \in built : payload.stop # clock
  /\ Build([stop |-> clock, start |-> startFile])
  /\ UNCHANGED <<vars, inFile, held, hasUrl, settings, edits, pushed>>

SessionWake(s) == Wake(s) /\ UNCHANGED sessionVars

\* What was read is kept for the POST.
Hold(s) == held' = [held EXCEPT ![s] = IF pending = None THEN NoPayload ELSE inFile]

SessionCheck(s) ==
  /\ CheckPending(s)
  /\ Hold(s)
  /\ UNCHANGED <<startFile, inFile, hasUrl, settings, edits, built, pushed>>

\* postPayload, if there was a URL when the sender started.
SessionPost(s) ==
  /\ Post(s)
  /\ pushed' = IF hasUrl[s] THEN [pushed EXCEPT ![s] = held[s]] ELSE pushed
  /\ UNCHANGED <<startFile, inFile, held, hasUrl, settings, edits, built>>

SessionDelete(s) ==
  /\ DeletePending(s)
  /\ inFile' = NoPayload
  /\ UNCHANGED <<startFile, held, hasUrl, settings, edits, built, pushed>>

\* The user edits hook.env, perhaps just before the sender of a Stop starts; the
\* idle window stays as it is, or off.
EditSettings ==
  /\ edits < MaxEdits /\ edits' = edits + 1
  /\ \E onEnd, url \in BOOLEAN :
       /\ <<onEnd, url>> # <<settings.onEnd, settings.url>>
       /\ settings' = [settings EXCEPT !.onEnd = onEnd, !.url = url]
       /\ \/ sender[clock] = "asleep" /\ hasUrl' = [hasUrl EXCEPT ![clock] = url]
          \/ UNCHANGED hasUrl
  /\ UNCHANGED <<vars, startFile, inFile, held, built, pushed>>

SessionTick == Tick /\ UNCHANGED sessionVars

SessionInit ==
  /\ Init
  /\ startFile = None /\ inFile = NoPayload
  /\ held = [s \in Time |-> NoPayload]
  /\ hasUrl = [s \in Time |-> TRUE]
  /\ settings \in Settings
  /\ edits = 0 /\ built = {}
  /\ pushed = [s \in Time |-> NoPayload]

SenderStep(s) == SessionWake(s) \/ SessionCheck(s) \/ SessionPost(s) \/ SessionDelete(s)

SessionNext ==
  \/ SessionTick \/ SessionPrompt \/ DebouncedStop \/ ImmediateStop \/ EditSettings
  \/ \E s \in Time : SenderStep(s)

SessionSpec == SessionInit /\ [][SessionNext]_allVars

-----------------------------------------------------------------------------
(* Properties *)

SessionTypeOK ==
  /\ startFile \in {None} \cup prompts
  /\ inFile \in Payload \cup {NoPayload}
  /\ held \in [Time -> Payload \cup {NoPayload}]
  /\ pushed \in [Time -> Payload \cup {NoPayload}]
  /\ hasUrl \in [Time -> BOOLEAN]
  /\ settings \in Settings /\ edits \in Nat
  /\ built \subseteq Payload
  /\ \A p \in built : p.stop <= clock /\ p.start \in {None} \cup prompts

(***************************************************************************)
(* However the toggles stand and Stops follow each other, an end that      *)
(* gives a start gives the last prompt before it, and one that gives none  *)
(* found the file used up by an earlier end (writeStartTime,               *)
(* readAndClearStartTime).  This is not what .specs/features/hook-status/  *)
(* spec.md: 77 asks for (HOOK-06.3): a Stop that supersedes another is to  *)
(* keep the session's start, but the first Stop of a burst has used up the *)
(* file, so the one payload that is pushed gives none.                     *)
(***************************************************************************)
DurationIsOfTask ==
  \A p \in built :
    /\ p.start # None => p.start <= p.stop /\ ~ \E t \in prompts : p.start < t /\ t < p.stop
    /\ \A t \in prompts : t < p.stop =>
         p.start >= t \/ \E q \in built : q.stop < p.stop /\ q.start >= t

\* One task is the duration of one end only.
StartUsedOnce ==
  \A p, q \in built : p.start = q.start /\ p # q => p.start = None

(***************************************************************************)
(* A sender posts the payload of its own Stop, though newer Stops write    *)
(* over the file while it sleeps, reads or posts (readPendingPayload,      *)
(* shouldDeferredSend).                                                    *)
(***************************************************************************)
PushesItsOwn ==
  \A s \in Time :
    /\ sender[s] \in {"posting", "posted"} => held[s] \in built /\ held[s].stop = s
    /\ pushed[s] # NoPayload => pushed[s] \in built /\ pushed[s].stop = s

\* The pending file holds the payload of the Stop that it names.
FileIsOfItsStop == pending # None => inFile \in built /\ inFile.stop = pending

\* One build per Stop.
BuiltOnce ==
  /\ settings.debounced => \A p \in built : sender[p.stop] # "none"
  /\ \A p, q \in built : p.stop = q.stop => p = q

\* The start file holds the last prompt, or that prompt has been used; never both.
StartIsFresh ==
  /\ startFile # None =>
       /\ \A t \in prompts : t <= startFile
       /\ \A p \in built : p.start # startFile
  /\ startFile = None => \A t \in prompts : \E q \in built : q.start >= t

SessionInv ==
  /\ SessionTypeOK /\ FileIsOfItsStop /\ BuiltOnce /\ StartIsFresh
  /\ DurationIsOfTask /\ StartUsedOnce /\ PushesItsOwn
=============================================================================
