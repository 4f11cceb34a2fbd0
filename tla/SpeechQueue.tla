----------------------------- MODULE SpeechQueue -----------------------------
(***************************************************************************)
(* The FIFO of the local TTS player (createSpeechQueue and speak in        *)
(* clients/local-tts-player/local-tts-server.mjs).  A request is answered  *)
(* at once and spoken when those before it have been.  `say` runs outside  *)
(* the process; its end is a promise that settles, and the continuation    *)
(* runNext comes some microtasks later, with other requests in between.    *)
(***************************************************************************)
EXTENDS Sequences, Functions

CONSTANT Request

VARIABLES
  pending,   \* the queue
  running,   \* the flag
  playing,   \* the `say` processes alive
  settled,   \* the settled promises whose continuation has not run
  accepted,  \* history: the requests answered 202, in order
  tried      \* history: the requests whose `fn` was called, in order

vars == <<pending, running, playing, settled, accepted, tried>>

(***************************************************************************)
(* runNext on the queue q: the first n calls throw at once and are logged, *)
(* the next one starts a `say`; if all throw, the queue goes idle.         *)
(***************************************************************************)
RunNext(q) ==
  \E n \in 0..Len(q) :
    IF n = Len(q)
    THEN /\ pending' = <<>> /\ running' = FALSE
         /\ playing' = playing
         /\ tried' = tried \o q
    ELSE /\ pending' = SubSeq(q, n + 2, Len(q)) /\ running' = TRUE
         /\ playing' = playing \cup {q[n + 1]}
         /\ tried' = tried \o SubSeq(q, 1, n + 1)

Accept(r) ==
  /\ r \notin Range(accepted)
  /\ accepted' = Append(accepted, r)

Enqueue(r) ==
  /\ Accept(r)
  /\ IF running
     THEN pending' = Append(pending, r) /\ UNCHANGED <<running, playing, tried>>
     ELSE RunNext(Append(pending, r))
  /\ UNCHANGED settled

\* Mutant: no catch, so a failure leaves no continuation.
SettleUncaught(r) ==
  /\ r \in playing
  /\ playing' = playing \ {r}
  /\ settled' \in {settled, settled \cup {r}}
  /\ UNCHANGED <<pending, running, accepted, tried>>

\* `say` ends, well or not.
Settle(r) ==
  /\ r \in playing
  /\ playing' = playing \ {r}
  /\ settled' = settled \cup {r}
  /\ UNCHANGED <<pending, running, accepted, tried>>

Continue(r) ==
  /\ r \in settled
  /\ settled' = settled \ {r}
  /\ RunNext(pending)
  /\ UNCHANGED accepted

Init ==
  /\ pending = <<>> /\ running = FALSE
  /\ playing = {} /\ settled = {}
  /\ accepted = <<>> /\ tried = <<>>

Next == \E r \in Request : Enqueue(r) \/ Settle(r) \/ Continue(r)

Spec == Init /\ [][Next]_vars

-----------------------------------------------------------------------------
(* Properties *)

TypeOK ==
  /\ pending \in Seq(Request) /\ accepted \in Seq(Request) /\ tried \in Seq(Request)
  /\ running \in BOOLEAN
  /\ playing \subseteq Request /\ settled \subseteq Request

(***************************************************************************)
(* VNR-02, "two near-simultaneous /speak requests never play over each     *)
(* other" (createSpeechQueue): at most one `say` is alive.                 *)
(***************************************************************************)
NeverOverlap == \A r, s \in playing : r = s

(***************************************************************************)
(* Nothing is lost, repeated or overtaken (createSpeechQueue): what has    *)
(* been tried and what waits are the accepted requests, in their order,    *)
(* whichever of them failed.                                               *)
(***************************************************************************)
FirstInFirstOut == tried \o pending = accepted

\* One `say` or one continuation is under way exactly while the flag is set.
OneUnderWay ==
  /\ ~ running => playing = {} /\ settled = {} /\ pending = <<>>
  /\ \A r, s \in playing \cup settled : r = s
  /\ playing \cap settled = {}

QueueInv == TypeOK /\ OneUnderWay /\ FirstInFirstOut
=============================================================================
