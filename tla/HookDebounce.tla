----------------------------- MODULE HookDebounce -----------------------------
(***************************************************************************)
(* The Claude Code hook (clients/claude-code/notify-hook.mjs) in one       *)
(* session.  A Stop does not push at once: it leaves its payload in the    *)
(* pending file and a detached process that sleeps NOTIFY_IDLE_SECONDS and *)
(* then pushes, unless the user has come back or a newer Stop has taken    *)
(* the file.  The processes share two small files and nothing else.        *)
(*                                                                         *)
(* Time is counted in units of which Idle make the idle window; a hook     *)
(* call takes less than one.  A timer may fire late, never early.  A Stop  *)
(* is named by its time, stopTs.                                           *)
(***************************************************************************)
EXTENDS Integers

CONSTANTS
  Idle,     \* NOTIFY_IDLE_SECONDS
  MaxClock  \* bound on the time

ASSUME TimeAssumption == Idle \in Nat \ {0} /\ MaxClock \in Nat \ {0}

None == 0  \* no file
Time == 1..MaxClock

VARIABLES
  clock,
  activity,   \* the activity file: the time of the last prompt, or None
  pending,    \* the pending file: the stopTs in it, or None
  sender,     \* the deferred sender of each Stop
  prompts,    \* history: the times of prompts
  posted,     \* history: the Stops whose payload was posted
  deletedAt   \* history: when the sender of each Stop deleted the file, or None

vars == <<clock, activity, pending, sender, prompts, posted, deletedAt>>

Stops == {s \in Time : sender[s] # "none"}

Tick ==
  /\ clock < MaxClock
  /\ clock' = clock + 1
  /\ UNCHANGED <<activity, pending, sender, prompts, posted, deletedAt>>

\* UserPromptSubmit.
Prompt ==
  /\ activity' = clock
  /\ prompts' = prompts \cup {clock}
  /\ UNCHANGED <<clock, pending, sender, posted, deletedAt>>

\* Mutant: the older pending entry is kept.
StopKeepsPending ==
  /\ sender[clock] = "none"
  /\ pending' = IF pending = None THEN clock ELSE pending
  /\ sender' = [sender EXCEPT ![clock] = "asleep"]
  /\ UNCHANGED <<clock, activity, prompts, posted, deletedAt>>

\* Stop: `run` writes the pending file and spawns the deferred sender.
Stop ==
  /\ sender[clock] = "none"
  /\ pending' = clock
  /\ sender' = [sender EXCEPT ![clock] = "asleep"]
  /\ UNCHANGED <<clock, activity, prompts, posted, deletedAt>>

\* Mutant: the activity marker is not consulted.
WakeRegardless(s) ==
  /\ sender[s] = "asleep"
  /\ clock >= s + Idle
  /\ sender' = [sender EXCEPT ![s] = "awake"]
  /\ UNCHANGED <<clock, activity, pending, prompts, posted, deletedAt>>

\* The timer has fired; readActivityTime.
Wake(s) ==
  /\ sender[s] = "asleep"
  /\ clock >= s + Idle
  /\ sender' = [sender EXCEPT ![s] = IF activity # None /\ activity > s THEN "done" ELSE "awake"]
  /\ UNCHANGED <<clock, activity, pending, prompts, posted, deletedAt>>

\* Mutant: any pending entry will do.
CheckAnyPending(s) ==
  /\ sender[s] = "awake"
  /\ sender' = [sender EXCEPT ![s] = IF pending = None THEN "done" ELSE "posting"]
  /\ UNCHANGED <<clock, activity, pending, prompts, posted, deletedAt>>

\* readPendingPayload and shouldDeferredSend.
CheckPending(s) ==
  /\ sender[s] = "awake"
  /\ sender' = [sender EXCEPT ![s] = IF pending = s THEN "posting" ELSE "done"]
  /\ UNCHANGED <<clock, activity, pending, prompts, posted, deletedAt>>

\* postPayload ends, with or without an answer; there is no retry.
Post(s) ==
  /\ sender[s] = "posting"
  /\ sender' = [sender EXCEPT ![s] = "posted"]
  /\ posted' = posted \cup {s}
  /\ UNCHANGED <<clock, activity, pending, prompts, deletedAt>>

\* deletePendingPayload, whatever is in the file by now.
DeletePending(s) ==
  /\ sender[s] = "posted"
  /\ pending' = None
  /\ sender' = [sender EXCEPT ![s] = "done"]
  /\ deletedAt' = [deletedAt EXCEPT ![s] = clock]
  /\ UNCHANGED <<clock, activity, prompts, posted>>

Init ==
  /\ clock = 1
  /\ activity = None /\ pending = None
  /\ sender = [s \in Time |-> "none"]
  /\ prompts = {} /\ posted = {}
  /\ deletedAt = [s \in Time |-> None]

DeferredSend(s) == Wake(s) \/ CheckPending(s) \/ Post(s) \/ DeletePending(s)

Next ==
  \/ Tick
  \/ Prompt
  \/ Stop
  \/ \E s \in Time : DeferredSend(s)

Spec == Init /\ [][Next]_vars

-----------------------------------------------------------------------------
(* Properties *)

TypeOK ==
  /\ clock \in Time
  /\ activity \in {None} \cup Time
  /\ pending \in {None} \cup Time
  /\ sender \in [Time -> {"none", "asleep", "awake", "posting", "posted", "done"}]
  /\ prompts \subseteq Time
  /\ posted \subseteq Time
  /\ deletedAt \in [Time -> {None} \cup Time]

(***************************************************************************)
(* HOOK-06.2 (shouldDeferredSend): no push follows a prompt that came      *)
(* inside the idle window of its Stop: the user is there.                  *)
(***************************************************************************)
PromptCancels ==
  \A s \in posted, t \in prompts : ~ (s < t /\ t < s + Idle)

(***************************************************************************)
(* HOOK-06.3 (shouldDeferredSend): of Stops closer together than the idle  *)
(* window, at most the newest is pushed, in whatever order their senders   *)
(* wake and however late.                                                  *)
(***************************************************************************)
OnePushPerBurst ==
  \A r, s \in posted : r < s => s >= r + Idle

(***************************************************************************)
(* The other half of HOOK-06.3, that the newest Stop is pushed if the user *)
(* stays away, as far as the code keeps it: it goes without a push only if *)
(* it came while an older one was being posted, whose sender then deleted  *)
(* the file (runDeferredSend).                                             *)
(***************************************************************************)
SilentOnlyDuringPost ==
  \A s \in Stops :
    /\ sender[s] = "done" /\ s \notin posted
    /\ \A r \in Stops : r <= s
    /\ activity <= s
    => \E r \in posted : r + Idle <= s /\ s <= deletedAt[r]

\* The newest Stop is in the file unless the sender of a posted one deleted it.
PendingIsNewest ==
  /\ pending # None => pending \in Stops /\ \A s \in Stops : s <= pending
  /\ pending = None => \A s \in Stops : \E r \in posted : s <= deletedAt[r]

\* Who has got past his reads saw the user away and no newer Stop in the window.
AwayWhenAwake ==
  /\ activity <= clock /\ \A t \in prompts : t <= activity
  /\ \A s \in Stops : s <= clock
  /\ \A s \in Time : deletedAt[s] <= clock
  /\ \A s \in posted : sender[s] \in {"posted", "done"}
  /\ \A s \in Time : sender[s] \in {"awake", "posting", "posted"} \/ s \in posted =>
       /\ clock >= s + Idle
       /\ \A t \in prompts : t <= s \/ t >= s + Idle
  /\ \A s \in Time : sender[s] \in {"posting", "posted"} \/ s \in posted =>
       \A r \in Stops : r <= s \/ r >= s + Idle
  /\ \A s \in Time : sender[s] = "posted" => s \in posted

HookInv == TypeOK /\ PendingIsNewest /\ AwayWhenAwake /\ SilentOnlyDuringPost
=============================================================================
