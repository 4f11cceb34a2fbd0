----------------------------- MODULE BullMqJob -----------------------------
(***************************************************************************)
(* The life of one BullMQ job under the options bullmq-queue.ts gives it:  *)
(* `attempts` tries with backoff, kept in the failed set when they are     *)
(* exhausted, removed when completed.  BullMQ itself is not part of the    *)
(* repository; this is what the code in src/queue relies on.               *)
(*                                                                         *)
(* "queued" stands for both the wait list and the delayed (backoff) set:   *)
(* the delay only says when the job may be taken again.  "completed" is a  *)
(* job already removed from Redis; it is remembered because properties     *)
(* speak of it.                                                            *)
(***************************************************************************)
EXTENDS Naturals

CONSTANTS
  Attempts,   \* config.retry.attempts (RETRY_ATTEMPTS)
  MaxStalls   \* BullMQ's maxStalledCount, which the code leaves at its default

ASSUME AttemptsAssumption == Attempts \in Nat \ {0}
ASSUME MaxStallsAssumption == MaxStalls \in Nat

\* The most times a handler can be started for one job.
MaxRuns == Attempts + MaxStalls

JobState == {"none", "queued", "active", "failed", "completed"}

(***************************************************************************)
(* made: failed attempts; stalls: times found active without a lock;       *)
(* started: times a handler was started for it.                            *)
(***************************************************************************)
Job == [st : JobState, made : 0 .. Attempts, stalls : 0 .. MaxStalls + 1,
        started : 0 .. MaxRuns]

NoJob  == [st |-> "none", made |-> 0, stalls |-> 0, started |-> 0]
NewJob == [NoJob EXCEPT !.st = "queued"]

\* States in which Redis still holds the job, so that its id is taken.
Stored == {"queued", "active", "failed"}

\* States nothing leads out of.
Terminal == {"failed", "completed"}

Started(j) == [j EXCEPT !.st = "active", !.started = @ + 1]

\* Mutant: a worker completes a job whose lock it has lost.
FinishedWithoutLock(j) == [j EXCEPT !.st = "completed"]

\* moveToCompleted: refused when the worker no longer holds the job's lock.
Finished(j) == IF j.st = "active" THEN [j EXCEPT !.st = "completed"] ELSE j

\* moveToFailed: back to the queue while attempts remain, else dead-letter.
Thrown(j) ==
  IF j.st = "active"
    THEN [j EXCEPT !.made = @ + 1,
                   !.st = IF j.made + 1 < Attempts THEN "queued" ELSE "failed"]
    ELSE j

\* Mutant: one stall too few.
StalledTooSoon(j) == [j EXCEPT !.stalls = @ + 1,
                               !.st = IF j.stalls + 1 >= MaxStalls THEN "failed" ELSE "queued"]

\* The stalled-job checker finds an active job whose lock has expired.
Stalled(j) == [j EXCEPT !.stalls = @ + 1,
                        !.st = IF j.stalls + 1 > MaxStalls THEN "failed" ELSE "queued"]

(***************************************************************************)
(* The bookkeeping of one job: every start is accounted for by a failed    *)
(* attempt, a stall, or the run that is active or completed it; a live job *)
(* has attempts left; a dead letter has exhausted its attempts or stalls.  *)
(***************************************************************************)
Accounted(j) ==
  /\ j.st = "none" => j.started = 0
  /\ j.started = j.made + j.stalls + (IF j.st \in {"active", "completed"} THEN 1 ELSE 0)
  /\ j.st # "failed" => j.made < Attempts /\ j.stalls <= MaxStalls
  /\ j.st = "failed" => \/ j.made = Attempts /\ j.stalls <= MaxStalls
                        \/ j.made < Attempts /\ j.stalls = MaxStalls + 1
=============================================================================
