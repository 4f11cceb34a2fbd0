-------------------------- MODULE DeliveryContract --------------------------
(***************************************************************************)
(* What the gateway promises, without queues, workers or faults: a request *)
(* it has taken on (stored, whether or not its client learns of it) is     *)
(* worked off or dead-lettered; each delivery it gives rise to is owed     *)
(* until it is settled, once, as sent, skipped or dead; "sent" is only     *)
(* said of a delivery whose provider has a copy; and at most Limit copies  *)
(* of one delivery ever reach a provider.                                  *)
(***************************************************************************)
EXTENDS Naturals

CONSTANTS Request, DeliveryId, RequestOf(_), Limit

VARIABLES
  promise,  \* per request: "open", "accepted", "done" or "dead"
  debt,     \* per delivery: "none", "owed", or how it was settled
  copies    \* per delivery: copies its provider has

contractVars == <<promise, debt, copies>>

Settlement == {"sent", "skipped", "dead"}

Init ==
  /\ promise = [r \in Request |-> "open"]
  /\ debt = [d \in DeliveryId |-> "none"]
  /\ copies = [d \in DeliveryId |-> 0]

Accept(r) ==
  /\ promise[r] = "open"
  /\ promise' = [promise EXCEPT ![r] = "accepted"]
  /\ UNCHANGED <<debt, copies>>

Close(r, verdict) ==
  /\ promise[r] = "accepted"
  /\ promise' = [promise EXCEPT ![r] = verdict]
  /\ UNCHANGED <<debt, copies>>

\* Only a request that was taken on gives rise to a delivery.
Owe(d) ==
  /\ debt[d] = "none"
  /\ promise[RequestOf(d)] # "open"
  /\ debt' = [debt EXCEPT ![d] = "owed"]
  /\ UNCHANGED <<promise, copies>>

Copy(d) ==
  /\ debt[d] # "none"
  /\ copies[d] < Limit
  /\ copies' = [copies EXCEPT ![d] = @ + 1]
  /\ UNCHANGED <<promise, debt>>

Settle(d, how) ==
  /\ debt[d] = "owed"
  /\ how = "sent" => copies[d] > 0
  /\ debt' = [debt EXCEPT ![d] = how]
  /\ UNCHANGED <<promise, copies>>

Next ==
  \/ \E r \in Request : Accept(r)
  \/ \E r \in Request, verdict \in {"done", "dead"} : Close(r, verdict)
  \/ \E d \in DeliveryId : Owe(d) \/ Copy(d)
  \/ \E d \in DeliveryId, how \in Settlement : Settle(d, how)

Spec == Init /\ [][Next]_contractVars
=============================================================================
