------------------------------ MODULE TestSendMC ------------------------------
(* Instances of TestSend for TLC. *)
EXTENDS TestSend

CONSTANTS phone, t

\* maxLength scaled down; what it is compared with is scaled with it.
Limits == [kind \in {"discord", "telegram", "whatsapp"} |-> CASE kind = "discord" -> 8 [] kind = "telegram" -> 16 [] OTHER -> 4]

\* Calls named for their tools, on one channel.
Tools == [c \in Call |-> c]
Types == [i \in {phone} |-> "whatsapp"]
Targets == [c \in Call |-> phone]
\* The test's text is within the limit; the send's message is over it.
Notes == [c \in Call |-> IF c = "send" THEN [title |-> 0, symbols |-> 0, message |-> 5]
                           ELSE [title |-> 1, symbols |-> 0, message |-> 2]]
=============================================================================
