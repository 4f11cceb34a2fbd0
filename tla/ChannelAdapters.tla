---------------------------- MODULE ChannelAdapters ----------------------------
(***************************************************************************)
(* What a channel puts on the wire and what it takes for success:          *)
(* src/channels/adapters/*.ts behind the decorators that build-instance.ts *)
(* wraps around them.  A text is its length; the leading run of emoji and  *)
(* symbols of a title has a length of its own.                             *)
(***************************************************************************)
EXTENDS Naturals

CONSTANT MaxLength  \* the registry's maxLength, for the types that have one

Joined == {"discord", "slack", "telegram", "whatsapp"}  \* title and message in one text
Spoken == {"voicemonkey", "local-tts"}                  \* one text to be read aloud
Fielded == {"ntfy", "webhook", "email"}                 \* a field for each
Kind == Joined \cup Spoken \cup Fielded

ASSUME MaxLengthAssumption ==
  /\ DOMAIN MaxLength \subseteq Joined
  /\ \A kind \in DOMAIN MaxLength : MaxLength[kind] \in Nat \ {0}

Notification == [title : Nat, symbols : Nat, message : Nat]

Limited(kind) == kind \in DOMAIN MaxLength

\* Mutant: the ellipsis comes on top of a full message.
TruncatedLate(kind, n) ==
  IF Limited(kind) /\ n.message > MaxLength[kind]
  THEN [n EXCEPT !.message = MaxLength[kind] + 1] ELSE n

\* TruncatingChannel: room is left for the ellipsis; the title is not counted.
Truncated(kind, n) ==
  IF Limited(kind) /\ n.message > MaxLength[kind]
  THEN [n EXCEPT !.message = (MaxLength[kind] - 1) + 1] ELSE n

\* `**t**\nm`, `*t*\nm`, `t\nm`
Markup(kind) == CASE kind = "discord" -> 5 [] kind = "slack" -> 3 [] OTHER -> 1

\* A title of symbols only leaves nothing to say.
SpokenSummary(n) == IF n.title = 0 THEN n.message ELSE n.title - n.symbols

\* The text, or the message where the title travels on its own.
Text(kind, n) ==
  CASE kind \in Joined -> n.title + Markup(kind) + n.message
    [] kind \in Spoken -> SpokenSummary(n)
    [] kind \in Fielded -> n.message

Answer == [status : {"2xx", "error", "none"}, marker : BOOLEAN]

\* Mutant: CallMeBot's "message queued" is not looked for.
ThrowsByStatus(kind, answer) == answer.status # "2xx"

\* send(): a 2xx is believed, except of CallMeBot, which words its errors in it.
Throws(kind, answer) ==
  answer.status # "2xx" \/ (kind = "whatsapp" /\ ~ answer.marker)

(***************************************************************************)
(* What a provider may do with a text: <<taken, answer>>.  CallMeBot says  *)
(* "message queued" of what it takes; an answer may be lost either way.    *)
(* Discord and Telegram refuse what exceeds their limit, which is the      *)
(* registry's, and the player refuses an empty text.                       *)
(***************************************************************************)
Outcomes(kind, text) ==
  LET bad(status) == <<FALSE, [status |-> status, marker |-> FALSE]>>
      good(status) == <<TRUE, [status |-> status, marker |-> TRUE]>>
      unfit == \/ kind \in {"discord", "telegram"} \cap DOMAIN MaxLength /\ text > MaxLength[kind]
               \/ kind = "local-tts" /\ text = 0
  IN  {bad("error"), bad("none")}
        \cup (IF kind = "whatsapp" THEN {bad("2xx")} ELSE {})
        \cup (IF unfit THEN {} ELSE {good("2xx"), good("none")})
=============================================================================
