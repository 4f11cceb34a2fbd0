------------------------------ MODULE VoiceField ------------------------------
(***************************************************************************)
(* The voice of a local-tts card (src/admin/ui/admin-local-tts.js and the  *)
(* searchable combobox).  Leaving the URL field asks the player at that    *)
(* URL for its voices, through the admin process; the answers rebuild the  *)
(* field as a combobox, or as a text input when there is no list, and come *)
(* in any order.  Drawing the card anew (renderAll) starts another field   *)
(* on the same channel object, while answers for the old one still come.   *)
(*                                                                         *)
(* Labels are their values; a query is the set of options it matches.      *)
(***************************************************************************)
EXTENDS Sequences, Functions, FiniteSets

CONSTANTS
  Player,    \* the URLs one may enter
  Voice,
  VoicesOf,  \* the list of each player; it may also be out of reach
  NoUrl,
  NoVoice,   \* a blank value
  Typed,     \* text in the input that is no value
  MaxFetches \* bound on the fetches, and on the drawings, of a behaviour

ASSUME VoiceAssumption ==
  /\ VoicesOf \in [Player -> Seq(Voice)]
  /\ NoUrl \notin Player /\ NoVoice \notin Voice /\ Typed \notin Voice \cup {NoVoice}
  /\ MaxFetches \in Nat

VARIABLES
  url, voice,  \* the two keys of channel.config
  dirty,
  field,       \* what is drawn: a text input or a combobox
  fetches,     \* the fetches in flight, oldest first, each for a drawn field
  drawn,       \* which drawing of the card is on the page
  asked,       \* bound: the fetches so far
  picked,      \* history: what the user last gave as the voice, or the loaded one
  lastUrl      \* history: the URL as of the last fetch, unless answers crossed

voiceVars == <<url, voice, dirty, field, fetches, drawn, asked, picked, lastUrl>>

Text(value) == [mode |-> "text", text |-> value]

\* moveHighlightIndex, with positions from 1 and 0 for none.
Move(at, up, length) ==
  IF length = 0 THEN 0
  ELSE IF up THEN IF at <= 1 THEN 1 ELSE at - 1
       ELSE IF at >= length THEN length ELSE at + 1

\* Mutant: a value the player does not have is not offered.
OptionsOfPlayer(list, value) == list

\* buildVoiceOptions: a value the player does not have is offered all the same.
Options(list, value) ==
  IF value = NoVoice \/ value \in Range(list) THEN list ELSE Append(list, value)

\* createSearchableCombobox.
Combo(list, value, player) ==
  [mode |-> "combo", options |-> list, current |-> value, text |-> value,
   filtered |-> list, highlight |-> 0, open |-> FALSE, from |-> player]

-----------------------------------------------------------------------------
(* The card and its fetches *)

SendFetch(drawing) ==
  /\ asked < MaxFetches /\ asked' = asked + 1
  /\ fetches' = Append(fetches, [player |-> url, for |-> drawing])
  /\ lastUrl' = IF fetches = <<>> THEN url ELSE NoUrl

\* refetch: without a URL the field is a text input at once.
Refetch(drawing) ==
  IF url = NoUrl
  THEN /\ lastUrl' = IF fetches = <<>> THEN NoUrl ELSE lastUrl
       /\ UNCHANGED <<fetches, asked>>
  ELSE SendFetch(drawing)

TypeUrl(u) ==
  /\ url' = u
  /\ dirty' = TRUE
  /\ lastUrl' = NoUrl
  /\ UNCHANGED <<voice, field, fetches, drawn, asked, picked>>

BlurUrl ==
  /\ Refetch(drawn)
  /\ field' = IF url = NoUrl THEN Text(voice) ELSE field
  /\ UNCHANGED <<url, voice, dirty, drawn, picked>>

\* renderAll: renderLocalTtsVoiceField draws a text input and fetches.
Redraw ==
  /\ drawn < MaxFetches
  /\ drawn' = drawn + 1
  /\ field' = Text(voice)
  /\ Refetch(drawn + 1)
  /\ UNCHANGED <<url, voice, dirty, picked>>

\* Mutant: the field takes the first voice of a list that lacks its value.
ReachedForgetful(f) ==
  LET list == VoicesOf[f.player]
      value == IF voice \in Range(list) THEN voice ELSE list[1]
  IN  /\ list # <<>>
      /\ voice' = value
      /\ field' = IF f.for = drawn THEN Combo(list, value, f.player) ELSE field

\* A list: renderCombobox fills in a blank voice, whichever drawing asked.
Reached(f) ==
  LET list == Options(VoicesOf[f.player], voice)
      value == IF voice = NoVoice THEN list[1] ELSE voice
  IN  /\ VoicesOf[f.player] # <<>>
      /\ voice' = value
      /\ field' = IF f.for = drawn THEN Combo(list, value, f.player) ELSE field

\* Mutant: the list at hand is kept.
UnreachedKeepsList(f) == voice' = voice /\ UNCHANGED field

\* No answer, `reachable: false`, or an empty list: the text input.
Unreached(f) ==
  /\ voice' = voice
  /\ field' = IF f.for = drawn THEN Text(voice) ELSE field

Answered ==
  \E n \in 1..Len(fetches) :
    /\ Reached(fetches[n]) \/ Unreached(fetches[n])
    /\ fetches' = [k \in 1..Len(fetches) - 1 |-> fetches[IF k < n THEN k ELSE k + 1]]
    /\ UNCHANGED <<url, dirty, drawn, asked, picked, lastUrl>>

-----------------------------------------------------------------------------
(* The user in the field *)

Changed(value) ==
  /\ voice' = value
  /\ picked' = value
  /\ dirty' = TRUE
  /\ UNCHANGED <<url, fetches, drawn, asked, lastUrl>>

TypeVoice(value) ==
  /\ field.mode = "text"
  /\ field' = Text(value)
  /\ Changed(value)

InCombo(next) ==
  /\ field.mode = "combo"
  /\ field' = next
  /\ UNCHANGED <<url, voice, dirty, fetches, drawn, asked, picked, lastUrl>>

\* Focus shows all options, the current one highlighted.
Focus ==
  InCombo([field EXCEPT !.filtered = field.options, !.open = TRUE,
             !.highlight = IF \E n \in 1..Len(field.options) : field.options[n] = field.current
                           THEN CHOOSE n \in 1..Len(field.options) : field.options[n] = field.current
                           ELSE 0])

\* Typing filters, in the order of the options, and opens the panel.
TypeQuery(matches) ==
  /\ field.mode = "combo"
  /\ LET at == {n \in 1..Len(field.options) : field.options[n] \in matches}
     IN  \E order \in [1..Cardinality(at) -> at] :
           /\ \A k, n \in 1..Cardinality(at) : k < n => order[k] < order[n]
           /\ InCombo([field EXCEPT !.text = Typed, !.open = TRUE,
                         !.filtered = [k \in 1..Cardinality(at) |-> field.options[order[k]]],
                         !.highlight = IF at = {} THEN 0 ELSE 1])

\* The arrow keys work on the list whether it is shown or not.
Arrow(up) == InCombo([field EXCEPT !.highlight = Move(field.highlight, up, Len(field.filtered))])

\* Escape, or a click outside: the text goes back to the current label.
Close ==
  field.mode = "combo" /\ field.open
  /\ InCombo([field EXCEPT !.open = FALSE, !.highlight = 0, !.text = field.current])

\* select: closePanel only resets the highlight of a panel that is open.
Select(value) ==
  /\ field.mode = "combo"
  /\ field' = [field EXCEPT !.current = value, !.text = value, !.open = FALSE,
                            !.highlight = IF field.open THEN 0 ELSE @]
  /\ Changed(value)

Click == /\ field.mode = "combo" /\ field.open
         /\ \E value \in Range(field.filtered) : Select(value)

\* resolveEnterSelection: the highlighted option, or the only one.
Enter ==
  /\ field.mode = "combo"
  /\ \/ field.highlight > 0 /\ Select(field.filtered[field.highlight])
     \/ field.highlight = 0 /\ Len(field.filtered) = 1 /\ Select(field.filtered[1])

-----------------------------------------------------------------------------
VoiceInit ==
  /\ url \in Player \cup {NoUrl} /\ voice \in Voice \cup {NoVoice}
  /\ dirty = FALSE
  /\ field = Text(voice)
  /\ drawn = 1
  /\ fetches = IF url = NoUrl THEN <<>> ELSE <<[player |-> url, for |-> 1]>>
  /\ asked = 1
  /\ picked = voice
  /\ lastUrl = url

VoiceNext ==
  \/ \E u \in Player \cup {NoUrl} : TypeUrl(u)
  \/ BlurUrl \/ Redraw \/ Answered
  \/ \E value \in Voice \cup {NoVoice} : TypeVoice(value)
  \/ Focus \/ Close \/ Click \/ Enter
  \/ \E matches \in SUBSET Voice : TypeQuery(matches)
  \/ \E up \in BOOLEAN : Arrow(up)

VoiceSpec == VoiceInit /\ [][VoiceNext]_voiceVars

-----------------------------------------------------------------------------
(* Properties *)

(***************************************************************************)
(* "An existing (possibly stale) config value is never silently dropped    *)
(* from the form" (admin-local-tts.js:31): whatever players answer, in     *)
(* whatever order, and however often the card is drawn, the voice a save   *)
(* ships is what the user gave or what was loaded; only a blank is filled. *)
(***************************************************************************)
VoiceIsPicked == picked # NoVoice => voice = picked

(***************************************************************************)
(* A closed combobox shows the value a save ships (createSearchableCombobox)*)
(* though queries were typed, keys pressed while it was closed, and lists  *)
(* replaced under the user's hands; and its highlight is in the list.      *)
(***************************************************************************)
ComboShowsVoice ==
  field.mode = "combo" =>
    /\ field.current = voice /\ voice \in Range(field.options)
    /\ ~ field.open => field.text = voice
    /\ field.highlight \in 0..Len(field.filtered)
    /\ Range(field.filtered) \subseteq Range(field.options)

(***************************************************************************)
(* The list offered is of the player whose URL is entered (refetch), once  *)
(* its fetch has been answered and unless two fetches were under way at    *)
(* once: their answers are taken in the order in which they come.          *)
(***************************************************************************)
ListIsOfUrl ==
  lastUrl = url /\ url # NoUrl /\ fetches = <<>> /\ field.mode = "combo" => field.from = url

\* A text input has no list; a combobox has the list of a player and its value.
TextType == [mode : {"text"}, text : Voice \cup {NoVoice}]
ComboType == [mode : {"combo"}, options : Seq(Voice), current : Voice, text : Voice \cup {Typed},
              filtered : Seq(Voice), highlight : Nat, open : BOOLEAN, from : Player]

VoiceTypeOK ==
  /\ url \in Player \cup {NoUrl} /\ voice \in Voice \cup {NoVoice}
  /\ dirty \in BOOLEAN
  /\ field \in TextType \cup ComboType
  /\ fetches \in Seq([player : Player, for : Nat])
  /\ drawn \in Nat /\ asked \in Nat
  /\ picked \in Voice \cup {NoVoice}
  /\ lastUrl \in Player \cup {NoUrl}

\* While it is unanswered, the fetch of lastUrl is the only one, for the drawing on the page.
LastFetch ==
  lastUrl # NoUrl =>
    /\ lastUrl = url
    /\ fetches # <<>> => Len(fetches) = 1 /\ fetches[1] = [player |-> url, for |-> drawn]

\* The inductive invariant.
VoiceInv == VoiceTypeOK /\ VoiceIsPicked /\ ComboShowsVoice /\ LastFetch /\ ListIsOfUrl
=============================================================================
