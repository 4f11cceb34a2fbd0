---------------------------- MODULE LocalTtsProofs ----------------------------
(***************************************************************************)
(* The speech queue never lets two `say` overlap and keeps the order, for  *)
(* every set of requests and whichever calls fail; nor does the HTTP       *)
(* server around it, which answers 202 for exactly what is in it.          *)
(*                                                                         *)
(* And the field of the panel that picks a voice of that player never      *)
(* loses the one the user gave, for every set of players, voices and       *)
(* lists, and whatever is answered in whatever order.                      *)
(***************************************************************************)
EXTENDS SpeechPlayer, VoiceField, SequenceTheorems, FiniteSetTheorems, TLAPS

\* What runNext does to a queue on which nothing is under way.
LEMMA RunNextOnIdle ==
  ASSUME TypeOK, playing = {}, NEW q \in Seq(Request), RunNext(q)
  PROVE  /\ pending' \in Seq(Request) /\ tried' \in Seq(Request)
         /\ running' \in BOOLEAN /\ playing' \subseteq Request
         /\ tried' \o pending' = tried \o q
         /\ ~ running' => playing' = {} /\ pending' = <<>>
         /\ \A r, s \in playing' : r = s
<1>1. PICK n \in 0..Len(q) :
        IF n = Len(q)
        THEN /\ pending' = <<>> /\ running' = FALSE
             /\ playing' = playing
             /\ tried' = tried \o q
        ELSE /\ pending' = SubSeq(q, n + 2, Len(q)) /\ running' = TRUE
             /\ playing' = playing \cup {q[n + 1]}
             /\ tried' = tried \o SubSeq(q, 1, n + 1)
  BY DEF RunNext
<1>2. tried \in Seq(Request) /\ Len(q) \in Nat
  BY DEF TypeOK
<1>3. CASE n = Len(q)
  <2>1. tried \o q \in Seq(Request)
    BY <1>2, ConcatProperties
  <2>2. pending' = <<>> /\ running' = FALSE /\ playing' = {} /\ tried' = tried \o q
    BY <1>1, <1>3
  <2>3. (tried \o q) \o << >> = tried \o q
    BY <2>1, ConcatEmptySeq
  <2>4. tried' \o pending' = tried \o q
    BY <2>2, <2>3
  <2>5. << >> \in Seq(Request)
    OBVIOUS
  <2>6. /\ pending' \in Seq(Request) /\ tried' \in Seq(Request)
        /\ running' \in BOOLEAN /\ playing' \subseteq Request
    BY <2>1, <2>2, <2>5
  <2> QED
    BY <2>2, <2>4, <2>6
<1>4. CASE n # Len(q)
  <2>1. n + 1 \in 1..Len(q) /\ q[n + 1] \in Request
    BY <1>2, <1>4
  <2>2. SubSeq(q, 1, n + 1) \in Seq(Request) /\ SubSeq(q, n + 2, Len(q)) \in Seq(Request)
    BY <1>2, <2>1, SubSeqProperties
  <2>3. SubSeq(q, 1, n + 1) \o SubSeq(q, n + 2, Len(q)) = q
    <3>1. 1 \in 1..Len(q) + 1 /\ n + 1 \in 1 - 1..Len(q) /\ Len(q) \in n + 1..Len(q)
      BY <1>2, <2>1
    <3>2. SubSeq(q, 1, n + 1) \o SubSeq(q, n + 1 + 1, Len(q)) = SubSeq(q, 1, Len(q))
      BY <3>1, ConcatAdjacentSubSeq
    <3>3. n + 1 + 1 = n + 2
      BY <2>1
    <3> QED
      BY <3>2, <3>3, SubSeqFull
  <2>4. tried \o SubSeq(q, 1, n + 1) \in Seq(Request)
    BY <1>2, <2>2, ConcatProperties
  <2>5. tried' \o pending' = tried \o q
    <3>1. /\ tried' = tried \o SubSeq(q, 1, n + 1)
          /\ pending' = SubSeq(q, n + 2, Len(q))
      BY <1>1, <1>4
    <3>2. (tried \o SubSeq(q, 1, n + 1)) \o SubSeq(q, n + 2, Len(q)) = tried \o q
      <4> DEFINE head == SubSeq(q, 1, n + 1)
                 rest == SubSeq(q, n + 2, Len(q))
      <4>1. tried \in Seq(Request) /\ head \in Seq(Request) /\ rest \in Seq(Request)
        BY <1>2, <2>2
      <4>2. head \o rest = q
        BY <2>3
      <4> HIDE DEF head, rest
      <4>3. (tried \o head) \o rest = tried \o (head \o rest)
        BY <4>1, ConcatAssociative
      <4>4. tried \o (head \o rest) = tried \o q
        BY <4>2
      <4>5. (tried \o head) \o rest = tried \o q
        BY <4>3, <4>4
      <4> QED
        BY <4>5 DEF head, rest
    <3> QED
      BY <3>1, <3>2
  <2> QED
    BY <1>1, <1>4, <2>1, <2>2, <2>4, <2>5
<1> QED
  BY <1>3, <1>4

LEMMA InitQueue == Init => QueueInv
<1> SUFFICES ASSUME Init
             PROVE  QueueInv
  OBVIOUS
<1>1. << >> \in Seq(Request)
  OBVIOUS
<1>2. << >> \o << >> = << >>
  BY <1>1, ConcatEmptySeq
<1>3. tried \o pending = accepted
  BY <1>2 DEF Init
<1>4. TypeOK /\ OneUnderWay
  BY <1>1 DEF Init, TypeOK, OneUnderWay
<1> QED
  BY <1>3, <1>4 DEF QueueInv, FirstInFirstOut

LEMMA QueueStep == QueueInv /\ [Next]_vars => QueueInv'
<1> SUFFICES ASSUME QueueInv, [Next]_vars
             PROVE  QueueInv'
  OBVIOUS
<1>0. TypeOK /\ OneUnderWay /\ FirstInFirstOut
  BY DEF QueueInv
<1>1. CASE UNCHANGED vars
  BY <1>1 DEF vars, QueueInv, TypeOK, OneUnderWay, FirstInFirstOut
<1>2. ASSUME NEW r \in Request, Enqueue(r)
      PROVE  QueueInv'
  <2>1. /\ accepted' = Append(accepted, r) /\ accepted' \in Seq(Request)
        /\ Append(pending, r) \in Seq(Request)
        /\ settled' = settled
    BY <1>0, <1>2, AppendProperties DEF Enqueue, Accept, TypeOK
  <2>2. tried \o Append(pending, r) = Append(accepted, r)
    <3>1. /\ Append(pending, r) = pending \o <<r>> /\ Append(accepted, r) = accepted \o <<r>>
          /\ <<r>> \in Seq(Request)
      BY <1>0, AppendIsConcat DEF TypeOK
    <3>2. (tried \o pending) \o <<r>> = tried \o (pending \o <<r>>)
      BY <1>0, <3>1, ConcatAssociative DEF TypeOK
    <3> QED
      BY <1>0, <3>1, <3>2 DEF FirstInFirstOut
  <2>3. CASE running
    BY <1>0, <1>2, <2>1, <2>2, <2>3 DEF Enqueue, QueueInv, TypeOK, OneUnderWay, FirstInFirstOut
  <2>4. CASE ~ running
    <3>1. RunNext(Append(pending, r)) /\ playing = {} /\ settled = {}
      BY <1>0, <1>2, <2>4 DEF Enqueue, OneUnderWay
    <3> QED
      BY <1>0, <2>1, <2>2, <3>1, RunNextOnIdle DEF QueueInv, TypeOK, OneUnderWay, FirstInFirstOut
  <2> QED
    BY <2>3, <2>4
<1>3. ASSUME NEW r \in Request, Settle(r)
      PROVE  QueueInv'
  BY <1>0, <1>3 DEF Settle, QueueInv, TypeOK, OneUnderWay, FirstInFirstOut
<1>4. ASSUME NEW r \in Request, Continue(r)
      PROVE  QueueInv'
  <2>1. /\ RunNext(pending) /\ pending \in Seq(Request)
        /\ playing = {} /\ settled' = {} /\ accepted' = accepted
    BY <1>0, <1>4 DEF Continue, OneUnderWay, TypeOK
  <2> QED
    BY <1>0, <2>1, RunNextOnIdle DEF QueueInv, TypeOK, OneUnderWay, FirstInFirstOut
<1> QED
  BY <1>1, <1>2, <1>3, <1>4 DEF Next

\* The inductive invariant of the queue.
THEOREM QueueInvariant == Spec => []QueueInv
BY InitQueue, QueueStep, PTL DEF Spec

\* At most one `say` is alive (createSpeechQueue).
THEOREM SpeechNeverOverlaps == Spec => []NeverOverlap
<1>1. QueueInv => NeverOverlap
  BY DEF QueueInv, OneUnderWay, NeverOverlap
<1> QED
  BY <1>1, QueueInvariant, PTL

\* The requests are tried in the order in which they were accepted, each once
\* (createSpeechQueue).
THEOREM SpeechKeepsOrder == Spec => []FirstInFirstOut
BY QueueInvariant, PTL DEF QueueInv

-----------------------------------------------------------------------------
(* The player *)

\* The requests of the queue are those that were accepted.
LEMMA QueuedAreAccepted == FirstInFirstOut => Range(tried \o pending) = Range(accepted)
BY DEF FirstInFirstOut

\* What an acceptance does to the requests that have been accepted.
LEMMA AcceptAdds ==
  ASSUME TypeOK, NEW r \in Request, Accept(r)
  PROVE  Range(accepted') = Range(accepted) \cup {r}
<1>1. /\ accepted \in Seq(Request) /\ accepted' = Append(accepted, r)
  BY DEF TypeOK, Accept
<1>2. /\ Len(accepted') = Len(accepted) + 1 /\ Len(accepted) \in Nat
      /\ accepted'[Len(accepted) + 1] = r
      /\ \A n \in 1..Len(accepted) : accepted'[n] = accepted[n]
  BY <1>1
<1>3. 1..Len(accepted') = 1..Len(accepted) \cup {Len(accepted) + 1}
  BY <1>2
<1> QED
  BY <1>2, <1>3 DEF Range

\* Every step of the player is one of the queue or leaves it alone.
LEMMA PlayerStepQueues == [PlayerNext]_playerVars => [Next]_vars
<1> SUFFICES ASSUME [PlayerNext]_playerVars
             PROVE  [Next]_vars
  OBVIOUS
<1>1. CASE UNCHANGED playerVars
  BY <1>1 DEF playerVars
<1>2. ASSUME NEW r \in Request,
             Arrive(r) \/ BodyBreaksOff(r) \/ Listed(r)
      PROVE  UNCHANGED vars
  BY <1>2 DEF Arrive, BodyBreaksOff, Listed
<1>3. ASSUME NEW r \in Request, BodyRead(r)
      PROVE  Enqueue(r) \/ UNCHANGED vars
  BY <1>3 DEF BodyRead, Speak
<1>4. ASSUME NEW r \in Request, SettleSpeech(r)
      PROVE  Settle(r)
  BY <1>4 DEF SettleSpeech
<1>5. ASSUME NEW r \in Request, ContinueQueue(r)
      PROVE  Continue(r)
  BY <1>5 DEF ContinueQueue
<1> QED
  BY <1>1, <1>2, <1>3, <1>4, <1>5 DEF PlayerNext, Next

\* A request that is answered with another status than 202 was not accepted.
StatusTellsAccepted == \A r \in Request : status[r] = 202 <=> r \in Range(accepted)

LEMMA InitPlayer == PlayerInit => PlayerTypeOK /\ StatusTellsAccepted
<1> SUFFICES ASSUME PlayerInit
             PROVE  PlayerTypeOK /\ StatusTellsAccepted
  OBVIOUS
<1>1. Range(accepted) = {}
  BY DEF PlayerInit, Init, Range
<1> QED
  BY <1>1 DEF PlayerInit, PlayerTypeOK, StatusTellsAccepted

\* An answer is the first one of its request.
LEMMA AnswerOnce ==
  ASSUME PlayerTypeOK, StatusTellsAccepted,
         NEW r \in Request, handling[r] # "answered",
         NEW code \in {200, 202, 400, 404, 500}, Answer(r, code),
         Range(accepted') = IF code = 202 THEN Range(accepted) \cup {r} ELSE Range(accepted)
  PROVE  PlayerTypeOK' /\ StatusTellsAccepted'
<1>1. status[r] = 0 /\ r \notin Range(accepted)
  BY DEF PlayerTypeOK, StatusTellsAccepted
<1>2. /\ handling' = [handling EXCEPT ![r] = "answered"]
      /\ status' = [status EXCEPT ![r] = code]
  BY DEF Answer
<1>3. PlayerTypeOK'
  BY <1>2 DEF PlayerTypeOK
<1>4. \A q \in Request : status'[q] = IF q = r THEN code ELSE status[q]
  BY <1>2 DEF PlayerTypeOK
<1>5. StatusTellsAccepted'
  BY <1>1, <1>4 DEF StatusTellsAccepted
<1> QED
  BY <1>3, <1>5

LEMMA PlayerStep ==
  TypeOK /\ PlayerTypeOK /\ StatusTellsAccepted /\ [PlayerNext]_playerVars
    => PlayerTypeOK' /\ StatusTellsAccepted'
<1> SUFFICES ASSUME TypeOK, PlayerTypeOK, StatusTellsAccepted, [PlayerNext]_playerVars
             PROVE  PlayerTypeOK' /\ StatusTellsAccepted'
  OBVIOUS
<1>1. CASE UNCHANGED playerVars
  BY <1>1 DEF playerVars, vars, PlayerTypeOK, StatusTellsAccepted
<1>2. ASSUME NEW r \in Request, Arrive(r)
      PROVE  PlayerTypeOK' /\ StatusTellsAccepted'
  <2>1. handling[r] = "none" /\ accepted' = accepted
    BY <1>2 DEF Arrive, vars
  <2>2. CASE Ask[r] = "other"
    <3>1. Answer(r, 404)
      BY <1>2, <2>2 DEF Arrive
    <3> QED
      BY <2>1, <3>1, AnswerOnce
  <2>3. CASE Ask[r] # "other"
    <3>1. /\ \E how \in {"listing", "reading"} : handling' = [handling EXCEPT ![r] = how]
          /\ status' = status
      BY <1>2, <2>3 DEF Arrive
    <3> QED
      BY <2>1, <3>1 DEF PlayerTypeOK, StatusTellsAccepted
  <2> QED
    BY <2>2, <2>3
<1>3. ASSUME NEW r \in Request, BodyRead(r)
      PROVE  PlayerTypeOK' /\ StatusTellsAccepted'
  <2>1. handling[r] # "answered"
    BY <1>3 DEF BodyRead
  <2>2. CASE Enqueue(r) /\ Answer(r, 202)
    <3>1. Range(accepted') = Range(accepted) \cup {r}
      BY <2>2, AcceptAdds DEF Enqueue
    <3> QED
      BY <2>1, <2>2, <3>1, AnswerOnce
  <2>3. CASE UNCHANGED vars /\ Answer(r, 400)
    <3>1. accepted' = accepted
      BY <2>3 DEF vars
    <3> QED
      BY <2>1, <2>3, <3>1, AnswerOnce
  <2> QED
    BY <1>3, <2>2, <2>3 DEF BodyRead, Speak
<1>4. ASSUME NEW r \in Request, BodyBreaksOff(r)
      PROVE  PlayerTypeOK' /\ StatusTellsAccepted'
  <2>1. handling[r] # "answered" /\ accepted' = accepted /\ Answer(r, 400)
    BY <1>4 DEF BodyBreaksOff, vars
  <2> QED
    BY <2>1, AnswerOnce
<1>5. ASSUME NEW r \in Request, Listed(r)
      PROVE  PlayerTypeOK' /\ StatusTellsAccepted'
  <2>1. /\ handling[r] # "answered" /\ accepted' = accepted
        /\ \E code \in {200, 500} : Answer(r, code)
    BY <1>5 DEF Listed, vars
  <2> QED
    BY <2>1, AnswerOnce
<1>6. ASSUME NEW r \in Request, SettleSpeech(r) \/ ContinueQueue(r)
      PROVE  PlayerTypeOK' /\ StatusTellsAccepted'
  BY <1>6 DEF SettleSpeech, ContinueQueue, Settle, Continue, PlayerTypeOK, StatusTellsAccepted
<1> QED
  BY <1>1, <1>2, <1>3, <1>4, <1>5, <1>6 DEF PlayerNext

\* A request is answered 202 exactly when it is in the queue, to be spoken in its
\* turn or spoken by now (speak, createRequestHandler).
THEOREM PlayerInvariant == PlayerSpec => []PlayerInv
<1>1. PlayerInit => Init
  BY DEF PlayerInit
<1>2. PlayerInit => QueueInv /\ PlayerTypeOK /\ StatusTellsAccepted
  BY <1>1, InitQueue, InitPlayer
<1>3. QueueInv /\ PlayerTypeOK /\ StatusTellsAccepted /\ [PlayerNext]_playerVars
        => QueueInv' /\ PlayerTypeOK' /\ StatusTellsAccepted'
  BY PlayerStepQueues, QueueStep, PlayerStep DEF QueueInv
<1>4. QueueInv /\ PlayerTypeOK /\ StatusTellsAccepted => PlayerInv
  BY QueuedAreAccepted DEF QueueInv, PlayerInv, AcceptedIsQueued, StatusTellsAccepted
<1> QED
  BY <1>2, <1>3, <1>4, PTL DEF PlayerSpec

\* The runs' other invariants hold of the player as they do of its queue.
COROLLARY PlayerNeverOverlaps == PlayerSpec => []NeverOverlap
<1>1. PlayerInv => NeverOverlap
  BY DEF PlayerInv, QueueInv, OneUnderWay, NeverOverlap
<1> QED
  BY <1>1, PlayerInvariant, PTL

-----------------------------------------------------------------------------
(* The voice field *)

\* The two kinds of field, and what is in a combobox.
LEMMA FieldTyped ==
  ASSUME VoiceTypeOK
  PROVE  /\ field.mode = "text" => field \in TextType
         /\ field.mode = "combo" => /\ field \in ComboType
                                    /\ Len(field.options) \in Nat /\ Len(field.filtered) \in Nat
                                    /\ Range(field.options) \subseteq Voice
                                    /\ Range(field.filtered) \subseteq Voice
<1>1. field \in TextType \cup ComboType
  BY DEF VoiceTypeOK
<1>2. field.mode = "text" => field \in TextType
  BY <1>1 DEF TextType, ComboType
<1>3. field.mode = "combo" => field \in ComboType
  BY <1>1 DEF TextType, ComboType
<1>4. ASSUME NEW list \in Seq(Voice)
      PROVE  Len(list) \in Nat /\ Range(list) \subseteq Voice
  BY DEF Range
<1> QED
  BY <1>2, <1>3, <1>4 DEF ComboType

\* A field that is drawn fits the type.
LEMMA TextTyped == ASSUME NEW value \in Voice \cup {NoVoice} PROVE Text(value) \in TextType
BY DEF Text, TextType

LEMMA ComboTyped ==
  ASSUME NEW list \in Seq(Voice), NEW value \in Voice, NEW player \in Player
  PROVE  Combo(list, value, player) \in ComboType
BY DEF Combo, ComboType

\* A value that is not in the list of the player is added to it.
LEMMA OptionsTyped ==
  ASSUME NEW list \in Seq(Voice), NEW value \in Voice \cup {NoVoice}
  PROVE  /\ Options(list, value) \in Seq(Voice)
         /\ list # <<>> => Options(list, value) # <<>>
         /\ value # NoVoice => value \in Range(Options(list, value))
<1>1. CASE value = NoVoice \/ value \in Range(list)
  BY <1>1 DEF Options
<1>2. CASE ~ (value = NoVoice \/ value \in Range(list))
  <2>1. PICK longer : longer = Append(list, value)
    OBVIOUS
  <2>2. /\ longer \in Seq(Voice) /\ Len(longer) = Len(list) + 1
        /\ longer[Len(list) + 1] = value /\ Len(list) \in Nat
    BY <1>2, <2>1
  <2>3. value \in Range(longer) /\ longer # <<>>
    BY <2>2 DEF Range
  <2> QED
    BY <1>2, <2>1, <2>2, <2>3 DEF Options
<1> QED
  BY <1>1, <1>2

\* The first and any other place of a list hold a value of it.
LEMMA PlaceInList ==
  ASSUME NEW S, NEW list \in Seq(S)
  PROVE  /\ list # <<>> => list[1] \in Range(list) /\ 1 \in 1..Len(list)
         /\ \A n \in 1..Len(list) : list[n] \in Range(list)
BY DEF Range

\* moveHighlightIndex stays on the list, or at none.
LEMMA MoveStays ==
  ASSUME NEW length \in Nat, NEW at \in 0..length, NEW up \in BOOLEAN
  PROVE  Move(at, up, length) \in 0..length
BY DEF Move

\* The list a query leaves: options of the list that match it.
LEMMA FilteredTyped ==
  ASSUME NEW list \in Seq(Voice), NEW at \in SUBSET (1..Len(list)),
         NEW order \in [1..Cardinality(at) -> at],
         NEW kept \in [1..Cardinality(at) -> Voice],
         \A k \in 1..Cardinality(at) : kept[k] = list[order[k]]
  PROVE  /\ kept \in Seq(Voice) /\ Len(kept) = Cardinality(at) /\ Cardinality(at) \in Nat
         /\ Range(kept) \subseteq Range(list)
         /\ at # {} => Cardinality(at) >= 1
<1>1. IsFiniteSet(at) /\ Cardinality(at) \in Nat
  <2>1. Len(list) \in Int /\ 1 \in Int
    OBVIOUS
  <2>2. IsFiniteSet(1..Len(list))
    BY <2>1, FS_Interval
  <2>3. IsFiniteSet(at)
    BY <2>2, FS_Subset
  <2> QED
    BY <2>3, FS_CardinalityType
<1>2. at # {} => Cardinality(at) # 0
  BY <1>1, FS_EmptySet
<1>3. \A k \in 1..Cardinality(at) : order[k] \in 1..Len(list) /\ list[order[k]] \in Voice
  <2>1. \A n \in 1..Len(list) : list[n] \in Voice
    OBVIOUS
  <2>2. \A k \in 1..Cardinality(at) : order[k] \in 1..Len(list)
    OBVIOUS
  <2> QED
    BY <2>1, <2>2
<1>4. kept \in Seq(Voice) /\ Len(kept) = Cardinality(at)
  BY <1>1, <1>3
<1>5. Range(kept) \subseteq Range(list)
  BY <1>3, <1>4 DEF Range
<1> QED
  BY <1>1, <1>2, <1>4, <1>5

\* A combobox whose list, panel or text changes keeps its value and its options.
LEMMA ComboKeeps ==
  ASSUME VoiceInv, NEW next, InCombo(next), next \in ComboType,
         next.options = field.options, next.current = field.current, next.from = field.from,
         ~ next.open => next.text = next.current,
         next.highlight \in 0..Len(next.filtered),
         Range(next.filtered) \subseteq Range(next.options)
  PROVE  VoiceInv'
<1>1. /\ field.mode = "combo" /\ field' = next /\ next.mode = "combo"
      /\ UNCHANGED <<url, voice, dirty, fetches, drawn, asked, picked, lastUrl>>
  BY DEF InCombo, ComboType
<1>2. VoiceTypeOK'
  BY <1>1 DEF VoiceInv, VoiceTypeOK
<1>3. ComboShowsVoice'
  BY <1>1 DEF VoiceInv, ComboShowsVoice
<1>4. VoiceIsPicked' /\ LastFetch' /\ ListIsOfUrl'
  BY <1>1 DEF VoiceInv, VoiceIsPicked, LastFetch, ListIsOfUrl
<1> QED
  BY <1>2, <1>3, <1>4 DEF VoiceInv

\* The combobox before a step in it: its parts and what the invariant says of them.
LEMMA ComboParts ==
  ASSUME VoiceInv, field.mode = "combo"
  PROVE  /\ field \in ComboType
         /\ Len(field.options) \in Nat /\ Len(field.filtered) \in Nat
         /\ Range(field.options) \subseteq Voice /\ Range(field.filtered) \subseteq Voice
         /\ field.current = voice /\ voice \in Range(field.options)
         /\ ~ field.open => field.text = voice
         /\ field.highlight \in 0..Len(field.filtered)
         /\ Range(field.filtered) \subseteq Range(field.options)
BY FieldTyped DEF VoiceInv, ComboShowsVoice

\* Focusing marks the option at hand (createSearchableCombobox, openPanel).
LEMMA FocusKeeps == VoiceInv /\ Focus => VoiceInv'
<1> SUFFICES ASSUME VoiceInv, Focus PROVE VoiceInv'
  OBVIOUS
<1> DEFINE at == IF \E n \in 1..Len(field.options) : field.options[n] = field.current
                 THEN CHOOSE n \in 1..Len(field.options) : field.options[n] = field.current
                 ELSE 0
<1>1. PICK mark : mark = at
  OBVIOUS
<1>2. PICK next : next = [field EXCEPT !.filtered = field.options, !.open = TRUE, !.highlight = mark]
  OBVIOUS
<1>3. InCombo(next)
  BY <1>1, <1>2 DEF Focus
<1>4. field.mode = "combo"
  BY <1>3 DEF InCombo
<1>5. mark \in 0..Len(field.options)
  BY <1>1, <1>4, ComboParts
<1>6. /\ next \in ComboType
      /\ next.options = field.options /\ next.current = field.current /\ next.from = field.from
      /\ next.open /\ next.filtered = field.options /\ next.highlight = mark
  <2>1. mark \in Nat /\ field \in ComboType
    BY <1>4, <1>5, ComboParts
  <2> HIDE DEF at
  <2> QED
    BY <1>2, <2>1 DEF ComboType
<1> HIDE DEF at
<1> QED
  BY <1>3, <1>5, <1>6, ComboKeeps

\* The arrow keys move the mark within what is listed, shown or not.
LEMMA ArrowKeeps == \A up \in BOOLEAN : VoiceInv /\ Arrow(up) => VoiceInv'
<1> SUFFICES ASSUME NEW up \in BOOLEAN, VoiceInv, Arrow(up) PROVE VoiceInv'
  OBVIOUS
<1>1. PICK mark : mark = Move(field.highlight, up, Len(field.filtered))
  OBVIOUS
<1>2. PICK next : next = [field EXCEPT !.highlight = mark]
  OBVIOUS
<1>3. InCombo(next)
  BY <1>1, <1>2 DEF Arrow
<1>4. field.mode = "combo"
  BY <1>3 DEF InCombo
<1>5. mark \in 0..Len(field.filtered)
  BY <1>1, <1>4, ComboParts, MoveStays
<1>6. /\ next \in ComboType
      /\ next.options = field.options /\ next.current = field.current /\ next.from = field.from
      /\ next.open = field.open /\ next.text = field.text
      /\ next.filtered = field.filtered /\ next.highlight = mark
  BY <1>2, <1>4, <1>5, ComboParts DEF ComboType
<1> QED
  BY <1>3, <1>4, <1>5, <1>6, ComboParts, ComboKeeps

\* Closing puts the label of the value back.
LEMMA CloseKeeps == VoiceInv /\ Close => VoiceInv'
<1> SUFFICES ASSUME VoiceInv, Close PROVE VoiceInv'
  OBVIOUS
<1>1. PICK next : next = [field EXCEPT !.open = FALSE, !.highlight = 0, !.text = field.current]
  OBVIOUS
<1>2. InCombo(next) /\ field.mode = "combo"
  BY <1>1 DEF Close
<1>3. /\ next \in ComboType
      /\ next.options = field.options /\ next.current = field.current /\ next.from = field.from
      /\ next.text = field.current /\ next.filtered = field.filtered /\ next.highlight = 0
  BY <1>1, <1>2, ComboParts DEF ComboType
<1> QED
  BY <1>2, <1>3, ComboParts, ComboKeeps

\* A query lists options that match it, in their order, and nothing else.
LEMMA TypeQueryKeeps == \A matches \in SUBSET Voice : VoiceInv /\ TypeQuery(matches) => VoiceInv'
<1> SUFFICES ASSUME NEW matches \in SUBSET Voice, VoiceInv, TypeQuery(matches) PROVE VoiceInv'
  OBVIOUS
<1>1. field.mode = "combo"
  BY DEF TypeQuery
<1>2. PICK at : at = {n \in 1..Len(field.options) : field.options[n] \in matches}
  OBVIOUS
<1>3. PICK order \in [1..Cardinality(at) -> at] :
        InCombo([field EXCEPT !.text = Typed, !.open = TRUE,
                   !.filtered = [k \in 1..Cardinality(at) |-> field.options[order[k]]],
                   !.highlight = IF at = {} THEN 0 ELSE 1])
  BY <1>2 DEF TypeQuery
<1>4. PICK kept : kept = [k \in 1..Cardinality(at) |-> field.options[order[k]]]
  OBVIOUS
<1>5. PICK next : next = [field EXCEPT !.text = Typed, !.open = TRUE, !.filtered = kept,
                                       !.highlight = IF at = {} THEN 0 ELSE 1]
  OBVIOUS
<1>6. InCombo(next)
  BY <1>3, <1>4, <1>5
<1>7. field.options \in Seq(Voice) /\ at \in SUBSET (1..Len(field.options))
  BY <1>1, <1>2, ComboParts DEF ComboType
<1>8. /\ kept \in Seq(Voice) /\ Len(kept) = Cardinality(at) /\ Cardinality(at) \in Nat
      /\ Range(kept) \subseteq Range(field.options)
      /\ at # {} => Cardinality(at) >= 1
  <2>1. \A n \in 1..Len(field.options) : field.options[n] \in Voice
    BY <1>7
  <2>2. \A k \in 1..Cardinality(at) : order[k] \in 1..Len(field.options)
    BY <1>3, <1>7
  <2>3. /\ kept \in [1..Cardinality(at) -> Voice]
        /\ \A k \in 1..Cardinality(at) : kept[k] = field.options[order[k]]
    BY <1>4, <2>1, <2>2
  <2> QED
    BY <2>3, <1>3, <1>7, FilteredTyped
<1>9. /\ next \in ComboType
      /\ next.options = field.options /\ next.current = field.current /\ next.from = field.from
      /\ next.open /\ next.filtered = kept /\ next.highlight = IF at = {} THEN 0 ELSE 1
  BY <1>1, <1>5, <1>8, ComboParts DEF ComboType
<1>10. next.highlight \in 0..Len(next.filtered)
  BY <1>8, <1>9
<1> QED
  BY <1>6, <1>8, <1>9, <1>10, ComboKeeps

\* A value taken from the options becomes the voice, and is shown.
LEMMA SelectKeeps ==
  ASSUME VoiceInv, NEW value \in Range(field.filtered), Select(value)
  PROVE  VoiceInv'
<1>1. field.mode = "combo"
  BY DEF Select
<1>2. /\ voice' = value /\ picked' = value /\ dirty' = TRUE
      /\ UNCHANGED <<url, fetches, drawn, asked, lastUrl>>
  BY DEF Select, Changed
<1>3. value \in Voice /\ value \in Range(field.options)
  BY <1>1, ComboParts
<1>4. /\ field' \in ComboType
      /\ field'.options = field.options /\ field'.filtered = field.filtered
      /\ field'.current = value /\ field'.text = value /\ field'.from = field.from
      /\ field'.mode = "combo"
      /\ field'.highlight \in {0, field.highlight}
  BY <1>1, <1>3, ComboParts DEF Select, ComboType
<1>5. VoiceTypeOK'
  BY <1>2, <1>3, <1>4 DEF VoiceInv, VoiceTypeOK
<1>6. ComboShowsVoice'
  BY <1>1, <1>2, <1>3, <1>4, ComboParts DEF ComboShowsVoice
<1>7. VoiceIsPicked' /\ LastFetch' /\ ListIsOfUrl'
  BY <1>1, <1>2, <1>4 DEF VoiceInv, VoiceIsPicked, LastFetch, ListIsOfUrl
<1> QED
  BY <1>5, <1>6, <1>7 DEF VoiceInv

\* A click or Enter takes a value from what is listed.
LEMMA ChosenKeeps == VoiceInv /\ (Click \/ Enter) => VoiceInv'
<1> SUFFICES ASSUME VoiceInv, Click \/ Enter PROVE VoiceInv'
  OBVIOUS
<1>1. field.mode = "combo"
  BY DEF Click, Enter
<1>2. /\ field.filtered \in Seq(Voice) /\ Len(field.filtered) \in Nat
      /\ field.highlight \in 0..Len(field.filtered)
  BY <1>1, ComboParts DEF ComboType
<1>3. /\ field.highlight > 0 => field.filtered[field.highlight] \in Range(field.filtered)
      /\ Len(field.filtered) = 1 => field.filtered[1] \in Range(field.filtered)
  BY <1>2 DEF Range
<1>4. PICK value \in Range(field.filtered) : Select(value)
  BY <1>3 DEF Click, Enter
<1> QED
  BY <1>4, SelectKeeps

\* Typing into the text input gives the voice.
LEMMA TypeVoiceKeeps == \A value \in Voice \cup {NoVoice} : VoiceInv /\ TypeVoice(value) => VoiceInv'
<1> SUFFICES ASSUME NEW value \in Voice \cup {NoVoice}, VoiceInv, TypeVoice(value) PROVE VoiceInv'
  OBVIOUS
<1>1. /\ voice' = value /\ picked' = value /\ dirty' = TRUE /\ field' = Text(value)
      /\ UNCHANGED <<url, fetches, drawn, asked, lastUrl>>
  BY DEF TypeVoice, Changed
<1>2. field' \in TextType /\ field'.mode = "text"
  BY <1>1, TextTyped DEF Text
<1> QED
  BY <1>1, <1>2 DEF VoiceInv, VoiceTypeOK, VoiceIsPicked, ComboShowsVoice, LastFetch, ListIsOfUrl

\* What refetch leaves behind: one fetch, and it is for this drawing, or no URL to speak of.
LEMMA RefetchKeeps ==
  ASSUME VoiceTypeOK, LastFetch, NEW drawing \in Nat, Refetch(drawing)
  PROVE  /\ fetches' \in Seq([player : Player, for : Nat]) /\ asked' \in Nat
         /\ lastUrl' \in Player \cup {NoUrl}
         /\ url # NoUrl => fetches' # <<>>
         /\ lastUrl' # NoUrl => /\ lastUrl' = url
                                /\ Len(fetches') = 1
                                /\ fetches'[1] = [player |-> url, for |-> drawing]
<1>1. CASE url = NoUrl
  BY <1>1 DEF VoiceTypeOK, LastFetch, Refetch
<1>2. CASE url # NoUrl
  <2>1. PICK fetch : fetch = [player |-> url, for |-> drawing]
    OBVIOUS
  <2>2. fetch \in [player : Player, for : Nat]
    BY <1>2, <2>1 DEF VoiceTypeOK
  <2>3. /\ asked' = asked + 1 /\ fetches' = Append(fetches, fetch)
        /\ lastUrl' = IF fetches = <<>> THEN url ELSE NoUrl
    BY <1>2, <2>1 DEF Refetch, SendFetch
  <2>4. /\ fetches' \in Seq([player : Player, for : Nat])
        /\ Len(fetches') = Len(fetches) + 1 /\ Len(fetches) \in Nat
        /\ fetches'[Len(fetches) + 1] = fetch
    BY <2>2, <2>3 DEF VoiceTypeOK
  <2>5. fetches' # <<>>
    BY <2>4
  <2>6. fetches = <<>> => Len(fetches) = 0
    OBVIOUS
  <2>7. lastUrl' # NoUrl => fetches = <<>> /\ lastUrl' = url
    BY <2>3
  <2>8. asked' \in Nat /\ lastUrl' \in Player \cup {NoUrl}
    BY <2>3 DEF VoiceTypeOK
  <2> QED
    BY <2>1, <2>4, <2>5, <2>6, <2>7, <2>8
<1> QED
  BY <1>1, <1>2

\* Typing a URL leaves the field alone; its list may now be of another player.
LEMMA TypeUrlKeeps == \A u \in Player \cup {NoUrl} : VoiceInv /\ TypeUrl(u) => VoiceInv'
BY DEF TypeUrl, VoiceInv, VoiceTypeOK, VoiceIsPicked, ComboShowsVoice, LastFetch, ListIsOfUrl

\* Leaving the URL field asks its player, or goes back to a text input at once.
LEMMA BlurUrlKeeps == VoiceInv /\ BlurUrl => VoiceInv'
<1> SUFFICES ASSUME VoiceInv, BlurUrl PROVE VoiceInv'
  OBVIOUS
<1>1. /\ Refetch(drawn) /\ field' = IF url = NoUrl THEN Text(voice) ELSE field
      /\ UNCHANGED <<url, voice, dirty, drawn, picked>>
  BY DEF BlurUrl
<1>2. drawn \in Nat /\ VoiceTypeOK /\ LastFetch
  BY DEF VoiceInv, VoiceTypeOK
<1>3. /\ fetches' \in Seq([player : Player, for : Nat]) /\ asked' \in Nat
      /\ lastUrl' \in Player \cup {NoUrl}
      /\ url # NoUrl => fetches' # <<>>
      /\ lastUrl' # NoUrl => /\ lastUrl' = url
                             /\ Len(fetches') = 1
                             /\ fetches'[1] = [player |-> url, for |-> drawn]
  BY <1>1, <1>2, RefetchKeeps
<1>4. field' = field \/ (field' \in TextType /\ field'.mode = "text")
  BY <1>1, TextTyped DEF VoiceInv, VoiceTypeOK, Text
<1>5. VoiceTypeOK'
  BY <1>1, <1>3, <1>4 DEF VoiceInv, VoiceTypeOK
<1>6. ComboShowsVoice'
  BY <1>1, <1>4 DEF VoiceInv, ComboShowsVoice
<1>7. VoiceIsPicked' /\ LastFetch' /\ ListIsOfUrl'
  BY <1>1, <1>3 DEF VoiceInv, VoiceIsPicked, LastFetch, ListIsOfUrl
<1> QED
  BY <1>5, <1>6, <1>7 DEF VoiceInv

\* Drawing the card anew asks for the new field.
LEMMA RedrawKeeps == VoiceInv /\ Redraw => VoiceInv'
<1> SUFFICES ASSUME VoiceInv, Redraw PROVE VoiceInv'
  OBVIOUS
<1>1. /\ Refetch(drawn + 1) /\ field' = Text(voice) /\ drawn' = drawn + 1
      /\ UNCHANGED <<url, voice, dirty, picked>>
  BY DEF Redraw
<1>2. drawn \in Nat /\ drawn + 1 \in Nat /\ VoiceTypeOK /\ LastFetch
  BY DEF VoiceInv, VoiceTypeOK
<1>3. /\ fetches' \in Seq([player : Player, for : Nat]) /\ asked' \in Nat
      /\ lastUrl' \in Player \cup {NoUrl}
      /\ url # NoUrl => fetches' # <<>>
      /\ lastUrl' # NoUrl => /\ lastUrl' = url
                             /\ Len(fetches') = 1
                             /\ fetches'[1] = [player |-> url, for |-> drawn + 1]
  BY <1>1, <1>2, RefetchKeeps
<1>4. field' \in TextType /\ field'.mode = "text"
  BY <1>1, TextTyped DEF VoiceInv, VoiceTypeOK, Text
<1>5. VoiceTypeOK'
  BY <1>1, <1>2, <1>3, <1>4 DEF VoiceInv, VoiceTypeOK
<1>6. ComboShowsVoice' /\ VoiceIsPicked' /\ LastFetch' /\ ListIsOfUrl'
  BY <1>1, <1>3, <1>4 DEF VoiceInv, ComboShowsVoice, VoiceIsPicked, LastFetch, ListIsOfUrl
<1> QED
  BY <1>5, <1>6 DEF VoiceInv

\* What an answer does to the field and to the voice, whichever drawing it is for.
LEMMA AnswerShown ==
  ASSUME VoiceAssumption, VoiceInv, NEW f \in [player : Player, for : Nat],
         Reached(f) \/ Unreached(f)
  PROVE  /\ voice' \in Voice \cup {NoVoice}
         /\ voice # NoVoice => voice' = voice
         /\ \/ f.for # drawn /\ field' = field /\ (field.mode = "combo" => voice' = voice)
            \/ f.for = drawn /\ field' \in TextType /\ field'.mode = "text"
            \/ /\ f.for = drawn /\ field' \in ComboType /\ field'.mode = "combo"
               /\ field'.current = voice' /\ field'.text = voice' /\ field'.highlight = 0
               /\ voice' \in Range(field'.options) /\ field'.from = f.player
               /\ field'.filtered = field'.options
<1>1. voice \in Voice \cup {NoVoice} /\ NoVoice \notin Voice
  BY DEF VoiceInv, VoiceTypeOK, VoiceAssumption
<1>2. field.mode = "combo" => voice # NoVoice
  BY <1>1, ComboParts
<1>3. CASE Unreached(f)
  BY <1>1, <1>3, TextTyped DEF Unreached, Text
<1>4. CASE Reached(f)
  <2>1. PICK list : list = Options(VoicesOf[f.player], voice)
    OBVIOUS
  <2>2. PICK value : value = IF voice = NoVoice THEN list[1] ELSE voice
    OBVIOUS
  <2>3. /\ VoicesOf[f.player] # <<>> /\ voice' = value
        /\ field' = IF f.for = drawn THEN Combo(list, value, f.player) ELSE field
    BY <1>4, <2>1, <2>2 DEF Reached
  <2>4. VoicesOf[f.player] \in Seq(Voice)
    BY DEF VoiceAssumption
  <2>5. /\ list \in Seq(Voice) /\ list # <<>>
        /\ voice # NoVoice => voice \in Range(list)
    BY <1>1, <2>1, <2>3, <2>4, OptionsTyped
  <2>6. value \in Voice /\ value \in Range(list) /\ (voice # NoVoice => value = voice)
    BY <1>1, <2>2, <2>5, PlaceInList
  <2>7. CASE f.for # drawn
    BY <1>2, <2>3, <2>6, <2>7
  <2>8. CASE f.for = drawn
    <3>1. field' = Combo(list, value, f.player)
      BY <2>3, <2>8
    <3>2. Combo(list, value, f.player) \in ComboType
      BY <2>5, <2>6, ComboTyped
    <3> QED
      BY <2>3, <2>6, <2>8, <3>1, <3>2 DEF Combo
  <2> QED
    BY <2>7, <2>8
<1> QED
  BY <1>3, <1>4

\* An answer, in any order and for any drawing, keeps the voice that was given.
LEMMA AnsweredKeeps == VoiceAssumption /\ VoiceInv /\ Answered => VoiceInv'
<1> SUFFICES ASSUME VoiceAssumption, VoiceInv, Answered PROVE VoiceInv'
  OBVIOUS
<1>1. PICK n \in 1..Len(fetches) :
        /\ Reached(fetches[n]) \/ Unreached(fetches[n])
        /\ fetches' = [k \in 1..Len(fetches) - 1 |-> fetches[IF k < n THEN k ELSE k + 1]]
        /\ UNCHANGED <<url, dirty, drawn, asked, picked, lastUrl>>
  BY DEF Answered
<1>2. fetches \in Seq([player : Player, for : Nat]) /\ Len(fetches) \in Nat
  BY DEF VoiceInv, VoiceTypeOK
<1>3. PICK f \in [player : Player, for : Nat] : f = fetches[n]
  <2>1. ASSUME NEW S, NEW list \in Seq(S), NEW k \in 1..Len(list) PROVE list[k] \in S
    OBVIOUS
  <2> QED
    BY <1>2, <2>1
<1>4. /\ voice' \in Voice \cup {NoVoice}
      /\ voice # NoVoice => voice' = voice
      /\ \/ f.for # drawn /\ field' = field /\ (field.mode = "combo" => voice' = voice)
         \/ f.for = drawn /\ field' \in TextType /\ field'.mode = "text"
         \/ /\ f.for = drawn /\ field' \in ComboType /\ field'.mode = "combo"
            /\ field'.current = voice' /\ field'.text = voice' /\ field'.highlight = 0
            /\ voice' \in Range(field'.options) /\ field'.from = f.player
            /\ field'.filtered = field'.options
  BY <1>1, <1>3, AnswerShown
<1>5. /\ fetches' \in Seq([player : Player, for : Nat])
      /\ Len(fetches) = 1 => fetches' = <<>>
  <2>1. PICK rest : rest = fetches'
    OBVIOUS
  <2>2. PICK Fetch : Fetch = [player : Player, for : Nat]
    OBVIOUS
  <2>3. fetches \in Seq(Fetch) /\ Len(fetches) \in Nat
    BY <1>2, <2>2
  <2>4. ASSUME NEW k \in 1..Len(fetches) - 1 PROVE (IF k < n THEN k ELSE k + 1) \in 1..Len(fetches)
    <3>1. n \in Int /\ k \in Int /\ 1 <= k /\ k <= Len(fetches) - 1 /\ 1 <= n
      BY <2>3
    <3>2. PICK length \in Nat : length = Len(fetches)
      BY <2>3
    <3> QED
      BY <3>1, <3>2
  <2>5. \A k \in 1..Len(fetches) : fetches[k] \in Fetch
    BY <2>3
  <2>6. /\ rest \in [1..Len(fetches) - 1 -> Fetch]
        /\ \A k \in 1..Len(fetches) - 1 : rest[k] = fetches[IF k < n THEN k ELSE k + 1]
    BY <1>1, <2>1, <2>4, <2>5
  <2>7. Len(fetches) - 1 \in Nat
    BY <2>3
  <2>8. rest \in Seq(Fetch) /\ Len(rest) = Len(fetches) - 1
    <3>1. PICK left \in Nat : left = Len(fetches) - 1
      BY <2>7
    <3>2. rest \in [1..left -> Fetch]
      BY <2>6, <3>1
    <3>3. rest \in Seq(Fetch) /\ Len(rest) = left
      BY <3>2
    <3> QED
      BY <3>1, <3>3
  <2>9. Len(fetches) = 1 => rest = <<>>
    BY <2>8
  <2> QED
    BY <2>1, <2>2, <2>8, <2>9
<1>6. VoiceTypeOK'
  BY <1>1, <1>4, <1>5 DEF VoiceInv, VoiceTypeOK
<1>7. VoiceIsPicked'
  BY <1>1, <1>4 DEF VoiceInv, VoiceIsPicked
<1>8. ComboShowsVoice'
  <2>1. field' \in ComboType => 0 \in 0..Len(field'.filtered)
    <3>1. ASSUME NEW list \in Seq(Voice) PROVE 0 \in 0..Len(list)
      OBVIOUS
    <3> QED
      BY <3>1 DEF ComboType
  <2> QED
    BY <1>4, <2>1 DEF VoiceInv, ComboShowsVoice
<1>9. lastUrl # NoUrl => fetches' = <<>> /\ f = [player |-> url, for |-> drawn] /\ lastUrl = url
  <2>1. fetches # <<>>
    BY <1>1
  <2>2. Len(fetches) = 1 => n = 1
    BY <1>1
  <2> QED
    BY <1>3, <1>5, <2>1, <2>2 DEF VoiceInv, LastFetch
<1>10. LastFetch'
  BY <1>1, <1>9 DEF LastFetch
<1>11. ListIsOfUrl'
  BY <1>1, <1>4, <1>9 DEF ListIsOfUrl
<1> QED
  BY <1>6, <1>7, <1>8, <1>10, <1>11 DEF VoiceInv

\* The card as it is loaded.
LEMMA InitVoice == VoiceAssumption /\ VoiceInit => VoiceInv
<1> SUFFICES ASSUME VoiceAssumption, VoiceInit PROVE VoiceInv
  OBVIOUS
<1>1. field \in TextType /\ field.mode = "text"
  BY TextTyped DEF VoiceInit, Text
<1>2. fetches \in Seq([player : Player, for : Nat])
  <2>1. CASE url = NoUrl
    BY <2>1 DEF VoiceInit
  <2>2. CASE url # NoUrl
    <3>1. PICK fetch : fetch = [player |-> url, for |-> 1]
      OBVIOUS
    <3>2. fetch \in [player : Player, for : Nat] /\ fetches = <<fetch>>
      BY <2>2, <3>1 DEF VoiceInit
    <3> QED
      BY <3>2
  <2> QED
    BY <2>1, <2>2
<1>3. VoiceTypeOK
  BY <1>1, <1>2 DEF VoiceInit, VoiceTypeOK
<1>4. LastFetch
  BY DEF VoiceInit, LastFetch
<1> QED
  BY <1>1, <1>3, <1>4 DEF VoiceInit, VoiceInv, VoiceIsPicked, ComboShowsVoice, ListIsOfUrl

\* A step of the rest of the page.
LEMMA StillVoice == VoiceInv /\ UNCHANGED voiceVars => VoiceInv'
BY DEF voiceVars, VoiceInv, VoiceTypeOK, VoiceIsPicked, ComboShowsVoice, LastFetch, ListIsOfUrl

\* The inductive invariant of the voice field.
THEOREM VoiceInvariant == VoiceSpec => []VoiceInv
<1>1. VoiceInit => VoiceInv
  BY VoiceAssumption, InitVoice
<1>2. VoiceInv /\ [VoiceNext]_voiceVars => VoiceInv'
  <2> SUFFICES ASSUME VoiceInv, [VoiceNext]_voiceVars PROVE VoiceInv'
    OBVIOUS
  <2>1. CASE \E u \in Player \cup {NoUrl} : TypeUrl(u)
    BY <2>1, TypeUrlKeeps
  <2>2. CASE BlurUrl
    BY <2>2, BlurUrlKeeps
  <2>3. CASE Redraw
    BY <2>3, RedrawKeeps
  <2>4. CASE Answered
    BY <2>4, VoiceAssumption, AnsweredKeeps
  <2>5. CASE \E value \in Voice \cup {NoVoice} : TypeVoice(value)
    BY <2>5, TypeVoiceKeeps
  <2>6. CASE Focus
    BY <2>6, FocusKeeps
  <2>7. CASE Close
    BY <2>7, CloseKeeps
  <2>8. CASE Click \/ Enter
    BY <2>8, ChosenKeeps
  <2>9. CASE \E matches \in SUBSET Voice : TypeQuery(matches)
    BY <2>9, TypeQueryKeeps
  <2>10. CASE \E up \in BOOLEAN : Arrow(up)
    BY <2>10, ArrowKeeps
  <2>11. CASE UNCHANGED voiceVars
    BY <2>11, StillVoice
  <2> QED
    BY <2>1, <2>2, <2>3, <2>4, <2>5, <2>6, <2>7, <2>8, <2>9, <2>10, <2>11 DEF VoiceNext
<1> QED
  BY <1>1, <1>2, PTL DEF VoiceSpec

\* "An existing (possibly stale) config value is never silently dropped from the form"
\* (admin-local-tts.js:31), whatever the players answer and in whatever order.
THEOREM VoiceIsNeverDropped == VoiceSpec => []VoiceIsPicked
<1>1. VoiceInv => VoiceIsPicked
  BY DEF VoiceInv
<1> QED
  BY <1>1, VoiceInvariant, PTL

\* A closed combobox shows what a save ships, and its mark is in its list (createSearchableCombobox).
THEOREM ComboIsHonest == VoiceSpec => []ComboShowsVoice
<1>1. VoiceInv => ComboShowsVoice
  BY DEF VoiceInv
<1> QED
  BY <1>1, VoiceInvariant, PTL

\* The list offered is of the player whose URL is entered, once it has answered and
\* unless two fetches were under way (refetch).
THEOREM OfferedListIsOfUrl == VoiceSpec => []ListIsOfUrl
<1>1. VoiceInv => ListIsOfUrl
  BY DEF VoiceInv
<1> QED
  BY <1>1, VoiceInvariant, PTL
=============================================================================
