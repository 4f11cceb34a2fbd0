--------------------------- MODULE HookSessionProofs ---------------------------
(***************************************************************************)
(* What the debounce promises, for every idle window and every order in    *)
(* which prompts, Stops and senders come; that the whole hook keeps to it; *)
(* and that what it pushes is what was built, for every edit of the        *)
(* settings.                                                               *)
(***************************************************************************)
EXTENDS HookSession, TLAPS

-----------------------------------------------------------------------------
(* The debounce *)

LEMMA InitHook == Init => HookInv
BY TimeAssumption DEF Init, HookInv, TypeOK, PendingIsNewest, AwayWhenAwake,
   SilentOnlyDuringPost, Stops, Time, None

LEMMA TypeStep == TypeOK /\ [Next]_vars => TypeOK'
<1> SUFFICES ASSUME TypeOK, [Next]_vars
             PROVE  TypeOK'
  OBVIOUS
<1>1. CASE UNCHANGED vars
  BY <1>1 DEF vars, TypeOK
<1>6. CASE Tick
  <2>1. clock' \in Time
    BY <1>6, TimeAssumption DEF Tick, TypeOK, Time
  <2> QED
    BY <1>6, <2>1 DEF Tick, TypeOK
<1>5. CASE Prompt
  BY <1>5 DEF Prompt, TypeOK
<1>2. CASE Stop
  BY <1>2 DEF Stop, TypeOK
<1>3. ASSUME NEW s \in Time, Wake(s) \/ CheckPending(s)
      PROVE  TypeOK'
  BY <1>3 DEF Wake, CheckPending, TypeOK
<1>4. ASSUME NEW s \in Time, Post(s) \/ DeletePending(s)
      PROVE  TypeOK'
  BY <1>4 DEF Post, DeletePending, TypeOK
<1> QED
  BY <1>1, <1>2, <1>3, <1>4, <1>5, <1>6 DEF Next, DeferredSend

LEMMA AwayStep == HookInv /\ [Next]_vars => AwayWhenAwake'
<1> SUFFICES ASSUME HookInv, [Next]_vars
             PROVE  AwayWhenAwake'
  OBVIOUS
<1> USE TimeAssumption DEF HookInv
<1>1. CASE UNCHANGED vars
  BY <1>1 DEF vars, AwayWhenAwake, Stops
<1>2. CASE Tick
  BY <1>2 DEF Tick, TypeOK, AwayWhenAwake, Stops, Time, None
<1>3. CASE Prompt
  BY <1>3 DEF Prompt, TypeOK, AwayWhenAwake, Stops, Time, None
<1>4. CASE Stop
  BY <1>4 DEF Stop, TypeOK, AwayWhenAwake, Stops, Time, None
<1>5. ASSUME NEW s \in Time, Wake(s)
      PROVE  AwayWhenAwake'
  BY <1>5 DEF Wake, TypeOK, AwayWhenAwake, Stops, Time, None
<1>6. ASSUME NEW s \in Time, CheckPending(s)
      PROVE  AwayWhenAwake'
  BY <1>6 DEF CheckPending, TypeOK, AwayWhenAwake, PendingIsNewest, Stops, Time, None
<1>7. ASSUME NEW s \in Time, Post(s)
      PROVE  AwayWhenAwake'
  BY <1>7 DEF Post, TypeOK, AwayWhenAwake, Stops, Time, None
<1>8. ASSUME NEW s \in Time, DeletePending(s)
      PROVE  AwayWhenAwake'
  BY <1>8 DEF DeletePending, TypeOK, AwayWhenAwake, Stops, Time, None
<1> QED
  BY <1>1, <1>2, <1>3, <1>4, <1>5, <1>6, <1>7, <1>8 DEF Next, DeferredSend

LEMMA PendingStep == HookInv /\ [Next]_vars => PendingIsNewest'
<1> SUFFICES ASSUME HookInv, [Next]_vars
             PROVE  PendingIsNewest'
  OBVIOUS
<1> USE TimeAssumption DEF HookInv
<1>1. CASE UNCHANGED vars \/ Tick \/ Prompt
  BY <1>1 DEF vars, Tick, Prompt, PendingIsNewest, Stops
<1>2. CASE Stop
  BY <1>2 DEF Stop, TypeOK, AwayWhenAwake, PendingIsNewest, Stops, Time, None
<1>3. ASSUME NEW s \in Time, Wake(s) \/ CheckPending(s) \/ Post(s)
      PROVE  PendingIsNewest'
  BY <1>3 DEF Wake, CheckPending, Post, TypeOK, PendingIsNewest, Stops
<1>4. ASSUME NEW s \in Time, DeletePending(s)
      PROVE  PendingIsNewest'
  BY <1>4 DEF DeletePending, TypeOK, AwayWhenAwake, PendingIsNewest, Stops, None
<1> QED
  BY <1>1, <1>2, <1>3, <1>4 DEF Next, DeferredSend

LEMMA SilentStep == HookInv /\ [Next]_vars => SilentOnlyDuringPost'
<1> SUFFICES ASSUME HookInv, [Next]_vars
             PROVE  SilentOnlyDuringPost'
  OBVIOUS
<1> USE TimeAssumption DEF HookInv
<1>1. CASE UNCHANGED vars \/ Tick
  BY <1>1 DEF vars, Tick, SilentOnlyDuringPost, Stops
<1>2. CASE Prompt
  <2>1. activity <= clock /\ clock \in Int /\ activity \in Int
    BY TimeAssumption DEF TypeOK, AwayWhenAwake, Time, None
  <2>2. Stops' = Stops /\ Stops \subseteq Int /\ UNCHANGED <<sender, posted, deletedAt>>
    BY <1>2 DEF Prompt, Stops, Time
  <2>3. \A s \in Stops : activity' <= s => activity <= s
    BY <1>2, <2>1, <2>2 DEF Prompt
  <2> QED
    BY <2>2, <2>3 DEF SilentOnlyDuringPost
<1>3. CASE Stop
  BY <1>3 DEF Stop, TypeOK, AwayWhenAwake, SilentOnlyDuringPost, Stops, Time, None
<1>4. ASSUME NEW s \in Time, Wake(s)
      PROVE  SilentOnlyDuringPost'
  BY <1>4 DEF Wake, TypeOK, AwayWhenAwake, SilentOnlyDuringPost, Stops, Time, None
<1>5. ASSUME NEW s \in Time, CheckPending(s)
      PROVE  SilentOnlyDuringPost'
  <2>1. Stops' = Stops
    BY <1>5 DEF CheckPending, TypeOK, Stops
  <2>2. ASSUME pending # s, \A r \in Stops : r <= s
        PROVE  \E r \in posted : r + Idle <= s /\ s <= deletedAt[r]
    <3>1. s \in Stops /\ s \notin posted
      BY <1>5 DEF CheckPending, AwayWhenAwake, Stops
    <3>2. pending = None
      BY <2>2, <3>1 DEF TypeOK, PendingIsNewest, Stops, Time, None
    <3>3. PICK r \in posted : s <= deletedAt[r]
      BY <3>1, <3>2 DEF PendingIsNewest
    <3>4. r \in Time /\ r \in Stops /\ r # s
      BY <3>1 DEF TypeOK, AwayWhenAwake, Stops
    <3>5. s <= r \/ s >= r + Idle
      BY <3>1, <3>4 DEF AwayWhenAwake
    <3>6. s >= r + Idle
      BY <2>2, <3>4, <3>5 DEF Time
    <3> QED
      BY <3>3, <3>4, <3>6 DEF Time
  <2>3. \A r \in Time \ {s} : sender'[r] = sender[r]
    BY <1>5 DEF CheckPending, TypeOK
  <2>4. sender'[s] = "done" => pending # s
    BY <1>5 DEF CheckPending, TypeOK
  <2>5. UNCHANGED <<activity, posted, deletedAt>> /\ Stops \subseteq Time
    BY <1>5 DEF CheckPending, Stops
  <2>6. ASSUME NEW r \in Stops, sender'[r] = "done", r \notin posted,
               \A q \in Stops : q <= r, activity <= r
        PROVE  \E q \in posted : q + Idle <= r /\ r <= deletedAt[q]
    <3>1. CASE r = s
      BY <2>2, <2>4, <2>6, <3>1
    <3>2. CASE r # s
      BY <2>3, <2>5, <2>6, <3>2 DEF SilentOnlyDuringPost
    <3> QED
      BY <3>1, <3>2
  <2> QED
    BY <2>1, <2>5, <2>6 DEF SilentOnlyDuringPost
<1>6. ASSUME NEW s \in Time, Post(s)
      PROVE  SilentOnlyDuringPost'
  BY <1>6 DEF Post, TypeOK, AwayWhenAwake, SilentOnlyDuringPost, Stops, Time, None
<1>7. ASSUME NEW s \in Time, DeletePending(s)
      PROVE  SilentOnlyDuringPost'
  BY <1>7 DEF DeletePending, TypeOK, AwayWhenAwake, SilentOnlyDuringPost, Stops, Time, None
<1> QED
  BY <1>1, <1>2, <1>3, <1>4, <1>5, <1>6, <1>7 DEF Next, DeferredSend

-----------------------------------------------------------------------------
\* The inductive invariant of the debounce.
THEOREM HookInvariant == Spec => []HookInv
<1>1. HookInv /\ [Next]_vars => HookInv'
  BY TypeStep, AwayStep, PendingStep, SilentStep DEF HookInv
<1> QED
  BY <1>1, InitHook, PTL DEF Spec

(***************************************************************************)
(* No push follows a prompt that came inside the idle window of its Stop   *)
(* (runDeferredSend).                                                      *)
(***************************************************************************)
THEOREM PromptsCancel == Spec => []PromptCancels
<1>1. HookInv => PromptCancels
  BY TimeAssumption DEF HookInv, TypeOK, AwayWhenAwake, PromptCancels, Time
<1> QED
  BY <1>1, HookInvariant, PTL

(***************************************************************************)
(* Two pushed Stops are an idle window apart (runDeferredSend).            *)
(***************************************************************************)
THEOREM BurstsPushOnce == Spec => []OnePushPerBurst
<1>1. HookInv => OnePushPerBurst
  BY TimeAssumption DEF HookInv, TypeOK, AwayWhenAwake, OnePushPerBurst, Stops, Time
<1> QED
  BY <1>1, HookInvariant, PTL

(***************************************************************************)
(* A newest Stop that is not pushed came during the POST of an older one   *)
(* (runDeferredSend).                                                      *)
(***************************************************************************)
THEOREM LossesAreOverlaps == Spec => []SilentOnlyDuringPost
BY HookInvariant, PTL DEF HookInv

-----------------------------------------------------------------------------
(* The hook *)

LEMMA SessionStepDebounces == [SessionNext]_allVars => [Next]_vars
<1> SUFFICES ASSUME [SessionNext]_allVars
             PROVE  [Next]_vars
  OBVIOUS
<1>1. CASE UNCHANGED allVars
  BY <1>1 DEF allVars
<1>2. CASE SessionTick \/ SessionPrompt \/ DebouncedStop
  BY <1>2 DEF SessionTick, SessionPrompt, DebouncedStop, Next
<1>3. CASE ImmediateStop \/ EditSettings
  BY <1>3 DEF ImmediateStop, EditSettings
<1>4. ASSUME NEW s \in Time, SenderStep(s)
      PROVE  DeferredSend(s)
  BY <1>4 DEF SenderStep, SessionWake, SessionCheck, SessionPost, SessionDelete, DeferredSend
<1> QED
  BY <1>1, <1>2, <1>3, <1>4 DEF SessionNext, Next

LEMMA SessionFollowsDebounce == SessionSpec => Spec
<1>1. SessionInit => Init
  BY DEF SessionInit
<1> QED
  BY <1>1, SessionStepDebounces, PTL DEF SessionSpec, Spec

-----------------------------------------------------------------------------
LEMMA InitSession == SessionInit => SessionInv
<1> SUFFICES ASSUME SessionInit
             PROVE  SessionInv
  OBVIOUS
<1>1. SessionTypeOK
  BY DEF SessionInit, Init, SessionTypeOK, NoPayload
<1> QED
  BY <1>1 DEF SessionInit, Init, SessionInv, FileIsOfItsStop, BuiltOnce, StartIsFresh,
     DurationIsOfTask, StartUsedOnce, PushesItsOwn

\* What a Stop builds: the payload is new, and gives the last prompt unless an
\* earlier payload has.
LEMMA BuildStep ==
  ASSUME HookInv, SessionInv, Build([stop |-> clock, start |-> startFile]), UNCHANGED prompts,
         \A q \in built : q.stop # clock
  PROVE  /\ built' \subseteq Payload
         /\ [stop |-> clock, start |-> startFile] \in built' /\ built \subseteq built'
         /\ \A p \in built' : p.stop <= clock /\ p.start \in {None} \cup prompts'
         /\ \A p, q \in built' : p.stop = q.stop => p = q
         /\ StartIsFresh' /\ DurationIsOfTask' /\ StartUsedOnce'
<1> DEFINE new == [stop |-> clock, start |-> startFile]
<1>1. built' = built \cup {new} /\ startFile' = None /\ prompts' = prompts
  BY DEF Build
<1>2. /\ prompts \subseteq Time /\ clock \in Time /\ \A t \in prompts : t <= clock
      /\ startFile \in {None} \cup prompts
  <2>1. /\ clock \in Int /\ activity \in Int /\ prompts \subseteq Int
        /\ activity <= clock /\ \A t \in prompts : t <= activity
    BY TimeAssumption DEF HookInv, TypeOK, AwayWhenAwake, Time, None
  <2> QED
    BY <2>1 DEF HookInv, TypeOK, SessionInv, SessionTypeOK
<1>3. new \in Payload
  BY <1>2 DEF Payload
<1>4. new.stop = clock /\ new.start = startFile
  OBVIOUS
<1>5. \A p \in built : p \in Payload /\ p.stop \in Int /\ p.start \in Int /\ p.stop < clock
  BY <1>2 DEF SessionInv, SessionTypeOK, Payload, Time, None
<1>6. \A p \in built : p.start \in {None} \cup prompts
  BY DEF SessionInv, SessionTypeOK
<1>7. \A t \in prompts : t <= startFile \/ \E q \in built : q.start >= t
  BY DEF SessionInv, StartIsFresh
<1>8. StartIsFresh'
  BY <1>1, <1>4, <1>7, <1>2 DEF StartIsFresh, Time, None
<1>9. DurationIsOfTask'
  <2>1. startFile # None =>
          startFile <= clock /\ ~ \E t \in prompts : startFile < t /\ t < clock
    BY <1>2 DEF SessionInv, StartIsFresh, Time, None
  <2>2. \A t \in prompts : t < clock =>
          startFile >= t \/ \E q \in built : q.stop < clock /\ q.start >= t
    BY <1>2, <1>5, <1>7 DEF Time, None
  <2>3. ASSUME NEW p \in built
        PROVE  /\ p.start # None => p.start <= p.stop /\ ~ \E t \in prompts : p.start < t /\ t < p.stop
               /\ \A t \in prompts : t < p.stop =>
                    p.start >= t \/ \E q \in built : q.stop < p.stop /\ q.start >= t
    BY DEF SessionInv, DurationIsOfTask
  <2> QED
    BY <1>1, <1>4, <2>1, <2>2, <2>3 DEF DurationIsOfTask
<1>10. StartUsedOnce'
  <2>1. \A p \in built : p.start = startFile => startFile = None
    BY DEF SessionInv, StartIsFresh
  <2>2. \A p, q \in built : p.start = q.start /\ p # q => p.start = None
    BY DEF SessionInv, StartUsedOnce
  <2> QED
    BY <1>1, <1>4, <2>1, <2>2 DEF StartUsedOnce
<1>11. \A p, q \in built' : p.stop = q.stop => p = q
  BY <1>1, <1>4 DEF SessionInv, BuiltOnce
<1>12. \A p \in built' : p.stop <= clock /\ p.start \in {None} \cup prompts'
  BY <1>1, <1>2, <1>4, <1>5, <1>6 DEF Time
<1>13. built' \subseteq Payload
  BY <1>1, <1>3, <1>5
<1> QED
  BY <1>1, <1>8, <1>9, <1>10, <1>11, <1>12, <1>13

LEMMA SessionStep == HookInv /\ SessionInv /\ [SessionNext]_allVars => SessionInv'
<1> SUFFICES ASSUME HookInv, SessionInv, [SessionNext]_allVars
             PROVE  SessionInv'
  OBVIOUS
<1> DEFINE new == [stop |-> clock, start |-> startFile]
<1>0. TypeOK /\ SessionTypeOK /\ clock \in Int
  BY TimeAssumption DEF HookInv, TypeOK, SessionInv, Time
<1>1. CASE UNCHANGED allVars
  BY <1>1 DEF allVars, vars, sessionVars, SessionInv, SessionTypeOK, FileIsOfItsStop,
     BuiltOnce, StartIsFresh, DurationIsOfTask, StartUsedOnce, PushesItsOwn
<1>2. CASE SessionTick
  <2>1. clock' = clock + 1 /\ UNCHANGED <<activity, pending, sender, prompts, posted, deletedAt>>
        /\ UNCHANGED <<startFile, inFile, held, hasUrl, settings, edits, built, pushed>>
    BY <1>2 DEF SessionTick, Tick, sessionVars
  <2>2. \A p \in built : p.stop <= clock'
    BY <1>0, <2>1 DEF SessionTypeOK, Payload, Time
  <2> QED
    BY <2>1, <2>2 DEF SessionInv, SessionTypeOK, FileIsOfItsStop, BuiltOnce, StartIsFresh,
       DurationIsOfTask, StartUsedOnce, PushesItsOwn
<1>3. CASE SessionPrompt
  <2>1. /\ clock \notin prompts /\ prompts' = prompts \cup {clock} /\ startFile' = clock
        /\ UNCHANGED <<clock, pending, sender>>
        /\ UNCHANGED <<inFile, held, hasUrl, settings, edits, built, pushed>>
    BY <1>3 DEF SessionPrompt, Prompt
  <2>2. /\ \A t \in prompts : t <= clock
        /\ \A p \in built : p.stop \in Int /\ p.start \in Int /\ p.stop <= clock /\ p.start # clock
    <3>1. /\ activity \in Int /\ prompts \subseteq Int
          /\ activity <= clock /\ \A t \in prompts : t <= activity
      BY TimeAssumption DEF HookInv, TypeOK, AwayWhenAwake, Time, None
    <3>2. clock # None
      BY <1>0, TimeAssumption DEF TypeOK, Time, None
    <3> QED
      BY <1>0, <2>1, <3>1, <3>2 DEF SessionTypeOK, Payload, Time, None
  <2>3. SessionTypeOK'
    BY <1>0, <2>1 DEF SessionTypeOK
  <2>4. StartIsFresh'
    BY <1>0, <2>1, <2>2 DEF StartIsFresh, TypeOK, Time, None
  <2>5. DurationIsOfTask'
    <3>1. DurationIsOfTask
      BY DEF SessionInv
    <3> QED
      BY <1>0, <2>1, <2>2, <3>1 DEF DurationIsOfTask
  <2> QED
    BY <2>1, <2>3, <2>4, <2>5 DEF SessionInv, FileIsOfItsStop, BuiltOnce, StartUsedOnce,
       PushesItsOwn
<1>4. CASE DebouncedStop
  <2>1. /\ settings.debounced /\ sender[clock] = "none" /\ Build(new)
        /\ pending' = clock /\ inFile' = new
        /\ sender' = [sender EXCEPT ![clock] = "asleep"]
        /\ UNCHANGED <<clock, activity, prompts, held, hasUrl, settings, edits, pushed>>
    BY <1>4 DEF DebouncedStop, Stop
  <2>2. \A q \in built : q.stop # clock
    BY <2>1 DEF SessionInv, BuiltOnce
  <2>3. /\ built' \subseteq Payload /\ new \in built' /\ built \subseteq built'
        /\ \A p \in built' : p.stop <= clock /\ p.start \in {None} \cup prompts'
        /\ \A p, q \in built' : p.stop = q.stop => p = q
        /\ StartIsFresh' /\ DurationIsOfTask' /\ StartUsedOnce'
    BY <2>1, <2>2, BuildStep
  <2>4. built' = built \cup {new} /\ startFile' = None
    BY <2>1 DEF Build
  <2>5. SessionTypeOK'
    <3>1. new \in Payload
      BY <2>3
    <3> QED
      BY <1>0, <2>1, <2>3, <2>4, <3>1 DEF SessionTypeOK
  <2>6. FileIsOfItsStop'
    BY <2>1, <2>3 DEF FileIsOfItsStop
  <2>7. BuiltOnce'
    <3>1. \A p \in built' : sender'[p.stop] # "none"
      BY <1>0, <2>1, <2>3, <2>4 DEF SessionInv, BuiltOnce, TypeOK, Payload
    <3> QED
      BY <2>3, <3>1 DEF BuiltOnce
  <2>8. PushesItsOwn'
    <3>1. PushesItsOwn
      BY DEF SessionInv
    <3> QED
      BY <1>0, <2>1, <2>3, <3>1 DEF PushesItsOwn, TypeOK
  <2> QED
    BY <2>3, <2>5, <2>6, <2>7, <2>8 DEF SessionInv
<1>5. CASE ImmediateStop
  <2>1. /\ ~ settings.debounced /\ \A q \in built : q.stop # clock
        /\ Build(new)
        /\ UNCHANGED <<clock, activity, pending, sender, prompts, posted, deletedAt>>
        /\ UNCHANGED <<inFile, held, hasUrl, settings, edits, pushed>>
    BY <1>5 DEF ImmediateStop, vars
  <2>3. /\ built' \subseteq Payload /\ new \in built' /\ built \subseteq built'
        /\ \A p \in built' : p.stop <= clock /\ p.start \in {None} \cup prompts'
        /\ \A p, q \in built' : p.stop = q.stop => p = q
        /\ StartIsFresh' /\ DurationIsOfTask' /\ StartUsedOnce'
    BY <2>1, BuildStep
  <2>4. startFile' = None
    BY <2>1 DEF Build
  <2>5. SessionTypeOK'
    BY <1>0, <2>1, <2>3, <2>4 DEF SessionTypeOK
  <2>6. FileIsOfItsStop' /\ BuiltOnce' /\ PushesItsOwn'
    BY <2>1, <2>3 DEF SessionInv, FileIsOfItsStop, BuiltOnce, PushesItsOwn
  <2> QED
    BY <2>3, <2>5, <2>6 DEF SessionInv
<1>6. CASE EditSettings
  <2>1. /\ edits' = edits + 1 /\ settings' \in Settings /\ settings'.debounced = settings.debounced
        /\ hasUrl' \in [Time -> BOOLEAN]
        /\ UNCHANGED <<clock, activity, pending, sender, prompts, posted, deletedAt>>
        /\ UNCHANGED <<startFile, inFile, held, built, pushed>>
    BY <1>0, <1>6 DEF EditSettings, vars, SessionTypeOK, Settings
  <2> QED
    BY <2>1 DEF SessionInv, SessionTypeOK, FileIsOfItsStop, BuiltOnce, StartIsFresh,
       DurationIsOfTask, StartUsedOnce, PushesItsOwn
<1>7. ASSUME NEW s \in Time, SessionWake(s) \/ SessionCheck(s) \/ SessionPost(s) \/ SessionDelete(s)
      PROVE  SessionInv'
  <2>1. /\ UNCHANGED <<clock, prompts, startFile, hasUrl, settings, edits, built>>
        /\ \A r \in Time : (sender'[r] = "none") = (sender[r] = "none")
        /\ sender' \in [Time -> {"none", "asleep", "awake", "posting", "posted", "done"}]
    BY <1>0, <1>7 DEF SessionWake, SessionCheck, SessionPost, SessionDelete, Wake, CheckPending,
       Post, DeletePending, sessionVars, TypeOK
  <2>2. StartIsFresh' /\ DurationIsOfTask' /\ StartUsedOnce'
    BY <2>1 DEF SessionInv, StartIsFresh, DurationIsOfTask, StartUsedOnce
  <2>3. BuiltOnce'
    BY <1>0, <2>1 DEF SessionInv, BuiltOnce, SessionTypeOK, Payload
  <2>4. FileIsOfItsStop'
    <3>1. UNCHANGED <<pending, inFile>> \/ pending' = None
      BY <1>7 DEF SessionWake, SessionCheck, SessionPost, SessionDelete, Wake, CheckPending,
         Post, DeletePending, sessionVars
    <3> QED
      BY <2>1, <3>1 DEF SessionInv, FileIsOfItsStop
  <2>5. /\ inFile' \in Payload \cup {NoPayload}
        /\ held' \in [Time -> Payload \cup {NoPayload}]
        /\ pushed' \in [Time -> Payload \cup {NoPayload}]
    BY <1>0, <1>7 DEF SessionWake, SessionCheck, SessionPost, SessionDelete, Hold, sessionVars,
       SessionTypeOK
  <2>6. SessionTypeOK'
    BY <1>0, <2>1, <2>5 DEF SessionTypeOK
  <2>7. PushesItsOwn'
    <3> USE DEF PushesItsOwn
    <3>0. PushesItsOwn
      BY DEF SessionInv
    <3>1. CASE SessionWake(s) \/ SessionDelete(s)
      BY <1>0, <2>1, <3>0, <3>1 DEF SessionWake, SessionDelete, Wake, DeletePending, sessionVars, TypeOK
    <3>2. CASE SessionCheck(s)
      <4>1. sender'[s] = "posting" => pending = s /\ inFile \in built /\ inFile.stop = s /\ held'[s] = inFile
        BY <1>0, <3>2 DEF SessionInv, FileIsOfItsStop, SessionCheck, CheckPending, Hold, TypeOK,
           SessionTypeOK, Time, None
      <4>2. sender'[s] \in {"posting", "done"} /\ pushed' = pushed
        BY <1>0, <3>2 DEF SessionCheck, CheckPending, TypeOK
      <4>3. \A r \in Time \ {s} : sender'[r] = sender[r] /\ held'[r] = held[r]
        BY <1>0, <3>2 DEF SessionCheck, CheckPending, Hold, TypeOK, SessionTypeOK
      <4> QED
        BY <2>1, <3>0, <4>1, <4>2, <4>3
    <3>3. CASE SessionPost(s)
      <4>1. sender[s] = "posting" /\ held' = held
        BY <3>3 DEF SessionPost, Post
      <4>2. \A r \in Time \ {s} : sender'[r] = sender[r] /\ pushed'[r] = pushed[r]
        BY <1>0, <3>3 DEF SessionPost, Post, TypeOK, SessionTypeOK
      <4>3. pushed'[s] \in {pushed[s], held[s]}
        BY <1>0, <3>3 DEF SessionPost, SessionTypeOK
      <4> QED
        BY <2>1, <3>0, <4>1, <4>2, <4>3
    <3> QED
      BY <1>7, <3>1, <3>2, <3>3
  <2> QED
    BY <2>2, <2>3, <2>4, <2>6, <2>7 DEF SessionInv
<1> QED
  BY <1>1, <1>2, <1>3, <1>4, <1>5, <1>6, <1>7 DEF SessionNext, SenderStep

(***************************************************************************)
(* The payload a sender posts is of its own Stop, and its duration of the  *)
(* task that ended there, given once, however the settings are edited      *)
(* (readAndClearStartTime, readPendingPayload).                            *)
(***************************************************************************)
THEOREM SessionInvariant == SessionSpec => []SessionInv
<1>1. HookInv /\ SessionInv /\ [SessionNext]_allVars => (HookInv /\ SessionInv)'
  <2>1. HookInv /\ [SessionNext]_allVars => HookInv'
    BY SessionStepDebounces, TypeStep, AwayStep, PendingStep, SilentStep DEF HookInv
  <2> QED
    BY <2>1, SessionStep
<1>2. SessionInit => HookInv /\ SessionInv
  BY InitHook, InitSession DEF SessionInit
<1> QED
  BY <1>1, <1>2, PTL DEF SessionSpec

(***************************************************************************)
(* The promises of the debounce are kept by the whole hook                 *)
(* (runDeferredSend).                                                      *)
(***************************************************************************)
COROLLARY SessionDebounces ==
  SessionSpec => [](PromptCancels /\ OnePushPerBurst /\ SilentOnlyDuringPost)
BY SessionFollowsDebounce, PromptsCancel, BurstsPushOnce, LossesAreOverlaps, PTL
=============================================================================
