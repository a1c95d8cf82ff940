---------------------------- MODULE SampleProofs ----------------------------
(***************************************************************************)
(* Theorems about the PS3 sample Ps3App and its keyboard dialog, for every *)
(* set of texts, any number of dialogs and of queued events.               *)
(***************************************************************************)
EXTENDS Ps3App, TLAPS

-----------------------------------------------------------------------------
(* Queued events.                                                          *)

LEMMA RangeOfEmpty == Range(<< >>) = {}
BY DEF Range

LEMMA RangeOfConcat ==
  ASSUME NEW S, NEW s \in Seq(S), NEW t \in Seq(S)
  PROVE  s \o t \in Seq(S) /\ Range(s \o t) = Range(s) \cup Range(t)
<1>1. \A i \in DOMAIN (s \o t) : (s \o t)[i] \in Range(s) \cup Range(t)
  BY DEF Range
<1>2. \A i \in DOMAIN s : i \in DOMAIN (s \o t) /\ (s \o t)[i] = s[i]
  OBVIOUS
<1>3. \A i \in DOMAIN t : Len(s) + i \in DOMAIN (s \o t) /\ (s \o t)[Len(s) + i] = t[i]
  OBVIOUS
<1>4. Range(s \o t) \subseteq Range(s) \cup Range(t)
  BY <1>1 DEF Range
<1>5. Range(s) \subseteq Range(s \o t)
  BY <1>2 DEF Range
<1>6. Range(t) \subseteq Range(s \o t)
  BY <1>3 DEF Range
<1>7. s \o t \in Seq(S)
  OBVIOUS
<1>8. QED BY <1>4, <1>5, <1>6, <1>7

LEMMA RangeOfSingle == ASSUME NEW e PROVE Range(<<e>>) = {e}
BY DEF Range

LEMMA RangeOfAppend ==
  ASSUME NEW S, NEW s \in Seq(S), NEW e \in S
  PROVE  Append(s, e) \in Seq(S) /\ Range(Append(s, e)) = Range(s) \cup {e}
<1>1. Append(s, e) = s \o <<e>> /\ <<e>> \in Seq(S)
  OBVIOUS
<1>2. Append(s, e) \in Seq(S)
  OBVIOUS
<1>3. Range(s \o <<e>>) = Range(s) \cup Range(<<e>>)
  BY <1>1, RangeOfConcat
<1>4. QED BY <1>1, <1>2, <1>3, RangeOfSingle

\* osk_event_handle keeps an event that was queued or the one in its slot.
LEMMA KeptWasQueued ==
  ASSUME events \in Seq(Events)
  PROVE  Kept \subseteq (Range(events) \cap Events) \ {"UNLOADED"}
BY DEF Kept, Range, Events

LEMMA HandledEvent ==
  ASSUME DialogInv, osk_event_handle
  PROVE  /\ events' = << >> /\ events' \in Seq(Events) /\ Range(events)' = {}
         /\ osk_event' \in (Said \cap (Events \ {"UNLOADED"})) \cup {osk_event}
         /\ ~ listening => osk_event' = osk_event /\ osk_unloaded' = osk_unloaded
         /\ osk_unloaded' \in BOOLEAN
         /\ osk_unloaded' => osk_unloaded \/ "UNLOADED" \in Range(events)
<1>1. events' = << >> /\ events' \in Seq(Events)
  BY DEF osk_event_handle
<1>2. Range(events)' = {}
  BY <1>1, RangeOfEmpty
<1>3. osk_event' \in (Said \cap (Events \ {"UNLOADED"})) \cup {osk_event}
  BY KeptWasQueued DEF osk_event_handle, Said, DialogInv, DialogTypeOK
<1>4. QED
  BY <1>1, <1>2, <1>3 DEF osk_event_handle, SaysUnloaded, DialogInv, DialogTypeOK

-----------------------------------------------------------------------------
(* The keyboard and its user keep the dialog's invariant.                  *)

LEMMA EventSeqs ==
  /\ << >> \in Seq(Events) /\ Range(<< >>) = {}
  /\ \A e \in Events : <<e>> \in Seq(Events) /\ Range(<<e>>) = {e}
  /\ {"CANCELED", "ENTERED", "DONE", "UNLOADED"} \subseteq Events
BY RangeOfEmpty, RangeOfSingle DEF Events

LEMMA UserLeavesKeeps ==
  ASSUME DialogInv, NEW how \in {"OK", "CANCELED", "NO_TEXT"}, UserLeaves(how)
  PROVE  DialogInv'
<1>1. PICK said \in {<< >>, IF how = "CANCELED" THEN <<"CANCELED">> ELSE <<"ENTERED">>} :
        events' = events \o said \o <<"DONE">>
  BY DEF UserLeaves
<1>2. said \in Seq(Events) /\ Range(said) \subseteq {IF how = "CANCELED" THEN "CANCELED" ELSE "ENTERED"}
  BY EventSeqs
<1>3. events \in Seq(Events)
  BY DEF DialogInv, DialogTypeOK
<1>4. events \o said \in Seq(Events) /\ Range(events \o said) = Range(events) \cup Range(said)
  BY <1>2, <1>3, RangeOfConcat
<1>5. events' \in Seq(Events) /\ Range(events)' = Range(events) \cup Range(said) \cup {"DONE"}
  <2> DEFINE queued == events \o said
  <2>1. events' = Append(queued, "DONE")
    BY <1>1, <1>2, <1>3
  <2>2. queued \in Seq(Events) /\ Range(queued) = Range(events) \cup Range(said)
    BY <1>4
  <2> HIDE DEF queued
  <2>3. QED BY <2>1, <2>2, RangeOfAppend, EventSeqs
<1>6. DialogTypeOK'
  BY <1>5 DEF DialogInv, DialogTypeOK, UserLeaves, appVars, Verdicts
<1>7. InUse' /\ AtRest'
  BY <1>2, <1>5 DEF DialogInv, InUse, AtRest, UserLeaves, appVars
<1>8. ToldByEvents'
  <2>1. keyboard' = "finished" /\ verdict' = how /\ (how = "OK" => typed # Empty)
          /\ UNCHANGED <<osk_event, osk_action, g_ime_active, typed>>
    BY DEF UserLeaves, appVars
  <2>2. verdict = "NO_TEXT" /\ osk_action = 0 /\ Said \cap {"CANCELED", "DONE", "UNLOADED"} = {}
    BY DEF DialogInv, ToldByEvents, UserLeaves
  <2>3. "CANCELED" \in Said' => how = "CANCELED"
    BY <1>2, <1>5, <2>1, <2>2 DEF Said
  <2>4. QED BY <2>1, <2>2, <2>3 DEF ToldByEvents, Said
<1>9. VerdictKept' /\ Confirming' /\ ReturnsVerdict'
  BY DEF DialogInv, VerdictKept, Confirming, ReturnsVerdict, AtRest, InUse, UserLeaves, appVars
<1>10. QED BY <1>6, <1>7, <1>8, <1>9 DEF DialogInv

LEMMA UserCancelsKeeps ==
  ASSUME DialogInv, UserCancels
  PROVE  DialogInv'
<1>1. events' \in Seq(Events) /\ Range(events)' = Range(events) \cup {"CANCELED"}
  BY RangeOfAppend, EventSeqs DEF UserCancels, DialogInv, DialogTypeOK
<1>2. DialogTypeOK'
  BY <1>1 DEF DialogInv, DialogTypeOK, UserCancels, appVars, Verdicts
<1>3. InUse' /\ AtRest' /\ ToldByEvents'
  BY <1>1 DEF DialogInv, InUse, AtRest, ToldByEvents, Said, UserCancels, appVars
<1>4. VerdictKept' /\ Confirming' /\ ReturnsVerdict'
  BY DEF DialogInv, VerdictKept, Confirming, ReturnsVerdict, AtRest, InUse, UserCancels, appVars
<1>5. QED BY <1>2, <1>3, <1>4 DEF DialogInv

LEMMA UserTypesKeeps ==
  ASSUME DialogInv, NEW text \in Texts, UserTypes(text)
  PROVE  DialogInv'
<1>1. events' \in Seq(Events) /\ Range(events)' \subseteq Range(events) \cup {"ENTERED"}
  <2>1. PICK said \in {<< >>, <<"ENTERED">>} : events' = events \o said
    BY DEF UserTypes
  <2>2. said \in Seq(Events) /\ Range(said) \subseteq {"ENTERED"}
    BY EventSeqs
  <2>3. QED BY <2>1, <2>2, RangeOfConcat DEF DialogInv, DialogTypeOK
<1>2. DialogTypeOK'
  BY <1>1 DEF DialogInv, DialogTypeOK, UserTypes, appVars
<1>3. InUse' /\ AtRest' /\ ToldByEvents'
  BY <1>1 DEF DialogInv, InUse, AtRest, ToldByEvents, Said, UserTypes, appVars
<1>4. VerdictKept' /\ Confirming' /\ ReturnsVerdict'
  BY DEF DialogInv, VerdictKept, Confirming, ReturnsVerdict, AtRest, InUse, UserTypes, appVars
<1>5. QED BY <1>2, <1>3, <1>4 DEF DialogInv

LEMMA KeyboardStepKeeps ==
  ASSUME DialogInv, KeyboardStep
  PROVE  DialogInv'
<1> USE DEF DialogInv, appVars
<1>1. CASE keyboard = "closing" /\ keyboard' = "finished" /\ events' = Append(events, "DONE")
           /\ UNCHANGED <<dialog, appVars, result, typed, verdict>>
  <2>1. events' \in Seq(Events) /\ Range(events)' = Range(events) \cup {"DONE"}
    BY <1>1, RangeOfAppend, EventSeqs DEF DialogTypeOK
  <2>2. DialogTypeOK'
    BY <1>1, <2>1 DEF DialogTypeOK
  <2>3. InUse' /\ AtRest' /\ ToldByEvents'
    BY <1>1, <2>1 DEF InUse, AtRest, ToldByEvents, Said
  <2>4. VerdictKept' /\ Confirming' /\ ReturnsVerdict'
    BY <1>1 DEF VerdictKept, Confirming, ReturnsVerdict, InUse
  <2>5. QED BY <2>2, <2>3, <2>4
<1>2. CASE keyboard = "unloading" /\ keyboard' = "off" /\ events' = Append(events, "UNLOADED")
           /\ UNCHANGED <<dialog, appVars, result, typed, verdict>>
  <2>1. events' \in Seq(Events) /\ Range(events)' = Range(events) \cup {"UNLOADED"}
    BY <1>2, RangeOfAppend, EventSeqs DEF DialogTypeOK
  <2>2. DialogTypeOK'
    BY <1>2, <2>1 DEF DialogTypeOK
  <2>3. InUse' /\ AtRest' /\ ToldByEvents'
    BY <1>2, <2>1 DEF InUse, AtRest, ToldByEvents, Said
  <2>4. VerdictKept' /\ Confirming' /\ ReturnsVerdict'
    BY <1>2, <2>1 DEF VerdictKept, Confirming, ReturnsVerdict, InUse, Said
  <2>5. QED BY <2>2, <2>3, <2>4
<1>3. QED BY <1>1, <1>2 DEF KeyboardStep

-----------------------------------------------------------------------------
(* The dialog's own steps.                                                 *)

LEMMA InitKeeps ==
  ASSUME DialogInv, Range(events) = {}, NEW text \in Texts, osk_dialog_input_init(text)
  PROVE  DialogInv'
<1>1. dialog = "closed" /\ ~ container /\ ~ listening /\ keyboard = "off"
      /\ osk_event = "none" /\ ~ g_ime_active /\ events \in Seq(Events)
  BY DEF osk_dialog_input_init, DialogInv, DialogTypeOK, AtRest
<1> USE DEF DialogInv, keyboardVars, Leave
<1>2. CASE NoContainer
  <2>1. dialog' \in {"closed", "update", "draw", "returned"} /\ osk_level' \in 0..2 /\ osk_action' \in {-1, 0, 1}
    BY <1>2 DEF DialogTypeOK, NoContainer, Texts
  <2>2. /\ osk_event' \in (Events \ {"UNLOADED"}) \cup {"none"} /\ osk_unloaded' \in BOOLEAN
        /\ g_ime_active' \in BOOLEAN /\ g_ime_input' \in Texts /\ res' \in Verdicts
    BY <1>2 DEF DialogTypeOK, NoContainer, Texts
  <2>3. /\ container' \in BOOLEAN /\ listening' \in BOOLEAN /\ result' \in Texts
        /\ keyboard' \in {"off", "open", "cancelled", "closing", "finished", "unloading"}
        /\ typed' \in Texts /\ verdict' \in Verdicts /\ events' \in Seq(Events)
    BY <1>2 DEF DialogTypeOK, NoContainer, Texts
  <2>4. DialogTypeOK'
    BY <2>1, <2>2, <2>3 DEF DialogTypeOK
  <2>5. QED
    BY <1>1, <1>2, <2>4 DEF NoContainer, AtRest, InUse, ToldByEvents, VerdictKept, Confirming,
                            ReturnsVerdict, Said
<1>3. ASSUME NEW reached \in BOOLEAN, NotLoaded(reached) PROVE DialogInv'
  <2>1. dialog' \in {"closed", "update", "draw", "returned"} /\ osk_level' \in 0..2 /\ osk_action' \in {-1, 0, 1}
    BY <1>3 DEF DialogTypeOK, NotLoaded, Texts, Verdicts
  <2>2. /\ osk_event' \in (Events \ {"UNLOADED"}) \cup {"none"} /\ osk_unloaded' \in BOOLEAN
        /\ g_ime_active' \in BOOLEAN /\ g_ime_input' \in Texts /\ res' \in Verdicts
    BY <1>3 DEF DialogTypeOK, NotLoaded, Texts, Verdicts
  <2>3. /\ container' \in BOOLEAN /\ listening' \in BOOLEAN /\ result' \in Texts
        /\ keyboard' \in {"off", "open", "cancelled", "closing", "finished", "unloading"}
        /\ typed' \in Texts /\ verdict' \in Verdicts /\ events' \in Seq(Events)
    BY <1>3 DEF DialogTypeOK, NotLoaded, Texts, Verdicts
  <2>4. DialogTypeOK'
    BY <2>1, <2>2, <2>3 DEF DialogTypeOK
  <2>5. QED
    BY <1>1, <1>3, <2>4 DEF NotLoaded, AtRest, InUse, ToldByEvents, VerdictKept, Confirming,
                            ReturnsVerdict, Said
<1>4. CASE Loaded(text)
  <2>1. dialog' \in {"closed", "update", "draw", "returned"} /\ osk_level' \in 0..2 /\ osk_action' \in {-1, 0, 1}
    BY <1>4 DEF DialogTypeOK, Loaded, Texts, Verdicts
  <2>2. /\ osk_event' \in (Events \ {"UNLOADED"}) \cup {"none"} /\ osk_unloaded' \in BOOLEAN
        /\ g_ime_active' \in BOOLEAN /\ g_ime_input' \in Texts /\ res' \in Verdicts
    BY <1>4 DEF DialogTypeOK, Loaded, Texts, Verdicts
  <2>3. /\ container' \in BOOLEAN /\ listening' \in BOOLEAN /\ result' \in Texts
        /\ keyboard' \in {"off", "open", "cancelled", "closing", "finished", "unloading"}
        /\ typed' \in Texts /\ verdict' \in Verdicts /\ events' \in Seq(Events)
    BY <1>4 DEF DialogTypeOK, Loaded, Texts, Verdicts
  <2>4. DialogTypeOK'
    BY <2>1, <2>2, <2>3 DEF DialogTypeOK
  <2>5. QED
    BY <1>1, <1>4, <2>4 DEF Loaded, AtRest, InUse, ToldByEvents, VerdictKept, Confirming,
                            ReturnsVerdict, Said
<1>5. QED BY <1>2, <1>3, <1>4 DEF osk_dialog_input_init

LEMMA FinishKeeps ==
  ASSUME DialogInv, Finish
  PROVE  DialogInv'
<1> USE DEF DialogInv
<1>1. g_ime_active /\ keyboard = "off" /\ res = verdict /\ (verdict = "OK" => g_ime_input = typed /\ osk_action = 1)
      /\ osk_level = 2 /\ (verdict = "OK" => typed # Empty)
  BY DEF Finish, InUse, VerdictKept, ToldByEvents
<1>2. UNCHANGED <<keyboard, res, g_ime_input, verdict>>
  BY <1>1 DEF Finish, AbortAndUnload, Unload
<1>3. IF verdict = "OK" THEN dialog' = "draw" /\ UNCHANGED result ELSE dialog' = "returned" /\ result' = Empty
  BY <1>1 DEF Finish, Leave
<1>4. DialogTypeOK'
  BY <1>2, <1>3 DEF DialogTypeOK, Finish, Texts
<1>5. AtRest' /\ InUse' /\ ToldByEvents' /\ VerdictKept'
  BY <1>1, <1>2, <1>3 DEF Finish, AtRest, InUse, ToldByEvents, VerdictKept
<1>6. Confirming' /\ ReturnsVerdict'
  BY <1>1, <1>2, <1>3 DEF Finish, Confirming, ReturnsVerdict
<1>7. QED BY <1>4, <1>5, <1>6

LEMMA DrawKeeps ==
  ASSUME DialogInv, Draw
  PROVE  DialogInv'
<1>1. /\ events' = << >> /\ events' \in Seq(Events) /\ Range(events)' = {}
      /\ osk_event' \in (Said \cap (Events \ {"UNLOADED"})) \cup {osk_event}
      /\ ~ listening => osk_event' = osk_event /\ osk_unloaded' = osk_unloaded
      /\ osk_unloaded' \in BOOLEAN
      /\ osk_unloaded' => osk_unloaded \/ "UNLOADED" \in Range(events)
  BY HandledEvent DEF Draw
<1> USE DEF DialogInv, Leave
<1>2. DialogTypeOK'
  BY <1>1 DEF DialogTypeOK, Draw
<1>3. InUse'
  BY <1>1 DEF Draw, InUse
<1>4. ToldByEvents' /\ VerdictKept'
  BY <1>1 DEF Draw, ToldByEvents, VerdictKept, Said
<1>5. AtRest' /\ Confirming' /\ ReturnsVerdict'
  BY <1>1 DEF Draw, AtRest, Confirming, ReturnsVerdict
<1>6. QED BY <1>2, <1>3, <1>4, <1>5

LEMMA TakeEventKeeps ==
  ASSUME DialogInv, TakeEvent
  PROVE  DialogInv'
<1> USE DEF DialogInv
<1>1. /\ dialog = "update" /\ dialog' = "draw" /\ ~ osk_unloaded /\ osk_event' = "none"
      /\ g_ime_active /\ listening /\ container /\ osk_level = 2
      /\ UNCHANGED <<osk_level, osk_unloaded, g_ime_active, container, listening, result, typed, events>>
  BY DEF TakeEvent, InUse
<1>2. AtRest' /\ Confirming' /\ ReturnsVerdict'
  BY <1>1 DEF AtRest, Confirming, ReturnsVerdict
<1>3. CASE osk_event = "none" /\ UNCHANGED <<osk_action, res, g_ime_input, keyboard, verdict>>
  <2>1. DialogTypeOK'
    BY <1>1, <1>3 DEF DialogTypeOK
  <2>2. InUse' /\ ToldByEvents' /\ VerdictKept'
    BY <1>1, <1>3 DEF InUse, ToldByEvents, VerdictKept, Said
  <2>3. QED BY <1>2, <2>1, <2>2
<1>4. CASE osk_event = "ENTERED" /\ GetInputText /\ UNCHANGED osk_action
  <2>1. DialogTypeOK'
    BY <1>1, <1>4 DEF DialogTypeOK, GetInputText, Verdicts
  <2>2. InUse' /\ ToldByEvents' /\ VerdictKept'
    BY <1>1, <1>4 DEF InUse, ToldByEvents, VerdictKept, Said, GetInputText
  <2>3. QED BY <1>2, <2>1, <2>2
<1>5. CASE osk_event = "CANCELED" /\ AbortAndUnload /\ osk_action' = -1
  <2>1. verdict \in {"CANCELED", "ABORT"} /\ keyboard # "open" /\ "ENTERED" \notin Range(events)
    BY <1>1, <1>5 DEF ToldByEvents, Said
  <2>2. DialogTypeOK'
    BY <1>1, <1>5 DEF DialogTypeOK, AbortAndUnload, Unload, Verdicts
  <2>3. InUse' /\ ToldByEvents' /\ VerdictKept'
    BY <1>1, <1>5, <2>1 DEF InUse, ToldByEvents, VerdictKept, Said, AbortAndUnload, Unload
  <2>4. QED BY <1>2, <2>2, <2>3
<1>6. CASE osk_event = "DONE" /\ Unload /\ osk_action' = IF osk_action # -1 THEN 1 ELSE osk_action
  <2>1. "ENTERED" \notin Range(events) /\ keyboard # "open"
    BY <1>1, <1>6 DEF ToldByEvents, Said
  <2>2. DialogTypeOK'
    BY <1>1, <1>6 DEF DialogTypeOK, Unload
  <2>3. InUse' /\ ToldByEvents' /\ VerdictKept'
    BY <1>1, <1>6, <2>1 DEF InUse, ToldByEvents, VerdictKept, Said, Unload, DialogTypeOK
  <2>4. QED BY <1>2, <2>2, <2>3
<1>7. QED BY <1>3, <1>4, <1>5, <1>6 DEF TakeEvent

-----------------------------------------------------------------------------
(* The dialog in the sample.                                               *)

LEMMA UntouchedKeeps ==
  ASSUME DialogInv, UNCHANGED dialogVars
  PROVE  DialogInv'
<1> USE DEF DialogInv, dialogVars, appVars, keyboardVars
<1>1. DialogTypeOK'
  BY DEF DialogTypeOK
<1>2. AtRest' /\ InUse' /\ ToldByEvents'
  BY DEF AtRest, InUse, ToldByEvents, Said
<1>3. VerdictKept' /\ Confirming' /\ ReturnsVerdict'
  BY DEF VerdictKept, Confirming, ReturnsVerdict, Said
<1>4. QED BY <1>1, <1>2, <1>3

LEMMA CallbacksKeep ==
  ASSUME DialogInv, dialog = "closed", Callbacks
  PROVE  DialogInv' /\ dialog' = "closed" /\ events' = << >>
<1>1. /\ dialog' = "closed" /\ events' = << >> /\ events' \in Seq(Events) /\ Range(events)' = {}
      /\ ~ listening /\ ~ container /\ keyboard = "off" /\ osk_event = "none" /\ ~ g_ime_active
      /\ UNCHANGED <<dialog, appVars, result, keyboard, typed, verdict>>
  BY HandledEvent DEF Callbacks, DialogInv, AtRest, appVars
<1> USE DEF DialogInv, appVars
<1>2. DialogTypeOK'
  BY <1>1 DEF DialogTypeOK
<1>3. AtRest' /\ InUse' /\ ToldByEvents'
  BY <1>1 DEF AtRest, InUse, ToldByEvents, Said
<1>4. VerdictKept' /\ Confirming' /\ ReturnsVerdict'
  BY <1>1 DEF VerdictKept, Confirming, ReturnsVerdict
<1>5. QED BY <1>1, <1>2, <1>3, <1>4

LEMMA ReturnKeeps ==
  ASSUME DialogInv, dialog = "returned", dialog' = "closed",
         UNCHANGED <<appVars, result, keyboardVars>>
  PROVE  DialogInv'
<1> USE DEF DialogInv, appVars, keyboardVars
<1>1. DialogTypeOK'
  BY DEF DialogTypeOK
<1>2. AtRest' /\ InUse' /\ ToldByEvents'
  BY DEF AtRest, InUse, ToldByEvents, Said
<1>3. VerdictKept' /\ Confirming' /\ ReturnsVerdict'
  BY DEF VerdictKept, Confirming, ReturnsVerdict, AtRest
<1>4. QED BY <1>1, <1>2, <1>3

-----------------------------------------------------------------------------
(* The menus.                                                              *)

Menu == [level : 0..2, yes : BOOLEAN]
Chosen(m) == m \in Menu /\ (m.level = 1 => ndirectories > 0)

LEMMA MenuSteps ==
  ASSUME SampleTypeOK, MenusFit, NEW pressed \in SUBSET Buttons
  PROVE  /\ Chosen(MenuAfterCircle(pressed))
         /\ \A m \in Menu : Chosen(m) => Chosen(MenuAfterCross(m)) /\ Chosen(MenuAfterArrows(m, pressed))
<1>1. Chosen(MenuAfterCircle(pressed))
  BY DEF SampleTypeOK, MenusFit, Chosen, Menu, MenuAfterCircle
<1>2. ASSUME NEW m \in Menu, Chosen(m)
      PROVE  Chosen(MenuAfterCross(m))
  BY <1>2 DEF SampleTypeOK, Chosen, Menu, MenuAfterCross, MayOpenMenu
<1>3. ASSUME NEW m \in Menu, Chosen(m)
      PROVE  Chosen(MenuAfterArrows(m, pressed))
  <2>1. m.level \in 0..2 /\ m.yes \in BOOLEAN
    BY DEF Menu
  <2> DEFINE yes == "RIGHT" \notin pressed /\ ("LEFT" \in pressed \/ m.yes)
  <2>2. [m EXCEPT !.yes = yes] = [level |-> m.level, yes |-> yes]
    BY DEF Menu
  <2>3. yes \in BOOLEAN
    BY <2>1
  <2> HIDE DEF yes
  <2>4. Chosen([level |-> m.level, yes |-> yes])
    BY <1>3, <2>1, <2>3 DEF Chosen, Menu
  <2>5. QED BY <1>3, <2>2, <2>4 DEF MenuAfterArrows, yes
<1>4. QED BY <1>1, <1>2, <1>3

LEMMA ReadPadMenu ==
  ASSUME SampleTypeOK, MenusFit, NEW pressed \in SUBSET Buttons, ReadPad(pressed)
  PROVE  /\ menu_level' \in 0..2 /\ yesno' \in BOOLEAN
         /\ control' \in {"dialog", "flip"}
         /\ control' = "dialog" => menu_level' = 1 /\ yesno' /\ asked < MaxDialogs
         /\ menu_level' = 1 => ndirectories > 0
         /\ asked' = IF control' = "dialog" THEN asked + 1 ELSE asked
         /\ flag_exit' \in BOOLEAN
<1> DEFINE opened == MenuAfterCircle(pressed)
           chosen == IF "CROSS" \in pressed THEN MenuAfterCross(opened) ELSE opened
           asks == "CROSS" \in pressed /\ opened = [level |-> 1, yes |-> TRUE]
           exits == "CROSS" \in pressed /\ opened = [level |-> 2, yes |-> TRUE]
           next == IF asks THEN opened ELSE MenuAfterArrows(chosen, pressed)
<1>1. Chosen(opened) /\ Chosen(chosen) /\ Chosen(MenuAfterArrows(chosen, pressed))
  BY MenuSteps DEF Chosen
<1>2. Chosen(next) /\ (asks => next.level = 1 /\ next.yes)
  BY <1>1
<1>3. /\ menu_level' = next.level /\ yesno' = next.yes /\ (asks => asked < MaxDialogs)
      /\ control' = (IF asks THEN "dialog" ELSE "flip") /\ asked' = (IF asks THEN asked + 1 ELSE asked)
      /\ flag_exit' = (flag_exit \/ exits)
  BY DEF ReadPad
<1>4. next.level \in 0..2 /\ next.yes \in BOOLEAN /\ (next.level = 1 => ndirectories > 0)
  BY <1>2 DEF Chosen, Menu
<1>5. flag_exit' \in BOOLEAN
  BY <1>3 DEF SampleTypeOK
<1> HIDE DEF next, asks, exits
<1>6. QED BY <1>2, <1>3, <1>4, <1>5

-----------------------------------------------------------------------------
(* Each step keeps the sample's invariant.                                 *)

LEMMA ReadPadKeeps ==
  ASSUME SampleInv, NEW pressed \in SUBSET Buttons, ReadPad(pressed)
  PROVE  SampleInv'
<1> USE DEF SampleInv, AppTypeOK
<1>1. /\ control = "pad" /\ Callbacks
      /\ UNCHANGED <<mainVars, systemVars, chainVars, contract_msg, user_input, confirmed, sent>>
  BY DEF ReadPad
<1>2. DialogInv' /\ dialog' = "closed" /\ events' = << >>
  BY <1>1, CallbacksKeep DEF DialogForControl
<1>3. /\ menu_level' \in 0..2 /\ yesno' \in BOOLEAN
      /\ control' \in {"dialog", "flip"}
      /\ control' = "dialog" => menu_level' = 1 /\ yesno' /\ asked < MaxDialogs
      /\ menu_level' = 1 => ndirectories > 0
      /\ asked' = IF control' = "dialog" THEN asked + 1 ELSE asked
      /\ flag_exit' \in BOOLEAN
  BY ReadPadMenu
<1>4. SampleTypeOK'
  BY <1>1, <1>3, Ps3AppAssumption DEF SampleTypeOK, mainVars, systemVars, chainVars
<1>5. MenusFit' /\ DialogForControl' /\ OnItsWay'
  BY <1>1, <1>2, <1>3 DEF MenusFit, DialogForControl, OnItsWay, mainVars
<1>6. DialogTypeOK'
  BY <1>2 DEF DialogInv
<1>7. QED BY <1>2, <1>4, <1>5, <1>6

\* A step of the dialog for the control thread.
LEMMA DialogStepKeeps ==
  ASSUME SampleInv, DialogStep
  PROVE  SampleInv'
<1> USE DEF SampleInv, AppTypeOK
<1>1. UNCHANGED <<control, menuVars, mainVars, systemVars, chainVars, historyVars, contract_msg, user_input>>
      /\ control = "dialog"
  BY DEF DialogStep
<1>2. SampleTypeOK' /\ MenusFit'
  BY <1>1 DEF SampleTypeOK, MenusFit, menuVars, mainVars, systemVars, chainVars, historyVars
<1>3. sent' = sent /\ confirmed' = confirmed /\ main' = main
  BY <1>1 DEF historyVars, mainVars
<1>4. CASE osk_dialog_input_init(user_input)
  <2>1. Range(events) = {} /\ user_input \in Texts /\ dialog = "closed"
    BY <1>1, <1>4, RangeOfEmpty DEF DialogForControl, osk_dialog_input_init, SampleTypeOK
  <2>2. DialogInv'
    BY <1>4, <2>1, InitKeeps
  <2>3. \/ dialog' = "returned" /\ result' = Empty
        \/ dialog' = "update" /\ verdict' = "NO_TEXT"
    BY <1>4 DEF osk_dialog_input_init, NoContainer, NotLoaded, Loaded, Leave
  <2>4. confirmed = sent
    BY <1>1, <2>1 DEF OnItsWay
  <2>5. DialogForControl' /\ OnItsWay'
    BY <1>1, <1>3, <2>3, <2>4 DEF DialogForControl, OnItsWay
  <2>6. QED BY <1>2, <2>2, <2>5 DEF DialogInv
<1>5. CASE TakeEvent
  <2>1. DialogInv'
    BY <1>5, TakeEventKeeps
  <2>2. dialog = "update" /\ dialog' = "draw" /\ typed' = typed
    BY <1>5 DEF TakeEvent
  <2>3. verdict' = "OK" <=> verdict = "OK"
    BY <1>5, <2>2 DEF TakeEvent, AbortAndUnload, Unload, GetInputText, DialogInv, ToldByEvents
  <2>4. DialogForControl' /\ OnItsWay'
    BY <1>1, <1>3, <2>2, <2>3 DEF DialogForControl, OnItsWay
  <2>5. QED BY <1>2, <2>1, <2>4 DEF DialogInv
<1>6. CASE Finish
  <2>1. DialogInv'
    BY <1>6, FinishKeeps
  <2>2. dialog = "update" /\ typed' = typed /\ osk_level' = osk_level /\ osk_level = 2
        /\ dialog' \in {"draw", "returned"} /\ (verdict = "OK" => typed # Empty)
    BY <1>6 DEF Finish, Leave, DialogInv, InUse, ToldByEvents
  <2>3. verdict' = verdict
    BY <1>6 DEF Finish, AbortAndUnload, Unload, DialogInv, InUse
  <2>4. dialog' = "returned" => result' = IF verdict = "OK" THEN typed ELSE Empty
    BY <2>1, <2>2, <2>3 DEF DialogInv, ReturnsVerdict
  <2>5. DialogForControl' /\ OnItsWay'
    BY <1>1, <1>3, <2>2, <2>3, <2>4 DEF DialogForControl, OnItsWay
  <2>6. QED BY <1>2, <2>1, <2>5 DEF DialogInv
<1>7. CASE Draw
  <2>1. DialogInv'
    BY <1>7, DrawKeeps
  <2>2. dialog = "draw" /\ typed' = typed /\ verdict' = verdict
        /\ \/ dialog' = "update"
           \/ dialog' = "returned" /\ ~ g_ime_active /\ result' = g_ime_input
    BY <1>7 DEF Draw, Leave
  <2>3. ~ g_ime_active => verdict = "OK" /\ g_ime_input = typed /\ typed # Empty
    BY <2>2 DEF DialogInv, Confirming
  <2>4. DialogForControl' /\ OnItsWay'
    BY <1>1, <1>3, <2>2, <2>3 DEF DialogForControl, OnItsWay
  <2>5. QED BY <1>2, <2>1, <2>4 DEF DialogInv
<1>8. QED BY <1>4, <1>5, <1>6, <1>7 DEF DialogStep, osk_dialog_get_text

LEMMA ControlKeeps ==
  ASSUME SampleInv, Control
  PROVE  SampleInv'
<1> USE DEF SampleInv, AppTypeOK
<1>1. ASSUME NEW pressed \in SUBSET Buttons, ReadPad(pressed) PROVE SampleInv'
  BY <1>1, ReadPadKeeps
<1>2. CASE DialogStep
  BY <1>2, DialogStepKeeps
<1>3. CASE DialogReturns
  <2>1. control = "dialog" /\ dialog = "returned" /\ dialog' = "closed"
        /\ UNCHANGED <<appVars, result, keyboardVars, mainVars, systemVars, chainVars, historyVars, contract_msg>>
    BY <1>3 DEF DialogReturns
  <2>2. DialogInv'
    BY <2>1, ReturnKeeps
  <2>3. IF result # Empty
          THEN user_input' = result /\ control' = "send" /\ UNCHANGED menuVars
          ELSE control' = "flip" /\ menu_level' = 0 /\ UNCHANGED <<user_input, yesno, flag_exit>>
    BY <1>3 DEF DialogReturns
  <2>4. user_input' \in Texts /\ control' \in {"send", "flip"} /\ menu_level' \in {menu_level, 0}
        /\ (control' = "send" => menu_level' = menu_level) /\ UNCHANGED <<yesno, flag_exit>>
    BY <2>3 DEF SampleTypeOK, DialogTypeOK, menuVars
  <2>5. SampleTypeOK'
    BY <2>1, <2>4 DEF SampleTypeOK, mainVars, systemVars, chainVars, historyVars
  <2>6. MenusFit'
    BY <2>1, <2>4 DEF MenusFit, mainVars
  <2>7. DialogForControl' /\ OnItsWay'
    BY <2>1, <2>3 DEF DialogForControl, OnItsWay, historyVars, mainVars
  <2>8. QED BY <2>2, <2>5, <2>6, <2>7 DEF DialogInv
<1>4. CASE Send
  <2>1. DialogInv'
    BY <1>4, UntouchedKeeps DEF Send
  <2>2. inflight' \in Seq(Texts) /\ sent' \in Seq(Texts)
    <3>1. user_input \in Texts /\ inflight \in Seq(Texts) /\ sent \in Seq(Texts)
      BY DEF SampleTypeOK
    <3>2. Append(inflight, user_input) \in Seq(Texts) /\ Append(sent, user_input) \in Seq(Texts)
      BY <3>1
    <3>3. QED BY <1>4, <3>1, <3>2 DEF Send
  <2>3. SampleTypeOK' /\ MenusFit'
    BY <1>4, <2>2 DEF Send, SampleTypeOK, MenusFit, menuVars, mainVars, systemVars
  <2>4. DialogForControl' /\ OnItsWay'
    BY <1>4 DEF Send, DialogForControl, OnItsWay, dialogVars, keyboardVars, mainVars
  <2>5. QED BY <2>1, <2>3, <2>4 DEF DialogInv
<1>5. CASE SendReturns
  <2>1. DialogInv'
    BY <1>5, UntouchedKeeps DEF SendReturns
  <2>2. SampleTypeOK' /\ MenusFit'
    BY <1>5 DEF SendReturns, SampleTypeOK, MenusFit, mainVars, systemVars, chainVars, historyVars, Texts
  <2>3. DialogForControl' /\ OnItsWay'
    BY <1>5 DEF SendReturns, DialogForControl, OnItsWay, dialogVars, keyboardVars, historyVars, mainVars
  <2>4. QED BY <2>1, <2>2, <2>3 DEF DialogInv
<1>6. CASE Flip
  <2>1. DialogInv' /\ dialog' = "closed" /\ events' = << >>
    BY <1>6, CallbacksKeep DEF Flip, DialogForControl
  <2>2. SampleTypeOK' /\ MenusFit'
    BY <1>6 DEF Flip, SampleTypeOK, MenusFit, menuVars, mainVars, systemVars, chainVars, historyVars
  <2>3. DialogForControl' /\ OnItsWay'
    BY <1>6, <2>1 DEF Flip, DialogForControl, OnItsWay, historyVars, mainVars
  <2>4. QED BY <2>1, <2>2, <2>3 DEF DialogInv
<1>7. CASE ExitGame
  <2>1. DialogInv'
    BY <1>7, UntouchedKeeps DEF ExitGame
  <2>2. SampleTypeOK' /\ MenusFit'
    BY <1>7 DEF ExitGame, SampleTypeOK, MenusFit, menuVars, mainVars, chainVars, historyVars
  <2>3. DialogForControl' /\ OnItsWay'
    BY <1>7 DEF ExitGame, DialogForControl, OnItsWay, dialogVars, keyboardVars, historyVars, mainVars
  <2>4. QED BY <2>1, <2>2, <2>3 DEF DialogInv
<1>8. QED BY <1>1, <1>2, <1>3, <1>4, <1>5, <1>6, <1>7 DEF Control

LEMMA NextRound == \A n \in 0..(Period - 1) : (n + 1) % Period \in 0..(Period - 1)
BY Ps3AppAssumption

\* The main thread leaves the dialog, the menus and what is sent alone.
LEMMA MainKeeps ==
  ASSUME SampleInv, Main
  PROVE  SampleInv'
<1> USE DEF SampleInv, AppTypeOK
<1> DEFINE moves == \/ control' = control /\ main # "start"
                    \/ control = "none" /\ control' = "pad"
<1>1. Elsewhere /\ main' # "start" /\ moves
  <2> USE DEF DialogForControl
  <2>1. CASE StartThread
    BY <2>1 DEF StartThread
  <2>2. CASE Register \/ List \/ MakeSettings
    BY <2>2 DEF Register, List, MakeSettings
  <2>3. CASE Round \/ Fetch \/ FetchFails \/ Copy
    BY <2>3 DEF Round, Fetch, FetchFails, Copy
  <2>4. CASE release_all \/ Joined
    BY <2>4 DEF release_all, Joined
  <2>5. QED BY <2>1, <2>2, <2>3, <2>4 DEF Main
<1>2. DialogInv' /\ UNCHANGED <<dialogVars, menuVars, chainVars, historyVars, user_input>>
  BY <1>1, UntouchedKeeps DEF Elsewhere
<1>3. ndirectories' \in {ndirectories, 1}
  BY DEF Main, StartThread, Register, List, MakeSettings, Round, Fetch, FetchFails, Copy, release_all, Joined
<1>4. SampleTypeOK'
  <2> USE <1>2 DEF SampleTypeOK, menuVars, chainVars, historyVars, systemVars
  <2>1. CASE StartThread
    BY <2>1 DEF StartThread
  <2>2. CASE Register
    BY <2>2 DEF Register
  <2>3. CASE List
    BY <2>3 DEF List
  <2>4. CASE MakeSettings
    BY <2>4 DEF MakeSettings
  <2>5. CASE Round
    BY <2>5, NextRound DEF Round
  <2>6. CASE Fetch \/ FetchFails
    BY <2>6 DEF Fetch, FetchFails
  <2>7. CASE Copy
    BY <2>7 DEF Copy
  <2>8. CASE release_all
    BY <2>8 DEF release_all, Stop
  <2>9. CASE Joined
    BY <2>9 DEF Joined
  <2>10. QED BY <2>1, <2>4, <2>5, <2>6, <2>8, <2>7, <2>9, <2>2, <2>3 DEF Main
<1>5. MenusFit'
  BY <1>1, <1>2, <1>3 DEF MenusFit, menuVars, SampleTypeOK
<1>6. DialogForControl' /\ OnItsWay'
  BY <1>1, <1>2 DEF DialogForControl, OnItsWay, dialogVars, keyboardVars, historyVars
<1>7. QED BY <1>2, <1>4, <1>5, <1>6 DEF DialogInv

-----------------------------------------------------------------------------
(* The user, the system and the network.                                   *)

\* While the keyboard is there the control thread is in the dialog's loop.
LEMMA KeyboardInLoop ==
  ASSUME SampleInv, keyboard # "off"
  PROVE  control = "dialog" /\ dialog \in {"update", "draw"} /\ g_ime_active
BY DEF SampleInv, DialogInv, InUse, DialogForControl

\* A step of the keyboard or its user leaves the rest of the sample alone.
LEMMA KeyboardLeavesRest ==
  ASSUME SampleInv, keyboard # "off", DialogInv',
         UNCHANGED <<dialog, result, control, menuVars, mainVars, alive, running, modules, registered,
                     chainVars, sent, asked, contract_msg, user_input>>,
         exitGame' \in BOOLEAN, confirmed' \in Seq(Texts),
         confirmed' = IF verdict' = "OK" THEN Append(sent, typed') ELSE sent
  PROVE  SampleInv'
<1>1. control = "dialog" /\ dialog \in {"update", "draw"}
  BY KeyboardInLoop
<1>2. SampleTypeOK' /\ MenusFit'
  BY DEF SampleInv, AppTypeOK, SampleTypeOK, MenusFit, menuVars, mainVars, chainVars
<1>3. DialogForControl' /\ OnItsWay'
  BY <1>1 DEF SampleInv, DialogForControl, OnItsWay, mainVars
<1>4. QED BY <1>2, <1>3 DEF SampleInv, AppTypeOK, DialogInv

LEMMA UserKeeps ==
  ASSUME SampleInv, UserAtKeyboard
  PROVE  SampleInv'
<1> USE DEF SampleInv
<1>1. keyboard = "open" /\ UNCHANGED <<dialog, appVars, result>>
  BY DEF UserAtKeyboard, UserIsDone, UserCancels, UserLeaves, UserTypes
<1>2. control = "dialog" /\ dialog \in {"update", "draw"} /\ verdict = "NO_TEXT" /\ confirmed = sent
  BY <1>1, KeyboardInLoop DEF DialogInv, ToldByEvents, OnItsWay
<1>3. confirmed \in Seq(Texts) /\ sent \in Seq(Texts) /\ typed \in Texts /\ exitGame \in BOOLEAN
  BY DEF AppTypeOK, SampleTypeOK, DialogTypeOK
<1>4. Append(confirmed, typed) \in Seq(Texts)
  BY <1>3
<1>5. DialogInv'
  BY UserCancelsKeeps, UserLeavesKeeps, UserTypesKeeps DEF UserAtKeyboard, UserIsDone
<1>6. \/ keyboard' = "finished" /\ typed' = typed
      \/ keyboard' # "finished" /\ verdict' # "OK"
  BY <1>1, <1>2 DEF UserAtKeyboard, UserIsDone, UserCancels, UserLeaves, UserTypes
<1>7. confirmed' = IF verdict' = "OK" THEN Append(sent, typed') ELSE sent
  BY <1>2, <1>6 DEF UserAtKeyboard
<1>8. confirmed' \in Seq(Texts) /\ exitGame' \in BOOLEAN
  BY <1>3, <1>4 DEF UserAtKeyboard, systemVars
<1>9. QED
  BY <1>1, <1>5, <1>7, <1>8, KeyboardLeavesRest DEF UserAtKeyboard, systemVars

LEMMA SystemKeeps ==
  ASSUME SampleInv, System
  PROVE  SampleInv'
<1> USE DEF SampleInv
<1>1. CASE KeyboardStep /\ UNCHANGED systemVars
  <2>1. keyboard # "off" /\ UNCHANGED <<dialog, result, typed, verdict>>
    BY <1>1 DEF KeyboardStep
  <2>2. control = "dialog" /\ dialog \in {"update", "draw"}
    BY <2>1, KeyboardInLoop
  <2>3. confirmed = IF verdict = "OK" THEN Append(sent, typed) ELSE sent
    BY <2>2 DEF OnItsWay
  <2>4. confirmed \in Seq(Texts) /\ exitGame \in BOOLEAN
    BY DEF AppTypeOK, SampleTypeOK
  <2>5. DialogInv'
    BY <1>1, KeyboardStepKeeps
  <2>6. QED
    BY <1>1, <2>1, <2>3, <2>4, <2>5, KeyboardLeavesRest DEF System, systemVars, historyVars
<1>2. CASE exitGame' = TRUE /\ UNCHANGED <<dialogVars, alive, running, modules, registered>>
  <2>1. DialogInv'
    BY <1>2, UntouchedKeeps
  <2>2. SampleTypeOK' /\ MenusFit'
    BY <1>2 DEF System, AppTypeOK, SampleTypeOK, MenusFit, menuVars, mainVars, chainVars, historyVars
  <2>3. DialogForControl' /\ OnItsWay'
    BY <1>2 DEF System, DialogForControl, OnItsWay, dialogVars, keyboardVars, mainVars, historyVars
  <2>4. QED BY <2>1, <2>2, <2>3 DEF AppTypeOK, DialogInv
<1>3. QED BY <1>1, <1>2 DEF System

LEMMA NetworkKeeps ==
  ASSUME SampleInv, Network
  PROVE  SampleInv'
<1> USE DEF SampleInv
<1>1. inflight \in Seq(Texts) /\ inflight # << >> /\ greeting \in Texts
  BY DEF Network, AppTypeOK, SampleTypeOK
<1>2. Head(inflight) \in Texts /\ Tail(inflight) \in Seq(Texts)
  BY <1>1
<1>3. inflight' \in Seq(Texts) /\ greeting' \in Texts
  BY <1>1, <1>2 DEF Network
<1>4. DialogInv'
  BY UntouchedKeeps DEF Network
<1>5. SampleTypeOK' /\ MenusFit'
  BY <1>3 DEF Network, AppTypeOK, SampleTypeOK, MenusFit, menuVars, mainVars, systemVars, historyVars
<1>6. DialogForControl' /\ OnItsWay'
  BY DEF Network, DialogForControl, OnItsWay, dialogVars, keyboardVars, mainVars, historyVars
<1>7. QED BY <1>4, <1>5, <1>6 DEF AppTypeOK, DialogInv

-----------------------------------------------------------------------------
(* The invariant, and what follows from it.                                *)

LEMMA InitHasInv == Init => SampleInv
<1> SUFFICES ASSUME Init PROVE SampleInv
  OBVIOUS
<1>1. Range(events) = {}
  BY RangeOfEmpty DEF Init, DialogInit
<1>2. DialogTypeOK
  <2>1. events \in Seq(Events)
    BY EventSeqs DEF Init, DialogInit
  <2>2. {osk_unloaded, g_ime_active, container, listening} \subseteq BOOLEAN
    BY Zenon DEF Init, DialogInit
  <2>3. /\ dialog = "closed" /\ osk_level = 0 /\ osk_action = 0 /\ osk_event = "none"
        /\ g_ime_input = Empty /\ res = "OK" /\ result = Empty
        /\ keyboard = "off" /\ typed = Empty /\ verdict = "NO_TEXT"
    BY DEF Init, DialogInit
  <2>4. QED BY <2>1, <2>2, <2>3 DEF DialogTypeOK, Texts, Verdicts
<1>3. AtRest /\ InUse /\ ToldByEvents
  BY <1>1 DEF Init, DialogInit, AtRest, InUse, ToldByEvents, Said
<1>4. VerdictKept /\ Confirming /\ ReturnsVerdict
  BY DEF Init, DialogInit, VerdictKept, Confirming, ReturnsVerdict
<1>5. SampleTypeOK /\ MenusFit
  <2>1. inflight \in Seq(Texts) /\ confirmed \in Seq(Texts) /\ sent \in Seq(Texts)
    <3>1. << >> \in Seq(Texts)
      OBVIOUS
    <3>2. QED BY <3>1 DEF Init
  <2>2. check \in 0..(Period - 1) /\ asked \in 0..MaxDialogs
    BY Ps3AppAssumption DEF Init
  <2>3. {contract_msg, user_input, fetched, greeting} \subseteq Texts
    BY DEF Init, Texts
  <2>4. MenusFit /\ settings = {} /\ menu_level \in 0..2 /\ ndirectories \in 0..1
    BY DEF Init, MenusFit
  <2>5. {alive, running, flag_exit, modules, registered, exitGame} \subseteq BOOLEAN /\ yesno \in BOOLEAN
    BY Zenon DEF Init
  <2>6. main = "start" /\ control = "none"
    BY DEF Init
  <2>7. settings \subseteq {"rpc", "account"}
    BY <2>4
  <2>8. QED BY <2>1, <2>2, <2>3, <2>4, <2>6, <2>7, <2>5 DEF SampleTypeOK
<1>6. DialogForControl /\ OnItsWay
  BY DEF Init, DialogInit, DialogForControl, OnItsWay
<1>7. QED BY <1>2, <1>3, <1>4, <1>5, <1>6 DEF SampleInv, AppTypeOK, DialogInv

LEMMA StutterKeeps ==
  ASSUME SampleInv, UNCHANGED vars
  PROVE  SampleInv'
<1> USE DEF SampleInv, vars
<1>1. DialogInv'
  BY UntouchedKeeps
<1>2. SampleTypeOK' /\ MenusFit'
  BY DEF AppTypeOK, SampleTypeOK, MenusFit, menuVars, mainVars, systemVars, chainVars, historyVars
<1>3. DialogForControl' /\ OnItsWay'
  BY DEF DialogForControl, OnItsWay, dialogVars, keyboardVars, mainVars, historyVars
<1>4. QED BY <1>1, <1>2, <1>3 DEF AppTypeOK, DialogInv

\* SampleInv, the types and where the dialog, the keyboard, the events and the
\* confirmed text are in relation to each other, holds in every state of the
\* sample (main.c and dialog.c).
THEOREM SampleInvariant == Spec => []SampleInv
<1>1. SampleInv /\ [Next]_vars => SampleInv'
  BY ControlKeeps, MainKeeps, UserKeeps, SystemKeeps, NetworkKeeps, StutterKeeps DEF Next
<1>2. QED BY InitHasInv, <1>1, PTL DEF Spec

\* Every variable has its type, and the sample's menus and dialog are open only
\* where control_thread puts them.
THEOREM AppTypeCorrect == Spec => []AppTypeOK
<1>1. SampleInv => AppTypeOK
  BY DEF SampleInv
<1>2. QED BY SampleInvariant, <1>1, PTL

\* osk_dialog_get_text returns what was in the field when the user confirmed,
\* and nothing otherwise, whichever events its one slot has lost.
THEOREM DialogReturnsVerdict == Spec => []ResultIsVerdict
<1>1. SampleInv => ResultIsVerdict
  BY DEF SampleInv, DialogInv, ReturnsVerdict, ResultIsVerdict
<1>2. QED BY SampleInvariant, <1>1, PTL

\* osk_exit leaves no container, callback or keyboard behind.
THEOREM DialogLeavesNothing == Spec => []NothingLeft
<1>1. SampleInv => NothingLeft
  BY DEF SampleInv, DialogInv, AtRest, NothingLeft
<1>2. QED BY SampleInvariant, <1>1, PTL

\* control_thread calls call_contract exactly with the texts the user confirmed.
THEOREM GreetingsSentAsConfirmed == Spec => []SentAsConfirmed
<1>1. SampleInv => SentAsConfirmed
  BY DEF SampleInv, OnItsWay, SentAsConfirmed
<1>2. QED BY SampleInvariant, <1>1, PTL

\* release_all joins the control thread before it unloads the modules which that
\* thread draws with.
THEOREM ModulesLastForDrawing == Spec => []ModulesOutliveDrawing
<1>1. Init => ModulesOutliveDrawing
  BY DEF Init, ModulesOutliveDrawing
<1>2. ModulesOutliveDrawing /\ [Next]_vars => ModulesOutliveDrawing'
  <2> SUFFICES ASSUME ModulesOutliveDrawing, [Next]_vars PROVE ModulesOutliveDrawing'
    OBVIOUS
  <2> USE DEF ModulesOutliveDrawing, systemVars
  <2>1. ASSUME NEW pressed \in SUBSET Buttons, ReadPad(pressed) PROVE ModulesOutliveDrawing'
    BY <2>1 DEF ReadPad
  <2>2. CASE DialogStep \/ DialogReturns \/ Send \/ SendReturns \/ Flip \/ ExitGame
    BY <2>2 DEF DialogStep, DialogReturns, Send, SendReturns, Flip, ExitGame
  <2>3. CASE StartThread \/ Register \/ List \/ MakeSettings \/ Round
    BY <2>3 DEF StartThread, Register, List, MakeSettings, Round
  <2>4. CASE Fetch \/ FetchFails \/ Copy \/ release_all \/ Joined
    BY <2>4 DEF Fetch, FetchFails, Copy, release_all, Joined
  <2>5. CASE UserAtKeyboard \/ System \/ Network
    BY <2>5 DEF UserAtKeyboard, System, Network
  <2>6. CASE UNCHANGED vars
    BY <2>6 DEF vars
  <2>7. QED BY <2>1, <2>2, <2>3, <2>4, <2>5, <2>6 DEF Next, Control, Main
<1>3. QED BY <1>1, <1>2, PTL DEF Spec
=============================================================================
