----------------------------- MODULE OskDialog -----------------------------
(***************************************************************************)
(* The on-screen keyboard dialog of the PS3 sample                         *)
(* (src/sample-ps3/source/dialog.c).  osk_dialog_get_text starts the       *)
(* system's keyboard and polls one event slot, which osk_event_handle      *)
(* fills; the system runs that callback while a frame is shown, with every *)
(* event it has queued by then.  The keyboard and its user are external.   *)
(* A text is a value; Unicode has the conversions to and from UTF-16.      *)
(***************************************************************************)
EXTENDS Integers, SequencesExt

CONSTANTS Messages,     \* the texts a user may type
          Empty,        \* the empty text
          MaxEvents     \* bound on the events queued while the user types

ASSUME OskDialogAssumption == Empty \notin Messages /\ MaxEvents \in Nat

VARIABLES dialog,       \* where osk_dialog_get_text is
          osk_level,
          osk_action,
          osk_event,
          osk_unloaded,
          g_ime_active,
          g_ime_input,
          res,          \* OutputReturnedParam.res
          container,    \* container_mem is allocated
          listening,    \* osk_event_handle is registered
          result,       \* the text osk_dialog_get_text returned, or Empty
          keyboard,     \* the system's keyboard
          typed,        \* the text in its input field
          verdict,      \* how the user left it
          events        \* events the system has queued

appVars == <<osk_level, osk_action, osk_event, osk_unloaded, g_ime_active,
             g_ime_input, res, container, listening>>
keyboardVars == <<keyboard, typed, verdict, events>>
dialogVars == <<dialog, appVars, result, keyboardVars>>

Texts == Messages \cup {Empty}
Events == {"CANCELED", "ENTERED", "DONE", "UNLOADED"}
Verdicts == {"NO_TEXT", "OK", "CANCELED", "ABORT"}

DialogInit ==
  /\ dialog = "closed"
  /\ osk_level = 0
  /\ osk_action = 0
  /\ osk_event = "none"
  /\ osk_unloaded = FALSE
  /\ g_ime_active = FALSE
  /\ g_ime_input = Empty
  /\ res = "OK"
  /\ container = FALSE
  /\ listening = FALSE
  /\ result = Empty
  /\ keyboard = "off"
  /\ typed = Empty
  /\ verdict = "NO_TEXT"
  /\ events = << >>

-----------------------------------------------------------------------------
(* The keyboard.                                                           *)

\* The user leaves it: the system says DONE, and may say first what was
\* pressed.
UserLeaves(how) ==
  /\ keyboard = "open"
  /\ how = "OK" => typed # Empty
  /\ keyboard' = "finished"
  /\ verdict' = how
  /\ \E said \in {<< >>, IF how = "CANCELED" THEN <<"CANCELED">> ELSE <<"ENTERED">>} :
       events' = events \o said \o <<"DONE">>
  /\ UNCHANGED <<dialog, appVars, result, typed>>

\* The user cancels, and the keyboard waits to be aborted.
UserCancels ==
  /\ keyboard = "open"
  /\ keyboard' = "cancelled"
  /\ verdict' = "CANCELED"
  /\ events' = Append(events, "CANCELED")
  /\ UNCHANGED <<dialog, appVars, result, typed>>

\* The user types, and may press enter without leaving.
UserTypes(text) ==
  /\ keyboard = "open"
  /\ text # typed /\ Len(events) < MaxEvents
  /\ typed' = text
  /\ \E said \in {<< >>, <<"ENTERED">>} : events' = events \o said
  /\ UNCHANGED <<dialog, appVars, result, keyboard, verdict>>

KeyboardStep ==
  \/ /\ keyboard = "closing"
     /\ keyboard' = "finished"
     /\ events' = Append(events, "DONE")
     /\ UNCHANGED <<dialog, appVars, result, typed, verdict>>
  \/ /\ keyboard = "unloading"
     /\ keyboard' = "off"
     /\ events' = Append(events, "UNLOADED")
     /\ UNCHANGED <<dialog, appVars, result, typed, verdict>>

\* oskAbort, then oskUnloadAsync: the keyboard starts to unload and writes what
\* it holds to OutputReturnedParam once its dialog is over; it may refuse while
\* it is still closing.
Unload ==
  \/ /\ keyboard = "finished"
     /\ keyboard' = "unloading"
     /\ res' = verdict
     /\ g_ime_input' = IF verdict = "OK" THEN typed ELSE g_ime_input
     /\ UNCHANGED verdict
  \/ /\ keyboard # "finished"
     /\ UNCHANGED <<keyboard, res, g_ime_input, verdict>>

AbortAndUnload ==
  \/ /\ keyboard \in {"open", "cancelled"}
     /\ verdict' = "ABORT"
     /\ \/ keyboard' = "closing" /\ UNCHANGED res
        \/ keyboard' = "unloading" /\ res' = "ABORT"
     /\ UNCHANGED g_ime_input
  \/ keyboard \notin {"open", "cancelled"} /\ Unload

\* oskGetInputText.
GetInputText ==
  /\ res' = IF typed = Empty THEN "NO_TEXT" ELSE "OK"
  /\ g_ime_input' = typed
  /\ UNCHANGED <<keyboard, verdict>>

-----------------------------------------------------------------------------
(* osk_event_handle, as the system calls it for each queued event: one slot *)
(* for the event, and a flag.                                              *)

SaysUnloaded == listening /\ "UNLOADED" \in Range(events)

\* The last event that goes to the slot, if there is one.
Kept == {events[i] : i \in {i \in DOMAIN events :
           /\ events[i] # "UNLOADED"
           /\ \A j \in DOMAIN events : j > i => events[j] = "UNLOADED"}}

\* The calls of one sysUtilCheckCallback; without the callback the events are
\* dropped.
osk_event_handle ==
  /\ events' = << >>
  /\ osk_event' \in IF listening /\ Kept # {} THEN Kept ELSE {osk_event}
  /\ osk_unloaded' = (osk_unloaded \/ SaysUnloaded)

-----------------------------------------------------------------------------
(* The dialog.                                                             *)

Leave(text) == dialog' = "returned" /\ result' = text

\* Setting the keyboard up may fail at three places.
NoContainer ==
  /\ osk_level' = 0
  /\ g_ime_active' = FALSE
  /\ Leave(Empty)
  /\ UNCHANGED <<osk_action, osk_event, osk_unloaded, g_ime_input, res, container, listening,
                 keyboardVars>>

\* Mutant: osk_exit finds osk_level 0 there.
NotLoadedAtLevel0(reached) ==
  /\ osk_level' = 1
  /\ g_ime_active' = FALSE
  /\ g_ime_input' = Empty
  /\ res' = "NO_TEXT"
  /\ osk_action' = IF reached THEN 0 ELSE osk_action
  /\ osk_unloaded' = IF reached THEN FALSE ELSE osk_unloaded
  /\ container' = TRUE
  /\ listening' = reached
  /\ Leave(Empty)
  /\ UNCHANGED <<osk_event, keyboardVars>>

\* osk_exit at level 1 undoes what was done: reached says whether
\* oskLoadAsync was.
NotLoaded(reached) ==
  /\ osk_level' = 1
  /\ g_ime_active' = FALSE
  /\ g_ime_input' = Empty
  /\ res' = "NO_TEXT"
  /\ osk_action' = IF reached THEN 0 ELSE osk_action
  /\ osk_unloaded' = IF reached THEN FALSE ELSE osk_unloaded
  /\ container' = FALSE
  /\ listening' = FALSE
  /\ Leave(Empty)
  /\ UNCHANGED <<osk_event, keyboardVars>>

Loaded(text) ==
  /\ osk_level' = 2
  /\ g_ime_active' = TRUE
  /\ g_ime_input' = Empty
  /\ res' = "NO_TEXT"
  /\ osk_action' = 0
  /\ osk_unloaded' = FALSE
  /\ container' = TRUE
  /\ listening' = TRUE
  /\ dialog' = "update"
  /\ keyboard' = "open"
  /\ typed' = text
  /\ verdict' = "NO_TEXT"
  /\ UNCHANGED <<osk_event, result, events>>

\* text is what the field starts with.
osk_dialog_input_init(text) ==
  /\ dialog = "closed"
  /\ \/ NoContainer
     \/ \E reached \in BOOLEAN : NotLoaded(reached)
     \/ Loaded(text)

\* While the keyboard is not unloaded, at most one event is taken.
TakeEvent ==
  /\ dialog = "update" /\ ~ osk_unloaded
  /\ osk_event' = "none"
  /\ \/ osk_event = "ENTERED" /\ GetInputText /\ UNCHANGED osk_action
     \/ osk_event = "CANCELED" /\ AbortAndUnload /\ osk_action' = -1
     \/ /\ osk_event = "DONE" /\ Unload
        /\ osk_action' = IF osk_action # -1 THEN 1 ELSE osk_action
     \/ osk_event = "none" /\ UNCHANGED <<osk_action, res, g_ime_input, keyboard, verdict>>
  /\ dialog' = "draw"
  /\ UNCHANGED <<osk_level, osk_unloaded, g_ime_active, container, listening, result, typed, events>>

\* Mutant: osk_action alone decides.
FinishWhateverRes ==
  /\ dialog = "update" /\ osk_unloaded
  /\ g_ime_active' = FALSE
  /\ osk_event' = "none"
  /\ osk_action' = -1
  /\ listening' = FALSE
  /\ container' = FALSE
  /\ AbortAndUnload
  /\ IF osk_action = 1 THEN dialog' = "draw" /\ UNCHANGED result ELSE Leave(Empty)
  /\ UNCHANGED <<osk_level, osk_unloaded, typed, events>>

\* Unloaded: osk_exit at level 2, and the text is taken if the user confirmed.
Finish ==
  /\ dialog = "update" /\ osk_unloaded
  /\ g_ime_active' = FALSE
  /\ osk_event' = "none"
  /\ osk_action' = -1
  /\ listening' = FALSE
  /\ container' = FALSE
  /\ AbortAndUnload
  /\ IF res = "OK" /\ osk_action = 1 THEN dialog' = "draw" /\ UNCHANGED result ELSE Leave(Empty)
  /\ UNCHANGED <<osk_level, osk_unloaded, typed, events>>

\* drawDialogBackground shows a frame, in which the system runs callbacks; then
\* the loop of osk_dialog_get_text goes on, or ends and converts the text.
Draw ==
  /\ dialog = "draw"
  /\ osk_event_handle
  /\ IF g_ime_active THEN dialog' = "update" /\ UNCHANGED result ELSE Leave(g_ime_input)
  /\ UNCHANGED <<osk_level, osk_action, g_ime_active, g_ime_input, res, container, listening,
                 keyboard, typed, verdict>>

osk_dialog_get_text == TakeEvent \/ Finish \/ Draw

\* The user is done with the keyboard.
UserIsDone == UserCancels \/ \E how \in {"OK", "CANCELED", "NO_TEXT"} : UserLeaves(how)

-----------------------------------------------------------------------------
(* Properties.                                                             *)

\* Every variable of the dialog and the keyboard has its type; the slot of
\* osk_event_handle never holds UNLOADED, which has a flag of its own.
DialogTypeOK ==
  /\ dialog \in {"closed", "update", "draw", "returned"}
  /\ osk_level \in 0..2 /\ osk_action \in {-1, 0, 1}
  /\ osk_event \in (Events \ {"UNLOADED"}) \cup {"none"} /\ osk_unloaded \in BOOLEAN
  /\ g_ime_active \in BOOLEAN /\ g_ime_input \in Texts /\ res \in Verdicts
  /\ container \in BOOLEAN /\ listening \in BOOLEAN /\ result \in Texts
  /\ keyboard \in {"off", "open", "cancelled", "closing", "finished", "unloading"}
  /\ typed \in Texts /\ verdict \in Verdicts /\ events \in Seq(Events)

\* A dialog that got as far as the keyboard returns the text that was in its
\* field when the user confirmed, and none otherwise, whichever events were
\* overwritten in the one slot (osk_dialog_input_update, dialog.c 280-324).
ResultIsVerdict ==
  dialog = "returned" /\ osk_level = 2 =>
    result = IF verdict = "OK" THEN typed ELSE Empty

\* Between dialogs nothing of one is left: no memory container, no callback,
\* no keyboard that could still send it events (osk_exit).
NothingLeft ==
  dialog \in {"closed", "returned"} => ~ container /\ ~ listening /\ keyboard = "off"

-----------------------------------------------------------------------------
(* What the properties rest on: the inductive invariant of SampleProofs.   *)

\* The events that the dialog may still see.
Said == Range(events) \cup {osk_event}

\* Outside a dialog there is no keyboard, and no event waits in the slot.
AtRest ==
  dialog \in {"closed", "returned"} =>
    ~ container /\ ~ listening /\ keyboard = "off" /\ osk_event = "none" /\ ~ g_ime_active

\* g_ime_active says that the loop runs; the keyboard is there until it says
\* UNLOADED.
InUse ==
  /\ dialog = "update" => g_ime_active
  /\ g_ime_active => dialog \in {"update", "draw"} /\ listening /\ container /\ osk_level = 2
  /\ keyboard # "off" => g_ime_active /\ ~ osk_unloaded /\ "UNLOADED" \notin Range(events)

\* What the events and osk_action tell of the user's verdict.
ToldByEvents ==
  /\ keyboard = "open" => /\ verdict = "NO_TEXT" /\ osk_action = 0
                          /\ Said \cap {"CANCELED", "DONE", "UNLOADED"} = {}
  /\ keyboard = "cancelled" => verdict = "CANCELED"
  /\ keyboard = "closing" => verdict = "ABORT"
  /\ g_ime_active /\ "CANCELED" \in Said => verdict \in {"CANCELED", "ABORT"}
  /\ g_ime_active /\ osk_action = -1 => verdict # "OK"
  /\ g_ime_active /\ verdict = "OK" => typed # Empty
  /\ osk_event \in {"CANCELED", "DONE"} => "ENTERED" \notin Range(events)

\* Once the keyboard unloads, its verdict is in OutputReturnedParam, and no
\* ENTERED will replace it.
VerdictKept ==
  g_ime_active /\ keyboard \in {"unloading", "off"} =>
    /\ res = verdict /\ "ENTERED" \notin Said
    /\ verdict = "OK" => g_ime_input = typed /\ osk_action = 1

\* Only a confirmed text is drawn over and converted after the loop.
Confirming ==
  dialog = "draw" /\ ~ g_ime_active =>
    /\ keyboard = "off" /\ ~ listening /\ ~ container /\ osk_event = "none"
    /\ osk_level = 2 /\ verdict = "OK" /\ g_ime_input = typed /\ typed # Empty

ReturnsVerdict ==
  dialog = "returned" =>
    result = IF osk_level = 2 /\ verdict = "OK" THEN typed ELSE Empty

DialogInv ==
  /\ DialogTypeOK
  /\ AtRest /\ InUse /\ ToldByEvents /\ VerdictKept /\ Confirming /\ ReturnsVerdict
=============================================================================
