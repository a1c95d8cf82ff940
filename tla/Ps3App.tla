------------------------------- MODULE Ps3App -------------------------------
(***************************************************************************)
(* The PS3 sample (src/sample-ps3/source/main.c): the main thread makes    *)
(* the settings and fetches the contract's greeting from time to time; the *)
(* control thread reads the pad, shows frames, asks for a new greeting     *)
(* with the keyboard dialog and sends it.  They share plain globals.  The  *)
(* library is its outcomes: a request is answered or not, and a sent       *)
(* greeting is applied later, in order, or never.                          *)
(***************************************************************************)
EXTENDS OskDialog

CONSTANTS Period,        \* the main thread fetches every Period rounds
          MaxDialogs     \* bound on the dialogs the user opens

ASSUME Ps3AppAssumption == Period \in Nat \ {0} /\ MaxDialogs \in Nat

VARIABLES main, control, \* where the two threads are
          alive,         \* the process has not ended
          running, flag_exit,
          menu_level, yesno, ndirectories,
          contract_msg, user_input,
          check,         \* the main loop's counter, modulo Period
          fetched,       \* what near_decode_result returned to the main thread
          settings,      \* which of near_rpc_init and near_account_init succeeded
          modules,       \* the system modules are loaded
          registered,    \* sys_callback is registered
          exitGame,      \* the system asks the game to exit
          greeting,      \* the contract's greeting
          inflight,      \* greetings sent and not yet applied or lost
          confirmed,     \* the texts the user confirmed in dialogs
          sent,          \* the texts call_contract was given
          asked          \* the dialogs opened

menuVars == <<menu_level, yesno, flag_exit>>
mainVars == <<main, ndirectories, check, fetched, settings>>
systemVars == <<alive, running, modules, registered, exitGame>>
chainVars == <<greeting, inflight>>
historyVars == <<confirmed, sent, asked>>
vars == <<dialogVars, control, menuVars, mainVars, systemVars, chainVars, historyVars,
          contract_msg, user_input>>

Init ==
  /\ DialogInit
  /\ main = "start" /\ control = "none"
  /\ alive = TRUE /\ running = TRUE /\ flag_exit = FALSE
  /\ menu_level = 0 /\ yesno = FALSE /\ ndirectories = 0
  /\ contract_msg = Empty /\ user_input = Empty
  /\ check = 0 /\ fetched = Empty /\ settings = {}
  /\ modules = FALSE /\ registered = FALSE /\ exitGame = FALSE
  /\ greeting \in Messages /\ inflight = << >>
  /\ confirmed = << >> /\ sent = << >> /\ asked = 0

-----------------------------------------------------------------------------
(* The control thread.                                                     *)

Buttons == {"CIRCLE", "CROSS", "LEFT", "RIGHT"}

\* sysUtilCheckCallback calls sys_callback with SYSUTIL_EXIT_GAME.
ExitIsDue == exitGame /\ registered

\* sysUtilCheckCallback outside the dialog's frames, twice in a frame: in
\* ps3pad_read and after tiny3d_Flip.  The dialog's callback runs too, if
\* registered.
Callbacks ==
  /\ ~ ExitIsDue
  /\ osk_event_handle
  /\ UNCHANGED <<dialog, osk_level, osk_action, g_ime_active, g_ime_input, res, container,
                 listening, result, keyboard, typed, verdict>>

\* Mutant: the list of directories is not looked at.
OpenMenuAnyway == TRUE
MayOpenMenu == ndirectories > 0

\* The menu after CIRCLE, before CROSS is looked at.
MenuAfterCircle(pressed) ==
  CASE "CIRCLE" \in pressed /\ menu_level = 0 -> [level |-> 2, yes |-> FALSE]
    [] ndirectories <= 0 /\ menu_level = 1    -> [level |-> 0, yes |-> yesno]
    [] OTHER                                  -> [level |-> menu_level, yes |-> yesno]

\* ... and after CROSS, if that does not open the dialog.
MenuAfterCross(m) ==
  CASE m.level = 0 /\ MayOpenMenu -> [level |-> 1, yes |-> FALSE]
    [] m.level \in {1, 2} /\ ~ m.yes -> [m EXCEPT !.level = 0]
    [] OTHER -> m

\* LEFT chooses YES and RIGHT chooses NO while a menu is open.
MenuAfterArrows(m, pressed) ==
  IF m.level = 0 THEN m
  ELSE [m EXCEPT !.yes = "RIGHT" \notin pressed /\ ("LEFT" \in pressed \/ m.yes)]

\* A frame's buttons: ps3pad_read gives those newly pressed.
ReadPad(pressed) ==
  LET opened == MenuAfterCircle(pressed)
      chosen == IF "CROSS" \in pressed THEN MenuAfterCross(opened) ELSE opened
      asks   == "CROSS" \in pressed /\ opened = [level |-> 1, yes |-> TRUE]
      exits  == "CROSS" \in pressed /\ opened = [level |-> 2, yes |-> TRUE]
      next   == IF asks THEN opened ELSE MenuAfterArrows(chosen, pressed)
  IN /\ alive /\ control = "pad"
     /\ Callbacks
     /\ asks => asked < MaxDialogs
     /\ menu_level' = next.level /\ yesno' = next.yes
     /\ flag_exit' = (flag_exit \/ exits)
     /\ control' = IF asks THEN "dialog" ELSE "flip"
     /\ asked' = IF asks THEN asked + 1 ELSE asked
     /\ UNCHANGED <<mainVars, systemVars, chainVars, contract_msg, user_input, confirmed, sent>>

DialogStep ==
  /\ alive /\ control = "dialog"
  /\ dialog = "draw" => ~ ExitIsDue
  /\ osk_dialog_input_init(user_input) \/ osk_dialog_get_text
  /\ UNCHANGED <<control, menuVars, mainVars, systemVars, chainVars, historyVars,
                 contract_msg, user_input>>

\* Mutant: what osk_dialog_get_text returned is not looked at.
DialogReturnsAnyway ==
  /\ alive /\ control = "dialog" /\ dialog = "returned"
  /\ dialog' = "closed"
  /\ user_input' = IF result # Empty THEN result ELSE user_input
  /\ control' = "send"
  /\ UNCHANGED <<appVars, result, keyboardVars, menuVars, mainVars, systemVars, chainVars,
                 historyVars, contract_msg>>

\* user_input changes only when a text was entered.
DialogReturns ==
  /\ alive /\ control = "dialog" /\ dialog = "returned"
  /\ dialog' = "closed"
  /\ IF result # Empty
       THEN user_input' = result /\ control' = "send" /\ UNCHANGED menuVars
       ELSE /\ control' = "flip" /\ menu_level' = 0
            /\ UNCHANGED <<user_input, yesno, flag_exit>>
  /\ UNCHANGED <<appVars, result, keyboardVars, mainVars, systemVars, chainVars, historyVars,
                 contract_msg>>

\* call_contract: the transaction leaves, if the settings are made.
Send ==
  /\ alive /\ control = "send"
  /\ sent' = Append(sent, user_input)
  /\ \/ inflight' = inflight
     \/ settings = {"rpc", "account"} /\ inflight' = Append(inflight, user_input)
  /\ control' = "sent"
  /\ UNCHANGED <<dialogVars, menuVars, mainVars, systemVars, greeting, confirmed, asked,
                 contract_msg, user_input>>

\* ... and returns; HTTP 200 clears the message on display.
SendReturns ==
  /\ alive /\ control = "sent"
  /\ contract_msg' \in {contract_msg, Empty}
  /\ menu_level' = 0
  /\ control' = "flip"
  /\ UNCHANGED <<dialogVars, yesno, flag_exit, mainVars, systemVars, chainVars, historyVars,
                 user_input>>

\* tiny3d_Flip and sysUtilCheckCallback, then while(running).
Flip ==
  /\ alive /\ control = "flip"
  /\ Callbacks
  /\ control' = IF running THEN "pad" ELSE "ended"
  /\ UNCHANGED <<menuVars, mainVars, systemVars, chainVars, historyVars, contract_msg, user_input>>

\* sys_callback runs release_all in the control thread, whose attempt to join
\* itself returns at once, and ends the process.
ExitGame ==
  /\ alive /\ ExitIsDue
  /\ control \in {"pad", "flip"} \/ (control = "dialog" /\ dialog = "draw")
  /\ registered' = FALSE
  /\ running' = FALSE
  /\ modules' = FALSE
  /\ alive' = FALSE
  /\ UNCHANGED <<dialogVars, control, menuVars, mainVars, exitGame, chainVars, historyVars,
                 contract_msg, user_input>>

-----------------------------------------------------------------------------
(* The main thread.                                                        *)

Elsewhere == UNCHANGED <<dialogVars, menuVars, chainVars, historyVars, user_input>>

\* Up to sysThreadCreate.
StartThread ==
  /\ alive /\ main = "start"
  /\ modules' = TRUE
  /\ control' = "pad"
  /\ main' = "register"
  /\ UNCHANGED <<ndirectories, check, fetched, settings, alive, running, registered, exitGame,
                 contract_msg>>
  /\ Elsewhere

Register ==
  /\ alive /\ main = "register"
  /\ registered' = TRUE
  /\ main' = "list"
  /\ UNCHANGED <<ndirectories, check, fetched, settings, alive, running, modules, exitGame,
                 control, contract_msg>>
  /\ Elsewhere

List ==
  /\ alive /\ main = "list"
  /\ ndirectories' = 1
  /\ main' = "rpc"
  /\ UNCHANGED <<check, fetched, settings, systemVars, control, contract_msg>>
  /\ Elsewhere

\* near_rpc_init, then near_account_init; a failure is only shown.
MakeSettings ==
  /\ alive /\ main \in {"rpc", "account"}
  /\ settings' \in {settings, settings \cup {main}}
  /\ main' = IF main = "rpc" THEN "account" ELSE "loop"
  /\ UNCHANGED <<ndirectories, check, fetched, systemVars, control, contract_msg>>
  /\ Elsewhere

\* Mutant: only fetch while nothing is on display.
DueWhenEmpty == contract_msg = Empty
Due == check = 0

Round ==
  /\ alive /\ main = "loop" /\ ~ flag_exit
  /\ check' = (check + 1) % Period
  /\ main' = IF Due THEN "fetch" ELSE "loop"
  /\ UNCHANGED <<ndirectories, fetched, settings, systemVars, control, contract_msg>>
  /\ Elsewhere

\* get_contract_greeting: the exchange, and the copy to contract_msg.
Fetch ==
  /\ alive /\ main = "fetch"
  /\ "rpc" \in settings
  /\ fetched' = greeting
  /\ main' = "copy"
  /\ UNCHANGED <<ndirectories, check, settings, systemVars, control, contract_msg>>
  /\ Elsewhere

FetchFails ==
  /\ alive /\ main = "fetch"
  /\ main' = "loop"
  /\ UNCHANGED <<ndirectories, check, fetched, settings, systemVars, control, contract_msg>>
  /\ Elsewhere

Copy ==
  /\ alive /\ main = "copy"
  /\ contract_msg' = fetched
  /\ main' = "loop"
  /\ UNCHANGED <<ndirectories, check, fetched, settings, systemVars, control>>
  /\ Elsewhere

\* Mutant: running stays 1.
StopLooping(stop) == UNCHANGED running
Stop(stop) == running' = ~ stop

\* Mutant: the modules are unloaded before the thread is joined.
release_allUnloadsFirst ==
  /\ alive /\ main = "loop" /\ flag_exit
  /\ registered' = FALSE
  /\ Stop(TRUE)
  /\ modules' = FALSE
  /\ main' = "join"
  /\ UNCHANGED <<ndirectories, check, fetched, settings, alive, exitGame, control, contract_msg>>
  /\ Elsewhere

release_all ==
  /\ alive /\ main = "loop" /\ flag_exit
  /\ registered' = FALSE
  /\ Stop(TRUE)
  /\ main' = "join"
  /\ UNCHANGED <<ndirectories, check, fetched, settings, alive, modules, exitGame, control, contract_msg>>
  /\ Elsewhere

\* The control thread has ended: unload the modules, and return from main.
Joined ==
  /\ alive /\ main = "join" /\ control = "ended"
  /\ modules' = FALSE
  /\ alive' = FALSE
  /\ main' = "exited"
  /\ UNCHANGED <<ndirectories, check, fetched, settings, running, registered, exitGame, control,
                 contract_msg>>
  /\ Elsewhere

-----------------------------------------------------------------------------
(* The user, the system and the network.                                   *)

UserAtKeyboard ==
  /\ alive
  /\ UserIsDone \/ \E text \in Texts : UserTypes(text)
  /\ confirmed' = IF keyboard' = "finished" /\ verdict' = "OK"
                    THEN Append(confirmed, typed) ELSE confirmed
  /\ UNCHANGED <<control, menuVars, mainVars, systemVars, chainVars, sent, asked,
                 contract_msg, user_input>>

System ==
  /\ alive
  /\ \/ KeyboardStep /\ UNCHANGED systemVars
     \/ /\ ~ exitGame /\ exitGame' = TRUE
        /\ UNCHANGED <<dialogVars, alive, running, modules, registered>>
  /\ UNCHANGED <<control, menuVars, mainVars, chainVars, historyVars, contract_msg, user_input>>

\* The oldest greeting on its way is applied, or lost.
Network ==
  /\ inflight # << >>
  /\ inflight' = Tail(inflight)
  /\ greeting' \in {greeting, Head(inflight)}
  /\ UNCHANGED <<dialogVars, control, menuVars, mainVars, systemVars, historyVars,
                 contract_msg, user_input>>

Control == (\E pressed \in SUBSET Buttons : ReadPad(pressed))
             \/ DialogStep \/ DialogReturns \/ Send \/ SendReturns \/ Flip \/ ExitGame
Main == StartThread \/ Register \/ List \/ MakeSettings \/ Round \/ Fetch \/ FetchFails \/ Copy
          \/ release_all \/ Joined

Next == Control \/ Main \/ UserAtKeyboard \/ System \/ Network

Spec == Init /\ [][Next]_vars

-----------------------------------------------------------------------------
(* Properties.                                                             *)

SampleTypeOK ==
  /\ main \in {"start", "register", "list", "rpc", "account", "loop", "fetch", "copy", "join", "exited"}
  /\ control \in {"none", "pad", "dialog", "send", "sent", "flip", "ended"}
  /\ menu_level \in 0..2 /\ yesno \in BOOLEAN /\ ndirectories \in 0..1
  /\ {alive, running, flag_exit, modules, registered, exitGame} \subseteq BOOLEAN
  /\ settings \subseteq {"rpc", "account"}
  /\ {contract_msg, user_input, fetched, greeting} \subseteq Texts
  /\ check \in 0..(Period - 1) /\ asked \in 0..MaxDialogs
  /\ inflight \in Seq(Texts) /\ confirmed \in Seq(Texts) /\ sent \in Seq(Texts)

MenusFit ==
  /\ control \in {"dialog", "send", "sent"} => menu_level = 1 /\ yesno
  /\ menu_level = 1 => ndirectories > 0

\* Every variable has its type; the menus and the dialog are open only where
\* control_thread puts them, and there is something to choose.
AppTypeOK == DialogTypeOK /\ SampleTypeOK /\ MenusFit

\* Once the pad is read again, call_contract was called exactly with the texts
\* the user confirmed, in order: none cancelled, none lost, none twice
\* (osk_dialog_get_text and the menus of control_thread).
SentAsConfirmed == control = "pad" => sent = confirmed

\* While the control thread draws, the modules it draws with are loaded:
\* release_all joins it first (main.c 385-399).
ModulesOutliveDrawing == alive /\ control \notin {"none", "ended"} => modules

\* YES in the exit menu ends the process, whatever fetch, dialog or menu the
\* threads are in or open afterwards.
ExitEnds == flag_exit ~> ~ alive

\* "Wait for the transaction to be confirmed on the blockchain, and the new
\* message will be displayed on the screen" (sample-ps3/README.md): once the
\* greeting no longer changes it is what is on display, although the control
\* thread clears the message while the main thread may be copying an old one.
DisplayCatchesUp ==
  \A m \in Messages : <>[](alive /\ "rpc" \in settings /\ greeting = m) => <>[](contract_msg = m)

\* The scheduler runs both threads, the network answers a request again and
\* again, and the user closes the keyboard.
Fairness ==
  /\ WF_vars(Control) /\ WF_vars(Main) /\ SF_vars(Fetch)
  /\ WF_vars(UserAtKeyboard /\ keyboard' # "open") /\ WF_vars(System /\ keyboard' # keyboard)
FairSpec == Spec /\ Fairness

-----------------------------------------------------------------------------
(* The inductive invariant of SampleProofs.                                *)

\* A dialog is open only for the control thread, once that was created, and is
\* started without events of an earlier one.
DialogForControl ==
  /\ main = "start" => control = "none"
  /\ control # "dialog" => dialog = "closed"
  /\ control = "dialog" /\ dialog = "closed" => events = << >>

\* What was confirmed and is not sent yet is on its way through the dialog.
OnItsWay ==
  confirmed =
    CASE control = "dialog" /\ dialog = "returned" /\ result # Empty -> Append(sent, result)
      [] control = "dialog" /\ dialog \in {"update", "draw"} /\ verdict = "OK" -> Append(sent, typed)
      [] control = "send" -> Append(sent, user_input)
      [] OTHER -> sent

SampleInv == AppTypeOK /\ DialogInv /\ DialogForControl /\ OnItsWay
=============================================================================
