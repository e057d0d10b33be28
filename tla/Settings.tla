-------------------------------- MODULE Settings --------------------------------
(***************************************************************************)
(* What a request is sent with.                                            *)
(*                                                                         *)
(* Preferences: ConfigManager (config/config_manager.cpp) keeps the        *)
(* configuration and its file, SettingsDialog (ui/settings_dialog.cpp)     *)
(* edits it, MainFrame applies the look, and main.cpp gives the endpoint   *)
(* to the client when the program starts.                                  *)
(*                                                                         *)
(* Parameters: every session has its own; SessionParamsDialog              *)
(* (ui/session_params_dlg.cpp) edits the ones of the open session, of      *)
(* which MainFrame, ChatPanel and the table sessions each hold a copy.     *)
(*                                                                         *)
(* The dialogs are modal: the user can do nothing else meanwhile, but      *)
(* prompts that were sent before still leave the event queue.  The         *)
(* database works here (HistoryManager has its faults).                    *)
(***************************************************************************)
EXTENDS Naturals, Sequences, FiniteSets

CONSTANTS Endpoint, Model, Look,  \* values of the configuration
          Default,                \* AppConfig{}
          Session, Nowhere,
          Temperature,            \* hundredths a slider can stand on
          DefaultTemperature,     \* constants::chat_temperature
          Truncated,              \* see Position
          MaxDialogs,             \* bound: dialogs opened
          MaxPrompts,             \* bound: prompts sent
          MaxFaults               \* bound: writes that fail, files that are damaged, crashes

Config == [endpoint : Endpoint, model : Model, thinking : BOOLEAN, look : Look]
Fields == <<"endpoint", "model", "thinking", "look">>  \* as they stand in the file

ASSUME DefaultAssumption == Default \in Config /\ DefaultTemperature \in Temperature
ASSUME SliderAssumption ==
  /\ Temperature \subseteq Nat
  /\ Truncated \subseteq Nat \ {0}
  /\ \A t \in Temperature \cap Truncated : t - 1 \in Temperature
ASSUME NowhereAssumption == Nowhere \notin Session
ASSUME BoundAssumption == {MaxDialogs, MaxPrompts, MaxFaults} \subseteq Nat

VARIABLES
  config,     \* ConfigManager::m_current_config
  file,       \* malama_config.json: its state, and what can be read of it
  intact,     \* the file was last written by the program, without an error
  endpoint,   \* OllamaClient: m_host and m_port
  look,       \* what apply_styles_recursively was called with last
  dialog,     \* the open dialog; "closing": EndModal waits in the event queue
  local,      \* SettingsDialog::m_local_config
  form,       \* the controls of SettingsDialog
  items,      \* the models m_model_choice lists
  touched,    \* fields the user edited, or whose choice the dialog itself changed
  slider,     \* SessionParamsDialog::m_temp_slider
  frame,      \* MainFrame::m_current_session_params
  panel,      \* ChatPanel::m_active_session.m_metadata.m_parameters
  current,    \* MainFrame::m_current_session_id
  table,      \* the parameters in table sessions
  chosen,     \* parameters last confirmed for each session
  draft,      \* and for the chat that has no session yet
  queued,     \* EVT_USER_PROMPT events in the queue
  request,    \* what the last InitializeGeneration was given
  dialogs, prompts, faults

controls == <<form, items, touched>>
settings == <<config, file, intact, endpoint, look, local, controls>>
parameters == <<frame, panel, current, table, chosen, draft>>
counters == <<dialogs, prompts, faults>>
vars == <<settings, parameters, dialog, slider, queued, request, counters>>

NoRequest == [session |-> Nowhere, parameters |-> DefaultTemperature, endpoint |-> Default.endpoint]

TypeOK ==
  /\ {config, local, form} \subseteq Config
  /\ file \in [state : {"missing", "damaged", "whole"}, value : Config]
  /\ intact \in BOOLEAN
  /\ endpoint \in Endpoint /\ look \in Look
  /\ dialog \in {"none", "settings", "closing", "parameters"}
  /\ items \subseteq Model /\ touched \subseteq DOMAIN Default
  /\ {slider, frame, panel, draft} \subseteq Temperature
  /\ current \in Session \cup {Nowhere}
  /\ DOMAIN table \subseteq Session /\ table \in [DOMAIN table -> Temperature]
  /\ DOMAIN chosen \subseteq Session /\ chosen \in [DOMAIN chosen -> Temperature]
  /\ queued \in 0..MaxPrompts
  /\ request \in [session : Session \cup {Nowhere}, parameters : Temperature,
                  endpoint : Endpoint]
  /\ dialogs \in 0..MaxDialogs /\ prompts \in 0..MaxPrompts /\ faults \in 0..MaxFaults

(***************************************************************************)
(* ConfigManager                                                           *)
(***************************************************************************)

\* Mutant: the file is written before the configuration is replaced.
WriteFileBefore(c) ==
  /\ file' = [state |-> "whole", value |-> config]
  /\ intact' = TRUE
  /\ UNCHANGED faults

\* write_file_json: the result is ignored, so a file that cannot be opened stays and one
\* that cannot be written to the end is damaged.
WriteFile(c) ==
  \/ /\ file' = [state |-> "whole", value |-> c]
     /\ intact' = TRUE
     /\ UNCHANGED faults
  \/ /\ faults < MaxFaults
     /\ faults' = faults + 1
     /\ intact' = FALSE
     /\ \/ UNCHANGED file
        \/ file' = [state |-> "damaged", value |-> c]

\* read_file_json reads into the configuration as it goes: what stands before the error
\* is taken, what follows keeps its default.
ReadUpTo(c, n) ==
  [f \in DOMAIN Default |-> IF \E i \in 1..n : Fields[i] = f THEN c[f] ELSE Default[f]]

\* load_config
LoadConfig(c) ==
  CASE file.state = "whole" ->
         c = file.value /\ UNCHANGED <<file, intact, faults>>
    [] file.state = "missing" ->
         c = Default /\ WriteFile(c)
    [] file.state = "damaged" ->
         (\E n \in 0..Len(Fields) : c = ReadUpTo(file.value, n)) /\ WriteFile(c)

(***************************************************************************)
(* Conversions of the dialogs                                              *)
(***************************************************************************)

\* Mutant: the slider takes the next position.
PositionAbove(t) == t + 1

\* The slider for a temperature of t hundredths: static_cast<int>(temperature * 100.0F),
\* which for some t is one less, t/100.0F being rounded to single precision.
Position(t) == IF t \in Truncated THEN t - 1 ELSE t

\* Mutant: the check box for thinking is not set from the configuration.
PopulatedUnchecked(c, offered, first) ==
  [c EXCEPT !.thinking = FALSE,
            !.model = IF offered = {} \/ c.model \in offered THEN c.model ELSE first]

\* populate_data: of the models the server offers the first is selected when the
\* configured one is not among them; a server that does not answer offers none.
Populated(c, offered, first) ==
  [c EXCEPT !.model = IF offered = {} \/ c.model \in offered THEN c.model ELSE first]

Populate(c, edited) ==
  \E offered \in SUBSET Model : \E first \in IF offered = {} THEN {c.model} ELSE offered :
    /\ form' = Populated(c, offered, first)
    /\ items' = IF offered = {} THEN {c.model} ELSE offered
    /\ touched' = edited \cup (IF form'.model # c.model THEN {"model"} ELSE {})

(***************************************************************************)
(* Start and end of the program                                            *)
(***************************************************************************)

Init ==
  /\ config = Default
  /\ file = [state |-> "whole", value |-> Default]
  /\ intact = TRUE
  /\ endpoint = Default.endpoint
  /\ look = Default.look
  /\ dialog = "none"
  /\ local = Default /\ form = Default /\ items = {} /\ touched = {}
  /\ slider = DefaultTemperature
  /\ frame = DefaultTemperature /\ panel = DefaultTemperature /\ draft = DefaultTemperature
  /\ current = Nowhere
  /\ table = <<>> /\ chosen = <<>>
  /\ queued = 0
  /\ request = NoRequest
  /\ dialogs = 0 /\ prompts = 0 /\ faults = 0

\* Mutant: the frame opens the last session for its messages only.
OpenSessionBare(s) ==
  /\ current' = s
  /\ panel' = table[s]
  /\ UNCHANGED frame

\* on_load_session, and LoadMostRecentSessionOnStartup for one of the sessions
OpenSession(s) ==
  /\ current' = s
  /\ frame' = table[s]
  /\ panel' = table[s]

\* on_new_chat_action
BlankChat ==
  /\ current' = Nowhere
  /\ frame' = DefaultTemperature
  /\ panel' = DefaultTemperature
  /\ draft' = DefaultTemperature

\* A dialog is destroyed with its controls.
CloseDialog ==
  /\ dialog' = "none"
  /\ local' = Default /\ form' = Default /\ items' = {} /\ touched' = {}
  /\ slider' = DefaultTemperature

\* The program ends, as it should or not, and is started again: OnInit reads the file
\* once and hands the endpoint to the client; MainFrame applies the look and opens the
\* most recent of the sessions.
Restart ==
  /\ \E c \in Config :
        /\ LoadConfig(c)
        /\ config' = c /\ endpoint' = c.endpoint /\ look' = c.look
  /\ CloseDialog
  /\ draft' = DefaultTemperature
  /\ \/ \E s \in DOMAIN table : OpenSession(s)
     \/ table = <<>> /\ current' = Nowhere /\ frame' = DefaultTemperature
                     /\ panel' = DefaultTemperature
  /\ queued' = 0
  /\ UNCHANGED <<table, chosen, request, dialogs, prompts>>

\* Another program removes or damages the file.
Damage ==
  /\ faults < MaxFaults
  /\ faults' = faults + 1
  /\ intact' = FALSE
  /\ \E state \in {"missing", "damaged"} : file' = [file EXCEPT !.state = state]
  /\ UNCHANGED <<config, endpoint, look, dialog, local, controls, slider, parameters,
                 queued, request, dialogs, prompts>>

(***************************************************************************)
(* Preferences                                                             *)
(***************************************************************************)

Idle == dialog = "none"
Open(d) ==
  /\ Idle
  /\ dialogs < MaxDialogs
  /\ dialogs' = dialogs + 1
  /\ dialog' = d

\* on_preferences_action and the constructor of SettingsDialog
OpenSettings ==
  /\ Open("settings")
  /\ local' = config
  /\ Populate(config, {})
  /\ UNCHANGED <<config, file, intact, endpoint, look, parameters, slider, queued, request,
                 prompts, faults>>

\* The user changes a control, each one once (a bound); the model to one of the list.
EditSettings ==
  /\ dialog = "settings"
  /\ \E c \in Config : \E f \in DOMAIN Default \ touched :
        /\ c = [form EXCEPT ![f] = c[f]] /\ c # form
        /\ c.model \in items \cup {form.model}
        /\ form' = c
        /\ touched' = touched \cup {f}
  /\ UNCHANGED <<config, file, intact, endpoint, look, local, items, parameters, dialog,
                 slider, queued, request, counters>>

\* on_refresh_models takes the engine's fields from the controls and fills all controls
\* again, so that edits of the look are undone.
RefreshModels ==
  /\ dialog = "settings"
  /\ local' = [form EXCEPT !.look = local.look]
  /\ Populate(local', touched \ {"look"})
  /\ UNCHANGED <<config, file, intact, endpoint, look, parameters, dialog, slider, queued,
                 request, counters>>

\* on_save: update_config and save_config write the same file twice, the second write
\* decides; the dialog is closed by a later event.
Save ==
  /\ dialog = "settings"
  /\ dialog' = "closing"
  /\ local' = form
  /\ config' = form
  /\ WriteFile(form)
  /\ UNCHANGED <<endpoint, look, controls, parameters, slider, queued, request,
                 dialogs, prompts>>

\* apply_appearance_settings
ApplyAppearance == look' = config.look

\* EndModal(wxID_OK) and what on_preferences_action does next
EndSettings ==
  /\ dialog = "closing"
  /\ CloseDialog
  /\ ApplyAppearance
  /\ UNCHANGED <<config, file, intact, endpoint, parameters, queued, request, counters>>

\* Cancel closes either dialog and leaves everything as it was.
Cancel ==
  /\ dialog \in {"settings", "parameters"}
  /\ CloseDialog
  /\ UNCHANGED <<config, file, intact, endpoint, look, parameters, queued, request, counters>>

(***************************************************************************)
(* Session parameters                                                      *)
(***************************************************************************)

\* on_session_params_action takes the panel's copy; the dialog sets its slider from it.
OpenParameters ==
  /\ Open("parameters")
  /\ frame' = panel
  /\ slider' = Position(panel)
  /\ UNCHANGED <<settings, panel, current, table, chosen, draft, queued, request, prompts,
                 faults>>

\* The user moves the slider, or OnResetDefaults does, to Position(DefaultTemperature).
MoveSlider ==
  /\ dialog = "parameters"
  /\ \E t \in Temperature : t # slider /\ slider' = t
  /\ UNCHANGED <<settings, parameters, dialog, queued, request, counters>>

\* Mutant: the row is left as it was.
StoreNoParameters(t) == table' = table

\* UpdateSessionParameters, an UPDATE of the row if there is one
StoreParameters(t) ==
  table' = IF current \in DOMAIN table THEN [table EXCEPT ![current] = t] ELSE table

\* on_session_params_action after wxID_OK: the frame's copy, the panel's, the row
ConfirmParameters ==
  /\ dialog = "parameters"
  /\ CloseDialog
  /\ frame' = slider
  /\ panel' = slider
  /\ StoreParameters(slider)
  /\ IF current = Nowhere
     THEN draft' = slider /\ UNCHANGED chosen
     ELSE chosen' = [chosen EXCEPT ![current] = slider] /\ UNCHANGED draft
  /\ UNCHANGED <<config, file, intact, endpoint, look, current, queued, request, counters>>

(***************************************************************************)
(* Sessions and prompts                                                    *)
(***************************************************************************)

SelectSession ==
  /\ Idle
  /\ \E s \in DOMAIN table : OpenSession(s)
  /\ draft' = DefaultTemperature
  /\ UNCHANGED <<settings, table, chosen, dialog, slider, queued, request, counters>>

NewChat ==
  /\ Idle
  /\ BlankChat
  /\ UNCHANGED <<settings, table, chosen, dialog, slider, queued, request, counters>>

\* DeleteSession, and the new chat that follows
DeleteChat ==
  /\ Idle
  /\ \E s \in DOMAIN table :
        /\ table' = [u \in DOMAIN table \ {s} |-> table[u]]
        /\ chosen' = [u \in DOMAIN chosen \ {s} |-> chosen[u]]
  /\ BlankChat
  /\ UNCHANGED <<settings, dialog, slider, queued, request, counters>>

\* on_send_action queues the prompt.
Send ==
  /\ Idle
  /\ prompts < MaxPrompts
  /\ prompts' = prompts + 1
  /\ queued' = queued + 1
  /\ UNCHANGED <<settings, parameters, dialog, slider, request, dialogs, faults>>

With(f, s, t) == [u \in DOMAIN f \cup {s} |-> IF u = s THEN t ELSE f[u]]

\* InitializeGeneration and the client it hands the request to
Generate(s) ==
  request' = [session |-> s, parameters |-> frame, endpoint |-> endpoint]

\* on_user_prompt_submitted, also while a dialog is open: a chat without a session gets
\* one, with the frame's parameters.
HandlePrompt ==
  /\ queued > 0
  /\ queued' = queued - 1
  /\ \/ /\ current # Nowhere
        /\ Generate(current)
        /\ UNCHANGED parameters
     \/ /\ current = Nowhere
        /\ \E s \in Session \ DOMAIN table :
              /\ current' = s
              /\ table' = With(table, s, frame)
              /\ chosen' = With(chosen, s, draft)
              /\ Generate(s)
        /\ panel' = frame
        /\ draft' = DefaultTemperature
        /\ UNCHANGED frame
  /\ UNCHANGED <<settings, dialog, slider, counters>>

Preferences == OpenSettings \/ EditSettings \/ RefreshModels \/ Save \/ EndSettings
Parameters == OpenParameters \/ MoveSlider \/ ConfirmParameters
Chats == SelectSession \/ NewChat \/ DeleteChat \/ Send \/ HandlePrompt

Next == Restart \/ Damage \/ Preferences \/ Cancel \/ Parameters \/ Chats

Spec == Init /\ [][Next]_vars

(***************************************************************************)
(* Properties                                                              *)
(***************************************************************************)

\* The copies of a session's parameters agree, in the frame, the panel and the table,
\* and are what was last confirmed for that session, whatever the order of dialogs,
\* prompts, new chats, switches and restarts (m_current_session_params is assigned in
\* five handlers of MainFrame, the panel's copy in three of ChatPanel).
ParametersAgree ==
  /\ frame = panel
  /\ frame = IF current = Nowhere THEN draft ELSE chosen[current]
  /\ table = chosen

\* A request is sent with the parameters confirmed for the session it belongs to.
RequestsAsChosen ==
  [][request' # request => request'.parameters = chosen'[request'.session]]_vars

\* Once the settings are closed the window has the configured look, also after a
\* restart with a file that was damaged (apply_appearance_settings).
LookApplied == Idle => look = config.look

\* A restart changes no setting unless the file failed or was damaged meanwhile, and
\* after one with a damaged file the file and the configuration agree again.
SettingsSurvive == intact => file.state = "whole" /\ file.value = config

\* Saving changes what the user edited and nothing else, but for a model the server
\* does not offer, which the dialog replaces by itself: the controls are filled from
\* the configuration and read back, twice if the models are refreshed.
SaveChangesOnlyEdits ==
  [][dialog = "settings" /\ dialog' = "closing" =>
       \A f \in DOMAIN Default \ touched : config'[f] = config[f]]_vars

\* README.md: "Requests are sent to your configured Ollama instance".
EndpointAsConfigured ==
  [][request' # request => request'.endpoint = config.endpoint]_vars
=============================================================================
