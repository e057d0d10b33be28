----------------------------- MODULE SettingsProofs -----------------------------
(* Proofs about Settings. *)
EXTENDS Settings, TLAPS

\* The open session is in the table.
CurrentStored == current # Nowhere => current \in DOMAIN table

ParametersInv == ParametersAgree /\ CurrentStored

\* The window may lag behind the configuration only until the dialog has closed.
LookInv == dialog # "closing" => look = config.look

\* The controls that were not edited show the configuration.
FormGenuine ==
  dialog = "settings" =>
    /\ local.look = config.look
    /\ \A f \in DOMAIN Default \ touched : form[f] = config[f]

SettingsInv == SettingsSurvive /\ LookInv /\ FormGenuine

\* Every prompt in the queue was sent.
PromptsCounted == queued <= prompts

IInv == TypeOK /\ PromptsCounted /\ ParametersInv /\ SettingsInv

(***************************************************************************)
(* Lemmas about the operators                                              *)
(***************************************************************************)

LEMMA Bounds == MaxDialogs \in Nat /\ MaxPrompts \in Nat /\ MaxFaults \in Nat
BY BoundAssumption

LEMMA DefaultFields == DOMAIN Default = {"endpoint", "model", "thinking", "look"}
BY DefaultAssumption DEF Config

\* Of the fields populate_data changes at most the model, to one of the server's.
LEMMA PopulatedType ==
  ASSUME NEW c \in Config, NEW offered \in SUBSET Model,
         NEW first \in IF offered = {} THEN {c.model} ELSE offered
  PROVE  /\ Populated(c, offered, first) \in Config
         /\ \A f \in DOMAIN Default \ {"model"} : Populated(c, offered, first)[f] = c[f]
         /\ (IF offered = {} THEN {c.model} ELSE offered) \subseteq Model
<1>1. c.model \in Model /\ first \in Model
  BY DEF Config
<1>2. PICK m \in Model : Populated(c, offered, first) = [c EXCEPT !.model = m]
  BY <1>1 DEF Populated
<1> QED  BY <1>1, <1>2, DefaultFields DEF Config

\* The slider stands on a temperature.
LEMMA PositionType == ASSUME NEW t \in Temperature PROVE Position(t) \in Temperature
BY SliderAssumption DEF Position

LEMMA WithType ==
  ASSUME NEW S, NEW T, NEW f, DOMAIN f \subseteq S, f \in [DOMAIN f -> T],
         NEW s \in S, NEW t \in T
  PROVE  /\ DOMAIN With(f, s, t) = DOMAIN f \cup {s}
         /\ DOMAIN With(f, s, t) \subseteq S
         /\ With(f, s, t) \in [DOMAIN With(f, s, t) -> T]
         /\ With(f, s, t)[s] = t
BY DEF With

\* A write leaves the file whole and new, or counts as a fault.
LEMMA WriteFileType ==
  ASSUME NEW c \in Config, TypeOK, WriteFile(c)
  PROVE  /\ file' \in [state : {"missing", "damaged", "whole"}, value : Config]
         /\ intact' \in BOOLEAN
         /\ faults' \in 0..MaxFaults
         /\ intact' => file'.state = "whole" /\ file'.value = c
<1>1. CASE file' = [state |-> "whole", value |-> c] /\ intact' = TRUE /\ UNCHANGED faults
  BY <1>1 DEF TypeOK
<1>2. CASE /\ faults < MaxFaults /\ faults' = faults + 1 /\ intact' = FALSE
           /\ UNCHANGED file \/ file' = [state |-> "damaged", value |-> c]
  <2>1. faults' \in 0..MaxFaults  BY <1>2, Bounds DEF TypeOK
  <2>2. file' \in [state : {"missing", "damaged", "whole"}, value : Config]
    BY <1>2 DEF TypeOK
  <2>3. intact' = FALSE  BY <1>2
  <2> QED  BY <2>1, <2>2, <2>3
<1> QED  BY <1>1, <1>2 DEF WriteFile

LEMMA LoadConfigType ==
  ASSUME NEW c \in Config, TypeOK, SettingsSurvive, LoadConfig(c)
  PROVE  /\ file' \in [state : {"missing", "damaged", "whole"}, value : Config]
         /\ intact' \in BOOLEAN
         /\ faults' \in 0..MaxFaults
         /\ intact' => file'.state = "whole" /\ file'.value = c
<1>1. CASE file.state = "whole"
  BY <1>1 DEF LoadConfig, TypeOK
<1>2. CASE file.state # "whole"
  <2>1. file.state \in {"missing", "damaged"}  BY <1>2 DEF TypeOK
  <2>2. WriteFile(c)  BY <2>1 DEF LoadConfig
  <2> QED  BY <2>2, WriteFileType
<1> QED  BY <1>1, <1>2

(***************************************************************************)
(* Steps                                                                   *)
(***************************************************************************)

LEMMA DialogClosedType ==
  ASSUME CloseDialog
  PROVE  /\ dialog' = "none" /\ {local', form'} \subseteq Config
         /\ items' \subseteq Model /\ touched' \subseteq DOMAIN Default
         /\ slider' \in Temperature
BY DefaultAssumption DEF CloseDialog

LEMMA BlankChatType ==
  ASSUME BlankChat
  PROVE  current' = Nowhere /\ {frame', panel', draft'} \subseteq Temperature
BY DefaultAssumption DEF BlankChat

LEMMA PopulateType ==
  ASSUME NEW c \in Config, NEW edited \in SUBSET DOMAIN Default, Populate(c, edited)
  PROVE  /\ form' \in Config /\ items' \subseteq Model
         /\ touched' \subseteq DOMAIN Default /\ edited \subseteq touched'
         /\ \A f \in DOMAIN Default \ touched' : form'[f] = c[f]
<1> DEFINE Choice(offered) == IF offered = {} THEN {c.model} ELSE offered
<1>0. PICK offered \in SUBSET Model : \E first \in Choice(offered) :
        /\ form' = Populated(c, offered, first)
        /\ items' = Choice(offered)
        /\ touched' = edited \cup (IF form'.model # c.model THEN {"model"} ELSE {})
  BY DEF Populate
<1>1. PICK first \in Choice(offered) :
        /\ form' = Populated(c, offered, first)
        /\ items' = Choice(offered)
        /\ touched' = edited \cup (IF form'.model # c.model THEN {"model"} ELSE {})
  BY <1>0
<1>2. /\ Populated(c, offered, first) \in Config
      /\ \A f \in DOMAIN Default \ {"model"} : Populated(c, offered, first)[f] = c[f]
      /\ items' \subseteq Model
  BY <1>1, PopulatedType
<1>3. \A f \in DOMAIN Default \ touched' : form'[f] = c[f]
  <2> SUFFICES ASSUME NEW f \in DOMAIN Default, f \notin touched' PROVE form'[f] = c[f]
    OBVIOUS
  <2>1. CASE f = "model"
    BY <1>1, <2>1
  <2>2. CASE f # "model"
    BY <1>1, <1>2, <2>2
  <2> QED  BY <2>1, <2>2
<1> QED  BY <1>1, <1>2, <1>3, DefaultFields

\* Every action keeps the types.
LEMMA TypeStep ==
  ASSUME TypeOK, PromptsCounted, SettingsSurvive, [Next]_vars
  PROVE  TypeOK' /\ PromptsCounted'
<1> USE DEF settings, parameters, controls, counters, PromptsCounted
<1>1. CASE Restart
  <2>1. PICK c \in Config :
          LoadConfig(c) /\ config' = c /\ endpoint' = c.endpoint /\ look' = c.look
    BY <1>1 DEF Restart
  <2>2. /\ file' \in [state : {"missing", "damaged", "whole"}, value : Config]
        /\ intact' \in BOOLEAN /\ faults' \in 0..MaxFaults
    BY <2>1, LoadConfigType
  <2>3. endpoint' \in Endpoint /\ look' \in Look /\ config' \in Config
    BY <2>1 DEF Config
  <2>4. CloseDialog  BY <1>1 DEF Restart
  <2>5. {frame', panel', draft'} \subseteq Temperature /\ current' \in Session \cup {Nowhere}
    BY <1>1, DefaultAssumption DEF Restart, OpenSession, TypeOK
  <2>6. queued' \in 0..MaxPrompts /\ queued' <= prompts
    BY <1>1, Bounds DEF Restart, TypeOK
  <2>7. UNCHANGED <<table, chosen, request, dialogs, prompts>>  BY <1>1 DEF Restart
  <2> QED  BY <2>2, <2>3, <2>4, <2>5, <2>6, <2>7, DialogClosedType DEF TypeOK
<1>2. CASE Damage
  <2>1. faults' \in 0..MaxFaults
    <3>1. faults < MaxFaults /\ faults' = faults + 1  BY <1>2 DEF Damage
    <3> QED  BY <3>1, Bounds DEF TypeOK
  <2>2. file' \in [state : {"missing", "damaged", "whole"}, value : Config]
    BY <1>2 DEF Damage, TypeOK
  <2> QED  BY <1>2, <2>1, <2>2 DEF Damage, TypeOK
<1>3. CASE OpenSettings
  <2>1. form' \in Config /\ items' \subseteq Model /\ touched' \subseteq DOMAIN Default
    BY <1>3, PopulateType DEF OpenSettings, TypeOK
  <2>2. dialog' = "settings" /\ dialogs' \in 0..MaxDialogs
    BY <1>3, Bounds DEF OpenSettings, Open, TypeOK
  <2> QED  BY <1>3, <2>1, <2>2 DEF OpenSettings, TypeOK
<1>4. CASE EditSettings
  <2>1. form' \in Config /\ touched' \subseteq DOMAIN Default
    BY <1>4 DEF EditSettings, TypeOK
  <2> QED  BY <1>4, <2>1 DEF EditSettings, TypeOK
<1>5. CASE RefreshModels
  <2>1. local' \in Config
    BY <1>5 DEF RefreshModels, TypeOK, Config
  <2>2. touched \ {"look"} \in SUBSET DOMAIN Default
    BY DEF TypeOK
  <2>3. form' \in Config /\ items' \subseteq Model /\ touched' \subseteq DOMAIN Default
    BY <1>5, <2>1, <2>2, PopulateType DEF RefreshModels
  <2> QED  BY <1>5, <2>1, <2>3 DEF RefreshModels, TypeOK
<1>6. CASE Save
  <2>1. form \in Config  BY DEF TypeOK
  <2>2. /\ file' \in [state : {"missing", "damaged", "whole"}, value : Config]
        /\ intact' \in BOOLEAN /\ faults' \in 0..MaxFaults
    BY <1>6, <2>1, WriteFileType DEF Save
  <2> QED  BY <1>6, <2>1, <2>2 DEF Save, TypeOK
<1>7. CASE EndSettings
  <2>1. look' \in Look
    BY <1>7 DEF EndSettings, ApplyAppearance, TypeOK, Config
  <2>2. CloseDialog  BY <1>7 DEF EndSettings
  <2> QED  BY <1>7, <2>1, <2>2, DialogClosedType DEF EndSettings, TypeOK
<1>8. CASE Cancel
  <2>1. CloseDialog  BY <1>8 DEF Cancel
  <2> QED  BY <1>8, <2>1, DialogClosedType DEF Cancel, TypeOK
<1>9. CASE OpenParameters
  <2>1. frame' \in Temperature /\ slider' \in Temperature
    BY <1>9, PositionType DEF OpenParameters, TypeOK
  <2>2. dialog' = "parameters" /\ dialogs' \in 0..MaxDialogs
    BY <1>9, Bounds DEF OpenParameters, Open, TypeOK
  <2> QED  BY <1>9, <2>1, <2>2 DEF OpenParameters, TypeOK
<1>10. CASE MoveSlider
  BY <1>10 DEF MoveSlider, TypeOK
<1>11. CASE ConfirmParameters
  <2>1. CloseDialog  BY <1>11 DEF ConfirmParameters
  <2>2. DOMAIN table' = DOMAIN table /\ table' \in [DOMAIN table' -> Temperature]
    BY <1>11 DEF ConfirmParameters, StoreParameters, TypeOK
  <2>3. DOMAIN chosen' = DOMAIN chosen /\ chosen' \in [DOMAIN chosen' -> Temperature]
    BY <1>11 DEF ConfirmParameters, TypeOK
  <2>4. {frame', panel', draft'} \subseteq Temperature
    BY <1>11 DEF ConfirmParameters, TypeOK
  <2> QED  BY <1>11, <2>1, <2>2, <2>3, <2>4, DialogClosedType DEF ConfirmParameters, TypeOK
<1>12. CASE SelectSession
  <2>1. {frame', panel', draft'} \subseteq Temperature /\ current' \in Session
    BY <1>12, DefaultAssumption DEF SelectSession, OpenSession, TypeOK
  <2> QED  BY <1>12, <2>1 DEF SelectSession, TypeOK
<1>13. CASE NewChat
  BY <1>13, BlankChatType DEF NewChat, TypeOK
<1>14. CASE DeleteChat
  <2>1. PICK s \in DOMAIN table : /\ table' = [u \in DOMAIN table \ {s} |-> table[u]]
                                  /\ chosen' = [u \in DOMAIN chosen \ {s} |-> chosen[u]]
    BY <1>14 DEF DeleteChat
  <2>2. DOMAIN table' \subseteq Session /\ table' \in [DOMAIN table' -> Temperature]
    BY <2>1 DEF TypeOK
  <2>3. DOMAIN chosen' \subseteq Session /\ chosen' \in [DOMAIN chosen' -> Temperature]
    BY <2>1 DEF TypeOK
  <2>4. BlankChat  BY <1>14 DEF DeleteChat
  <2> QED  BY <1>14, <2>2, <2>3, <2>4, BlankChatType DEF DeleteChat, TypeOK
<1>15. CASE Send
  <2>1. prompts' \in 0..MaxPrompts /\ queued' \in 0..MaxPrompts /\ queued' <= prompts'
    BY <1>15, Bounds DEF Send, TypeOK
  <2> QED  BY <1>15, <2>1 DEF Send, TypeOK
<1>16. CASE HandlePrompt
  <2>1. queued' \in 0..MaxPrompts /\ queued' <= prompts
    <3>1. queued > 0 /\ queued' = queued - 1  BY <1>16 DEF HandlePrompt
    <3> QED  BY <3>1, Bounds DEF TypeOK
  <2>2. CASE current # Nowhere /\ Generate(current) /\ UNCHANGED parameters
    <3>1. request' \in [session : Session \cup {Nowhere}, parameters : Temperature,
                        endpoint : Endpoint]
      BY <2>2 DEF Generate, TypeOK
    <3> QED  BY <1>16, <2>1, <2>2, <3>1 DEF HandlePrompt, TypeOK
  <2>3. CASE current = Nowhere
    <3>1. PICK s \in Session : /\ current' = s
                              /\ table' = With(table, s, frame)
                              /\ chosen' = With(chosen, s, draft)
                              /\ Generate(s)
      BY <1>16, <2>3 DEF HandlePrompt
    <3>2. panel' = frame /\ draft' = DefaultTemperature /\ frame' = frame
      BY <1>16, <2>3 DEF HandlePrompt
    <3>3. request' \in [session : Session \cup {Nowhere}, parameters : Temperature,
                        endpoint : Endpoint]
      BY <3>1 DEF Generate, TypeOK
    <3>4. DOMAIN table' \subseteq Session /\ table' \in [DOMAIN table' -> Temperature]
      BY <3>1, WithType DEF TypeOK
    <3>5. DOMAIN chosen' \subseteq Session /\ chosen' \in [DOMAIN chosen' -> Temperature]
      BY <3>1, WithType DEF TypeOK
    <3> QED
      BY <1>16, <2>1, <3>1, <3>2, <3>3, <3>4, <3>5, DefaultAssumption DEF HandlePrompt, TypeOK
  <2> QED  BY <1>16, <2>2, <2>3 DEF HandlePrompt
<1>17. CASE UNCHANGED vars
  BY <1>17 DEF vars, TypeOK
<1> QED
  BY <1>1, <1>2, <1>3, <1>4, <1>5, <1>6, <1>7, <1>8, <1>9, <1>10, <1>11, <1>12, <1>13,
     <1>14, <1>15, <1>16, <1>17 DEF Next, Preferences, Parameters, Chats

\* Every action keeps the copies of the parameters equal and the open session in the
\* table.
LEMMA ParametersStep ==
  ASSUME TypeOK, ParametersInv, [Next]_vars
  PROVE  ParametersInv'
<1> USE DEF ParametersInv, ParametersAgree, CurrentStored, parameters
<1>1. CASE Restart
  <2>1. table' = table /\ chosen' = chosen /\ draft' = DefaultTemperature
    BY <1>1 DEF Restart
  <2>2. CASE \E s \in DOMAIN table : OpenSession(s)
    BY <2>1, <2>2, NowhereAssumption DEF OpenSession, TypeOK
  <2>3. CASE current' = Nowhere /\ frame' = DefaultTemperature /\ panel' = DefaultTemperature
    BY <2>1, <2>3
  <2> QED  BY <1>1, <2>2, <2>3 DEF Restart
<1>2. CASE Damage \/ OpenSettings \/ EditSettings \/ RefreshModels \/ Save \/ EndSettings \/ Cancel
           \/ MoveSlider \/ Send \/ UNCHANGED vars
  BY <1>2 DEF Damage, OpenSettings, EditSettings, RefreshModels, Save, EndSettings, Cancel,
              MoveSlider, Send, vars
<1>3. CASE OpenParameters
  BY <1>3 DEF OpenParameters
<1>4. CASE ConfirmParameters
  <2>1. frame' = slider /\ panel' = slider /\ current' = current
    BY <1>4 DEF ConfirmParameters
  <2>2. CASE current = Nowhere
    BY <1>4, <2>1, <2>2, NowhereAssumption DEF ConfirmParameters, StoreParameters, TypeOK
  <2>3. CASE current # Nowhere
    <3>1. table' = [table EXCEPT ![current] = slider]
      BY <1>4, <2>3 DEF ConfirmParameters, StoreParameters
    <3>2. chosen' = [chosen EXCEPT ![current] = slider]
      BY <1>4, <2>3 DEF ConfirmParameters
    <3> QED  BY <2>1, <2>3, <3>1, <3>2
  <2> QED  BY <2>2, <2>3
<1>5. CASE SelectSession
  <2>1. PICK s \in DOMAIN table : OpenSession(s)
    BY <1>5 DEF SelectSession
  <2> QED  BY <1>5, <2>1, NowhereAssumption DEF SelectSession, OpenSession, TypeOK
<1>6. CASE NewChat
  BY <1>6 DEF NewChat, BlankChat
<1>7. CASE DeleteChat
  <2>1. PICK s \in DOMAIN table : /\ table' = [u \in DOMAIN table \ {s} |-> table[u]]
                                  /\ chosen' = [u \in DOMAIN chosen \ {s} |-> chosen[u]]
    BY <1>7 DEF DeleteChat
  <2>2. BlankChat  BY <1>7 DEF DeleteChat
  <2> QED  BY <2>1, <2>2 DEF BlankChat
<1>8. CASE HandlePrompt
  <2>1. CASE current # Nowhere /\ UNCHANGED parameters
    BY <2>1
  <2>2. CASE current = Nowhere
    <3>1. PICK s \in Session : /\ current' = s
                              /\ table' = With(table, s, frame)
                              /\ chosen' = With(chosen, s, draft)
      BY <1>8, <2>2 DEF HandlePrompt
    <3>2. panel' = frame /\ frame' = frame
      BY <1>8, <2>2 DEF HandlePrompt
    <3>3. frame = draft /\ table = chosen  BY <2>2
    <3>4. s \in DOMAIN table' /\ chosen'[s] = draft
      BY <3>1 DEF With
    <3> QED  BY <3>1, <3>2, <3>3, <3>4, NowhereAssumption
  <2> QED  BY <1>8, <2>1, <2>2 DEF HandlePrompt
<1> QED
  BY <1>1, <1>2, <1>3, <1>4, <1>5, <1>6, <1>7, <1>8 DEF Next, Preferences, Parameters, Chats

\* Every action keeps the file, the look and the controls in step with the configuration.
LEMMA SettingsStep ==
  ASSUME TypeOK, SettingsInv, [Next]_vars
  PROVE  SettingsInv'
<1> USE DEF SettingsInv, SettingsSurvive, LookInv, FormGenuine, settings, controls
<1>1. CASE Restart
  <2>1. PICK c \in Config : LoadConfig(c) /\ config' = c /\ look' = c.look
    BY <1>1 DEF Restart
  <2>2. intact' => file'.state = "whole" /\ file'.value = c
    BY <2>1, LoadConfigType
  <2>3. dialog' = "none"  BY <1>1 DEF Restart, CloseDialog
  <2> QED  BY <2>1, <2>2, <2>3
<1>2. CASE Damage
  BY <1>2 DEF Damage
<1>3. CASE OpenSettings
  <2>1. Populate(config, {}) /\ config \in Config /\ {} \in SUBSET DOMAIN Default
    BY <1>3 DEF OpenSettings, TypeOK
  <2>2. \A f \in DOMAIN Default \ touched' : form'[f] = config[f]
    BY <2>1, PopulateType
  <2> QED  BY <1>3, <2>2 DEF OpenSettings, Open, Idle
<1>4. CASE EditSettings
  <2>1. PICK c \in Config, f \in DOMAIN Default :
          form' = [form EXCEPT ![f] = c[f]] /\ touched' = touched \cup {f}
    BY <1>4 DEF EditSettings
  <2>2. \A g \in DOMAIN Default \ touched' : form'[g] = form[g]
    BY <2>1, DefaultFields DEF TypeOK, Config
  <2> QED  BY <1>4, <2>1, <2>2 DEF EditSettings
<1>5. CASE RefreshModels
  <2>1. local' = [form EXCEPT !.look = local.look] /\ local' \in Config
    <3>1. local' = [form EXCEPT !.look = local.look]  BY <1>5 DEF RefreshModels
    <3>2. form \in Config /\ local.look \in Look  BY DEF TypeOK, Config
    <3> QED  BY <3>1, <3>2 DEF Config
  <2>2. touched \ {"look"} \in SUBSET DOMAIN Default  BY DEF TypeOK
  <2>3. /\ touched \ {"look"} \subseteq touched'
        /\ \A f \in DOMAIN Default \ touched' : form'[f] = local'[f]
    BY <1>5, <2>1, <2>2, PopulateType DEF RefreshModels
  <2>4. local'.look = config.look /\ config' = config
    BY <1>5, <2>1 DEF RefreshModels, TypeOK, Config
  <2>5. \A f \in DOMAIN Default \ touched' : form'[f] = config[f]
    <3> SUFFICES ASSUME NEW f \in DOMAIN Default, f \notin touched'
                 PROVE  form'[f] = config[f]
      OBVIOUS
    <3>1. CASE f = "look"
      BY <2>3, <2>4, <3>1
    <3>2. CASE f # "look"
      <4>1. local'[f] = form[f]  BY <2>1, <3>2, DefaultFields DEF TypeOK, Config
      <4>2. f \notin touched  BY <2>3, <3>2
      <4> QED  BY <1>5, <2>3, <4>1, <4>2 DEF RefreshModels
    <3> QED  BY <3>1, <3>2
  <2> QED  BY <1>5, <2>4, <2>5 DEF RefreshModels
<1>6. CASE Save
  <2>1. intact' => file'.state = "whole" /\ file'.value = form
    BY <1>6, WriteFileType DEF Save, TypeOK
  <2> QED  BY <1>6, <2>1 DEF Save
<1>7. CASE EndSettings
  BY <1>7 DEF EndSettings, CloseDialog, ApplyAppearance
<1>8. CASE Cancel
  BY <1>8 DEF Cancel, CloseDialog
<1>9. CASE ConfirmParameters
  BY <1>9 DEF ConfirmParameters, CloseDialog
<1>10. CASE OpenParameters
  BY <1>10 DEF OpenParameters, Open, Idle
<1>11. CASE MoveSlider \/ SelectSession \/ NewChat \/ DeleteChat \/ Send \/ HandlePrompt
            \/ UNCHANGED vars
  BY <1>11 DEF MoveSlider, SelectSession, NewChat, DeleteChat, Send, HandlePrompt, vars
<1> QED
  BY <1>1, <1>2, <1>3, <1>4, <1>5, <1>6, <1>7, <1>8, <1>9, <1>10, <1>11
  DEF Next, Preferences, Parameters, Chats

(***************************************************************************)
(* Theorems                                                                *)
(***************************************************************************)

LEMMA InitInv == Init => IInv
<1> SUFFICES ASSUME Init PROVE IInv  OBVIOUS
<1>1. TypeOK
  <2>1. request \in [session : Session \cup {Nowhere}, parameters : Temperature,
                     endpoint : Endpoint]
    BY DefaultAssumption DEF Init, NoRequest, Config
  <2>2. file \in [state : {"missing", "damaged", "whole"}, value : Config] /\ intact \in BOOLEAN
    BY DefaultAssumption DEF Init
  <2>3. endpoint \in Endpoint /\ look \in Look
    BY DefaultAssumption DEF Init, Config
  <2>4. table \in [DOMAIN table -> Temperature] /\ DOMAIN table \subseteq Session
    BY DEF Init
  <2>5. chosen \in [DOMAIN chosen -> Temperature] /\ DOMAIN chosen \subseteq Session
    BY DEF Init
  <2>6. queued \in 0..MaxPrompts /\ dialogs \in 0..MaxDialogs /\ prompts \in 0..MaxPrompts
        /\ faults \in 0..MaxFaults
    BY Bounds DEF Init
  <2> QED  BY <2>1, <2>2, <2>3, <2>4, <2>5, <2>6, DefaultAssumption DEF Init, TypeOK
<1>2. ParametersInv /\ SettingsInv /\ PromptsCounted
  BY DEF Init, ParametersInv, ParametersAgree, CurrentStored, SettingsInv, SettingsSurvive,
         LookInv, FormGenuine, PromptsCounted
<1> QED  BY <1>1, <1>2 DEF IInv

LEMMA StepInv == IInv /\ [Next]_vars => IInv'
<1> SUFFICES ASSUME IInv, [Next]_vars PROVE IInv'  OBVIOUS
<1>1. TypeOK' /\ PromptsCounted'
  BY TypeStep DEF IInv, SettingsInv
<1>2. ParametersInv' /\ SettingsInv'
  BY ParametersStep, SettingsStep DEF IInv
<1> QED  BY <1>1, <1>2 DEF IInv

THEOREM Invariant == Spec => []IInv
BY InitInv, StepInv, PTL DEF Spec

\* The type invariant holds in every behaviour.
THEOREM TypeCorrect == Spec => []TypeOK
<1>1. IInv => TypeOK  BY DEF IInv
<1> QED  BY <1>1, Invariant, PTL

\* Frame, panel and table hold the same parameters for the open session, the ones last
\* confirmed for it.
THEOREM ParametersAlwaysAgree == Spec => []ParametersAgree
<1>1. IInv => ParametersAgree  BY DEF IInv, ParametersInv
<1> QED  BY <1>1, Invariant, PTL

\* Unless a write failed or the file was damaged, the file holds the configuration.
THEOREM SettingsPersist == Spec => []SettingsSurvive
<1>1. IInv => SettingsSurvive  BY DEF IInv, SettingsInv
<1> QED  BY <1>1, Invariant, PTL

\* With no dialog open the window has the look of the configuration.
THEOREM LookFollowsConfig == Spec => []LookApplied
<1>1. IInv => LookApplied  BY DEF IInv, SettingsInv, LookInv, LookApplied, Idle
<1> QED  BY <1>1, Invariant, PTL

\* A request carries the parameters confirmed for its session.
THEOREM RequestsCarryParameters == Spec => RequestsAsChosen
<1>1. IInv /\ IInv' /\ [Next]_vars
        => [request' # request => request'.parameters = chosen'[request'.session]]_vars
  <2> SUFFICES ASSUME IInv, IInv', [Next]_vars, request' # request
               PROVE  request'.parameters = chosen'[request'.session]
    OBVIOUS
  <2>1. HandlePrompt
    BY DEF Next, Preferences, Parameters, Chats, Restart, Damage, OpenSettings, EditSettings,
           RefreshModels, Save, EndSettings, Cancel, OpenParameters, MoveSlider,
           ConfirmParameters, SelectSession, NewChat, DeleteChat, Send, vars
  <2>2. frame' = frame /\ current' # Nowhere /\ Generate(current')
    <3>1. CASE current # Nowhere /\ Generate(current) /\ UNCHANGED parameters
      BY <3>1 DEF parameters
    <3>2. CASE current = Nowhere
      BY <2>1, <3>2, NowhereAssumption DEF HandlePrompt
    <3> QED  BY <2>1, <3>1, <3>2 DEF HandlePrompt
  <2>3. frame' = chosen'[current']
    BY <2>2 DEF IInv, ParametersInv, ParametersAgree
  <2>4. request'.parameters = frame /\ request'.session = current'
    BY <2>2 DEF Generate
  <2> QED  BY <2>2, <2>3, <2>4
<1> QED  BY <1>1, Invariant, PTL DEF Spec, RequestsAsChosen

\* Saving the settings changes only what was edited, or a model the server lacks.
THEOREM OnlyEditsAreSaved == Spec => SaveChangesOnlyEdits
<1>1. IInv /\ [Next]_vars
        => [dialog = "settings" /\ dialog' = "closing" =>
              \A f \in DOMAIN Default \ touched : config'[f] = config[f]]_vars
  <2> SUFFICES ASSUME IInv, [Next]_vars, dialog = "settings", dialog' = "closing"
               PROVE  \A f \in DOMAIN Default \ touched : config'[f] = config[f]
    OBVIOUS
  <2>1. Save
    BY DEF Next, Preferences, Parameters, Chats, Restart, Damage, OpenSettings, EditSettings,
           RefreshModels, EndSettings, Cancel, OpenParameters, MoveSlider, ConfirmParameters,
           SelectSession, NewChat, DeleteChat, Send, HandlePrompt, Open, Idle, CloseDialog, vars
  <2> QED  BY <2>1 DEF Save, IInv, SettingsInv, FormGenuine
<1> QED  BY <1>1, Invariant, PTL DEF Spec, SaveChangesOnlyEdits
=============================================================================
