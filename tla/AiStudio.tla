------------------------------ MODULE AiStudio ------------------------------
(***************************************************************************)
(* The AI Studio, kernel/interface/screens/ai_studio_screen.c, over the    *)
(* credential session, the AI bridge and the workspace.                    *)
(*                                                                         *)
(* A handler is an operator that determines the next value of sessionVars, *)
(* requestVars and studioVars. The text of the activity line and the       *)
(* colours of buttons are left out.                                        *)
(***************************************************************************)
EXTENDS AiRequest, CredentialSession, Workspace

CONSTANT PromptCapacity   \* HNM_AI_TASK_INPUT_MAX

ASSUME StudioAssumption ==
  /\ PromptCapacity \in Nat \ {0}
  /\ \A n \in AnswerLengths : n < DraftCapacity   \* HNM_AI_TASK_OUTPUT_MAX

VARIABLES
  promptLength,     \* hnm_ai_studio_prompt_length
  capturingPrompt,  \* hnm_ai_studio_capturing_prompt
  savedTask,        \* hnm_ai_studio_saved_task_id
  studioPressed     \* hnm_ai_studio_pressed_index

promptVars == <<promptLength, capturingPrompt>>
savedVars == <<draft, savedTask>>
studioVars == <<promptVars, savedVars, studioPressed>>

StudioButtons == {"subscription", "apiKey", "generate", "review", "build"}
NoItem == "none"

(* hnm_ai_studio_screen_init *)
StudioInit ==
  /\ SessionInit
  /\ WorkspaceInit
  /\ promptLength = 0
  /\ capturingPrompt = FALSE
  /\ savedTask = 0
  /\ studioPressed = NoItem

Unsaved(r) == r.type = "HNLANG" /\ r.status = "DONE" /\ r.id # savedTask

(* hnm_ai_studio_screen_render: it saves what hnm_ai_studio_sync_provider_ *)
(* result finds in the slot, as the handler before it leaves the slot.      *)
StudioRenders ==
  IF Unsaved(request') /\ Writable(MainPath)
    THEN /\ draft' = Written(request'.id, request'.answer)
         /\ savedTask' = request'.id
    ELSE UNCHANGED savedVars

-----------------------------------------------------------------------------
(* Slips of the code, for the mutation runs, precede what they would replace. *)
GenerateKeepingSecret ==
  IF request.status = "RUNNING"
    THEN UNCHANGED <<sessionVars, promptVars>>
    ELSE promptLength' = 0 /\ capturingPrompt' = TRUE /\ UNCHANGED sessionVars

(* hnm_ai_studio_generate *)
Generate ==
  IF request.status = "RUNNING"
    THEN UNCHANGED <<sessionVars, promptVars>>
    ELSE /\ IF CapturingSecret THEN CancelSession ELSE UNCHANGED sessionVars
         /\ promptLength' = 0
         /\ capturingPrompt' = TRUE

(* hnm_ai_studio_submit_prompt: MaxTasks bounds the prompts of a behaviour. *)
SubmitPrompt ==
  IF promptLength = 0 \/ DecidePath("WRITE_HNLANG_DRAFT", MainPath) # "ALLOW"
    THEN UNCHANGED <<requestVars, promptVars>>
    ELSE SubmitRequest /\ capturingPrompt' = FALSE /\ UNCHANGED promptLength

(* hnm_ai_studio_activate; review and build only set the activity text. *)
Activate(button) ==
  /\ UNCHANGED requestVars
  /\ CASE button = "subscription" ->
            BeginSubscription /\ capturingPrompt' = FALSE /\ UNCHANGED promptLength
       [] button = "apiKey" ->
            BeginApiKey /\ capturingPrompt' = FALSE /\ UNCHANGED promptLength
       [] button = "generate" -> Generate
       [] OTHER -> UNCHANGED <<sessionVars, promptVars>>
  /\ StudioRenders

StudioBackspace ==
  /\ IF CapturingSecret THEN EraseSecret ELSE UNCHANGED sessionVars
  /\ promptLength' = IF ~CapturingSecret /\ capturingPrompt /\ promptLength > 0
                       THEN promptLength - 1 ELSE promptLength
  /\ UNCHANGED <<requestVars, capturingPrompt, studioPressed>>
  /\ StudioRenders

StudioEnter ==
  /\ CASE CapturingSecret -> SubmitApiKey /\ UNCHANGED <<requestVars, promptVars>>
       [] ~CapturingSecret /\ capturingPrompt -> SubmitPrompt /\ UNCHANGED sessionVars
       [] OTHER -> UNCHANGED <<sessionVars, requestVars, promptVars>>
  /\ UNCHANGED studioPressed
  /\ StudioRenders

StudioCancel ==
  /\ IF request.status = "RUNNING" THEN CancelRequest ELSE UNCHANGED requestVars
  /\ UNCHANGED <<sessionVars, promptVars>>
  /\ StudioRenders

Shortcut ==
  [l |-> "subscription", k |-> "apiKey", g |-> "generate", r |-> "review", b |-> "build"]

StudioCharacter(character) ==
  /\ UNCHANGED studioPressed
  /\ CASE CapturingSecret ->
            CaptureSecret(character) /\ UNCHANGED <<requestVars, promptVars>> /\ StudioRenders
       [] ~CapturingSecret /\ capturingPrompt ->
            /\ promptLength' = IF promptLength + 1 < PromptCapacity
                                 THEN promptLength + 1 ELSE promptLength
            /\ UNCHANGED <<requestVars, sessionVars, capturingPrompt>>
            /\ StudioRenders
       [] ~CapturingSecret /\ ~capturingPrompt /\ character \in DOMAIN Shortcut ->
            Activate(Shortcut[character])
       [] ~CapturingSecret /\ ~capturingPrompt /\ character = "x" -> StudioCancel
       [] OTHER -> UNCHANGED <<requestVars, sessionVars, promptVars, savedVars>>

(* hnm_ai_studio_mouse_down *)
StudioDown(item) ==
  /\ studioPressed' = IF item \in StudioButtons THEN item ELSE NoItem
  /\ UNCHANGED <<requestVars, sessionVars, promptVars>>
  /\ StudioRenders

StudioUpPressed(item) ==
  /\ UNCHANGED studioPressed
  /\ IF studioPressed # NoItem /\ item = studioPressed
       THEN Activate(item)
       ELSE UNCHANGED <<requestVars, sessionVars, promptVars>> /\ StudioRenders

(* hnm_ai_studio_mouse_up *)
StudioUp(item) ==
  /\ studioPressed' = NoItem
  /\ IF studioPressed # NoItem /\ item = studioPressed
       THEN Activate(item)
       ELSE UNCHANGED <<requestVars, sessionVars, promptVars>> /\ StudioRenders

(* hnm_ai_studio_screen_on_exit, apart from the pressed button *)
StudioExit ==
  /\ IF CapturingSecret THEN CancelSession ELSE UNCHANGED sessionVars
  /\ capturingPrompt' = FALSE
  /\ UNCHANGED promptLength

StudioTypeOK ==
  /\ SessionTypeOK
  /\ RequestTypeOK
  /\ draft \in [of : 0 .. MaxTasks, length : 0 .. (DraftCapacity - 1)]
  /\ promptLength \in 0 .. (PromptCapacity - 1)
  /\ capturingPrompt \in BOOLEAN
  /\ savedTask \in 0 .. MaxTasks
  /\ studioPressed \in StudioButtons \cup {NoItem}
=============================================================================
