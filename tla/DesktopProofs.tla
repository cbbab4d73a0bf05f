---------------------------- MODULE DesktopProofs ----------------------------
(***************************************************************************)
(* Proofs about Desktop, for buffers of every capacity, any number of      *)
(* requests and answers of every length that fits.                         *)
(*                                                                         *)
(* The invariant has one part for each of the studio's concerns, over its  *)
(* own variables: the key, the request, the prompt and the draft. Beyond   *)
(* them it says what the screen has to do with it: the entries are closed  *)
(* on every other screen, and on the AI Studio nothing is unsaved.         *)
(***************************************************************************)
EXTENDS Desktop, ConsoleProofs, SequenceTheorems, WellFoundedInduction, TLAPS

(* Memory holds the characters typed so far, of a key that is being typed. *)
KeyInv ==
  /\ sessionState \in SessionStates
  /\ secretIndex \in 0 .. (SecretCapacity - 1)
  /\ keyPlaces = IF CapturingSecret THEN 0 .. (secretIndex - 1) ELSE {}

RequestInv == RequestTypeOK /\ request.id < nextId

PromptInv ==
  /\ promptLength \in 0 .. (PromptCapacity - 1)
  /\ capturingPrompt \in BOOLEAN
  /\ capturingPrompt => ~CapturingSecret /\ request.status # "RUNNING"

SavedIsWhole(r) ==
  r.type = "HNLANG" /\ r.status = "DONE" /\ savedTask = r.id =>
    draft = DraftOf(r.id, r.answer)

DraftInv ==
  /\ draft \in [of : 0 .. MaxTasks, length : 0 .. (DraftCapacity - 1)]
  /\ savedTask \in 0 .. MaxTasks
  /\ savedTask < nextId
  /\ request.status = "RUNNING" => savedTask # request.id
  /\ SavedIsWhole(request)

StudioInv == KeyInv /\ RequestInv /\ PromptInv /\ DraftInv

Quiet == ~CapturingSecret /\ ~capturingPrompt

ScreenInv ==
  /\ screen # "studio" => Quiet
  /\ screen = "studio" => ~Unsaved(request)

IInv == StudioInv /\ ScreenInv

-----------------------------------------------------------------------------
(* The credential session by itself                                        *)

LEMMA WipedKeepsKey ==
  ASSUME NEW s \in SessionStates, WipeTo(s)
  PROVE  KeyInv' /\ keyPlaces' = {} /\ sessionState' = s
  BY SessionAssumption DEF WipeTo, KeyInv, CapturingSecret

LEMMA Grown ==
  ASSUME NEW i \in Nat
  PROVE  ((0 .. (i - 1)) \cup {i}) \ {i + 1} = 0 .. i
  OBVIOUS

LEMMA Shrunk ==
  ASSUME NEW i \in Nat, i > 0
  PROVE  (0 .. (i - 1)) \ {i - 1} = 0 .. (i - 2)
  OBVIOUS

(* What KeyInv says of a key that is being typed.                          *)
LEMMA TypedKey ==
  CapturingSecret =>
    (KeyInv <=> /\ secretIndex \in 0 .. (SecretCapacity - 1)
                /\ keyPlaces = 0 .. (secretIndex - 1))
  BY SessionAssumption DEF KeyInv, CapturingSecret, SessionStates

LEMMA TypedKeyNext ==
  ASSUME CapturingSecret', secretIndex' \in 0 .. (SecretCapacity - 1),
         keyPlaces' = 0 .. (secretIndex' - 1)
  PROVE  KeyInv'
  BY DEF KeyInv, CapturingSecret, SessionStates

LEMMA CaptureKeepsKey ==
  ASSUME KeyInv, CapturingSecret, NEW character, CaptureSecret(character)
  PROVE  KeyInv' /\ CapturingSecret'
  <1>1. /\ secretIndex \in Nat /\ SecretCapacity \in Nat /\ secretIndex < SecretCapacity
        /\ keyPlaces = 0 .. (secretIndex - 1)
    BY SessionAssumption, TypedKey
  <1>2. CapturingSecret'
    BY DEF CaptureSecret, CapturingSecret
  <1>3. CASE character # " " /\ secretIndex + 1 < SecretCapacity
    <2>1. keyPlaces' = (keyPlaces \cup {secretIndex}) \ {secretIndex + 1}
      BY <1>3 DEF CaptureSecret
    <2>2. keyPlaces' = 0 .. secretIndex
      BY <1>1, <2>1, Grown
    <2>3. secretIndex' = secretIndex + 1 /\ secretIndex + 1 < SecretCapacity
      BY <1>3 DEF CaptureSecret
    <2>4. secretIndex' \in 0 .. (SecretCapacity - 1) /\ secretIndex' - 1 = secretIndex
      BY <1>1, <2>3
    <2>. QED
      BY <1>2, <2>2, <2>4, TypedKeyNext
  <1>4. CASE ~(character # " " /\ secretIndex + 1 < SecretCapacity)
    <2>1. UNCHANGED <<secretIndex, keyPlaces>>
      BY <1>4 DEF CaptureSecret
    <2>. QED
      BY <1>1, <1>2, <2>1, TypedKeyNext
  <1>. QED
    BY <1>2, <1>3, <1>4

LEMMA EraseKeepsKey ==
  ASSUME KeyInv, CapturingSecret, EraseSecret
  PROVE  KeyInv' /\ CapturingSecret'
  <1>1. /\ secretIndex \in Nat /\ SecretCapacity \in Nat /\ secretIndex < SecretCapacity
        /\ keyPlaces = 0 .. (secretIndex - 1)
    BY SessionAssumption, TypedKey
  <1>2. CapturingSecret'
    BY DEF EraseSecret, CapturingSecret
  <1>3. CASE secretIndex > 0
    <2>1. secretIndex' = secretIndex - 1 /\ keyPlaces' = keyPlaces \ {secretIndex - 1}
      BY <1>3 DEF EraseSecret
    <2>2. keyPlaces' = 0 .. (secretIndex - 2)
      BY <1>1, <1>3, <2>1, Shrunk
    <2>. QED
      BY <1>1, <1>2, <1>3, <2>1, <2>2, TypedKeyNext
  <1>4. CASE ~(secretIndex > 0)
    <2>1. UNCHANGED <<secretIndex, keyPlaces>>
      BY <1>4 DEF EraseSecret
    <2>. QED
      BY <1>1, <1>2, <2>1, TypedKeyNext
  <1>. QED
    BY <1>2, <1>3, <1>4

(* Every way out of the key entry wipes the key.                           *)
LEMMA LeavingKeepsKey ==
  ASSUME BeginSubscription \/ SubmitApiKey \/ CancelSession
  PROVE  KeyInv' /\ ~CapturingSecret'
  BY WipedKeepsKey
  DEF BeginSubscription, SubmitApiKey, CancelSession, SessionStates, CapturingSecret

LEMMA EnteringKeepsKey ==
  ASSUME BeginApiKey
  PROVE  KeyInv'
  BY WipedKeepsKey DEF BeginApiKey, SessionStates

LEMMA KeyUnchanged ==
  ASSUME KeyInv, UNCHANGED sessionVars
  PROVE  KeyInv' /\ CapturingSecret' = CapturingSecret
  BY DEF KeyInv, CapturingSecret, sessionVars

-----------------------------------------------------------------------------
(* The request slot and the draft                                          *)

RequestStep == UNCHANGED requestVars \/ RequestNext

LEMMA RequestKept ==
  ASSUME RequestInv, RequestStep
  PROVE  RequestInv' /\ nextId <= nextId'
  <1>1. CASE UNCHANGED requestVars
    BY <1>1, RequestAssumption DEF RequestInv, RequestTypeOK, requestVars
  <1>2. CASE SubmitRequest \/ RequestLocally
    BY <1>2, RequestAssumption
    DEF RequestInv, RequestTypeOK, SubmitRequest, RequestLocally, Prepare, Request
  <1>3. CASE CancelRequest
    BY <1>3, RequestAssumption DEF RequestInv, RequestTypeOK, CancelRequest
  <1>4. CASE AnswerRequest
    <2>1. PICK status \in {"DONE", "ERROR"}, length \in AnswerLengths :
            request' = [request EXCEPT !.status = status, !.answer = length]
      BY <1>4 DEF AnswerRequest
    <2>2. UNCHANGED nextId
      BY <1>4 DEF AnswerRequest
    <2>3. RequestTypeOK /\ request.id < nextId
      BY DEF RequestInv
    <2>4. request' \in [id : 0 .. MaxTasks, type : {"NONE", "HNLANG", "LOCAL"},
                        status : {"EMPTY", "RUNNING", "DONE", "ERROR", "CANCELLED"},
                        answer : AnswerLengths \cup {0}]
      BY <2>1, <2>3 DEF RequestTypeOK
    <2>5. request'.id = request.id
      BY <2>1, <2>3 DEF RequestTypeOK
    <2>. QED
      BY <2>2, <2>3, <2>4, <2>5, RequestAssumption DEF RequestInv, RequestTypeOK
  <1>. QED
    BY <1>1, <1>2, <1>3, <1>4 DEF RequestStep, RequestNext

(* What is saved stays true of the slot, whatever happens to the request:   *)
(* a new one has a new id, and one that is answered was not saved before.  *)
LEMMA SavedKept ==
  ASSUME RequestInv, DraftInv, RequestStep
  PROVE  /\ savedTask < nextId'
         /\ request'.status = "RUNNING" => savedTask # request'.id
         /\ SavedIsWhole(request')
  <1>1. CASE UNCHANGED requestVars
    BY <1>1 DEF DraftInv, requestVars
  <1>2. CASE SubmitRequest \/ RequestLocally
    BY <1>2, RequestAssumption
    DEF RequestInv, RequestTypeOK, DraftInv, SavedIsWhole, SubmitRequest,
        RequestLocally, Prepare, Request
  <1>3. CASE CancelRequest
    BY <1>3 DEF RequestInv, RequestTypeOK, DraftInv, SavedIsWhole, CancelRequest
  <1>4. CASE AnswerRequest
    BY <1>4 DEF RequestInv, RequestTypeOK, DraftInv, SavedIsWhole, AnswerRequest
  <1>. QED
    BY <1>1, <1>2, <1>3, <1>4 DEF RequestStep, RequestNext

LEMMA UnrenderedKeepsDraft ==
  ASSUME RequestInv, DraftInv, RequestStep, UNCHANGED savedVars
  PROVE  DraftInv'
  BY SavedKept DEF DraftInv, SavedIsWhole, savedVars

(* The policy lets the studio write its one file.                          *)
LEMMA MainPathIsWritable == Writable(MainPath)
  <1>1. Len(MainPath) = 6 /\ MainPath \in Seq({"/", "w", "m", ".", "h"})
    BY DEF MainPath
  <1>2. IsPrefix(<<"/", "w", "/">>, MainPath)
    BY DEF MainPath, IsPrefix
  <1>3. IsSuffix(<<".", "h">>, MainPath)
    <2>1. Reverse(MainPath) = <<"h", ".", "m", "/", "w", "/">>
      BY DEF MainPath, Reverse
    <2>2. Reverse(<<".", "h">>) = <<"h", ".">>
      BY DEF Reverse
    <2>3. IsPrefix(<<"h", ".">>, <<"h", ".", "m", "/", "w", "/">>)
      BY DEF IsPrefix
    <2>. QED
      BY <2>1, <2>2, <2>3 DEF IsSuffix
  <1>4. ~HasParentReference(MainPath)
    BY DEF MainPath, HasParentReference
  <1>. QED
    BY <1>2, <1>3, <1>4 DEF Writable, DecidePath, Decide

LEMMA RenderingSaves ==
  ASSUME RequestInv, DraftInv, RequestStep, StudioRenders
  PROVE  DraftInv' /\ ~Unsaved(request)'
  <1>1. RequestInv' /\ nextId <= nextId'
    BY RequestKept
  <1>2. CASE Unsaved(request')
    <2>1. draft' = Written(request'.id, request'.answer) /\ savedTask' = request'.id
      BY <1>2, MainPathIsWritable DEF StudioRenders
    <2>2. request'.id \in 0 .. MaxTasks /\ request'.answer \in AnswerLengths \cup {0}
      BY <1>1 DEF RequestInv, RequestTypeOK
    <2>3. request'.answer \in Nat /\ request'.answer < DraftCapacity /\ DraftCapacity \in Nat
      <3>1. DraftCapacity \in Nat /\ 0 < DraftCapacity
        BY WorkspaceAssumption
      <3>2. \A n \in AnswerLengths : n \in Nat /\ n < DraftCapacity
        BY RequestAssumption, StudioAssumption
      <3>. QED
        BY <2>2, <3>1, <3>2
    <2>4. draft' = DraftOf(request'.id, request'.answer)
      BY <2>1, <2>3 DEF Written
    <2>5. request'.answer \in 0 .. (DraftCapacity - 1)
      BY <2>3
    <2>6. draft' \in [of : 0 .. MaxTasks, length : 0 .. (DraftCapacity - 1)]
      BY <2>2, <2>4, <2>5 DEF DraftOf
    <2>7. request'.status = "DONE" /\ request'.id < nextId'
      BY <1>1, <1>2 DEF Unsaved, RequestInv
    <2>. QED
      BY <2>1, <2>2, <2>4, <2>6, <2>7 DEF DraftInv, SavedIsWhole, Unsaved
  <1>3. CASE ~Unsaved(request')
    <2>1. UNCHANGED savedVars
      BY <1>3 DEF StudioRenders
    <2>2. DraftInv'
      BY <2>1, UnrenderedKeepsDraft
    <2>. QED
      BY <1>3, <2>1, <2>2 DEF Unsaved, savedVars
  <1>. QED
    BY <1>2, <1>3

-----------------------------------------------------------------------------
(* The AI Studio                                                           *)

Saved == StudioInv /\ ~Unsaved(request)

LEMMA RenderedIsSaved ==
  ASSUME StudioInv, KeyInv', PromptInv', RequestStep, StudioRenders
  PROVE  Saved'
  BY RequestKept, RenderingSaves DEF StudioInv, Saved

LEMMA StudioUnchanged ==
  ASSUME UNCHANGED <<sessionVars, requestVars, promptVars, savedVars>>
  PROVE  /\ StudioInv => StudioInv'
         /\ Unsaved(request)' = Unsaved(request)
         /\ Saved => Saved'
         /\ CapturingSecret' = CapturingSecret /\ UNCHANGED capturingPrompt
  BY DEF StudioInv, KeyInv, RequestInv, PromptInv, DraftInv, SavedIsWhole, Unsaved, Saved,
         CapturingSecret, RequestTypeOK, sessionVars, requestVars, promptVars, savedVars

LEMMA RequestIdle ==
  ASSUME UNCHANGED requestVars
  PROVE  RequestStep /\ request' = request
  BY DEF RequestStep, requestVars

(* The prompt entry is closed: nothing is left to be in its way.            *)
LEMMA PromptClosed ==
  ASSUME PromptInv, capturingPrompt' = FALSE, UNCHANGED promptLength
  PROVE  PromptInv'
  BY DEF PromptInv

LEMMA GenerateKeeps ==
  ASSUME KeyInv, PromptInv, Generate, UNCHANGED requestVars
  PROVE  KeyInv' /\ PromptInv'
  <1>1. CASE request.status = "RUNNING"
    <2>1. UNCHANGED sessionVars /\ UNCHANGED promptVars
      BY <1>1 DEF Generate
    <2>. QED
      BY <2>1, KeyUnchanged, RequestIdle DEF PromptInv, promptVars
  <1>2. CASE request.status # "RUNNING"
    <2>1. /\ IF CapturingSecret THEN CancelSession ELSE UNCHANGED sessionVars
          /\ promptLength' = 0
          /\ capturingPrompt' = TRUE
      BY <1>2 DEF Generate
    <2>2. KeyInv' /\ ~CapturingSecret'
      BY <2>1, LeavingKeepsKey, KeyUnchanged
    <2>3. promptLength' \in 0 .. (PromptCapacity - 1)
      BY <2>1, StudioAssumption
    <2>. QED
      BY <1>2, <2>1, <2>2, <2>3, RequestIdle DEF PromptInv
  <1>. QED
    BY <1>1, <1>2

LEMMA ActivateKeeps ==
  ASSUME StudioInv, NEW button, Activate(button)
  PROVE  Saved'
  <1>1. KeyInv /\ PromptInv /\ UNCHANGED requestVars /\ StudioRenders /\ RequestStep
    BY RequestIdle DEF StudioInv, Activate
  <1>2. CASE button = "subscription"
    <2>1. BeginSubscription /\ capturingPrompt' = FALSE /\ UNCHANGED promptLength
      BY <1>2 DEF Activate
    <2>. QED
      BY <1>1, <2>1, LeavingKeepsKey, PromptClosed, RenderedIsSaved
  <1>3. CASE button = "apiKey"
    <2>1. BeginApiKey /\ capturingPrompt' = FALSE /\ UNCHANGED promptLength
      BY <1>3 DEF Activate
    <2>. QED
      BY <1>1, <2>1, EnteringKeepsKey, PromptClosed, RenderedIsSaved
  <1>4. CASE button = "generate"
    <2>1. Generate
      BY <1>4 DEF Activate
    <2>. QED
      BY <1>1, <2>1, GenerateKeeps, RenderedIsSaved
  <1>5. CASE button \notin {"subscription", "apiKey", "generate"}
    <2>1. UNCHANGED sessionVars /\ UNCHANGED promptVars
      BY <1>5 DEF Activate
    <2>2. KeyInv' /\ PromptInv'
      BY <1>1, <2>1, KeyUnchanged, RequestIdle DEF PromptInv, promptVars
    <2>. QED
      BY <1>1, <2>2, RenderedIsSaved
  <1>. QED
    BY <1>2, <1>3, <1>4, <1>5

(* A handler that changes neither the key nor the request nor the prompt.   *)
LEMMA OnlyRenderedIsSaved ==
  ASSUME StudioInv, UNCHANGED <<sessionVars, requestVars, promptVars>>, StudioRenders
  PROVE  Saved'
  <1>1. KeyInv /\ PromptInv
    BY DEF StudioInv
  <1>2. UNCHANGED sessionVars /\ UNCHANGED requestVars /\ UNCHANGED promptVars
    OBVIOUS
  <1>3. KeyInv'
    BY <1>1, <1>2, KeyUnchanged
  <1>4. RequestStep /\ PromptInv'
    BY <1>1, <1>2, KeyUnchanged, RequestIdle DEF PromptInv, promptVars
  <1>. QED
    BY <1>3, <1>4, RenderedIsSaved

(* Typing into the prompt or erasing from it changes its length alone.      *)
LEMMA PromptTyped ==
  ASSUME StudioInv, UNCHANGED <<sessionVars, requestVars, capturingPrompt>>,
         promptLength' \in 0 .. (PromptCapacity - 1), StudioRenders
  PROVE  Saved'
  <1>1. KeyInv /\ PromptInv
    BY DEF StudioInv
  <1>2. UNCHANGED sessionVars /\ UNCHANGED requestVars /\ UNCHANGED capturingPrompt
    OBVIOUS
  <1>3. KeyInv' /\ RequestStep /\ PromptInv'
    BY <1>1, <1>2, KeyUnchanged, RequestIdle DEF PromptInv
  <1>. QED
    BY <1>3, RenderedIsSaved

(* A handler of the key entry leaves the prompt closed.                     *)
LEMMA KeyHandled ==
  ASSUME StudioInv, CapturingSecret, KeyInv', UNCHANGED <<requestVars, promptVars>>,
         StudioRenders
  PROVE  Saved'
  <1>1. PromptInv /\ ~capturingPrompt
    BY DEF StudioInv, PromptInv
  <1>2. UNCHANGED requestVars /\ UNCHANGED promptLength /\ capturingPrompt' = FALSE
    BY <1>1 DEF promptVars, StudioInv, PromptInv
  <1>. QED
    BY <1>1, <1>2, PromptClosed, RequestIdle, RenderedIsSaved

LEMMA BackspaceKeeps ==
  ASSUME StudioInv, StudioBackspace
  PROVE  Saved'
  <1>1. CASE CapturingSecret
    <2>1. EraseSecret /\ UNCHANGED <<requestVars, promptVars>> /\ StudioRenders
      BY <1>1 DEF StudioBackspace, promptVars
    <2>. QED
      BY <1>1, <2>1, EraseKeepsKey, KeyHandled DEF StudioInv
  <1>2. CASE ~CapturingSecret
    <2>1. UNCHANGED <<sessionVars, requestVars, capturingPrompt>> /\ StudioRenders
      BY <1>2 DEF StudioBackspace
    <2>2. promptLength \in 0 .. (PromptCapacity - 1) /\ PromptCapacity \in Nat
      BY StudioAssumption DEF StudioInv, PromptInv
    <2>3. promptLength' = IF capturingPrompt /\ promptLength > 0
                            THEN promptLength - 1 ELSE promptLength
      BY <1>2 DEF StudioBackspace
    <2>4. promptLength' \in 0 .. (PromptCapacity - 1)
      BY <2>2, <2>3
    <2>. QED
      BY <2>1, <2>4, PromptTyped
  <1>. QED
    BY <1>1, <1>2

LEMMA SubmitPromptKeeps ==
  ASSUME StudioInv, SubmitPrompt, ~CapturingSecret, UNCHANGED sessionVars, StudioRenders
  PROVE  Saved'
  <1>1. KeyInv /\ PromptInv
    BY DEF StudioInv
  <1>2. CASE SubmitRequest /\ capturingPrompt' = FALSE /\ UNCHANGED promptLength
    <2>1. RequestStep
      BY <1>2 DEF RequestStep, RequestNext
    <2>. QED
      BY <1>1, <1>2, <2>1, KeyUnchanged, PromptClosed, RenderedIsSaved
  <1>3. CASE UNCHANGED <<requestVars, promptVars>>
    BY <1>3, OnlyRenderedIsSaved
  <1>. QED
    BY <1>2, <1>3 DEF SubmitPrompt

LEMMA EnterKeeps ==
  ASSUME StudioInv, StudioEnter
  PROVE  Saved'
  <1>1. CASE CapturingSecret
    <2>1. SubmitApiKey /\ UNCHANGED <<requestVars, promptVars>> /\ StudioRenders
      BY <1>1 DEF StudioEnter
    <2>. QED
      BY <1>1, <2>1, LeavingKeepsKey, KeyHandled
  <1>2. CASE ~CapturingSecret /\ capturingPrompt
    BY <1>2, SubmitPromptKeeps DEF StudioEnter
  <1>3. CASE ~CapturingSecret /\ ~capturingPrompt
    BY <1>3, OnlyRenderedIsSaved DEF StudioEnter
  <1>. QED
    BY <1>1, <1>2, <1>3

LEMMA CancelKeeps ==
  ASSUME StudioInv, StudioCancel
  PROVE  Saved'
  <1>1. /\ KeyInv /\ PromptInv /\ StudioRenders
        /\ UNCHANGED sessionVars /\ UNCHANGED promptVars
    BY DEF StudioInv, StudioCancel
  <1>2. CASE CancelRequest
    <2>1. RequestStep /\ request'.status # "RUNNING"
      BY <1>2 DEF RequestStep, RequestNext, CancelRequest, StudioInv, RequestInv, RequestTypeOK
    <2>2. PromptInv'
      BY <1>1, <2>1, KeyUnchanged DEF PromptInv, promptVars
    <2>. QED
      BY <1>1, <2>1, <2>2, KeyUnchanged, RenderedIsSaved
  <1>3. CASE UNCHANGED requestVars
    BY <1>1, <1>3, OnlyRenderedIsSaved
  <1>. QED
    BY <1>2, <1>3 DEF StudioCancel

LEMMA CharacterKeeps ==
  ASSUME Saved, NEW character, StudioCharacter(character)
  PROVE  Saved'
  <1>0. StudioInv /\ ~Unsaved(request)
    BY DEF Saved
  <1>1. CASE CapturingSecret
    <2>1. /\ CaptureSecret(character) /\ StudioRenders
          /\ UNCHANGED <<requestVars, promptVars>>
      BY <1>1 DEF StudioCharacter
    <2>. QED
      BY <1>0, <1>1, <2>1, CaptureKeepsKey, KeyHandled DEF StudioInv
  <1>2. CASE ~CapturingSecret /\ capturingPrompt
    <2>1. UNCHANGED <<sessionVars, requestVars, capturingPrompt>> /\ StudioRenders
      BY <1>2 DEF StudioCharacter
    <2>2. promptLength \in 0 .. (PromptCapacity - 1) /\ PromptCapacity \in Nat
      BY <1>0, StudioAssumption DEF StudioInv, PromptInv
    <2>3. promptLength' = IF promptLength + 1 < PromptCapacity
                            THEN promptLength + 1 ELSE promptLength
      BY <1>2 DEF StudioCharacter
    <2>4. promptLength' \in 0 .. (PromptCapacity - 1)
      BY <2>2, <2>3
    <2>. QED
      BY <1>0, <2>1, <2>4, PromptTyped
  <1>3. CASE ~CapturingSecret /\ ~capturingPrompt
    <2>1. CASE character \in DOMAIN Shortcut
      <3>1. character # "x"
        BY <2>1 DEF Shortcut
      <3>2. Activate(Shortcut[character])
        BY <1>3, <2>1, <3>1 DEF StudioCharacter
      <3>. QED
        BY <1>0, <3>2, ActivateKeeps
    <2>2. CASE character \notin DOMAIN Shortcut /\ character = "x"
      <3>1. StudioCancel
        BY <1>3, <2>2 DEF StudioCharacter
      <3>. QED
        BY <1>0, <3>1, CancelKeeps
    <2>3. CASE character \notin DOMAIN Shortcut /\ character # "x"
      <3>1. UNCHANGED <<requestVars, sessionVars, promptVars, savedVars>>
        BY <1>3, <2>3 DEF StudioCharacter
      <3>. QED
        BY <1>0, <3>1, StudioUnchanged
    <2>. QED
      BY <2>1, <2>2, <2>3
  <1>. QED
    BY <1>1, <1>2, <1>3

LEMMA MouseKeeps ==
  ASSUME StudioInv, NEW item, StudioDown(item) \/ StudioUp(item)
  PROVE  Saved'
  BY ActivateKeeps, OnlyRenderedIsSaved DEF StudioDown, StudioUp

LEMMA StudioKeeps ==
  ASSUME Saved, NEW event, StudioHandles(event)
  PROVE  Saved'
  <1>0. StudioInv
    BY DEF Saved
  <1>1. CASE event = Event("KEY_DOWN", "BACKSPACE")
    BY <1>0, <1>1, BackspaceKeeps DEF StudioHandles, Event
  <1>2. CASE event = Event("KEY_DOWN", "ENTER")
    BY <1>0, <1>2, EnterKeeps DEF StudioHandles, Event
  <1>3. CASE event.type = "KEY_CHAR"
    BY <1>3, CharacterKeeps DEF StudioHandles, Event
  <1>4. CASE event.type \in {"BUTTON_DOWN", "BUTTON_UP"}
    BY <1>0, <1>4, MouseKeeps DEF StudioHandles, Event
  <1>5. CASE event.type = "MOUSE_MOVE"
    BY <1>0, <1>5, OnlyRenderedIsSaved DEF StudioHandles, Event
  <1>6. CASE /\ event \notin {Event("KEY_DOWN", "BACKSPACE"), Event("KEY_DOWN", "ENTER")}
             /\ event.type \notin {"KEY_CHAR", "BUTTON_DOWN", "BUTTON_UP", "MOUSE_MOVE"}
    <2>1. UNCHANGED studioState
      BY <1>6 DEF StudioHandles
    <2>. QED
      BY <2>1, StudioUnchanged DEF studioState, studioVars
  <1>. QED
    BY <1>1, <1>2, <1>3, <1>4, <1>5, <1>6

-----------------------------------------------------------------------------
(* The screens                                                             *)

studioData == <<sessionVars, requestVars, promptVars, savedVars>>

LEMMA OnTheSameScreen ==
  ASSUME IInv, UNCHANGED <<screen, studioData>>
  PROVE  IInv'
  BY StudioUnchanged DEF IInv, ScreenInv, Quiet, studioData

LEMMA RenderCurrentKeeps ==
  ASSUME IInv, RenderCurrent
  PROVE  IInv'
  <1>1. UNCHANGED <<requestVars, sessionVars, promptVars, screen>>
    BY DEF RenderCurrent
  <1>2. CASE screen = "studio"
    <2>1. Saved'
      BY <1>1, <1>2, OnlyRenderedIsSaved DEF RenderCurrent, IInv
    <2>. QED
      BY <1>1, <1>2, <2>1 DEF IInv, ScreenInv, Saved
  <1>3. CASE screen # "studio"
    BY <1>1, <1>3, OnTheSameScreen DEF RenderCurrent, studioData
  <1>. QED
    BY <1>2, <1>3

LEMMA SetScreenKeeps ==
  ASSUME IInv, NEW to, NEW line, NEW shown, SetScreen(to, line, shown)
  PROVE  IInv'
  <1>0. StudioInv /\ ScreenInv /\ KeyInv /\ PromptInv /\ RequestInv /\ DraftInv
    BY DEF IInv, StudioInv
  <1>1. CASE to = screen
    BY <1>1, RenderCurrentKeeps DEF SetScreen
  <1>2. CASE to # screen
    <2>1. UNCHANGED requestVars /\ screen' = to /\ RequestStep
      BY <1>2, RequestIdle DEF SetScreen
    <2>2. CASE screen = "studio"
      <3>1. StudioExit /\ UNCHANGED savedVars
        BY <1>2, <2>2 DEF SetScreen
      <3>2. KeyInv' /\ ~CapturingSecret'
        BY <1>0, <3>1, LeavingKeepsKey, KeyUnchanged DEF StudioExit
      <3>3. PromptInv' /\ capturingPrompt' = FALSE
        BY <1>0, <3>1, PromptClosed DEF StudioExit
      <3>4. RequestInv' /\ DraftInv'
        BY <1>0, <2>1, <3>1, RequestKept, UnrenderedKeepsDraft
      <3>. QED
        BY <1>2, <2>1, <2>2, <3>2, <3>3, <3>4 DEF IInv, StudioInv, ScreenInv, Quiet
    <2>3. CASE screen # "studio"
      <3>1. UNCHANGED sessionVars /\ UNCHANGED promptVars
        BY <1>2, <2>3 DEF SetScreen
      <3>2. CASE to = "studio"
        <4>1. Saved'
          BY <1>0, <1>2, <2>1, <3>1, <3>2, OnlyRenderedIsSaved DEF SetScreen
        <4>. QED
          BY <2>1, <3>2, <4>1 DEF IInv, ScreenInv, Saved
      <3>3. CASE to # "studio"
        <4>1. UNCHANGED savedVars
          BY <1>2, <3>3 DEF SetScreen
        <4>2. StudioInv' /\ CapturingSecret' = CapturingSecret /\ UNCHANGED capturingPrompt
          BY <1>0, <2>1, <3>1, <4>1, StudioUnchanged
        <4>. QED
          BY <1>0, <2>1, <2>3, <3>3, <4>2 DEF IInv, ScreenInv, Quiet
      <3>. QED
        BY <3>2, <3>3
    <2>. QED
      BY <2>2, <2>3
  <1>. QED
    BY <1>1, <1>2

LEMMA HaltKeeps ==
  ASSUME IInv, NEW pressed, NEW shown, Halt(pressed, shown)
  PROVE  IInv'
  BY OnTheSameScreen DEF Halt, studioState, studioVars, studioData

LEMMA OpenKeeps ==
  ASSUME IInv, NEW item, NEW pressed, Open(item, pressed)
  PROVE  IInv'
  BY HaltKeeps, SetScreenKeeps DEF Open

LEMMA IgnoreKeeps ==
  ASSUME IInv, Ignore
  PROVE  IInv'
  BY OnTheSameScreen DEF Ignore, routerVars, studioState, studioVars, studioData

LEMMA LauncherKeeps ==
  ASSUME IInv, NEW event, LauncherHandles(event)
  PROVE  IInv'
  <1>1. CASE event.type = "KEY_CHAR" /\ event.code \in DOMAIN ItemOf
    BY <1>1, OpenKeeps DEF LauncherHandles
  <1>2. CASE event.type = "BUTTON_DOWN"
    <2>1. LauncherDown(event.code)
      BY <1>2 DEF LauncherHandles
    <2>. QED
      BY <2>1, OnTheSameScreen DEF LauncherDown, studioState, studioVars, studioData
  <1>3. CASE event.type = "BUTTON_UP"
    <2>1. LauncherUp(event.code)
      BY <1>3 DEF LauncherHandles
    <2>. QED
      BY <2>1, OpenKeeps, OnTheSameScreen DEF LauncherUp, studioState, studioVars, studioData
  <1>4. CASE /\ ~(event.type = "KEY_CHAR" /\ event.code \in DOMAIN ItemOf)
             /\ event.type \notin {"BUTTON_DOWN", "BUTTON_UP"}
    BY <1>4, IgnoreKeeps DEF LauncherHandles
  <1>. QED
    BY <1>1, <1>2, <1>3, <1>4

LEMMA ToLineKeeps ==
  ASSUME IInv, NEW length, NEW shown, ToLine(length, shown)
  PROVE  IInv'
  BY OnTheSameScreen DEF ToLine, studioState, studioVars, studioData

(* A request that is set while the studio is not on the screen.             *)
LEMMA RequestElsewhere ==
  ASSUME IInv, screen # "studio", RequestStep,
         UNCHANGED <<screen, sessionVars, promptVars, savedVars>>
  PROVE  IInv'
  <1>1. KeyInv /\ RequestInv /\ PromptInv /\ DraftInv /\ Quiet
    BY DEF IInv, StudioInv, ScreenInv
  <1>2. /\ UNCHANGED screen /\ UNCHANGED sessionVars /\ UNCHANGED savedVars
        /\ UNCHANGED promptVars
    OBVIOUS
  <1>3. capturingPrompt' = FALSE /\ UNCHANGED promptLength
    BY <1>1, <1>2 DEF PromptInv, Quiet, promptVars
  <1>4. KeyInv' /\ ~CapturingSecret'
    BY <1>1, <1>2, KeyUnchanged DEF Quiet
  <1>5. RequestInv' /\ DraftInv' /\ PromptInv'
    BY <1>1, <1>2, <1>3, RequestKept, UnrenderedKeepsDraft, PromptClosed
  <1>. QED
    BY <1>2, <1>3, <1>4, <1>5 DEF IInv, StudioInv, ScreenInv, Quiet

LEMMA ExecuteKeeps ==
  ASSUME IInv, screen = "terminal", NEW command \in Commands, Execute(command)
  PROVE  IInv'
  <1>1. CASE command = "ai"
    <2>1. RequestLocally /\ UNCHANGED <<screen, sessionVars, studioVars>>
      BY <1>1 DEF Execute
    <2>. QED
      BY <2>1, RequestElsewhere DEF RequestStep, RequestNext, studioVars
  <1>2. CASE command = "launcher"
    BY <1>2, SetScreenKeeps DEF Execute
  <1>3. CASE command = "halt"
    BY <1>3, HaltKeeps DEF Execute
  <1>4. CASE command \in {"clear", "print"}
    BY <1>4, ToLineKeeps DEF Execute
  <1>. QED
    BY <1>1, <1>2, <1>3, <1>4 DEF Commands

LEMMA TerminalKeeps ==
  ASSUME IInv, screen = "terminal", NEW event, TerminalHandles(event)
  PROVE  IInv'
  <1>1. CASE event.type = "KEY_CHAR"
    BY <1>1, ToLineKeeps, IgnoreKeeps DEF TerminalHandles, TypeCharacter, Event
  <1>2. CASE event = Event("KEY_DOWN", "BACKSPACE")
    BY <1>2, ToLineKeeps, IgnoreKeeps DEF TerminalHandles, TypeBackspace, Event
  <1>3. CASE event = Event("KEY_DOWN", "ENTER")
    BY <1>3, ToLineKeeps, ExecuteKeeps DEF TerminalHandles, Event
  <1>4. CASE /\ event.type # "KEY_CHAR"
             /\ event \notin {Event("KEY_DOWN", "BACKSPACE"), Event("KEY_DOWN", "ENTER")}
    BY <1>4, IgnoreKeeps DEF TerminalHandles
  <1>. QED
    BY <1>1, <1>2, <1>3, <1>4

LEMMA ScreenKeeps ==
  ASSUME IInv, NEW event, ScreenHandles(event)
  PROVE  IInv'
  <1>1. CASE screen = "launcher"
    BY <1>1, LauncherKeeps DEF ScreenHandles
  <1>2. CASE screen = "terminal"
    BY <1>2, TerminalKeeps DEF ScreenHandles
  <1>3. CASE screen = "studio"
    <2>1. StudioHandles(event) /\ UNCHANGED screen
      BY <1>3 DEF ScreenHandles, StudioHandles, routerVars
    <2>2. Saved'
      BY <1>3, <2>1, StudioKeeps DEF IInv, ScreenInv, Saved
    <2>. QED
      BY <1>3, <2>1, <2>2 DEF IInv, ScreenInv, Saved
  <1>4. CASE screen \notin {"launcher", "terminal", "studio"}
    BY <1>4, IgnoreKeeps DEF ScreenHandles
  <1>. QED
    BY <1>1, <1>2, <1>3, <1>4

LEMMA HandlesKeeps ==
  ASSUME IInv, NEW event, Handles(event)
  PROVE  IInv'
  <1>1. \/ SetScreen("launcher", lineLength, console)
        \/ RenderCurrent
        \/ Open(ItemOf[event.code], launcherPressed)
        \/ ScreenHandles(event)
    BY DEF Handles
  <1>. QED
    BY <1>1, SetScreenKeeps, RenderCurrentKeeps, OpenKeeps, ScreenKeeps

LEMMA AnswerKeeps ==
  ASSUME IInv, PollAnswer
  PROVE  IInv'
  <1>1. RequestStep /\ request.status = "RUNNING"
    BY DEF PollAnswer, RequestStep, RequestNext, AnswerRequest
  <1>2. UNCHANGED <<screen, sessionVars, promptVars>>
    BY DEF PollAnswer, routerVars
  <1>3. CASE screen = "studio"
    <2>1. StudioRenders
      BY <1>3 DEF PollAnswer
    <2>2. KeyInv /\ PromptInv /\ StudioInv
      BY DEF IInv, StudioInv
    <2>3. capturingPrompt' = FALSE /\ UNCHANGED promptLength
      BY <1>1, <1>2, <2>2 DEF PromptInv, promptVars
    <2>4. Saved'
      BY <1>1, <1>2, <2>1, <2>2, <2>3, KeyUnchanged, PromptClosed, RenderedIsSaved
    <2>. QED
      BY <1>2, <1>3, <2>4 DEF IInv, ScreenInv, Saved
  <1>4. CASE screen # "studio"
    BY <1>1, <1>2, <1>4, RequestElsewhere DEF PollAnswer
  <1>. QED
    BY <1>3, <1>4

LEMMA InitEstablishes == Init => IInv
  <1>1. ASSUME Init PROVE IInv
    <2>1. KeyInv /\ ~CapturingSecret
      BY <1>1, SessionAssumption
      DEF Init, StudioInit, SessionInit, KeyInv, CapturingSecret, SessionStates
    <2>2. RequestInv
      BY <1>1, RequestAssumption DEF Init, RequestInit, Request, RequestInv, RequestTypeOK
    <2>3. PromptInv /\ capturingPrompt = FALSE
      <3>1. promptLength = 0 /\ capturingPrompt = FALSE
        BY <1>1 DEF Init, StudioInit
      <3>2. 0 \in 0 .. (PromptCapacity - 1)
        BY StudioAssumption
      <3>. QED
        BY <3>1, <3>2 DEF PromptInv
    <2>4. request.type = "NONE" /\ request.status = "EMPTY" /\ nextId = 1
      BY <1>1 DEF Init, RequestInit, Request
    <2>5. DraftInv
      BY <1>1, <2>4, RequestAssumption, WorkspaceAssumption
      DEF Init, StudioInit, WorkspaceInit, DraftOf, DraftInv, SavedIsWhole
    <2>. QED
      BY <1>1, <2>1, <2>2, <2>3, <2>4, <2>5 DEF Init, IInv, StudioInv, ScreenInv, Quiet, Unsaved
  <1>. QED
    BY <1>1

LEMMA NextKeeps == IInv /\ [Next]_vars => IInv'
  <1>1. ASSUME IInv, PollAnswer PROVE IInv'
    BY <1>1, AnswerKeeps
  <1>2. ASSUME IInv, NEW event \in Events, Dispatch(event) PROVE IInv'
    BY <1>2, HandlesKeeps DEF Dispatch
  <1>3. ASSUME IInv, UNCHANGED vars PROVE IInv'
    BY <1>3, OnTheSameScreen DEF vars, routerVars, studioState, studioVars, studioData
  <1>. QED
    BY <1>1, <1>2, <1>3 DEF Next

LEMMA Invariance == Spec => []IInv
  BY InitEstablishes, NextKeeps, PTL DEF Spec

-----------------------------------------------------------------------------
(* However the user leaves the key entry, no character of a key stays in    *)
(* hnm_ai_session_secret, and what is erased is gone at once.               *)
THEOREM NoKeyStays == Spec => []NoKeyLeftBehind
  <1>1. IInv => NoKeyLeftBehind
    BY DEF IInv, StudioInv, KeyInv, ScreenInv, Quiet, NoKeyLeftBehind
  <1>. QED
    BY <1>1, Invariance, PTL

(* The prompt entry is open on the AI Studio only, without a key entry and  *)
(* without a running request, so that no HNLang request replaces another.   *)
THEOREM PromptAlone == Spec => []PromptIsAlone
  <1>1. IInv => PromptIsAlone
    BY DEF IInv, StudioInv, PromptInv, ScreenInv, Quiet, PromptIsAlone
  <1>. QED
    BY <1>1, Invariance, PTL

(* On the AI Studio a finished HNLang answer is in /workspace/main.hn, whole *)
(* and under the id of its request.                                        *)
THEOREM AnswersReachDraft == Spec => []AnswerInDraft
  <1>1. IInv => AnswerInDraft
    BY DEF IInv, StudioInv, DraftInv, SavedIsWhole, ScreenInv, Unsaved, AnswerInDraft
  <1>. QED
    BY <1>1, Invariance, PTL

-----------------------------------------------------------------------------
(* Clicks                                                                  *)

(* What is remembered of a button-down is of this visit to the screen.      *)
PressInv ==
  /\ launcherPressed \in LauncherItems \cup {NoItem}
  /\ launcherPressed # NoItem => screen = "launcher" /\ downOn = launcherPressed
  /\ studioPressed # NoItem => screen = "studio" /\ downOn = studioPressed

(* What Dispatch does with downOn.                                         *)
Followed(event) ==
  downOn' = CASE screen' # screen -> NoItem
              [] event.type = "BUTTON_DOWN" -> event.code
              [] event.type = "BUTTON_UP" -> NoItem
              [] OTHER -> downOn

LEMMA PressKept ==
  ASSUME PressInv, NEW event, Followed(event),
         event.type \notin {"BUTTON_DOWN", "BUTTON_UP"},
         UNCHANGED <<screen, launcherPressed, studioPressed>>
  PROVE  PressInv'
  BY DEF PressInv, Followed

LEMMA ReleaseKept ==
  ASSUME UNCHANGED screen, launcherPressed' = NoItem, studioPressed' = NoItem
  PROVE  PressInv'
  BY DEF PressInv

LEMMA SetScreenPress ==
  ASSUME PressInv, NEW event, Followed(event),
         NEW to, NEW line, NEW shown, SetScreen(to, line, shown),
         event.type \notin {"BUTTON_DOWN", "BUTTON_UP"} \/ to # screen
  PROVE  PressInv'
  <1>1. CASE to = screen
    BY <1>1, PressKept DEF SetScreen, RenderCurrent
  <1>2. CASE to # screen
    <2>1. /\ screen' = to
          /\ launcherPressed' = IF "launcher" \in {screen, to} THEN NoItem ELSE launcherPressed
          /\ studioPressed' = IF "studio" \in {screen, to} THEN NoItem ELSE studioPressed
      BY <1>2 DEF SetScreen
    <2>2. launcherPressed' = NoItem /\ studioPressed' = NoItem
      BY <2>1 DEF PressInv
    <2>. QED
      BY <2>2 DEF PressInv
  <1>. QED
    BY <1>1, <1>2

LEMMA HaltPress ==
  ASSUME PressInv, NEW event, Followed(event), NEW pressed \in {NoItem, launcherPressed},
         NEW shown, Halt(pressed, shown), event.type # "BUTTON_DOWN",
         event.type = "BUTTON_UP" => screen = "launcher" /\ pressed = NoItem
  PROVE  PressInv'
  BY DEF Halt, PressInv, Followed, studioState, studioVars

LEMMA OpenPress ==
  ASSUME PressInv, NEW event, Followed(event), event.type = "KEY_CHAR",
         NEW item, Open(item, launcherPressed)
  PROVE  PressInv'
  BY SetScreenPress, HaltPress DEF Open

LEMMA LauncherPress ==
  ASSUME PressInv, screen = "launcher", NEW event, Followed(event), LauncherHandles(event)
  PROVE  PressInv'
  <1>0. studioPressed = NoItem
    BY DEF PressInv
  <1>1. CASE event.type = "KEY_CHAR" /\ event.code \in DOMAIN ItemOf
    BY <1>1, OpenPress DEF LauncherHandles
  <1>2. CASE event.type = "BUTTON_DOWN"
    <2>1. LauncherDown(event.code)
      BY <1>2 DEF LauncherHandles
    <2>2. UNCHANGED screen /\ UNCHANGED studioPressed
      BY <2>1 DEF LauncherDown, studioState, studioVars
    <2>. QED
      BY <1>0, <1>2, <2>1, <2>2 DEF LauncherDown, PressInv, Followed
  <1>3. CASE event.type = "BUTTON_UP"
    <2>1. LauncherUp(event.code)
      BY <1>3 DEF LauncherHandles
    <2>2. CASE launcherPressed # NoItem /\ event.code = launcherPressed
      <3>1. Open(event.code, NoItem)
        BY <2>1, <2>2 DEF LauncherUp
      <3>2. CASE event.code = "shutdown"
        BY <1>3, <3>1, <3>2, HaltPress DEF Open
      <3>3. CASE event.code # "shutdown" /\ event.code # screen
        BY <3>1, <3>3, SetScreenPress DEF Open
      <3>4. event.code # screen
        BY <2>2 DEF PressInv, LauncherItems
      <3>. QED
        BY <3>2, <3>3, <3>4
    <2>3. CASE ~(launcherPressed # NoItem /\ event.code = launcherPressed)
      BY <1>0, <2>1, <2>3, ReleaseKept DEF LauncherUp, studioState, studioVars
    <2>. QED
      BY <2>2, <2>3
  <1>4. CASE /\ ~(event.type = "KEY_CHAR" /\ event.code \in DOMAIN ItemOf)
             /\ event.type \notin {"BUTTON_DOWN", "BUTTON_UP"}
    <2>1. Ignore
      BY <1>4 DEF LauncherHandles
    <2>. QED
      BY <1>4, <2>1, PressKept DEF Ignore, routerVars, studioState, studioVars
  <1>. QED
    BY <1>1, <1>2, <1>3, <1>4

LEMMA ElsewherePress ==
  ASSUME PressInv, screen \notin {"launcher", "studio"}, NEW event, Followed(event),
         UNCHANGED <<screen, launcherPressed, studioPressed>>
  PROVE  PressInv'
  BY DEF PressInv

LEMMA TerminalPress ==
  ASSUME PressInv, screen = "terminal", NEW event, Followed(event), TerminalHandles(event)
  PROVE  PressInv'
  <1>1. CASE event.type # "KEY_CHAR" /\ event # Event("KEY_DOWN", "BACKSPACE")
               /\ event # Event("KEY_DOWN", "ENTER")
    BY <1>1, ElsewherePress
    DEF TerminalHandles, Ignore, routerVars, studioState, studioVars
  <1>2. CASE event.type = "KEY_CHAR" \/ event = Event("KEY_DOWN", "BACKSPACE")
    BY <1>2, ElsewherePress
    DEF TerminalHandles, TypeCharacter, TypeBackspace, ToLine, Ignore, Event,
        routerVars, studioState, studioVars
  <1>3. CASE event = Event("KEY_DOWN", "ENTER")
    <2>1. CASE \E length, shown : ToLine(length, shown)
      BY <2>1, ElsewherePress DEF ToLine, studioState, studioVars
    <2>2. CASE \E command \in Commands : Execute(command)
      <3>1. PICK command \in Commands : Execute(command)
        BY <2>2
      <3>2. CASE command = "ai"
        BY <3>1, <3>2, ElsewherePress DEF Execute, studioVars
      <3>3. CASE command = "launcher"
        BY <1>3, <3>1, <3>3, SetScreenPress DEF Execute, Event
      <3>4. CASE command = "halt"
        BY <1>3, <3>1, <3>4, HaltPress DEF Execute, Event
      <3>5. CASE command \in {"clear", "print"}
        BY <3>1, <3>5, ElsewherePress DEF Execute, ToLine, studioState, studioVars
      <3>. QED
        BY <3>2, <3>3, <3>4, <3>5 DEF Commands
    <2>. QED
      BY <1>3, <2>1, <2>2 DEF TerminalHandles, Event
  <1>. QED
    BY <1>1, <1>2, <1>3

LEMMA StudioPress ==
  ASSUME PressInv, screen = "studio", NEW event, Followed(event), StudioHandles(event)
  PROVE  PressInv'
  <1>0. UNCHANGED <<screen, launcherPressed>> /\ launcherPressed = NoItem
    BY DEF StudioHandles, routerVars, PressInv
  <1>1. CASE event = Event("KEY_DOWN", "BACKSPACE")
    BY <1>0, <1>1, PressKept DEF StudioHandles, StudioBackspace, Event
  <1>2. CASE event = Event("KEY_DOWN", "ENTER")
    BY <1>0, <1>2, PressKept DEF StudioHandles, StudioEnter, Event
  <1>3. CASE event.type = "KEY_CHAR"
    BY <1>0, <1>3, PressKept DEF StudioHandles, StudioCharacter, Event
  <1>4. CASE event.type = "BUTTON_DOWN"
    <2>1. StudioDown(event.code)
      BY <1>4 DEF StudioHandles, Event
    <2>. QED
      BY <1>0, <1>4, <2>1 DEF StudioDown, PressInv, Followed
  <1>5. CASE event.type = "BUTTON_UP"
    <2>1. StudioUp(event.code)
      BY <1>5 DEF StudioHandles, Event
    <2>. QED
      BY <1>0, <1>5, <2>1, ReleaseKept DEF StudioUp
  <1>6. CASE event.type = "MOUSE_MOVE"
    BY <1>0, <1>6, PressKept DEF StudioHandles, Event
  <1>7. CASE /\ event \notin {Event("KEY_DOWN", "BACKSPACE"), Event("KEY_DOWN", "ENTER")}
             /\ event.type \notin {"KEY_CHAR", "BUTTON_DOWN", "BUTTON_UP", "MOUSE_MOVE"}
    <2>1. UNCHANGED studioState
      BY <1>7 DEF StudioHandles
    <2>. QED
      BY <1>0, <1>7, <2>1, PressKept DEF studioState, studioVars
  <1>. QED
    BY <1>1, <1>2, <1>3, <1>4, <1>5, <1>6, <1>7

LEMMA DispatchPress ==
  ASSUME PressInv, NEW event \in Events, Dispatch(event)
  PROVE  PressInv'
  <1>0. Handles(event) /\ Followed(event)
    BY DEF Dispatch, Followed
  <1>1. CASE event = Event("KEY_DOWN", "ESCAPE") /\ screen # "launcher"
    <2>1. SetScreen("launcher", lineLength, console)
      BY <1>0, <1>1 DEF Handles, Event
    <2>. QED
      BY <1>0, <1>1, <2>1, SetScreenPress DEF Event
  <1>2. CASE event = Event("KEY_DOWN", "F1")
    <2>1. RenderCurrent
      BY <1>0, <1>2 DEF Handles, Event
    <2>. QED
      BY <1>0, <1>2, <2>1, PressKept DEF RenderCurrent, Event
  <1>3. CASE screen \in ShortcutScreens /\ event.type = "KEY_CHAR"
               /\ event.code \in DOMAIN ItemOf
    <2>1. Open(ItemOf[event.code], launcherPressed)
      BY <1>0, <1>3 DEF Handles, Event
    <2>. QED
      BY <1>0, <1>3, <2>1, OpenPress
  <1>4. CASE ScreenHandles(event)
    <2>1. CASE screen = "launcher"
      BY <1>0, <1>4, <2>1, LauncherPress DEF ScreenHandles
    <2>2. CASE screen = "terminal"
      BY <1>0, <1>4, <2>2, TerminalPress DEF ScreenHandles
    <2>3. CASE screen = "studio"
      BY <1>0, <1>4, <2>3, StudioPress DEF ScreenHandles
    <2>4. CASE screen \notin {"launcher", "terminal", "studio"}
      BY <1>0, <1>4, <2>4, ElsewherePress
      DEF ScreenHandles, Ignore, routerVars, studioState, studioVars
    <2>. QED
      BY <2>1, <2>2, <2>3, <2>4
  <1>. QED
    BY <1>0, <1>1, <1>2, <1>3, <1>4 DEF Handles

(* A button-up on another item than the button-down changes nothing that    *)
(* the user has asked for.                                                 *)
LEMMA OnlyClicksActivate ==
  ASSUME PressInv, NEW item, item # downOn, Dispatch(Event("BUTTON_UP", item))
  PROVE  UNCHANGED <<screen, halted, sessionVars, promptVars>>
  <1>1. ScreenHandles(Event("BUTTON_UP", item))
    BY DEF Dispatch, Handles, Event
  <1>2. CASE screen = "launcher"
    <2>1. LauncherUp(item)
      BY <1>1, <1>2 DEF ScreenHandles, LauncherHandles, Event
    <2>. QED
      BY <2>1 DEF LauncherUp, PressInv, studioState, studioVars
  <1>3. CASE screen = "terminal"
    BY <1>1, <1>3
    DEF ScreenHandles, TerminalHandles, Event, Ignore, routerVars, studioState, studioVars
  <1>4. CASE screen = "studio"
    <2>1. StudioUp(item) /\ UNCHANGED routerVars
      BY <1>1, <1>4 DEF ScreenHandles, StudioHandles, Event
    <2>. QED
      BY <2>1 DEF StudioUp, PressInv, routerVars
  <1>5. CASE screen \notin {"launcher", "terminal", "studio"}
    BY <1>1, <1>5 DEF ScreenHandles, Ignore, routerVars, studioState, studioVars
  <1>. QED
    BY <1>2, <1>3, <1>4, <1>5

(* A button of a screen is activated by a click on it, begun and ended on   *)
(* this visit to the screen, and once, whatever events the queue dropped.   *)
THEOREM ClicksAreWhole == Spec => ClickIsDownThenUp
  <1>1. Init => PressInv
    BY DEF Init, StudioInit, PressInv
  <1>2. PressInv /\ [Next]_vars => PressInv'
    <2>1. ASSUME PressInv, PollAnswer PROVE PressInv'
      BY <2>1 DEF PollAnswer, PressInv, routerVars
    <2>2. ASSUME PressInv, UNCHANGED vars PROVE PressInv'
      BY <2>2 DEF vars, routerVars, studioState, studioVars, PressInv
    <2>. QED
      BY <2>1, <2>2, DispatchPress DEF Next
  <1>3. PressInv =>
          [\A item \in Items : Dispatch(Event("BUTTON_UP", item)) /\ item # downOn =>
             UNCHANGED <<screen, halted, sessionVars, promptVars>>]_vars
    BY OnlyClicksActivate
  <1>. QED
    BY <1>1, <1>2, <1>3, PTL DEF Spec, ClickIsDownThenUp

-----------------------------------------------------------------------------
(* Typing                                                                  *)

(* A typed character is nothing but text while a key, a prompt or a line of *)
(* the terminal is entered.                                                *)
THEOREM TypingIsSafe == Spec => TypedTextIsNotACommand
  <1>1. ASSUME IInv, Typing, NEW character \in Chars,
               Dispatch(Event("KEY_CHAR", character))
        PROVE  UNCHANGED <<screen, halted, sessionState, capturingPrompt, request>>
    <2>1. screen = "terminal" \/ (screen = "studio" /\ (CapturingSecret \/ capturingPrompt))
      BY <1>1 DEF Typing, IInv, ScreenInv, Quiet
    <2>2. ScreenHandles(Event("KEY_CHAR", character))
      BY <1>1, <2>1 DEF Dispatch, Handles, ShortcutScreens, Event
    <2>3. CASE screen = "terminal"
      <3>1. TypeCharacter
        BY <2>2, <2>3 DEF ScreenHandles, TerminalHandles, Event
      <3>. QED
        BY <3>1
        DEF TypeCharacter, ToLine, Ignore, routerVars, studioState, studioVars,
            sessionVars, requestVars, promptVars
    <2>4. CASE screen = "studio" /\ (CapturingSecret \/ capturingPrompt)
      <3>1. StudioCharacter(character) /\ UNCHANGED routerVars
        BY <2>2, <2>4 DEF ScreenHandles, StudioHandles, Event
      <3>2. CASE CapturingSecret
        BY <3>1, <3>2
        DEF StudioCharacter, CaptureSecret, routerVars, requestVars, promptVars
      <3>3. CASE ~CapturingSecret /\ capturingPrompt
        BY <3>1, <3>3 DEF StudioCharacter, routerVars, requestVars, sessionVars
      <3>. QED
        BY <2>4, <3>2, <3>3
    <2>. QED
      BY <2>1, <2>3, <2>4
  <1>2. IInv =>
          [Typing /\ (\E character \in Chars : Dispatch(Event("KEY_CHAR", character))) =>
             UNCHANGED <<screen, halted, sessionState, capturingPrompt, request>>]_vars
    BY <1>1
  <1>. QED
    BY <1>2, InitEstablishes, NextKeeps, PTL DEF Spec, TypedTextIsNotACommand

-----------------------------------------------------------------------------
(* The terminal's line                                                     *)

LineInv ==
  /\ screen \in Screens
  /\ halted \in BOOLEAN
  /\ studioPressed \in StudioButtons \cup {NoItem}
  /\ console \in Consoles
  /\ lineLength \in 0 .. (LineCapacity - 1)
  /\ screen = "terminal" /\ ~halted => LineOf(console, lineLength)

LEMMA LineElsewhere ==
  ASSUME LineInv, UNCHANGED <<screen, halted, terminalVars>>,
         studioPressed' \in StudioButtons \cup {NoItem}
  PROVE  LineInv'
  BY DEF LineInv, terminalVars

LEMMA LineSet ==
  ASSUME LineInv, UNCHANGED <<screen, halted, studioPressed>>,
         lineLength' \in 0 .. (LineCapacity - 1), LineOf(console', lineLength')
  PROVE  LineInv'
  BY DEF LineInv, LineOf

LEMMA CapacityFits ==
  /\ LineCapacity \in Nat /\ 0 \in 0 .. (LineCapacity - 1)
  /\ PromptLength + LineCapacity < Columns * Rows
  BY DesktopAssumption

LEMMA ShowTerminalStartsLine ==
  ASSUME ShowTerminal
  PROVE  /\ lineLength' \in 0 .. (LineCapacity - 1) /\ console' \in Consoles
         /\ LineOf(console', lineLength')
  BY CapacityFits, HeadingStartsLine DEF ShowTerminal, LineOf

LEMMA RenderCurrentLine ==
  ASSUME LineInv, RenderCurrent
  PROVE  LineInv'
  <1>1. UNCHANGED <<screen, halted, studioPressed>>
    BY DEF RenderCurrent
  <1>2. CASE screen = "terminal"
    BY <1>1, <1>2, LineSet, ShowTerminalStartsLine DEF RenderCurrent
  <1>3. CASE screen # "terminal"
    BY <1>1, <1>3, LineElsewhere DEF RenderCurrent, LineInv
  <1>. QED
    BY <1>2, <1>3

LEMMA SetScreenLine ==
  ASSUME LineInv, NEW to \in Screens, NEW line \in 0 .. (LineCapacity - 1),
         NEW shown \in Consoles, SetScreen(to, line, shown)
  PROVE  LineInv'
  <1>1. CASE to = screen
    BY <1>1, RenderCurrentLine DEF SetScreen
  <1>2. CASE to # screen
    <2>1. /\ screen' = to /\ UNCHANGED halted
          /\ studioPressed' = IF "studio" \in {screen, to} THEN NoItem ELSE studioPressed
      BY <1>2 DEF SetScreen
    <2>2. studioPressed' \in StudioButtons \cup {NoItem}
      BY <2>1 DEF LineInv
    <2>3. CASE to = "terminal"
      BY <1>2, <2>1, <2>2, <2>3, ShowTerminalStartsLine DEF SetScreen, LineInv
    <2>4. CASE to # "terminal"
      BY <1>2, <2>1, <2>2, <2>4 DEF SetScreen, LineInv
    <2>. QED
      BY <2>3, <2>4
  <1>. QED
    BY <1>1, <1>2

LEMMA HaltLine ==
  ASSUME LineInv, NEW pressed, NEW shown \in Consoles, Halt(pressed, shown)
  PROVE  LineInv'
  BY DEF LineInv, Halt, studioState, studioVars

LEMMA OpenLine ==
  ASSUME LineInv, NEW item \in LauncherItems, NEW pressed, Open(item, pressed)
  PROVE  LineInv'
  <1>1. console \in Consoles /\ lineLength \in 0 .. (LineCapacity - 1)
    BY DEF LineInv
  <1>2. CASE item = "shutdown"
    BY <1>1, <1>2, HaltLine DEF Open
  <1>3. CASE item # "shutdown"
    BY <1>1, <1>3, SetScreenLine DEF Open, LauncherItems
  <1>. QED
    BY <1>2, <1>3

LEMMA IgnoreLine ==
  ASSUME LineInv, Ignore
  PROVE  LineInv'
  BY LineElsewhere DEF Ignore, routerVars, studioState, studioVars, LineInv

LEMMA ItemOfIsItem == \A digit \in DOMAIN ItemOf : ItemOf[digit] \in LauncherItems
  BY DEF ItemOf, LauncherItems, Screens

LEMMA LauncherLine ==
  ASSUME LineInv, PressInv, NEW event, LauncherHandles(event)
  PROVE  LineInv'
  <1>1. CASE event.type = "KEY_CHAR" /\ event.code \in DOMAIN ItemOf
    BY <1>1, ItemOfIsItem, OpenLine DEF LauncherHandles
  <1>2. CASE event.type = "BUTTON_DOWN"
    <2>1. LauncherDown(event.code)
      BY <1>2 DEF LauncherHandles
    <2>. QED
      BY <2>1, LineElsewhere DEF LauncherDown, studioState, studioVars, LineInv
  <1>3. CASE event.type = "BUTTON_UP"
    <2>1. LauncherUp(event.code)
      BY <1>3 DEF LauncherHandles
    <2>2. CASE launcherPressed # NoItem /\ event.code = launcherPressed
      BY <2>1, <2>2, OpenLine DEF LauncherUp, PressInv
    <2>3. CASE ~(launcherPressed # NoItem /\ event.code = launcherPressed)
      BY <2>1, <2>3, LineElsewhere DEF LauncherUp, studioState, studioVars, LineInv
    <2>. QED
      BY <2>2, <2>3
  <1>4. CASE /\ ~(event.type = "KEY_CHAR" /\ event.code \in DOMAIN ItemOf)
             /\ event.type \notin {"BUTTON_DOWN", "BUTTON_UP"}
    BY <1>4, IgnoreLine DEF LauncherHandles
  <1>. QED
    BY <1>1, <1>2, <1>3, <1>4

(* A prompt behind any text starts an empty line.                          *)
LEMMA PromptedLine ==
  ASSUME LineInv, NEW c \in Consoles, ToLine(0, Prompted(c))
  PROVE  LineInv'
  <1>1. LineOf(Prompted(c), 0)
    BY PromptStartsLine DEF Consoles
  <1>2. UNCHANGED <<screen, halted, studioPressed>> /\ lineLength' = 0 /\ console' = Prompted(c)
    BY DEF ToLine, studioState, studioVars
  <1>. QED
    BY <1>1, <1>2, CapacityFits, LineSet

LEMMA AnsweredIsPrompted ==
  ASSUME console \in Consoles, NEW rows \in Nat
  PROVE  /\ Printed(Newline(console), rows) \in Consoles
         /\ Answered(rows) = Prompted(Printed(Newline(console), rows))
  BY NewlineStays, PrintedStays DEF Answered

LEMMA ExecuteLine ==
  ASSUME LineInv, NEW command \in Commands, Execute(command)
  PROVE  LineInv'
  <1>0. console \in Consoles /\ Newline(console) \in Consoles
    BY NewlineStays DEF LineInv
  <1>1. CASE command = "ai"
    <2>1. PICK rows \in Outputs : console' = Answered(rows)
      BY <1>1 DEF Execute
    <2>2. LineOf(console', 0)
      BY <1>0, <2>1, AnsweredIsPrompted, PromptStartsLine, DesktopAssumption DEF Consoles
    <2>3. lineLength' = 0 /\ UNCHANGED <<screen, halted, studioPressed>>
      BY <1>1 DEF Execute, studioVars
    <2>. QED
      BY <2>2, <2>3, CapacityFits, LineSet
  <1>2. CASE command = "launcher"
    BY <1>0, <1>2, CapacityFits, SetScreenLine DEF Execute, Screens
  <1>3. CASE command = "halt"
    BY <1>0, <1>3, HaltLine, PrintedStays DEF Execute
  <1>4. CASE command = "clear"
    BY <1>4, ClearedStays, PromptedLine DEF Execute
  <1>5. CASE command = "print"
    <2>1. PICK rows \in Outputs : ToLine(0, Answered(rows))
      BY <1>5 DEF Execute
    <2>. QED
      BY <1>0, <2>1, AnsweredIsPrompted, PromptedLine, DesktopAssumption
  <1>. QED
    BY <1>1, <1>2, <1>3, <1>4, <1>5 DEF Commands

LEMMA TerminalLine ==
  ASSUME LineInv, ~halted, screen = "terminal", NEW event, TerminalHandles(event)
  PROVE  LineInv'
  <1>0. /\ LineOf(console, lineLength) /\ console \in Consoles
        /\ lineLength \in Nat /\ lineLength < LineCapacity
    BY CapacityFits DEF LineInv
  <1>1. CASE event.type = "KEY_CHAR"
    <2>1. TypeCharacter
      BY <1>1 DEF TerminalHandles, Event
    <2>2. CASE lineLength + 1 < LineCapacity
      <3>1. /\ lineLength' = lineLength + 1 /\ console' = Echoed(console)
            /\ UNCHANGED <<screen, halted, studioPressed>>
        BY <2>1, <2>2 DEF TypeCharacter, ToLine, studioState, studioVars
      <3>2. PromptLength + lineLength + 1 < Columns * Rows
        <4>1. Columns * Rows \in Nat /\ PromptLength \in Nat
          BY Sizes
        <4>. QED
          BY <1>0, <2>2, <4>1, CapacityFits
      <3>3. LineOf(console', lineLength')
        BY <1>0, <3>1, <3>2, EchoKeepsLine
      <3>4. lineLength' \in 0 .. (LineCapacity - 1)
        BY <1>0, <2>2, <3>1, CapacityFits
      <3>. QED
        BY <3>1, <3>3, <3>4, LineSet
    <2>3. CASE ~(lineLength + 1 < LineCapacity)
      BY <2>1, <2>3, IgnoreLine DEF TypeCharacter
    <2>. QED
      BY <2>2, <2>3
  <1>2. CASE event = Event("KEY_DOWN", "BACKSPACE")
    <2>1. TypeBackspace
      BY <1>2 DEF TerminalHandles, Event
    <2>2. CASE lineLength > 0
      <3>1. /\ lineLength' = lineLength - 1 /\ console' = Erased(console)
            /\ UNCHANGED <<screen, halted, studioPressed>>
        BY <2>1, <2>2 DEF TypeBackspace, ToLine, studioState, studioVars
      <3>2. LineOf(console', lineLength')
        BY <1>0, <2>2, <3>1, EraseKeepsLine
      <3>3. lineLength' \in 0 .. (LineCapacity - 1)
        BY <1>0, <2>2, <3>1, CapacityFits
      <3>. QED
        BY <3>1, <3>2, <3>3, LineSet
    <2>3. CASE ~(lineLength > 0)
      BY <2>1, <2>3, IgnoreLine DEF TypeBackspace
    <2>. QED
      BY <2>2, <2>3
  <1>3. CASE event = Event("KEY_DOWN", "ENTER")
    <2>1. CASE lineLength = 0
      BY <1>0, <1>3, <2>1, AnsweredIsPrompted, PromptedLine DEF TerminalHandles, Event
    <2>2. CASE lineLength # 0
      BY <1>3, <2>2, ExecuteLine DEF TerminalHandles, Event
    <2>. QED
      BY <2>1, <2>2
  <1>4. CASE /\ event.type # "KEY_CHAR"
             /\ event \notin {Event("KEY_DOWN", "BACKSPACE"), Event("KEY_DOWN", "ENTER")}
    BY <1>4, IgnoreLine DEF TerminalHandles
  <1>. QED
    BY <1>1, <1>2, <1>3, <1>4

LEMMA StudioLine ==
  ASSUME LineInv, NEW event, StudioHandles(event)
  PROVE  LineInv'
  <1>1. UNCHANGED <<screen, halted, terminalVars>>
    BY DEF StudioHandles, routerVars
  <1>2. studioPressed' \in StudioButtons \cup {NoItem}
    <2>1. studioPressed \in StudioButtons \cup {NoItem}
      BY DEF LineInv
    <2>2. \/ UNCHANGED studioPressed
          \/ \E item : StudioDown(item) \/ StudioUp(item)
      BY DEF StudioHandles, StudioBackspace, StudioEnter, StudioCharacter, studioState, studioVars
    <2>. QED
      BY <2>1, <2>2 DEF StudioDown, StudioUp
  <1>. QED
    BY <1>1, <1>2, LineElsewhere

LEMMA DispatchLine ==
  ASSUME LineInv, PressInv, NEW event, Dispatch(event)
  PROVE  LineInv'
  <1>0. Handles(event) /\ ~halted
    BY DEF Dispatch
  <1>1. CASE SetScreen("launcher", lineLength, console)
    BY <1>1, SetScreenLine DEF LineInv, Screens
  <1>2. CASE RenderCurrent
    BY <1>2, RenderCurrentLine
  <1>3. CASE event.code \in DOMAIN ItemOf /\ Open(ItemOf[event.code], launcherPressed)
    BY <1>3, ItemOfIsItem, OpenLine
  <1>4. CASE ScreenHandles(event)
    <2>1. CASE screen = "launcher"
      BY <1>4, <2>1, LauncherLine DEF ScreenHandles
    <2>2. CASE screen = "terminal"
      BY <1>0, <1>4, <2>2, TerminalLine DEF ScreenHandles
    <2>3. CASE screen = "studio"
      BY <1>4, <2>3, StudioLine DEF ScreenHandles
    <2>4. CASE screen \notin {"launcher", "terminal", "studio"}
      BY <1>4, <2>4, IgnoreLine DEF ScreenHandles
    <2>. QED
      BY <2>1, <2>2, <2>3, <2>4
  <1>. QED
    BY <1>0, <1>1, <1>2, <1>3, <1>4 DEF Handles

LEMMA LineInvariance == Spec => [](LineInv /\ PressInv)
  <1>1. Init => LineInv /\ PressInv
    <2>1. ASSUME Init PROVE LineInv
      BY <2>1, CapacityFits, ClearedStays DEF Init, StudioInit, LineInv, Screens
    <2>2. Init => PressInv
      BY DEF Init, StudioInit, PressInv
    <2>. QED
      BY <2>1, <2>2
  <1>2. LineInv /\ PressInv /\ [Next]_vars => LineInv' /\ PressInv'
    <2>1. ASSUME LineInv, PressInv, PollAnswer PROVE LineInv' /\ PressInv'
      BY <2>1, LineElsewhere DEF PollAnswer, PressInv, LineInv, routerVars
    <2>2. ASSUME LineInv, PressInv, UNCHANGED vars PROVE LineInv' /\ PressInv'
      BY <2>2, LineElsewhere
      DEF vars, routerVars, studioState, studioVars, PressInv, LineInv
    <2>. QED
      BY <2>1, <2>2, DispatchPress, DispatchLine DEF Next
  <1>. QED
    BY <1>1, <1>2, PTL DEF Spec

(* The line that ENTER executes is the one on the screen, in front of the   *)
(* cursor and whole, for a screen of any size that a line fits on.          *)
THEOREM TypedLineIsShown == Spec => []LineIsShown
  <1>1. LineInv => LineIsShown
    BY LineIsSeen DEF LineInv, LineIsShown
  <1>. QED
    BY <1>1, LineInvariance, PTL

-----------------------------------------------------------------------------
(* Types                                                                   *)

LEMMA DownOnIsItem ==
  ASSUME downOn \in Items, NEW event \in Events, Dispatch(event)
  PROVE  downOn' \in Items
  <1>1. event.type = "BUTTON_DOWN" => event.code \in Items
    BY DEF Events, ItemsHere, Items
  <1>. QED
    BY <1>1 DEF Dispatch, Items

(* Every variable of the desktop keeps its type, the counters and lengths   *)
(* their bounds.                                                           *)
THEOREM TypeCorrect == Spec => []TypeOK
  <1>1. Init => downOn \in Items
    BY DEF Init, Items
  <1>2. downOn \in Items /\ [Next]_vars => (downOn \in Items)'
    BY DownOnIsItem DEF Next, PollAnswer, vars
  <1>3. IInv /\ LineInv /\ PressInv /\ downOn \in Items => TypeOK
    <2>1. ASSUME IInv, LineInv, PressInv, downOn \in Items PROVE TypeOK
      <3>1. keyPlaces \in SUBSET (0 .. (SecretCapacity - 1))
        BY <2>1, SessionAssumption DEF IInv, StudioInv, KeyInv
      <3>2. StudioTypeOK
        BY <2>1, <3>1
        DEF IInv, StudioInv, KeyInv, RequestInv, PromptInv, DraftInv, LineInv,
            SessionTypeOK, StudioTypeOK
      <3>. QED
        BY <2>1, <3>2 DEF LineInv, PressInv, ConsoleTypeOK, Consoles, TypeOK
    <2>. QED
      BY <2>1
  <1>4. Spec => [](downOn \in Items)
    BY <1>1, <1>2, PTL DEF Spec
  <1>. QED
    BY <1>3, <1>4, Invariance, LineInvariance, PTL
-----------------------------------------------------------------------------
(* Where a path leads. The walk of Workspace is a recursive function: that *)
(* it exists is shown by extending it one character at a time, and what it *)
(* keeps by looking at the first place that would not keep it.             *)

LEMMA Least ==
  ASSUME NEW S \in SUBSET Nat, S # {}
  PROVE  \E n \in S : \A k \in S : n <= k
  <1> DEFINE R == {p \in Nat \X Nat : p[1] < p[2]}
  <1>1. IsWellFoundedOn(R, Nat)
    BY NatLessThanWellFounded DEF OpToRel
  <1>2. PICK n \in S : \A k \in S : <<k, n>> \notin R
    BY <1>1, WFMin
  <1>3. ASSUME NEW k \in S PROVE n <= k
    <2>1. ~(k < n)
      BY <1>2
    <2>. QED
      BY <2>1
  <1>. QED
    BY <1>3

Root == [dirs |-> <<>>, name |-> <<>>]

(* A function that follows the first k characters of a path. *)
Follows(at, path, k) ==
  at = [n \in 0 .. k |->
          IF n = 0 THEN Root ELSE Walk(at[n - 1], path[n])]

LEMMA FollowsFurther ==
  ASSUME NEW path, NEW k \in Nat, NEW at, Follows(at, path, k)
  PROVE  \E further : Follows(further, path, k + 1)
  <1> DEFINE further == [n \in 0 .. (k + 1) |->
                           IF n = k + 1 THEN Walk(at[k], path[k + 1]) ELSE at[n]]
  <1>1. \A n \in 0 .. k : at[n] = IF n = 0 THEN Root ELSE Walk(at[n - 1], path[n])
    BY DEF Follows
  <1>2. \A n \in 0 .. k : further[n] = at[n]
    OBVIOUS
  <1>3. further[k + 1] = Walk(further[k], path[k + 1])
    BY <1>2
  <1>4. ASSUME NEW n \in 0 .. (k + 1)
        PROVE  further[n] = IF n = 0 THEN Root ELSE Walk(further[n - 1], path[n])
    <2>1. CASE n = k + 1
      <3>1. n # 0 /\ n - 1 = k
        BY <2>1
      <3>. QED
        BY <1>3, <2>1, <3>1
    <2>2. CASE n \in 0 .. k
      <3>1. n # 0 => n - 1 \in 0 .. k
        BY <2>2
      <3>. QED
        BY <1>1, <1>2, <2>2, <3>1
    <2>. QED
      BY <2>1, <2>2
  <1>5. further = [n \in 0 .. (k + 1) |-> further[n]]
    OBVIOUS
  <1> HIDE DEF further
  <1>6. further = [n \in 0 .. (k + 1) |->
                     IF n = 0 THEN Root ELSE Walk(further[n - 1], path[n])]
    BY <1>4, <1>5
  <1>. QED
    BY <1>6 DEF Follows

LEMMA WalkExists ==
  ASSUME NEW path, NEW length \in Nat
  PROVE  \E at : Follows(at, path, length)
  <1> DEFINE Lost == {k \in Nat : ~ \E at : Follows(at, path, k)}
  <1>1. SUFFICES ASSUME Lost # {} PROVE FALSE
    OBVIOUS
  <1>2. PICK k \in Lost : \A j \in Lost : k <= j
    BY <1>1, Least
  <1>3. CASE k = 0
    <2>1. Follows([n \in 0 .. 0 |-> Root], path, 0)
      BY DEF Follows
    <2>. QED
      BY <1>3, <2>1
  <1>4. CASE k # 0
    <2>1. k - 1 \in Nat /\ k - 1 \notin Lost /\ (k - 1) + 1 = k
      BY <1>2, <1>4
    <2>2. PICK at : Follows(at, path, k - 1)
      BY <2>1
    <2>. QED
      BY <2>1, <2>2, FollowsFurther
  <1>. QED
    BY <1>3, <1>4

LEMMA AlongIs ==
  ASSUME NEW path, Len(path) \in Nat
  PROVE  /\ Along(path)[0] = Root
         /\ \A n \in 1 .. Len(path) :
              Along(path)[n] = Walk(Along(path)[n - 1], path[n])
  <1> USE DEF Root
  <1>1. Along(path) = CHOOSE at : Follows(at, path, Len(path))
    BY DEF Along, Follows
  <1>2. Follows(Along(path), path, Len(path))
    BY <1>1, WalkExists
  <1>3. \A n \in 0 .. Len(path) :
          Along(path)[n] = IF n = 0 THEN Root ELSE Walk(Along(path)[n - 1], path[n])
    <2> DEFINE at == Along(path)
    <2>1. at = [n \in 0 .. Len(path) |->
          IF n = 0 THEN Root ELSE Walk(at[n - 1], path[n])]
      BY <1>2 DEF Follows
    <2> HIDE DEF at
    <2>2. \A n \in 0 .. Len(path) : at[n] = IF n = 0 THEN Root ELSE Walk(at[n - 1], path[n])
      BY <2>1
    <2>. QED
      BY <2>2 DEF at
  <1>4. 0 \in 0 .. Len(path) /\ \A n \in 1 .. Len(path) : n \in 0 .. Len(path) /\ n # 0
    OBVIOUS
  <1>. QED
    BY <1>3, <1>4

-----------------------------------------------------------------------------
(* Names and directories. *)
Letters == STRING
Names == Seq(Letters)
Dirs == Seq(Names)
Ups == <<".", ".">>

LEMMA EndsInTwo ==
  ASSUME NEW S, NEW text \in Seq(S), NEW a, NEW b
  PROVE  IsSuffix(<<a, b>>, text) <=>
           Len(text) >= 2 /\ text[Len(text) - 1] = a /\ text[Len(text)] = b
  <1> DEFINE back == Reverse(text)
             two == Reverse(<<a, b>>)
  <1>1. Len(back) = Len(text) /\ \A i \in 1 .. Len(text) : back[i] = text[Len(text) - i + 1]
    BY DEF Reverse
  <1>2. Len(two) = 2 /\ two[1] = b /\ two[2] = a
    BY DEF Reverse
  <1>3. IsSuffix(<<a, b>>, text) <=>
          2 <= Len(text) /\ SubSeq(two, 1, 2) = SubSeq(back, 1, 2)
    BY <1>1, <1>2 DEF IsSuffix, IsPrefix
  <1> HIDE DEF back, two
  <1>4. ASSUME 2 <= Len(text)
        PROVE  SubSeq(two, 1, 2) = SubSeq(back, 1, 2) <=>
                 text[Len(text) - 1] = a /\ text[Len(text)] = b
    <2> DEFINE any == {a, b} \cup S
    <2>1. back[1] = text[Len(text)] /\ back[2] = text[Len(text) - 1]
      BY <1>1, <1>4
    <2>2. text[Len(text)] \in any /\ text[Len(text) - 1] \in any
      BY <1>4
    <2>3. /\ \A i \in 1 .. 2 : two[i] \in any
          /\ \A i \in 1 .. 2 : back[i] \in any
      BY <1>2, <2>1, <2>2
    <2> HIDE DEF any
    <2>4. /\ SubSeq(two, 1, 2) \in Seq(any) /\ Len(SubSeq(two, 1, 2)) = 2
          /\ SubSeq(back, 1, 2) \in Seq(any) /\ Len(SubSeq(back, 1, 2)) = 2
          /\ \A i \in 1 .. 2 : SubSeq(two, 1, 2)[i] = two[i]
          /\ \A i \in 1 .. 2 : SubSeq(back, 1, 2)[i] = back[i]
      BY <2>3, SubSeqProperties
    <2>5. SubSeq(two, 1, 2) = SubSeq(back, 1, 2) <=> two[1] = back[1] /\ two[2] = back[2]
      BY <2>4, SeqEqual
    <2>. QED
      BY <1>2, <2>1, <2>5
  <1>. QED
    BY <1>3, <1>4

LEMMA BeginsWithThree ==
  ASSUME NEW S, NEW text \in Seq(S), NEW a, NEW b, NEW c, IsPrefix(<<a, b, c>>, text)
  PROVE  Len(text) >= 3 /\ text[1] = a /\ text[2] = b /\ text[3] = c
  <1>1. Len(text) >= 3 /\ SubSeq(<<a, b, c>>, 1, 3) = SubSeq(text, 1, 3)
    BY DEF IsPrefix
  <1> DEFINE three == <<a, b, c>>
  <1>2. three[1] = a /\ three[2] = b /\ three[3] = c
    OBVIOUS
  <1>3. \A i \in 1 .. 3 : SubSeq(three, 1, 3)[i] = three[i]
    <2>1. \A i \in 1 .. 3 : three[i] \in {a, b, c}
      BY <1>2
    <2>. QED
      BY <2>1, SubSeqProperties
  <1>4. \A i \in 1 .. 3 : SubSeq(text, 1, 3)[i] = text[i]
    <2>1. \A i \in 1 .. 3 : text[i] \in S
      BY <1>1
    <2>. QED
      BY <2>1, SubSeqProperties
  <1> HIDE DEF three
  <1>5. SubSeq(three, 1, 3) = SubSeq(text, 1, 3)
    BY <1>1 DEF three
  <1>6. text[1] = three[1] /\ text[2] = three[2] /\ text[3] = three[3]
    BY <1>3, <1>4, <1>5
  <1>. QED
    BY <1>1, <1>2, <1>6

-----------------------------------------------------------------------------
(* The name is what was read since the last slash. *)
IsRead(name, path, n) ==
  /\ name \in Names
  /\ Len(name) <= n
  /\ \A i \in 1 .. Len(name) : name[i] = path[n - Len(name) + i]

Within(dirs) == Len(dirs) >= 1 /\ dirs[1] = <<"w">>

IsAt(at, path, n) ==
  /\ at = [dirs |-> at.dirs, name |-> at.name]
  /\ at.dirs \in Dirs
  /\ IsRead(at.name, path, n)
  /\ n >= 3 => Within(at.dirs)

LEMMA NoParentRead ==
  ASSUME NEW path \in Names, NEW n \in 0 .. Len(path), ~HasParentReference(path),
         NEW name, IsRead(name, path, n)
  PROVE  name # Ups
  <1>1. SUFFICES ASSUME name = Ups PROVE FALSE
    OBVIOUS
  <1>2. Len(name) = 2 /\ name[1] = "." /\ name[2] = "."
    BY <1>1 DEF Ups
  <1>3. n >= 2 /\ path[n - 2 + 1] = "." /\ path[n - 2 + 2] = "."
    BY <1>2 DEF IsRead
  <1>4. n - 2 + 1 = n - 1 /\ n - 2 + 2 = (n - 1) + 1 /\ n - 1 \in 1 .. (Len(path) - 1)
    BY <1>3
  <1>. QED
    BY <1>3, <1>4 DEF HasParentReference

LEMMA EnteredGrows ==
  ASSUME NEW dirs \in Dirs, NEW name \in Names, name # Ups
  PROVE  /\ Entered(dirs, name) \in Dirs
         /\ Within(dirs) => Within(Entered(dirs, name))
  <1>1. CASE name \in {<<>>, <<".">>}
    <2>1. Entered(dirs, name) = dirs
      BY <1>1 DEF Entered
    <2>. QED
      BY <2>1
  <1>2. CASE name \notin {<<>>, <<".">>}
    <2>1. Entered(dirs, name) = Append(dirs, name)
      BY <1>2 DEF Entered, Ups
    <2>2. /\ Append(dirs, name) \in Dirs
          /\ Len(Append(dirs, name)) = Len(dirs) + 1
          /\ \A i \in 1 .. Len(dirs) : Append(dirs, name)[i] = dirs[i]
      BY AppendProperties DEF Dirs
    <2>3. Len(dirs) >= 1 => 1 \in 1 .. Len(dirs)
      BY DEF Dirs
    <2>. QED
      BY <2>1, <2>2, <2>3 DEF Within, Dirs
  <1>. QED
    BY <1>1, <1>2

LEMMA OneMore ==
  ASSUME NEW name \in Names, NEW character \in Letters
  PROVE  /\ Append(name, character) \in Names
         /\ Len(Append(name, character)) = Len(name) + 1
         /\ \A i \in 1 .. Len(name) : Append(name, character)[i] = name[i]
         /\ Append(name, character)[Len(name) + 1] = character
  BY AppendProperties DEF Names

LEMMA ReadFurther ==
  ASSUME NEW path \in Names, NEW n \in 1 .. Len(path), NEW name, IsRead(name, path, n - 1)
  PROVE  IsRead(Append(name, path[n]), path, n)
  <1> DEFINE further == Append(name, path[n])
  <1>1. name \in Names /\ path[n] \in Letters
    BY DEF IsRead, Names
  <1>2. /\ further \in Names
        /\ Len(further) = Len(name) + 1
        /\ \A i \in 1 .. Len(name) : further[i] = name[i]
        /\ further[Len(name) + 1] = path[n]
    BY <1>1, OneMore
  <1>3. Len(name) \in Nat /\ Len(name) <= n - 1
    BY <1>1 DEF IsRead, Names
  <1> HIDE DEF further
  <1>4. ASSUME NEW i \in 1 .. Len(further)
        PROVE  further[i] = path[n - Len(further) + i]
    <2>1. CASE i = Len(name) + 1
      <3>1. n - Len(further) + i = n
        BY <1>2, <1>3, <2>1
      <3>. QED
        BY <1>2, <2>1, <3>1
    <2>2. CASE i \in 1 .. Len(name)
      <3>1. n - Len(further) + i = (n - 1) - Len(name) + i
        BY <1>2, <1>3
      <3>2. name[i] = path[(n - 1) - Len(name) + i]
        BY <2>2 DEF IsRead
      <3>. QED
        BY <1>2, <2>2, <3>1, <3>2
    <2>3. i = Len(name) + 1 \/ i \in 1 .. Len(name)
      BY <1>2, <1>3
    <2>. QED
      BY <2>1, <2>2, <2>3
  <1>. QED
    BY <1>2, <1>3, <1>4 DEF IsRead, further

(* One character further. *)
LEMMA WalkGoesOn ==
  ASSUME NEW path \in Names, NEW n \in 1 .. Len(path), ~HasParentReference(path),
         NEW at, IsAt(at, path, n - 1), n >= 3 => n - 1 >= 3 \/ Within(Walk(at, path[n]).dirs)
  PROVE  IsAt(Walk(at, path[n]), path, n)
  <1>1. at.dirs \in Dirs /\ at.name \in Names /\ IsRead(at.name, path, n - 1)
    BY DEF IsAt, IsRead
  <1>2. at.name # Ups
    BY <1>1, NoParentRead
  <1>3. CASE path[n] = "/"
    <2>1. Walk(at, path[n]) = [dirs |-> Entered(at.dirs, at.name), name |-> <<>>]
      BY <1>3 DEF Walk
    <2>2. /\ Walk(at, path[n]).dirs = Entered(at.dirs, at.name)
          /\ Walk(at, path[n]).name = <<>>
      BY <2>1
    <2>3. IsRead(<<>>, path, n)
      BY DEF IsRead, Names
    <2>4. /\ Entered(at.dirs, at.name) \in Dirs
          /\ Within(at.dirs) => Within(Entered(at.dirs, at.name))
      BY <1>1, <1>2, EnteredGrows
    <2>5. n - 1 >= 3 => Within(at.dirs)
      BY DEF IsAt
    <2>. QED
      BY <2>1, <2>2, <2>3, <2>4, <2>5 DEF IsAt
  <1>4. CASE path[n] # "/"
    <2>1. Walk(at, path[n]) = [dirs |-> at.dirs, name |-> Append(at.name, path[n])]
      <3>1. at = [dirs |-> at.dirs, name |-> at.name]
        BY DEF IsAt
      <3>2. Walk(at, path[n]) = [at EXCEPT !.name = Append(at.name, path[n])]
        BY <1>4 DEF Walk
      <3>. QED
        BY <3>1, <3>2
    <2>2. /\ Walk(at, path[n]).dirs = at.dirs
          /\ Walk(at, path[n]).name = Append(at.name, path[n])
      BY <2>1
    <2>3. IsRead(Append(at.name, path[n]), path, n)
      BY <1>1, ReadFurther
    <2>4. n - 1 >= 3 => Within(at.dirs)
      BY DEF IsAt
    <2>. QED
      BY <1>1, <2>1, <2>2, <2>3, <2>4 DEF IsAt
  <1>. QED
    BY <1>3, <1>4

(* After "/workspace/" the walk is in the directory of that name. *)
LEMMA FirstThree ==
  ASSUME NEW path \in Names, Len(path) >= 3,
         path[1] = "/", path[2] = "w", path[3] = "/"
  PROVE  Within(Walk(Along(path)[2], path[3]).dirs)
  <1>1. Len(path) \in Nat
    BY DEF Names
  <1>2. /\ Along(path)[0] = Root
        /\ \A n \in 1 .. Len(path) : Along(path)[n] = Walk(Along(path)[n - 1], path[n])
    BY <1>1, AlongIs
  <1>3. 1 \in 1 .. Len(path) /\ 2 \in 1 .. Len(path) /\ 1 - 1 = 0 /\ 2 - 1 = 1
    BY <1>1
  <1>4. Along(path)[1] = Walk(Root, "/") /\ Along(path)[2] = Walk(Along(path)[1], "w")
    BY <1>2, <1>3
  <1>5. Walk(Root, "/") = Root
    BY DEF Walk, Root, Entered
  <1>6. Walk(Root, "w") = [dirs |-> <<>>, name |-> <<"w">>]
    <2>1. Walk(Root, "w") = [Root EXCEPT !.name = Append(Root.name, "w")]
      BY DEF Walk
    <2>2. Root.name = <<>> /\ Append(<<>>, "w") = <<"w">>
      BY DEF Root
    <2>3. Walk(Root, "w") = [Root EXCEPT !.name = <<"w">>]
      BY <2>1, <2>2
    <2>. QED
      BY <2>3 DEF Root
  <1>7. Along(path)[2] = [dirs |-> <<>>, name |-> <<"w">>]
    BY <1>4, <1>5, <1>6
  <1>8. Walk(Along(path)[2], "/").dirs = Entered(<<>>, <<"w">>)
    BY <1>7 DEF Walk
  <1>9. Entered(<<>>, <<"w">>) = Append(<<>>, <<"w">>)
    <2>1. <<"w">> \notin {<<>>, <<".">>} /\ <<"w">> # <<".", ".">>
      OBVIOUS
    <2>. QED
      BY <2>1 DEF Entered
  <1>10. Append(<<>>, <<"w">>) = << <<"w">> >>
    OBVIOUS
  <1>. QED
    BY <1>8, <1>9, <1>10 DEF Within

LEMMA AlongIsAt ==
  ASSUME NEW path \in Names, ~HasParentReference(path), Len(path) >= 3,
         path[1] = "/", path[2] = "w", path[3] = "/"
  PROVE  \A n \in 0 .. Len(path) : IsAt(Along(path)[n], path, n)
  <1> DEFINE Astray == {n \in 0 .. Len(path) : ~IsAt(Along(path)[n], path, n)}
  <1>1. Len(path) \in Nat
    BY DEF Names
  <1>2. SUFFICES ASSUME Astray # {} PROVE FALSE
    OBVIOUS
  <1>3. Astray \in SUBSET Nat
    BY <1>1
  <1>4. PICK n \in Astray : \A k \in Astray : n <= k
    BY <1>2, <1>3, Least
  <1>5. /\ Along(path)[0] = Root
        /\ \A k \in 1 .. Len(path) : Along(path)[k] = Walk(Along(path)[k - 1], path[k])
    BY <1>1, AlongIs
  <1>6. CASE n = 0
    <2>1. /\ Root = [dirs |-> Root.dirs, name |-> Root.name]
          /\ Root.dirs = <<>> /\ Root.name = <<>>
      BY DEF Root
    <2>2. IsAt(Root, path, 0)
      BY <2>1 DEF IsAt, IsRead, Dirs, Names
    <2>. QED
      BY <1>4, <1>5, <1>6, <2>2
  <1>7. CASE n # 0
    <2>1. n \in 1 .. Len(path) /\ n - 1 \in 0 .. Len(path) /\ n - 1 \in Nat /\ ~(n <= n - 1)
      BY <1>1, <1>4, <1>7
    <2>2. IsAt(Along(path)[n - 1], path, n - 1)
      BY <1>4, <2>1
    <2>3. Along(path)[n] = Walk(Along(path)[n - 1], path[n])
      BY <1>5, <2>1
    <2>4. n >= 3 => n - 1 >= 3 \/ Within(Walk(Along(path)[n - 1], path[n]).dirs)
      <3>1. CASE n = 3
        <4>1. Within(Walk(Along(path)[2], path[3]).dirs)
          BY FirstThree
        <4>2. n - 1 = 2
          BY <3>1
        <4>. QED
          BY <3>1, <4>1, <4>2
      <3>2. CASE n # 3
        BY <2>1, <3>2
      <3>. QED
        BY <3>1, <3>2
    <2>5. IsAt(Walk(Along(path)[n - 1], path[n]), path, n)
      BY <2>1, <2>2, <2>4, WalkGoesOn
    <2>. QED
      BY <1>4, <2>3, <2>5
  <1>. QED
    BY <1>6, <1>7

(* The last name ends as the path does. *)
LEMMA NameAtEnd ==
  ASSUME NEW path \in Names, NEW end, IsAt(end, path, Len(path)),
         NEW before, end = Walk(before, path[Len(path)]),
         NEW earlier, before = Walk(earlier, path[Len(path) - 1]),
         IsAt(before, path, Len(path) - 1), IsAt(earlier, path, Len(path) - 2),
         path[Len(path) - 1] = ".", path[Len(path)] = "h",
         Len(path) >= 2
  PROVE  IsSuffix(<<".", "h">>, end.name)
  <1>1. earlier.name \in Names /\ before.name \in Names /\ end.name \in Names
    BY DEF IsAt, IsRead
  <1>2. before.name = Append(earlier.name, ".")
    <2>1. before = [earlier EXCEPT !.name = Append(earlier.name, ".")]
      BY DEF Walk
    <2>2. earlier = [dirs |-> earlier.dirs, name |-> earlier.name]
      BY DEF IsAt
    <2>. QED
      BY ONLY <2>1, <2>2
  <1>3. end.name = Append(before.name, "h")
    <2>1. end = [before EXCEPT !.name = Append(before.name, "h")]
      BY DEF Walk
    <2>2. before = [dirs |-> before.dirs, name |-> before.name]
      BY DEF IsAt
    <2>. QED
      BY ONLY <2>1, <2>2
  <1>l. path[Len(path) - 1] \in Letters /\ path[Len(path)] \in Letters
    BY DEF Names
  <1>4. /\ Len(before.name) = Len(earlier.name) + 1
        /\ before.name[Len(earlier.name) + 1] = "."
    BY <1>1, <1>2, <1>l, OneMore
  <1>5. /\ Len(end.name) = Len(before.name) + 1
        /\ \A i \in 1 .. Len(before.name) : end.name[i] = before.name[i]
        /\ end.name[Len(before.name) + 1] = "h"
    <2> DEFINE further == Append(before.name, "h")
    <2>1. /\ Len(further) = Len(before.name) + 1
          /\ \A i \in 1 .. Len(before.name) : further[i] = before.name[i]
          /\ further[Len(before.name) + 1] = "h"
      BY <1>1, <1>l, OneMore
    <2> HIDE DEF further
    <2>2. end.name = further
      BY <1>3 DEF further
    <2>. QED
      BY ONLY <2>1, <2>2
  <1>6. Len(earlier.name) \in Nat
    BY <1>1 DEF Names
  <1>7. /\ Len(end.name) >= 2
        /\ Len(end.name) - 1 = Len(before.name)
        /\ Len(before.name) \in 1 .. Len(before.name)
    <2>1. Len(before.name) = Len(earlier.name) + 1 /\ Len(end.name) = Len(before.name) + 1
      BY <1>4, <1>5
    <2>. QED
      BY ONLY <1>6, <2>1
  <1>8. end.name[Len(end.name)] = "h" /\ end.name[Len(end.name) - 1] = "."
    BY <1>4, <1>5, <1>7
  <1>. QED
    BY <1>1, <1>7, <1>8, EndsInTwo DEF Names

LEMMA PlaceOfName ==
  ASSUME NEW dirs \in Dirs, Within(dirs), NEW name \in Names, IsSuffix(<<".", "h">>, name)
  PROVE  LET place == Entered(dirs, name)
         IN  Len(place) > 1 /\ place[1] = <<"w">> /\ IsSuffix(<<".", "h">>, Last(place))
  <1>1. Len(name) >= 2 /\ name[Len(name)] = "h"
    BY EndsInTwo DEF Names
  <1>2. name # <<>> /\ name # <<".">> /\ name # <<".", ".">>
    BY <1>1
  <1>3. Entered(dirs, name) = Append(dirs, name)
    BY <1>2 DEF Entered
  <1>4. /\ Len(Append(dirs, name)) = Len(dirs) + 1
        /\ \A i \in 1 .. Len(dirs) : Append(dirs, name)[i] = dirs[i]
        /\ Append(dirs, name)[Len(dirs) + 1] = name
    BY AppendProperties DEF Dirs
  <1>5. Len(dirs) \in Nat /\ Len(dirs) >= 1 /\ dirs[1] = <<"w">>
    BY DEF Within, Dirs
  <1>6. Len(Append(dirs, name)) > 1 /\ Append(dirs, name)[1] = <<"w">>
    BY <1>4, <1>5
  <1>7. Last(Append(dirs, name)) = name
    BY <1>4 DEF Last
  <1>. QED
    BY <1>3, <1>6, <1>7

(* The policy reads no more of a path than its beginning, its end and      *)
(* whether two dots follow each other; no path of any length that it lets  *)
(* be written leads out of /workspace, or to a file that is not of HNLang. *)
THEOREM PolicyIsSound == AllowsOnlyWorkspace
  <1>1. SUFFICES ASSUME NEW path \in Paths,
                        DecidePath("WRITE_HNLANG_DRAFT", path) = "ALLOW"
                 PROVE  LET place == Leads(path)
                        IN  /\ Len(place) > 1 /\ place[1] = <<"w">>
                            /\ IsSuffix(<<".", "h">>, Last(place))
    BY DEF AllowsOnlyWorkspace
  <1>2. path \in Names /\ Len(path) \in Nat
    BY WorkspaceAssumption DEF Names, Letters
  <1>3. /\ IsPrefix(<<"/", "w", "/">>, path)
        /\ ~HasParentReference(path)
        /\ IsSuffix(<<".", "h">>, path)
    BY <1>1 DEF DecidePath, Decide
  <1>4. Len(path) >= 3 /\ path[1] = "/" /\ path[2] = "w" /\ path[3] = "/"
    BY <1>2, <1>3, BeginsWithThree DEF Names
  <1>5. Len(path) >= 2 /\ path[Len(path) - 1] = "." /\ path[Len(path)] = "h"
    BY <1>2, <1>3, EndsInTwo DEF Names
  <1> DEFINE end == Along(path)[Len(path)]
             before == Along(path)[Len(path) - 1]
             earlier == Along(path)[Len(path) - 2]
  <1>6. IsAt(end, path, Len(path)) /\ IsAt(before, path, Len(path) - 1)
          /\ IsAt(earlier, path, Len(path) - 2)
    <2>1. /\ Len(path) \in 0 .. Len(path) /\ Len(path) - 1 \in 0 .. Len(path)
          /\ Len(path) - 2 \in 0 .. Len(path)
      BY <1>2, <1>4
    <2>. QED
      BY <1>2, <1>3, <1>4, <2>1, AlongIsAt
  <1>7. end = Walk(before, path[Len(path)]) /\ before = Walk(earlier, path[Len(path) - 1])
    <2>1. /\ Len(path) \in 1 .. Len(path) /\ Len(path) - 1 \in 1 .. Len(path)
          /\ (Len(path) - 1) - 1 = Len(path) - 2
      BY <1>2, <1>4
    <2>. QED
      BY <1>2, <2>1, AlongIs
  <1>8. Leads(path) = Entered(end.dirs, end.name)
    BY DEF Leads
  <1> HIDE DEF end, before, earlier
  <1>9. IsSuffix(<<".", "h">>, end.name)
    BY <1>2, <1>5, <1>6, <1>7, NameAtEnd
  <1>10. end.dirs \in Dirs /\ Within(end.dirs) /\ end.name \in Names
    BY <1>4, <1>6 DEF IsAt, IsRead
  <1>. QED
    BY <1>8, <1>9, <1>10, PlaceOfName

(* Whenever an answer is saved, the policy that has let it pass lets pass   *)
(* only .hn files inside /workspace, for paths of every length and made of *)
(* any characters.                                                         *)
THEOREM SavesStayInWorkspace == Spec => WritesStayInWorkspace
  <1>1. [Next]_vars => [AllowsOnlyWorkspace]_savedVars
    BY PolicyIsSound
  <1>. QED
    BY <1>1, PTL DEF Spec, WritesStayInWorkspace
=============================================================================
