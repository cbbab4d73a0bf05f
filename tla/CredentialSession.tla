-------------------------- MODULE CredentialSession --------------------------
(***************************************************************************)
(* The credential session, kernel/ai/ai_session.c: the buffer in which the *)
(* user types an API key for the host.                                     *)
(***************************************************************************)
EXTENDS Integers

CONSTANTS
  SecretCapacity,    \* HNM_AI_SESSION_SECRET_CAPACITY
  MinimumKeyLength   \* HNM_AI_SESSION_MINIMUM_KEY_LENGTH

ASSUME SessionAssumption ==
  /\ SecretCapacity \in Nat /\ MinimumKeyLength \in Nat
  /\ 0 < MinimumKeyLength /\ MinimumKeyLength < SecretCapacity

VARIABLES
  sessionState,   \* hnm_ai_session_state
  secretIndex,    \* hnm_ai_session_secret_index
  keyPlaces       \* the places of hnm_ai_session_secret that are not NUL

sessionVars == <<sessionState, secretIndex, keyPlaces>>

SessionStates ==
  {"DISCONNECTED", "SUBSCRIPTION_UNSUPPORTED", "ENTERING_API_KEY", "INVALID_KEY",
   "WAITING_PROVIDER"}

CapturingSecret == sessionState = "ENTERING_API_KEY"

SessionInit ==
  /\ sessionState = "DISCONNECTED"
  /\ secretIndex = 0
  /\ keyPlaces = {}

(* Slips of the code, for the mutation runs, precede what they would replace. *)
WipeToUnwiped(state) ==
  /\ sessionState' = state
  /\ secretIndex' = 0
  /\ UNCHANGED keyPlaces

(* hnm_ai_session_wipe_secret, and the state that follows *)
WipeTo(state) ==
  /\ sessionState' = state
  /\ secretIndex' = 0
  /\ keyPlaces' = {}

BeginSubscription == WipeTo("SUBSCRIPTION_UNSUPPORTED")
BeginApiKey       == WipeTo("ENTERING_API_KEY")
CancelSession     == WipeTo("DISCONNECTED")

CaptureSecretToTheEnd(character) ==
  /\ IF character # " " /\ secretIndex < SecretCapacity
       THEN /\ keyPlaces' = (keyPlaces \cup {secretIndex}) \ {secretIndex + 1}
            /\ secretIndex' = secretIndex + 1
       ELSE UNCHANGED <<keyPlaces, secretIndex>>
  /\ UNCHANGED sessionState

(* hnm_ai_session_capture_character; the keyboard sends 32 to 126. *)
CaptureSecret(character) ==
  /\ IF character # " " /\ secretIndex + 1 < SecretCapacity
       THEN /\ keyPlaces' = (keyPlaces \cup {secretIndex}) \ {secretIndex + 1}
            /\ secretIndex' = secretIndex + 1
       ELSE UNCHANGED <<keyPlaces, secretIndex>>
  /\ UNCHANGED sessionState

(* hnm_ai_session_backspace *)
EraseSecret ==
  /\ IF secretIndex > 0
       THEN /\ keyPlaces' = keyPlaces \ {secretIndex - 1}
            /\ secretIndex' = secretIndex - 1
       ELSE UNCHANGED <<keyPlaces, secretIndex>>
  /\ UNCHANGED sessionState

(* hnm_ai_session_submit_api_key. The transport is ready from boot on and   *)
(* refuses no key of this length.                                          *)
SubmitApiKey ==
  WipeTo(IF secretIndex < MinimumKeyLength THEN "INVALID_KEY" ELSE "WAITING_PROVIDER")

SessionTypeOK ==
  /\ sessionState \in SessionStates
  /\ secretIndex \in 0 .. (SecretCapacity - 1)
  /\ keyPlaces \in SUBSET (0 .. (SecretCapacity - 1))
=============================================================================
