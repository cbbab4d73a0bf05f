------------------------------ MODULE Workspace ------------------------------
(***************************************************************************)
(* The workspace policy, kernel/ai/ai_workspace_policy.c, and the one      *)
(* writable file, /workspace/main.hn of kernel/fs/vfs.c and ramfs.c.       *)
(*                                                                         *)
(* A path is a sequence of characters, where "w" stands for the letters of *)
(* "workspace", "m" for those of "main" and "h" for "hn".                  *)
(***************************************************************************)
EXTENDS Integers, SequencesExt

CONSTANTS
  DraftCapacity,   \* HNM_RAMFS_WORKSPACE_DRAFT_CAPACITY
  Paths            \* the paths on which the policy is checked

ASSUME WorkspaceAssumption ==
  /\ DraftCapacity \in Nat \ {0}
  /\ \A path \in Paths : path \in Seq(STRING)

VARIABLE draft     \* hnm_ramfs_workspace_main: whose answer, how much of it

Capabilities ==
  {"READ_WORKSPACE", "WRITE_HNLANG_DRAFT", "READ_BUILD_LOG", "RUN_WORKSPACE_BUILD",
   "USE_PROVIDER_NETWORK", "MODIFY_SYSTEM", "WRITE_KERNEL", "WRITE_BOOT",
   "CHANGE_POLICY", "CONTROL_DRIVER", "CHANGE_AUDIT_LOG"}

MainPath == <<"/", "w", "/", "m", ".", "h">>

(* hnm_ai_workspace_policy_decide *)
Decide(capability) ==
  CASE capability \in {"READ_WORKSPACE", "WRITE_HNLANG_DRAFT", "READ_BUILD_LOG"} ->
         "ALLOW"
    [] capability \in {"RUN_WORKSPACE_BUILD", "USE_PROVIDER_NETWORK"} ->
         "REQUIRE_APPROVAL"
    [] OTHER -> "DENY"

HasParentReferenceAtEnd(path) == IsSuffix(<<".", ".">>, path)

HasParentReference(path) ==
  \E i \in 1 .. (Len(path) - 1) : path[i] = "." /\ path[i + 1] = "."

(* hnm_ai_workspace_policy_decide_path *)
DecidePath(capability, path) ==
  IF Decide(capability) # "ALLOW" THEN Decide(capability)
  ELSE IF /\ IsPrefix(<<"/", "w", "/">>, path)
          /\ ~HasParentReference(path)
          /\ capability = "WRITE_HNLANG_DRAFT" => IsSuffix(<<".", "h">>, path)
         THEN "ALLOW"
         ELSE "DENY"

DraftOf(id, length) == [of |-> id, length |-> length]

(* The text with which the kernel is built. *)
WorkspaceInit == draft = DraftOf(0, 0)

Writable(path) == DecidePath("WRITE_HNLANG_DRAFT", path) = "ALLOW" /\ path = MainPath

(* hnm_ramfs_write_workspace_hnlang: the last place of the buffer is for NUL. *)
Written(id, length) ==
  DraftOf(id, IF length < DraftCapacity THEN length ELSE DraftCapacity - 1)

-----------------------------------------------------------------------------
(* Where a path leads, directory by directory: ".." goes up, "." stays.     *)
Entered(dirs, name) ==
  CASE name \in {<<>>, <<".">>} -> dirs
    [] name = <<".", ".">> -> IF dirs = <<>> THEN dirs ELSE Front(dirs)
    [] OTHER -> Append(dirs, name)

Walk(at, character) ==
  IF character = "/"
    THEN [dirs |-> Entered(at.dirs, at.name), name |-> <<>>]
    ELSE [at EXCEPT !.name = Append(@, character)]

Along(path) ==
  LET at[n \in 0 .. Len(path)] ==
        IF n = 0 THEN [dirs |-> <<>>, name |-> <<>>] ELSE Walk(at[n - 1], path[n])
  IN  at

Leads(path) ==
  LET end == Along(path)[Len(path)]
  IN  Entered(end.dirs, end.name)

(* The decision against where a path leads. *)
AllowsOnlyWorkspace ==
  \A path \in Paths :
    DecidePath("WRITE_HNLANG_DRAFT", path) = "ALLOW" =>
      LET place == Leads(path)
      IN  Len(place) > 1 /\ place[1] = <<"w">> /\ IsSuffix(<<".", "h">>, Last(place))
=============================================================================
