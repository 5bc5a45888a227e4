----------------------------- MODULE ApprovalKey -----------------------------
(***************************************************************************)
(* How the processes of one machine come to share the plan-approval        *)
(* secret: approval_secret and generate_and_persist_approval_key of        *)
(* src/src/integration/config.rs.  Each caller (plan approve, delete       *)
(* execute, the MCP server) is a process of its own; the key file is the   *)
(* only state they share.                                                  *)
(***************************************************************************)
CONSTANTS
    Proc,       \* the processes that ask for the secret
    EnvProc,    \* those started with OCLNR_APPROVAL_SECRET set
    Key         \* the 32-byte secrets /dev/urandom can return

Absent == "absent"        \* no key file
Empty == "empty"          \* a key file of no bytes, or the secret read from it
EnvSecret == "env"        \* the secret of the environment variable
NoKey == "none"           \* the call has returned nothing (yet)

ASSUME KeyAssumption ==
    /\ EnvProc \subseteq Proc
    /\ Key \cap {Absent, Empty, EnvSecret, NoKey} = {}

VARIABLES
    keyFile,    \* Absent, Empty, or the random bytes some call wrote
    pc,         \* where each process stands inside approval_secret
    secret,     \* what the latest call of each process has returned
    returned,   \* history: every secret a call took from the key file
    cutShort    \* history: some call created the file and never filled it

keyVars == <<keyFile, pc, secret, returned, cutShort>>

KeyInit ==
    /\ keyFile = Absent
    /\ pc = [p \in Proc |-> "idle"]
    /\ secret = [p \in Proc |-> NoKey]
    /\ returned = {}
    /\ cutShort = FALSE

MoveTo(p, l) == pc' = [pc EXCEPT ![p] = l]

(* The key file's bytes, whatever they are, become the call's result. *)
TakeKeyFile(p) ==
    /\ secret' = [secret EXCEPT ![p] = keyFile]
    /\ returned' = returned \cup {keyFile}
    /\ MoveTo(p, "ok")

(* The environment variable wins; otherwise the file's existence decides. *)
Call(p) ==
    /\ pc[p] \in {"idle", "ok", "failed"}
    /\ secret' = [secret EXCEPT ![p] = IF p \in EnvProc THEN EnvSecret ELSE NoKey]
    /\ MoveTo(p, IF p \in EnvProc THEN "ok"
                 ELSE IF keyFile = Absent THEN "generate" ELSE "read")
    /\ UNCHANGED <<keyFile, returned, cutShort>>

(* An existing file is read, and an empty one is an error. *)
ReadExisting(p) ==
    /\ pc[p] = "read"
    /\ \/ keyFile \in Key /\ TakeKeyFile(p)
       \/ keyFile = Empty /\ MoveTo(p, "failed") /\ UNCHANGED <<secret, returned>>
    /\ UNCHANGED <<keyFile, cutShort>>

(* Not the code: File::create, which truncates an existing key. *)
CreateNewTruncating(p) ==
    /\ pc[p] = "generate"
    /\ keyFile' = Empty
    /\ MoveTo(p, "created")
    /\ UNCHANGED <<secret, returned, cutShort>>

(* create_new makes the file, still empty, or finds that another call did. *)
CreateNew(p) ==
    /\ pc[p] = "generate"
    /\ \/ keyFile = Absent /\ keyFile' = Empty /\ MoveTo(p, "created")
       \/ keyFile # Absent /\ MoveTo(p, "lost") /\ UNCHANGED keyFile
    /\ UNCHANGED <<secret, returned, cutShort>>

(* The loser of the race re-reads the file and takes whatever is there. *)
ReadAfterLosing(p) ==
    /\ pc[p] = "lost"
    /\ TakeKeyFile(p)
    /\ UNCHANGED <<keyFile, cutShort>>

(* Not the code: returning the key without having written it. *)
WriteKeyForgotten(p) ==
    /\ pc[p] = "created"
    /\ \E k \in Key : secret' = [secret EXCEPT ![p] = k]
    /\ MoveTo(p, "ok")
    /\ UNCHANGED <<keyFile, returned, cutShort>>

(* write_all of fresh random bytes to the file create_new opened. *)
WriteKey(p) ==
    /\ pc[p] = "created"
    /\ \E k \in Key \ (returned \cup {keyFile}) :
          /\ keyFile' = k
          /\ secret' = [secret EXCEPT ![p] = k]
          /\ returned' = returned \cup {k}
    /\ MoveTo(p, "ok")
    /\ UNCHANGED cutShort

(* The key is in the file, but set_permissions fails or the process dies. *)
WriteKeyThenFails(p) ==
    /\ pc[p] = "created"
    /\ keyFile' \in Key \ (returned \cup {keyFile})
    /\ MoveTo(p, "failed")
    /\ UNCHANGED <<secret, returned, cutShort>>

(* The write fails (a full volume still creates the empty file). *)
WriteFails(p) ==
    /\ pc[p] = "created"
    /\ cutShort' = TRUE
    /\ MoveTo(p, "failed")
    /\ UNCHANGED <<keyFile, secret, returned>>

(* The process dies inside the call. *)
Crash(p) ==
    /\ pc[p] \in {"read", "generate", "lost", "created"}
    /\ cutShort' = (cutShort \/ pc[p] = "created")
    /\ MoveTo(p, "failed")
    /\ UNCHANGED <<keyFile, secret, returned>>

Step(p) ==
    \/ Call(p) \/ ReadExisting(p) \/ CreateNew(p) \/ ReadAfterLosing(p)
    \/ WriteKey(p) \/ WriteKeyThenFails(p) \/ WriteFails(p) \/ Crash(p)

KeyNext == \E p \in Proc : Step(p)

KeySpec == KeyInit /\ [][KeyNext]_keyVars

------------------------------------------------------------------------------
(* Every variable ranges over the values the code can give it. *)
KeyTypeOK ==
    /\ keyFile \in Key \cup {Absent, Empty}
    /\ pc \in [Proc -> {"idle", "read", "generate", "lost", "created", "ok", "failed"}]
    /\ secret \in [Proc -> Key \cup {Empty, EnvSecret, NoKey}]
    /\ returned \subseteq Key \cup {Empty}
    /\ cutShort \in BOOLEAN

(* The approvers and executors of one machine sign and verify with one key:  *)
(* two calls that took real bytes, however they raced for the first use of   *)
(* the key file and whatever crashed in between, took the same bytes, and    *)
(* they are still the ones in the file.                                      *)
OneKey == \A k \in returned \cap Key : k = keyFile

(* A key file found empty is either about to be filled by the call that      *)
(* created it, or was left behind by a call that died or failed between      *)
(* create_new and write_all; nothing empties a key once it is written.       *)
EmptyIsUnfinished ==
    keyFile = Empty => cutShort \/ \E p \in Proc : pc[p] = "created"

(* generate_and_persist_approval_key never clobbers: once the file has a key *)
(* no later call, retry or crash changes it (every plan approved so far       *)
(* would stop verifying).                                                    *)
KeyIsKept == [][(keyFile \in Key) => (keyFile' = keyFile)]_keyVars

==============================================================================
