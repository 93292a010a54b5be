--------------------------- MODULE VersionHistory ---------------------------
(***************************************************************************)
(* What the Registry promises about one entry: a history of versions that  *)
(* only grows, in which a version never changes what it says, and whose    *)
(* last version alone may be in force.  apps/api/src/routes/registry.ts    *)
(* keeps the promise with concurrent transactions (RegistryPublication     *)
(* implements this specification); RegistryStatus reads the history.       *)
(*                                                                         *)
(* The content of a version is the approved draft behind it, which stands  *)
(* for the public projection and its hash.                                 *)
(***************************************************************************)
EXTENDS Naturals, Sequences

CONSTANTS
    Content,      \* the approved drafts of the entry
    VersionBound  \* bound on the number of versions

ASSUME HistoryAssumption == VersionBound \in Nat

VARIABLE history  \* rows of core.registry_entry_versions by version number

VersionStatus == {"published", "revoked", "superseded"}

Latest == Len(history)

Version == [status: VersionStatus, content: Content]

HistoryTypeOK == history \in Seq(Version)

HistoryInit == history = <<>>

NeverPublished(c) == \A v \in 1 .. Latest : history[v].content # c

\* A revoked version that gets a successor is relabelled like any other.
SupersedeLatest ==
    [v \in 1 .. Latest |->
        IF v = Latest THEN [history[v] EXCEPT !.status = "superseded"] ELSE history[v]]

PublishVersion(c) ==
    /\ Latest < VersionBound
    /\ NeverPublished(c)
    /\ history' = Append(SupersedeLatest, [status |-> "published", content |-> c])

\* Only the version in force can be revoked, and nothing is removed.
RevokeVersion ==
    /\ Latest > 0
    /\ history[Latest].status = "published"
    /\ history' = [history EXCEPT ![Latest].status = "revoked"]

HistoryNext == (\E c \in Content : PublishVersion(c)) \/ RevokeVersion

HistorySpec == HistoryInit /\ [][HistoryNext]_history

(* What a version says is never rewritten, and no version disappears       *)
(* (trigger protect_published_registry_version, registry_version_no_delete *)
(* and the append of the publish handler).                                 *)
ContentFixed ==
    [][\A v \in 1 .. Latest :
            v <= Len(history') /\ history'[v].content = history[v].content]_history
=============================================================================
