------------------------------ MODULE HubStore ------------------------------
(***************************************************************************)
(* What the Artifact Hub keeps: the four tables of its database and the    *)
(* snapshot files of its storage root.  Every write below is one call of   *)
(* the repository (a transaction of its own, committed when the call       *)
(* returns) or of the file storage; the service of module ArtifactHub      *)
(* strings them together.  The SQLite and the MySQL repository make the    *)
(* same calls; lines are quoted from the SQLite one.                       *)
(***************************************************************************)
EXTENDS Integers

CONSTANTS
  Users,      \* creators (created_by_id)
  Sources,    \* Session Files: a session together with a path in it
  Contents,   \* contents of a file; a checksum identifies its content
  MaxArt,     \* bound: artifact identifiers that can be issued
  MaxVer,     \* bound: version numbers of one artifact
  MaxUpl,     \* bound: NAS uploads that can be prepared
  MaxTok,     \* bound: share tokens that can be issued
  NoRow,      \* no such row in the table
  NoFile      \* no file under that storage key

Arts == 1..MaxArt
Vers == 1..MaxVer
Upls == 1..MaxUpl
Toks == 1..MaxTok

(***************************************************************************)
(* A version row and the storage key of its file are both named by the     *)
(* artifact and the version number: the schema makes the pair unique, and  *)
(* the key is <creator>/artifacts/<artifact>/v<version>/<name>, where the  *)
(* artifact determines creator and name.                                   *)
(***************************************************************************)
Keys == Arts \X Vers

ArtifactRow == [source : Sources, creator : Users]
VersionRow  == [mode : {"LOCAL", "NAS"}, checksum : Contents]
ShareRow    == [token : Toks, creator : Users, revoked : BOOLEAN]
UploadRow   == [key : Keys, creator : Users, state : {"PREPARED", "COMMITTED"}]

ASSUME StoreAssumption ==
  /\ MaxArt \in Nat
  /\ MaxVer \in Nat
  /\ MaxUpl \in Nat
  /\ MaxTok \in Nat
  /\ NoFile \notin Contents
  /\ NoRow \notin ArtifactRow
  /\ NoRow \notin VersionRow
  /\ NoRow \notin ShareRow
  /\ NoRow \notin UploadRow

VARIABLES
  artifacts,  \* dsh_artifacts, by artifact_id
  versions,   \* dsh_artifact_versions, by <<artifact_id, version>>
  shares,     \* dsh_shares, by the version they share (unique)
  uploads,    \* dsh_uploads, by upload_id
  files       \* the storage root, by storage key

storeVars == <<artifacts, versions, shares, uploads, files>>

StoreTypeOK ==
  /\ artifacts \in [Arts -> ArtifactRow \cup {NoRow}]
  /\ versions  \in [Keys -> VersionRow \cup {NoRow}]
  /\ shares    \in [Keys -> ShareRow \cup {NoRow}]
  /\ uploads   \in [Upls -> UploadRow \cup {NoRow}]
  /\ files     \in [Keys -> Contents \cup {NoFile}]

StoreInit ==
  /\ artifacts = [a \in Arts |-> NoRow]
  /\ versions  = [k \in Keys |-> NoRow]
  /\ shares    = [k \in Keys |-> NoRow]
  /\ uploads   = [u \in Upls |-> NoRow]
  /\ files     = [k \in Keys |-> NoFile]

-----------------------------------------------------------------------------
\* Queries

\* get_artifact_by_source: the artifacts of one creator's Session File.
ArtifactsBySource(s, u) ==
  {a \in Arts : artifacts[a] = [source |-> s, creator |-> u]}

\* Mutant: next_version looks at the stored versions only.
TakenIgnoringUploads(a) == {n \in Vers : versions[<<a, n>>] # NoRow}

\* Version numbers next_version counts: committed ones, and reserved ones.
TakenVersions(a) ==
  {n \in Vers : \/ versions[<<a, n>>] # NoRow
                \/ \E up \in Upls : /\ uploads[up] # NoRow
                                    /\ uploads[up].key = <<a, n>>
                                    /\ uploads[up].state = "PREPARED"}

\* next_version returns n: one above everything taken, 1 when nothing is.
IsNextVersion(a, n) ==
  /\ \A m \in TakenVersions(a) : m < n
  /\ n = 1 \/ n - 1 \in TakenVersions(a)

\* get_latest_version returns version n of artifact a.
IsLatestVersion(a, n) ==
  /\ versions[<<a, n>>] # NoRow
  /\ \A m \in Vers : versions[<<a, m>>] # NoRow => m <= n

\* get_share_by_token_hash: the shares (by version) that carry the token.
SharesByToken(tok) == {k \in Keys : shares[k] # NoRow /\ shares[k].token = tok}

-----------------------------------------------------------------------------
\* Writes to the database: one committed transaction each

CreateArtifact(a, s, u) ==
  artifacts' = [artifacts EXCEPT ![a] = [source |-> s, creator |-> u]]

\* The schema's UNIQUE(artifact_id, version) refuses a second row.
CreateVersion(k, mode, sum) ==
  /\ versions[k] = NoRow
  /\ versions' = [versions EXCEPT ![k] = [mode |-> mode, checksum |-> sum]]

\* Insert, or on a conflict on the version overwrite token, creator and
\* revocation: revoked_at is always written as NULL.
UpsertShareRow(k, tok, u) ==
  shares' = [shares EXCEPT ![k] = [token |-> tok, creator |-> u, revoked |-> FALSE]]

CreateUpload(up, k, u) ==
  uploads' = [uploads EXCEPT
                ![up] = [key |-> k, creator |-> u, state |-> "PREPARED"]]

MarkUploadCommitted(up) ==
  /\ uploads[up].state = "PREPARED"
  /\ uploads' = [uploads EXCEPT ![up].state = "COMMITTED"]

RevokeShareRow(k) ==
  /\ ~shares[k].revoked
  /\ shares' = [shares EXCEPT ![k].revoked = TRUE]

-----------------------------------------------------------------------------
\* The file storage

\* Copies through a temporary file and a rename: all of it or nothing.
CopySnapshot(k, c) == files' = [files EXCEPT ![k] = c]

Discard(k) == files' = [files EXCEPT ![k] = NoFile]

=============================================================================
