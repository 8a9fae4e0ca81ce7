----------------------------- MODULE ArtifactHub -----------------------------
(***************************************************************************)
(* The Hub's application service: sharing a Session File by LOCAL          *)
(* snapshot or by a NAS upload (prepare, host copies, commit), and         *)
(* revoking a share.  An operation runs in a thread, holds the operation   *)
(* lock from start to end (the @_serialized wrapper) and makes its         *)
(* repository and storage calls one at a time; each call is a step here,   *)
(* because each commits on its own and any of them may raise.  The host    *)
(* writes its NAS file outside the lock, and the process may crash and     *)
(* restart between two steps.                                              *)
(***************************************************************************)
EXTENDS HubStore

CONSTANTS
  Threads,   \* threads that run Hub operations
  NoThread,  \* the lock is free
  Idle,      \* the thread runs no operation
  Faults     \* what may go wrong: "error" (a call raises), "crash"

VARIABLES
  lock,      \* _operation_lock: the thread that holds it
  op,        \* the operation each thread is in, with its local variables
  nextArt,   \* identifiers issued so far are below these: new_id and
  nextUpl,   \* token_urlsafe never return a value they returned before
  nextTok,
  sent,      \* what the host copied to an upload's target path
  delivered, \* history: links returned to a user, with the bytes they are for
  dead       \* history: tokens that were revoked

ids  == <<nextArt, nextUpl, nextTok>>
past == <<delivered, dead>>
vars == <<storeVars, lock, op, ids, sent, past>>

PCs == {"copy", "inspect", "artifact", "version", "upload", "share",
        "readback", "mark"}

(***************************************************************************)
(* key is the storage key of the snapshot, row the version the share is    *)
(* for: they differ when an existing version is shared again.              *)
(***************************************************************************)
OpRec ==
  [kind : {"local", "prepare", "commit"}, pc : PCs, user : Users,
   source : Sources, isNew : BOOLEAN, key : Keys, row : Keys,
   bytes : Contents \cup {NoFile}, upload : Upls \cup {0}, token : Toks \cup {0}]

ASSUME HubAssumption ==
  /\ NoThread \notin Threads
  /\ Idle \notin OpRec
  /\ Faults \subseteq {"error", "crash"}

TypeOK ==
  /\ StoreTypeOK
  /\ lock \in Threads \cup {NoThread}
  /\ op \in [Threads -> OpRec \cup {Idle}]
  /\ nextArt \in 1..(MaxArt + 1)
  /\ nextUpl \in 1..(MaxUpl + 1)
  /\ nextTok \in 1..(MaxTok + 1)
  /\ sent \in [Upls -> Contents \cup {NoFile}]
  /\ delivered \subseteq Toks \X Contents
  /\ dead \subseteq Toks

Init ==
  /\ StoreInit
  /\ lock = NoThread
  /\ op = [t \in Threads |-> Idle]
  /\ nextArt = 1
  /\ nextUpl = 1
  /\ nextTok = 1
  /\ sent = [up \in Upls |-> NoFile]
  /\ delivered = {}
  /\ dead = {}

-----------------------------------------------------------------------------
\* The lock, and moving through an operation

\* Mutant: no operation lock.
AcquireUnlocked(t, o) ==
  /\ lock' = t
  /\ op' = [op EXCEPT ![t] = o]

Acquire(t, o) ==
  /\ lock = NoThread
  /\ lock' = t
  /\ op' = [op EXCEPT ![t] = o]

Release(t) ==
  /\ lock' = NoThread
  /\ op' = [op EXCEPT ![t] = Idle]

\* Mutant: an exception leaves the lock held.
UnwindLocked(t) ==
  /\ op' = [op EXCEPT ![t] = Idle]
  /\ UNCHANGED lock

\* The lock is let go of when an exception leaves the operation, too.
Unwind(t) == Release(t)

At(t, p) == op[t] # Idle /\ op[t].pc = p

Goto(t, p) ==
  /\ op' = [op EXCEPT ![t].pc = p]
  /\ UNCHANGED lock

\* _artifact_for_snapshot: the creator's artifact of this Session File with
\* its next version, or a fresh artifact (not stored yet) with version 1.  An
\* explicit artifact_id passes the checks only when it is such an artifact.
ArtifactForSnapshot(u, s, a, n, isNew) ==
  IF ArtifactsBySource(s, u) = {}
  THEN isNew /\ a = nextArt /\ n = 1
  ELSE ~isNew /\ a \in ArtifactsBySource(s, u) /\ IsNextVersion(a, n)

\* A new artifact is stored when it is prepared, or else once it is published.
FirstStep(kind, isNew) ==
  CASE kind = "local" -> "copy"
    [] kind = "prepare" /\ isNew -> "artifact"
    [] kind = "prepare" /\ ~isNew -> "upload"

\* The head both ways of sharing have: find the artifact, take the version.
BeginSnapshot(t, u, s, kind) ==
  \E a \in Arts, n \in Vers, isNew \in BOOLEAN :
    /\ ArtifactForSnapshot(u, s, a, n, isNew)
    /\ Acquire(t, [kind |-> kind, pc |-> FirstStep(kind, isNew),
                   user |-> u, source |-> s, isNew |-> isNew,
                   key |-> <<a, n>>, row |-> <<a, n>>, bytes |-> NoFile,
                   upload |-> 0, token |-> 0])
    /\ nextArt' = IF isNew THEN nextArt + 1 ELSE nextArt
    /\ UNCHANGED <<storeVars, nextUpl, nextTok, sent, past>>

-----------------------------------------------------------------------------
\* create_local_share

LocalBegin(t, u, s) ==
  /\ nextTok <= MaxTok
  /\ BeginSnapshot(t, u, s, "local")

\* The workspace file may hold anything by the time it is copied.
LocalCopy(t) ==
  /\ At(t, "copy")
  /\ \E c \in Contents : CopySnapshot(op[t].key, c)
  /\ Goto(t, "inspect")
  /\ UNCHANGED <<artifacts, versions, shares, uploads, ids, sent, past>>

\* Mutant: only a LOCAL version is recognised as identical.
SameAsLatestLocal(k, n) ==
  /\ IsLatestVersion(k[1], n)
  /\ versions[<<k[1], n>>] = [mode |-> "LOCAL", checksum |-> files[k]]

SameAsLatest(k, n) ==
  /\ IsLatestVersion(k[1], n)
  /\ versions[<<k[1], n>>].checksum = files[k]

\* The content is the latest version's: drop the snapshot, share that version.
LocalReuse(t) ==
  /\ At(t, "inspect")
  /\ ~op[t].isNew
  /\ \E n \in Vers :
       /\ SameAsLatest(op[t].key, n)
       /\ op' = [op EXCEPT ![t].pc = "share", ![t].bytes = files[op[t].key],
                           ![t].row = <<op[t].key[1], n>>]
  /\ Discard(op[t].key)
  /\ UNCHANGED <<artifacts, versions, shares, uploads, lock, ids, sent, past>>

\* Otherwise go on to _publish_snapshot.
LocalPublish(t) ==
  /\ At(t, "inspect")
  /\ op[t].isNew \/ ~\E n \in Vers : SameAsLatest(op[t].key, n)
  /\ op' = [op EXCEPT ![t].pc = IF op[t].isNew THEN "artifact" ELSE "version",
                      ![t].bytes = files[op[t].key]]
  /\ UNCHANGED <<storeVars, lock, ids, sent, past>>

-----------------------------------------------------------------------------
\* prepare_nas_share, the host's copy, commit_nas_share

PrepareBegin(t, u, s) ==
  /\ nextUpl <= MaxUpl
  /\ BeginSnapshot(t, u, s, "prepare")

\* Reserves the version and returns the target path to the host.
InsertUpload(t) ==
  /\ At(t, "upload")
  /\ nextUpl <= MaxUpl
  /\ CreateUpload(nextUpl, op[t].key, op[t].user)
  /\ nextUpl' = nextUpl + 1
  /\ Release(t)
  /\ UNCHANGED <<artifacts, versions, shares, files, nextArt, nextTok, sent, past>>

\* The host copies the Session File to the target path, once per upload: the
\* write the Hub's lock does not cover.
HostCopy(up) ==
  /\ uploads[up] # NoRow
  /\ sent[up] = NoFile
  /\ \E c \in Contents :
       /\ CopySnapshot(uploads[up].key, c)
       /\ sent' = [sent EXCEPT ![up] = c]
  /\ UNCHANGED <<artifacts, versions, shares, uploads, lock, op, ids, past>>

\* Mutant: the file is not looked at.
CommitAcceptsUnseen(up, u) ==
  /\ uploads[up] # NoRow
  /\ uploads[up].creator = u
  /\ uploads[up].state = "PREPARED"
  /\ artifacts[uploads[up].key[1]] # NoRow

\* Mutant: anybody may commit an upload.
CommitAcceptsAnyone(up, u) ==
  /\ uploads[up] # NoRow
  /\ uploads[up].state = "PREPARED"
  /\ sent[up] # NoFile
  /\ files[uploads[up].key] = sent[up]
  /\ artifacts[uploads[up].key[1]] # NoRow

\* The Hub goes on only for a PREPARED upload of this creator whose file is
\* there with the checksum of what the host copied.
CommitAccepts(up, u) ==
  /\ uploads[up] # NoRow
  /\ uploads[up].creator = u
  /\ uploads[up].state = "PREPARED"
  /\ sent[up] # NoFile
  /\ files[uploads[up].key] = sent[up]
  /\ artifacts[uploads[up].key[1]] # NoRow

CommitBegin(t, up, u) ==
  /\ nextTok <= MaxTok
  /\ CommitAccepts(up, u)
  /\ LET k == uploads[up].key IN
       Acquire(t, [kind |-> "commit", pc |-> "version", user |-> u,
                   source |-> artifacts[k[1]].source, isNew |-> FALSE,
                   key |-> k, row |-> k, bytes |-> files[k],
                   upload |-> up, token |-> 0])
  /\ UNCHANGED <<storeVars, ids, sent, past>>

Deliver(t) == delivered' = delivered \cup {<<op[t].token, op[t].bytes>>}

\* The last step of a commit; only then is its link returned.
InsertCommitted(t) ==
  /\ At(t, "mark")
  /\ MarkUploadCommitted(op[t].upload)
  /\ Deliver(t)
  /\ Release(t)
  /\ UNCHANGED <<artifacts, versions, shares, files, ids, sent, dead>>

-----------------------------------------------------------------------------
\* Steps that several operations take

InsertArtifact(t) ==
  /\ At(t, "artifact")
  /\ CreateArtifact(op[t].key[1], op[t].source, op[t].user)
  /\ Goto(t, IF op[t].kind = "local" THEN "version" ELSE "upload")
  /\ UNCHANGED <<versions, shares, uploads, files, ids, sent, past>>

InsertVersion(t) ==
  /\ At(t, "version")
  /\ CreateVersion(op[t].row, IF op[t].kind = "local" THEN "LOCAL" ELSE "NAS",
                   op[t].bytes)
  /\ Goto(t, "share")
  /\ UNCHANGED <<artifacts, shares, uploads, files, ids, sent, past>>

\* Mutant: a share keeps its token even when it was revoked.
KeepsRevokedToken(k) == shares[k] # NoRow

\* Mutant: every share gets a fresh token.
NeverKeepsToken(k) == FALSE

\* A version's share that is not revoked keeps its token; otherwise the link
\* is a fresh one.
KeepsToken(k) == shares[k] # NoRow /\ ~shares[k].revoked

UpsertShare(t) ==
  LET k   == op[t].row
      tok == IF KeepsToken(k) THEN shares[k].token ELSE nextTok
  IN /\ At(t, "share")
     /\ tok <= MaxTok
     /\ UpsertShareRow(k, tok, op[t].user)
     /\ nextTok' = IF KeepsToken(k) THEN nextTok ELSE nextTok + 1
     /\ op' = [op EXCEPT ![t].pc = "readback", ![t].token = tok]
     /\ UNCHANGED <<artifacts, versions, uploads, files, lock, nextArt, nextUpl,
                    sent, past>>

\* The stored share is read back for the answer; a local share ends here.
ReadBack(t) ==
  /\ At(t, "readback")
  /\ SharesByToken(op[t].token) # {}
  /\ IF op[t].kind = "local"
     THEN Deliver(t) /\ Release(t)
     ELSE Goto(t, "mark") /\ UNCHANGED delivered
  /\ UNCHANGED <<storeVars, ids, sent, dead>>

\* A call refuses: the version number is taken, or the upload not PREPARED.
Refused(t) ==
  \/ At(t, "version") /\ versions[op[t].row] # NoRow
  \/ At(t, "readback") /\ SharesByToken(op[t].token) = {}
  \/ At(t, "mark") /\ uploads[op[t].upload].state # "PREPARED"

\* Mutant: the file is discarded whatever the operation.
DiscardsAnyFile(t) == op[t].pc # "copy"

DiscardsSnapshot(t) == op[t].kind = "local" /\ op[t].pc # "copy"

\* A call raises.  create_local_share then discards the snapshot it made, and
\* nothing else is undone: what was committed stays.
Raise(t) ==
  /\ op[t] # Idle
  /\ "error" \in Faults \/ Refused(t)
  /\ IF DiscardsSnapshot(t) THEN Discard(op[t].key) ELSE UNCHANGED files
  /\ Unwind(t)
  /\ UNCHANGED <<artifacts, versions, shares, uploads, ids, sent, past>>

\* revoke_share: one lookup and one update, by the share's creator only.
RevokeShare(tok, u) ==
  /\ lock = NoThread
  /\ \E k \in SharesByToken(tok) :
       /\ shares[k].creator = u
       /\ RevokeShareRow(k)
  /\ dead' = dead \cup {tok}
  /\ UNCHANGED <<artifacts, versions, uploads, files, lock, op, ids, sent, delivered>>

\* The process dies in the middle of an operation and is started again: its
\* thread and its lock are gone, the database and the files are what they were.
Crash ==
  /\ "crash" \in Faults
  /\ lock # NoThread
  /\ lock' = NoThread
  /\ op' = [t \in Threads |-> Idle]
  /\ UNCHANGED <<storeVars, ids, sent, past>>

-----------------------------------------------------------------------------
Step(t) ==
  \/ LocalCopy(t) \/ LocalReuse(t) \/ LocalPublish(t)
  \/ InsertArtifact(t) \/ InsertUpload(t) \/ InsertVersion(t)
  \/ UpsertShare(t) \/ ReadBack(t) \/ InsertCommitted(t) \/ Raise(t)

Begin(t) ==
  \/ \E u \in Users, s \in Sources : LocalBegin(t, u, s)
  \/ \E u \in Users, s \in Sources : PrepareBegin(t, u, s)
  \/ \E up \in Upls, u \in Users : CommitBegin(t, up, u)

Next ==
  \/ \E t \in Threads : Begin(t) \/ Step(t)
  \/ \E up \in Upls : HostCopy(up)
  \/ \E tok \in Toks, u \in Users : RevokeShare(tok, u)
  \/ Crash

Spec == Init /\ [][Next]_vars

FairSpec == Spec /\ \A t \in Threads : WF_vars(Step(t))

-----------------------------------------------------------------------------
(***************************************************************************)
(* Safety                                                                  *)
(***************************************************************************)

\* Two operations on one Session File, also ones that failed half way or were
\* prepared by NAS, never give its creator two artifacts (get_artifact_by_source
\* must find the first): versions and shares of the file stay together.
OneArtifactPerSource ==
  \A a, b \in Arts :
    artifacts[a] # NoRow /\ artifacts[a] = artifacts[b] => a = b

\* A version number, and with it a storage key, is given out once: no two
\* uploads reserve the same one, and a version stored under a number that an
\* upload reserved was committed from that upload (next_version counts
\* reservations; dsh_uploads has no constraint that would refuse a double).
VersionReserved ==
  /\ \A up, other \in Upls :
       /\ uploads[up] # NoRow
       /\ uploads[other] # NoRow
       /\ uploads[up].key = uploads[other].key
       => up = other
  /\ \A up \in Upls :
       /\ uploads[up] # NoRow
       /\ versions[uploads[up].key] # NoRow
       => versions[uploads[up].key].mode = "NAS"

\* What the host copied to an upload's target path stays there, whatever other
\* operations copy, discard, fail or commit meanwhile, so that its commit finds
\* the file its checksum was computed from.
SentFileIntact ==
  \A up \in Upls : sent[up] # NoFile => files[uploads[up].key] = sent[up]

\* A version's file never holds other bytes than the version's checksum says;
\* a NAS version's file is never missing either.
VersionBytes ==
  \A k \in Keys : versions[k] # NoRow =>
    \/ files[k] = versions[k].checksum
    \/ files[k] = NoFile /\ versions[k].mode = "LOCAL"

\* A link returned to a user either was revoked, or still is the live link of
\* a version with the content the user shared: re-sharing never replaces it.
DeliveredLinkHolds ==
  \A d \in delivered :
    \/ d[1] \in dead
    \/ \E k \in Keys : /\ shares[k] # NoRow
                       /\ shares[k].token = d[1]
                       /\ ~shares[k].revoked
                       /\ versions[k] # NoRow
                       /\ versions[k].checksum = d[2]

\* A revoked token is dead for good: no later share of that version, or of any
\* other, brings it back to life.
RevokedStaysDead ==
  \A k \in Keys : shares[k] # NoRow /\ ~shares[k].revoked => shares[k].token \notin dead

\* A share is of a stored version, and belongs to the creator of the artifact:
\* nobody ends up with a share that the artifact's creator cannot revoke.
ShareOwner ==
  \A k \in Keys : shares[k] # NoRow =>
    /\ versions[k] # NoRow
    /\ artifacts[k[1]] # NoRow
    /\ shares[k].creator = artifacts[k[1]].creator

\* Without failing calls (the process may still crash anywhere), a stored
\* version has its file: every live link can be read.
StoredVersionHasFile ==
  \A k \in Keys : versions[k] # NoRow => files[k] = versions[k].checksum

\* A local share stores no second version of the content the latest version
\* has: identical content is shared as the version that exists.
LocalNeverRepeatsLatest ==
  [][\A k \in Keys, n \in Vers :
       /\ versions[k] = NoRow /\ versions'[k] # NoRow
       /\ versions'[k].mode = "LOCAL"
       /\ IsLatestVersion(k[1], n)
       => versions[<<k[1], n>>].checksum # versions'[k].checksum]_vars

-----------------------------------------------------------------------------
(***************************************************************************)
(* The contract of a link, in terms of what the Hub stores.  A token that  *)
(* was issued and is in no row any more was revoked and then replaced.     *)
(***************************************************************************)
LiveAt(tok) == {k \in SharesByToken(tok) : ~shares[k].revoked}

LinkState ==
  [tok \in Toks |->
     IF LiveAt(tok) # {}
     THEN [state |-> "live", content |-> files[CHOOSE k \in LiveAt(tok) : TRUE]]
     ELSE [state |-> IF tok < nextTok THEN "revoked" ELSE "unissued", content |-> NoFile]]

Contract == INSTANCE ShareContract WITH link <- LinkState

\* As long as no call fails, the Hub keeps the contract: a link gives access to
\* the same bytes from its issue to its revocation, then never to any again.
KeepsContract == Contract!Spec

-----------------------------------------------------------------------------
(***************************************************************************)
(* Liveness                                                                *)
(***************************************************************************)

\* Whoever holds the operation lock lets go of it, also when calls fail.
LockIsReleased == \A t \in Threads : lock = t ~> lock # t

-----------------------------------------------------------------------------
(***************************************************************************)
(* What the repository's texts say and the code does not do                *)
(***************************************************************************)

\* storage/filesystem.py:86: discard removes an unpublished snapshot.
DiscardsOnlyUnpublished ==
  [][\A k \in Keys : files[k] # NoFile /\ files'[k] = NoFile => versions[k] = NoRow]_vars

=============================================================================
