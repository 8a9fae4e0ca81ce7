-------------------------- MODULE ArtifactHub_proofs --------------------------
(***************************************************************************)
(* Proofs about module ArtifactHub, for every value of its constants, in   *)
(* layers that each rest on the ones before: types and the shape of an     *)
(* operation, identity of artifacts, reservation of versions, files and    *)
(* links, and at last the contract of a link.                              *)
(***************************************************************************)
EXTENDS ArtifactHub, TLAPS

(***************************************************************************)
(* The shape of an operation in progress.  TypeOK alone is not inductive:  *)
(* that a version is stored with the checksum of a file that exists rests  *)
(* on the lock, which keeps every other operation from discarding it.      *)
(***************************************************************************)
KindAndPC(o) ==
  \/ o.kind = "local" /\ o.pc \in {"copy", "inspect", "artifact", "version", "share", "readback"}
  \/ o.kind = "prepare" /\ o.pc \in {"artifact", "upload"}
  \/ o.kind = "commit" /\ o.pc \in {"version", "share", "readback", "mark"}

OpShape ==
  \A t \in Threads : op[t] # Idle =>
    /\ lock = t
    /\ KindAndPC(op[t])
    /\ op[t].pc = "artifact" => op[t].isNew
    /\ op[t].pc = "inspect" => files[op[t].key] # NoFile
    /\ op[t].pc \in {"version", "share", "readback", "mark"} => op[t].bytes # NoFile
    /\ op[t].kind = "local" /\ op[t].pc = "artifact" => op[t].bytes # NoFile
    /\ op[t].pc \in {"readback", "mark"} => op[t].token # 0
    /\ op[t].kind = "commit" => op[t].upload # 0 /\ uploads[op[t].upload] # NoRow

TypeInv == TypeOK /\ OpShape

\* The artifact row an operation is about, and whether it is yet to be stored.
ArtifactOf(o) == [source |-> o.source, creator |-> o.user]

Unstored(o) == o.isNew /\ o.pc \in {"copy", "inspect", "artifact"}

-----------------------------------------------------------------------------
\* A thread in an operation holds the lock, so every other thread is idle.
LEMMA Running ==
  ASSUME TypeInv, NEW t \in Threads, op[t] # Idle
  PROVE  /\ op[t] \in OpRec
         /\ lock = t
         /\ \A r \in Threads : r # t => op[r] = Idle
BY DEF TypeInv, TypeOK, OpShape

LEMMA InitTypeInv == Init => TypeInv
BY StoreAssumption, HubAssumption
   DEF Init, StoreInit, TypeInv, TypeOK, StoreTypeOK, OpShape, Upls, Toks, Arts, Keys, Vers

LEMMA LocalCopyTypeInv ==
  ASSUME TypeInv, NEW t \in Threads, LocalCopy(t)
  PROVE  TypeInv'
<1>1. /\ op[t] \in OpRec
      /\ lock = t
      /\ \A r \in Threads : r # t => op[r] = Idle
  BY Running DEF LocalCopy, At
<1>2. PICK c \in Contents : files' = [files EXCEPT ![op[t].key] = c]
  BY DEF LocalCopy, CopySnapshot
<1>3. op' = [op EXCEPT ![t].pc = "inspect"] /\ lock' = lock
  BY DEF LocalCopy, Goto
<1>4. [op[t] EXCEPT !.pc = "inspect"] \in OpRec
  BY <1>1 DEF OpRec, PCs
<1>5. TypeOK'
  BY <1>1, <1>2, <1>3, <1>4
  DEF TypeInv, TypeOK, StoreTypeOK, LocalCopy, ids, past, OpRec
<1>6. OpShape'
  BY <1>1, <1>2, <1>3, StoreAssumption, HubAssumption
  DEF TypeInv, TypeOK, StoreTypeOK, OpShape, LocalCopy, At, KindAndPC, ids, past, OpRec
<1> QED BY <1>5, <1>6 DEF TypeInv

\* What the head of a share or a preparation leaves behind.
LEMMA BeginFacts ==
  ASSUME TypeInv, NEW t \in Threads, NEW u \in Users, NEW s \in Sources,
         NEW kind \in {"local", "prepare"}, BeginSnapshot(t, u, s, kind)
  PROVE  /\ \A r \in Threads : op[r] = Idle
         /\ \A r \in Threads : r # t => op'[r] = Idle
         /\ op' \in [Threads -> OpRec \cup {Idle}]
         /\ op'[t] \in OpRec
         /\ lock' = t
         /\ op'[t].kind = kind
         /\ kind = "local" => op'[t].pc = "copy"
         /\ kind = "prepare" => op'[t].pc = IF op'[t].isNew THEN "artifact" ELSE "upload"
         /\ op'[t].user = u /\ op'[t].source = s
         /\ op'[t].row = op'[t].key
         /\ UNCHANGED <<storeVars, nextUpl, nextTok, sent, past>>
         /\ IF op'[t].isNew
            THEN /\ op'[t].key[1] = nextArt /\ nextArt' = nextArt + 1
                 /\ \A b \in Arts : artifacts[b] # ArtifactOf(op'[t])
            ELSE /\ artifacts[op'[t].key[1]] = ArtifactOf(op'[t])
                 /\ nextArt' = nextArt
                 /\ IsNextVersion(op'[t].key[1], op'[t].key[2])
<1>1. PICK a \in Arts, n \in Vers, isNew \in BOOLEAN :
        /\ ArtifactForSnapshot(u, s, a, n, isNew)
        /\ Acquire(t, [kind |-> kind, pc |-> FirstStep(kind, isNew),
                       user |-> u, source |-> s, isNew |-> isNew,
                       key |-> <<a, n>>, row |-> <<a, n>>, bytes |-> NoFile,
                       upload |-> 0, token |-> 0])
        /\ nextArt' = IF isNew THEN nextArt + 1 ELSE nextArt
        /\ UNCHANGED <<storeVars, nextUpl, nextTok, sent, past>>
  BY DEF BeginSnapshot
<1> DEFINE pc == FirstStep(kind, isNew)
<1> DEFINE o == [kind |-> kind, pc |-> pc, user |-> u, source |-> s, isNew |-> isNew,
                 key |-> <<a, n>>, row |-> <<a, n>>, bytes |-> NoFile,
                 upload |-> 0, token |-> 0]
<1>2. /\ kind = "local" => pc = "copy"
      /\ kind = "prepare" /\ isNew => pc = "artifact"
      /\ kind = "prepare" /\ ~isNew => pc = "upload"
  BY DEF FirstStep
<1> HIDE DEF pc
<1>3. o \in OpRec
  BY <1>2 DEF OpRec, PCs, Keys
<1>4. /\ o.kind = kind /\ o.pc = pc /\ o.user = u /\ o.source = s /\ o.isNew = isNew
      /\ o.key[1] = a /\ o.key[2] = n /\ o.row = o.key
  OBVIOUS
<1>5. ArtifactOf(o) = [source |-> s, creator |-> u]
  BY DEF ArtifactOf
<1> HIDE DEF o
<1>6. lock = NoThread /\ lock' = t /\ op' = [op EXCEPT ![t] = o]
  BY <1>1 DEF Acquire, o, pc
<1>7. \A r \in Threads : op[r] = Idle
  BY <1>6, HubAssumption DEF TypeInv, OpShape
<1>8. /\ op'[t] = o
      /\ op' \in [Threads -> OpRec \cup {Idle}]
      /\ \A r \in Threads : r # t => op'[r] = Idle
  BY <1>3, <1>6, <1>7 DEF TypeInv, TypeOK
<1>9. IF isNew
      THEN /\ a = nextArt /\ nextArt' = nextArt + 1
           /\ \A b \in Arts : artifacts[b] # [source |-> s, creator |-> u]
      ELSE /\ artifacts[a] = [source |-> s, creator |-> u]
           /\ nextArt' = nextArt
           /\ IsNextVersion(a, n)
  BY <1>1 DEF ArtifactForSnapshot, ArtifactsBySource
<1>10. IF op'[t].isNew
       THEN /\ op'[t].key[1] = nextArt /\ nextArt' = nextArt + 1
            /\ \A b \in Arts : artifacts[b] # ArtifactOf(op'[t])
       ELSE /\ artifacts[op'[t].key[1]] = ArtifactOf(op'[t])
            /\ nextArt' = nextArt
            /\ IsNextVersion(op'[t].key[1], op'[t].key[2])
  BY <1>4, <1>5, <1>8, <1>9
<1>11. UNCHANGED <<storeVars, nextUpl, nextTok, sent, past>>
  BY <1>1
<1> QED BY <1>2, <1>3, <1>4, <1>6, <1>7, <1>8, <1>10, <1>11

LEMMA BeginSnapshotTypeInv ==
  ASSUME TypeInv, NEW t \in Threads, NEW u \in Users, NEW s \in Sources,
         NEW kind \in {"local", "prepare"}, BeginSnapshot(t, u, s, kind)
  PROVE  TypeInv'
<1>1. /\ \A r \in Threads : r # t => op'[r] = Idle
      /\ op' \in [Threads -> OpRec \cup {Idle}]
      /\ op'[t] \in OpRec
      /\ lock' = t
      /\ op'[t].kind = kind
      /\ kind = "local" => op'[t].pc = "copy"
      /\ kind = "prepare" => op'[t].pc = IF op'[t].isNew THEN "artifact" ELSE "upload"
      /\ UNCHANGED <<storeVars, nextUpl, nextTok, sent, past>>
      /\ IF op'[t].isNew
         THEN op'[t].key[1] = nextArt /\ nextArt' = nextArt + 1
         ELSE nextArt' = nextArt
  BY BeginFacts
<1>2. nextArt' \in 1..(MaxArt + 1)
  <2>1. op'[t].key[1] \in Arts
    BY <1>1 DEF OpRec, Keys
  <2> QED BY <1>1, <2>1, StoreAssumption DEF Arts, TypeInv, TypeOK
<1>3. TypeOK'
  BY <1>1, <1>2 DEF TypeInv, TypeOK, StoreTypeOK, storeVars, past
<1>4. OpShape'
  <2>1. op'[t].pc \in {"copy", "artifact", "upload"}
    BY <1>1
  <2>2. KindAndPC(op'[t])
    BY <1>1 DEF KindAndPC
  <2> QED BY <1>1, <2>1, <2>2 DEF OpShape
<1> QED BY <1>3, <1>4 DEF TypeInv

LEMMA LocalReuseTypeInv ==
  ASSUME TypeInv, NEW t \in Threads, LocalReuse(t)
  PROVE  TypeInv'
<1>1. /\ op[t] \in OpRec
      /\ lock = t
      /\ \A r \in Threads : r # t => op[r] = Idle
  BY Running DEF LocalReuse, At
<1>2. PICK n \in Vers :
        op' = [op EXCEPT ![t].pc = "share", ![t].bytes = files[op[t].key],
                         ![t].row = <<op[t].key[1], n>>]
  BY DEF LocalReuse
<1>3. files[op[t].key] \in Contents
  BY <1>1 DEF LocalReuse, At, TypeInv, TypeOK, StoreTypeOK, OpShape, OpRec
<1>4. op'[t] \in OpRec
  BY <1>1, <1>2, <1>3 DEF OpRec, PCs, Keys, TypeInv, TypeOK
<1>5. TypeOK'
  BY <1>1, <1>2, <1>4 DEF TypeInv, TypeOK, StoreTypeOK, LocalReuse, Discard, ids, past
<1>6. OpShape'
  BY <1>1, <1>2, <1>3, <1>4, StoreAssumption
  DEF TypeInv, TypeOK, OpShape, LocalReuse, At, KindAndPC, ids, past, OpRec
<1> QED BY <1>5, <1>6 DEF TypeInv

LEMMA LocalPublishTypeInv ==
  ASSUME TypeInv, NEW t \in Threads, LocalPublish(t)
  PROVE  TypeInv'
<1>1. /\ op[t] \in OpRec
      /\ lock = t
      /\ \A r \in Threads : r # t => op[r] = Idle
  BY Running DEF LocalPublish, At
<1>2. PICK p \in {"artifact", "version"} :
        /\ p = "artifact" => op[t].isNew
        /\ op' = [op EXCEPT ![t].pc = p, ![t].bytes = files[op[t].key]]
  BY DEF LocalPublish
<1>3. files[op[t].key] \in Contents
  BY <1>1 DEF LocalPublish, At, TypeInv, TypeOK, StoreTypeOK, OpShape, OpRec
<1>4. op'[t] \in OpRec
  BY <1>1, <1>2, <1>3 DEF OpRec, PCs, TypeInv, TypeOK
<1>5. TypeOK'
  BY <1>1, <1>2, <1>4 DEF TypeInv, TypeOK, StoreTypeOK, storeVars, LocalPublish, ids, past
<1>6. OpShape'
  BY <1>1, <1>2, <1>3, <1>4, StoreAssumption
  DEF TypeInv, TypeOK, OpShape, LocalPublish, At, KindAndPC, storeVars, OpRec
<1> QED BY <1>5, <1>6 DEF TypeInv

LEMMA InsertArtifactTypeInv ==
  ASSUME TypeInv, NEW t \in Threads, InsertArtifact(t)
  PROVE  TypeInv'
<1>1. /\ op[t] \in OpRec
      /\ lock = t
      /\ \A r \in Threads : r # t => op[r] = Idle
  BY Running DEF InsertArtifact, At
<1>2. PICK p \in {"version", "upload"} :
        /\ op[t].kind = "local" <=> p = "version"
        /\ op' = [op EXCEPT ![t].pc = p]
  BY DEF InsertArtifact, Goto
<1>3. op'[t] \in OpRec
  BY <1>1, <1>2 DEF OpRec, PCs, TypeInv, TypeOK
<1>4. [source |-> op[t].source, creator |-> op[t].user] \in ArtifactRow
  BY <1>1 DEF OpRec, ArtifactRow
<1>5. TypeOK'
  BY <1>1, <1>2, <1>3, <1>4
  DEF TypeInv, TypeOK, StoreTypeOK, InsertArtifact, CreateArtifact, Goto, ids, past
<1>6. OpShape'
  BY <1>1, <1>2, <1>3
  DEF TypeInv, TypeOK, OpShape, InsertArtifact, At, Goto, KindAndPC, OpRec
<1> QED BY <1>5, <1>6 DEF TypeInv

LEMMA InsertUploadTypeInv ==
  ASSUME TypeInv, NEW t \in Threads, InsertUpload(t)
  PROVE  TypeInv'
<1>1. /\ op[t] \in OpRec
      /\ lock = t
      /\ \A r \in Threads : r # t => op[r] = Idle
  BY Running DEF InsertUpload, At
<1>2. [key |-> op[t].key, creator |-> op[t].user, state |-> "PREPARED"] \in UploadRow
  BY <1>1 DEF OpRec, UploadRow
<1>3. nextUpl' \in 1..(MaxUpl + 1)
  BY StoreAssumption DEF InsertUpload, TypeInv, TypeOK
<1>4. TypeOK'
  BY <1>1, <1>2, <1>3
  DEF TypeInv, TypeOK, StoreTypeOK, InsertUpload, CreateUpload, Release, past
<1>5. OpShape'
  BY <1>1 DEF TypeInv, TypeOK, OpShape, InsertUpload, Release
<1> QED BY <1>4, <1>5 DEF TypeInv

LEMMA HostCopyTypeInv ==
  ASSUME TypeInv, NEW up \in Upls, HostCopy(up)
  PROVE  TypeInv'
<1>1. PICK c \in Contents :
        /\ files' = [files EXCEPT ![uploads[up].key] = c]
        /\ sent' = [sent EXCEPT ![up] = c]
  BY DEF HostCopy, CopySnapshot
<1>2. TypeOK'
  BY <1>1 DEF TypeInv, TypeOK, StoreTypeOK, HostCopy, ids, past
<1>3. OpShape'
  BY <1>1, StoreAssumption
  DEF TypeInv, TypeOK, StoreTypeOK, OpShape, HostCopy, KindAndPC, OpRec
<1> QED BY <1>2, <1>3 DEF TypeInv

LEMMA CommitBeginTypeInv ==
  ASSUME TypeInv, NEW t \in Threads, NEW up \in Upls, NEW u \in Users,
         CommitBegin(t, up, u)
  PROVE  TypeInv'
<1> DEFINE k == uploads[up].key
<1> DEFINE o == [kind |-> "commit", pc |-> "version", user |-> u,
                 source |-> artifacts[k[1]].source, isNew |-> FALSE,
                 key |-> k, row |-> k, bytes |-> files[k],
                 upload |-> up, token |-> 0]
<1>1. /\ uploads[up] # NoRow /\ sent[up] # NoFile
      /\ files[k] = sent[up] /\ artifacts[k[1]] # NoRow
      /\ lock = NoThread /\ lock' = t
      /\ op' = [op EXCEPT ![t] = o]
      /\ UNCHANGED <<storeVars, ids, sent, past>>
  BY DEF CommitBegin, CommitAccepts, Acquire
<1>2. \A r \in Threads : op[r] = Idle
  BY <1>1, HubAssumption DEF TypeInv, OpShape
<1>3. k \in Keys /\ artifacts[k[1]] \in ArtifactRow /\ files[k] \in Contents
  BY <1>1 DEF TypeInv, TypeOK, StoreTypeOK, UploadRow, Keys
<1>4. o \in OpRec
  BY <1>3 DEF OpRec, PCs, ArtifactRow
<1> HIDE DEF o
<1>5. TypeOK'
  BY <1>1, <1>4 DEF TypeInv, TypeOK, StoreTypeOK, storeVars, ids, past
<1>6. OpShape'
  <2>1. /\ o.kind = "commit" /\ o.pc = "version"
        /\ o.bytes # NoFile /\ o.upload = up /\ up # 0
    BY <1>1 DEF o, Upls
  <2> QED
    BY <1>1, <1>2, <2>1 DEF TypeInv, TypeOK, OpShape, KindAndPC, storeVars
<1> QED BY <1>5, <1>6 DEF TypeInv

LEMMA InsertVersionTypeInv ==
  ASSUME TypeInv, NEW t \in Threads, InsertVersion(t)
  PROVE  TypeInv'
<1>1. /\ op[t] \in OpRec
      /\ lock = t
      /\ \A r \in Threads : r # t => op[r] = Idle
  BY Running DEF InsertVersion, At
<1>2. PICK mode \in {"LOCAL", "NAS"} :
        versions' = [versions EXCEPT ![op[t].row] = [mode |-> mode, checksum |-> op[t].bytes]]
  BY DEF InsertVersion, CreateVersion
<1>3. op' = [op EXCEPT ![t].pc = "share"] /\ lock' = lock
  BY DEF InsertVersion, Goto
<1>4. op'[t] \in OpRec
  BY <1>1, <1>3 DEF OpRec, PCs, TypeInv, TypeOK
<1>5. [mode |-> mode, checksum |-> op[t].bytes] \in VersionRow
  BY <1>1 DEF InsertVersion, At, TypeInv, OpShape, OpRec, VersionRow
<1>6. TypeOK'
  BY <1>1, <1>2, <1>3, <1>4, <1>5
  DEF TypeInv, TypeOK, StoreTypeOK, InsertVersion, ids, past
<1>7. OpShape'
  BY <1>1, <1>3, <1>4
  DEF TypeInv, TypeOK, OpShape, InsertVersion, At, KindAndPC, OpRec
<1> QED BY <1>6, <1>7 DEF TypeInv

LEMMA UpsertShareTypeInv ==
  ASSUME TypeInv, NEW t \in Threads, UpsertShare(t)
  PROVE  TypeInv'
<1> DEFINE k == op[t].row
<1> DEFINE tok == IF KeepsToken(k) THEN shares[k].token ELSE nextTok
<1>1. /\ op[t] \in OpRec
      /\ lock = t
      /\ \A r \in Threads : r # t => op[r] = Idle
  BY Running DEF UpsertShare, At
<1>2. /\ tok <= MaxTok
      /\ shares' = [shares EXCEPT ![k] =
                      [token |-> tok, creator |-> op[t].user, revoked |-> FALSE]]
      /\ nextTok' = IF KeepsToken(k) THEN nextTok ELSE nextTok + 1
      /\ op' = [op EXCEPT ![t].pc = "readback", ![t].token = tok]
      /\ UNCHANGED <<artifacts, versions, uploads, files, lock, nextArt, nextUpl,
                     sent, past>>
  BY DEF UpsertShare, UpsertShareRow
<1>3. k \in Keys /\ nextTok \in 1..(MaxTok + 1)
  BY <1>1 DEF OpRec, TypeInv, TypeOK
<1>4. tok \in Toks
  <2>1. CASE KeepsToken(k)
    BY <1>3, <2>1 DEF KeepsToken, TypeInv, TypeOK, StoreTypeOK, ShareRow
  <2>2. CASE ~KeepsToken(k)
    BY <1>2, <1>3, <2>2, StoreAssumption DEF Toks
  <2> QED BY <2>1, <2>2
<1>5. nextTok' \in 1..(MaxTok + 1)
  BY <1>2, <1>3, StoreAssumption
<1> HIDE DEF tok
<1>6. op'[t] \in OpRec
  BY <1>1, <1>2, <1>4 DEF OpRec, PCs, TypeInv, TypeOK
<1>7. [token |-> tok, creator |-> op[t].user, revoked |-> FALSE] \in ShareRow
  BY <1>1, <1>4 DEF ShareRow, OpRec
<1>8. TypeOK'
  BY <1>1, <1>2, <1>3, <1>5, <1>6, <1>7 DEF TypeInv, TypeOK, StoreTypeOK, past
<1>9. OpShape'
  <2>1. tok # 0
    BY <1>4 DEF Toks
  <2>2. op[t].pc = "share"
    BY DEF UpsertShare, At
  <2>3. /\ op'[t].pc = "readback" /\ op'[t].token = tok
        /\ op'[t].kind = op[t].kind /\ op'[t].bytes = op[t].bytes
        /\ op'[t].upload = op[t].upload
    BY <1>1, <1>2 DEF OpRec, TypeInv, TypeOK
  <2>4. \A r \in Threads : r # t => op'[r] = Idle
    BY <1>1, <1>2 DEF TypeInv, TypeOK
  <2>5. op[t] # Idle /\ KindAndPC(op[t]) /\ op[t].bytes # NoFile
        /\ (op[t].kind = "commit" => op[t].upload # 0 /\ uploads[op[t].upload] # NoRow)
    BY <2>2 DEF UpsertShare, At, TypeInv, OpShape
  <2>6. KindAndPC(op'[t])
    BY <2>2, <2>3, <2>5 DEF KindAndPC
  <2>7. lock' = lock /\ uploads' = uploads
    BY <1>2
  <2> QED BY <1>1, <2>1, <2>3, <2>4, <2>5, <2>6, <2>7 DEF OpShape
<1> QED BY <1>8, <1>9 DEF TypeInv

\* What is delivered is a token and a content.
LEMMA DeliverType ==
  ASSUME TypeInv, NEW t \in Threads, At(t, "readback") \/ At(t, "mark"), Deliver(t)
  PROVE  delivered' \subseteq Toks \X Contents
<1>1. op[t] \in OpRec /\ op[t].token # 0 /\ op[t].bytes # NoFile
  BY DEF TypeInv, TypeOK, OpShape, At
<1>2. op[t].token \in Toks /\ op[t].bytes \in Contents
  BY <1>1 DEF OpRec
<1> QED BY <1>2 DEF Deliver, TypeInv, TypeOK

LEMMA ReadBackTypeInv ==
  ASSUME TypeInv, NEW t \in Threads, ReadBack(t)
  PROVE  TypeInv'
<1>1. /\ op[t] \in OpRec
      /\ lock = t
      /\ \A r \in Threads : r # t => op[r] = Idle
  BY Running DEF ReadBack, At
<1>2. At(t, "readback") /\ UNCHANGED <<storeVars, ids, sent, dead>>
  BY DEF ReadBack
<1>3. CASE op[t].kind = "local"
  <2>1. Deliver(t) /\ Release(t)
    BY <1>3 DEF ReadBack
  <2>2. delivered' \subseteq Toks \X Contents
    BY <1>2, <2>1, DeliverType
  <2>3. TypeOK'
    BY <1>2, <2>1, <2>2 DEF TypeInv, TypeOK, StoreTypeOK, storeVars, ids, Release
  <2>4. OpShape'
    BY <1>1, <2>1 DEF TypeInv, TypeOK, OpShape, Release
  <2> QED BY <2>3, <2>4 DEF TypeInv
<1>4. CASE op[t].kind # "local"
  <2>1. Goto(t, "mark") /\ UNCHANGED delivered
    BY <1>4 DEF ReadBack
  <2>2. op'[t] \in OpRec
    BY <1>1, <2>1 DEF Goto, OpRec, PCs, TypeInv, TypeOK
  <2>3. TypeOK'
    BY <1>2, <2>1, <2>2 DEF TypeInv, TypeOK, StoreTypeOK, storeVars, ids, Goto
  <2>4. OpShape'
    BY <1>1, <1>2, <1>4, <2>1, <2>2
    DEF TypeInv, TypeOK, OpShape, Goto, At, KindAndPC, storeVars, OpRec
  <2> QED BY <2>3, <2>4 DEF TypeInv
<1> QED BY <1>3, <1>4

LEMMA InsertCommittedTypeInv ==
  ASSUME TypeInv, NEW t \in Threads, InsertCommitted(t)
  PROVE  TypeInv'
<1>1. /\ op[t] \in OpRec
      /\ lock = t
      /\ \A r \in Threads : r # t => op[r] = Idle
  BY Running DEF InsertCommitted, At
<1>2. /\ At(t, "mark") /\ Deliver(t) /\ Release(t)
      /\ uploads' = [uploads EXCEPT ![op[t].upload].state = "COMMITTED"]
      /\ UNCHANGED <<artifacts, versions, shares, files, ids, sent, dead>>
  BY DEF InsertCommitted, MarkUploadCommitted
<1>3. op[t].upload \in Upls /\ uploads[op[t].upload] \in UploadRow
  BY <1>1, <1>2 DEF At, TypeInv, TypeOK, StoreTypeOK, OpShape, KindAndPC, OpRec
<1>4. delivered' \subseteq Toks \X Contents
  BY <1>2, DeliverType
<1>5. [uploads[op[t].upload] EXCEPT !.state = "COMMITTED"] \in UploadRow
  BY <1>3 DEF UploadRow
<1>6. TypeOK'
  BY <1>2, <1>3, <1>4, <1>5 DEF TypeInv, TypeOK, StoreTypeOK, ids, Release
<1>7. OpShape'
  BY <1>1, <1>2 DEF TypeInv, TypeOK, OpShape, Release
<1> QED BY <1>6, <1>7 DEF TypeInv

LEMMA RaiseTypeInv ==
  ASSUME TypeInv, NEW t \in Threads, Raise(t)
  PROVE  TypeInv'
<1>1. /\ op[t] \in OpRec
      /\ lock = t
      /\ \A r \in Threads : r # t => op[r] = Idle
  BY Running DEF Raise
<1>2. files' \in [Keys -> Contents \cup {NoFile}]
  BY DEF Raise, Discard, TypeInv, TypeOK, StoreTypeOK
<1>3. TypeOK'
  BY <1>2 DEF TypeInv, TypeOK, StoreTypeOK, Raise, Unwind, Release, ids, past
<1>4. OpShape'
  BY <1>1 DEF TypeInv, TypeOK, OpShape, Raise, Unwind, Release
<1> QED BY <1>3, <1>4 DEF TypeInv

LEMMA RevokeShareTypeInv ==
  ASSUME TypeInv, NEW tok \in Toks, NEW u \in Users, RevokeShare(tok, u)
  PROVE  TypeInv'
<1>1. PICK k \in Keys :
        /\ shares[k] # NoRow
        /\ shares' = [shares EXCEPT ![k].revoked = TRUE]
  BY DEF RevokeShare, SharesByToken, RevokeShareRow
<1>2. [shares[k] EXCEPT !.revoked = TRUE] \in ShareRow
  BY <1>1 DEF TypeInv, TypeOK, StoreTypeOK, ShareRow
<1>3. TypeOK'
  BY <1>1, <1>2 DEF TypeInv, TypeOK, StoreTypeOK, RevokeShare, ids
<1>4. OpShape'
  BY HubAssumption DEF TypeInv, OpShape, RevokeShare
<1> QED BY <1>3, <1>4 DEF TypeInv

LEMMA CrashTypeInv == TypeInv /\ Crash => TypeInv'
BY DEF TypeInv, TypeOK, StoreTypeOK, OpShape, Crash, storeVars, ids, past

LEMMA StutterTypeInv == TypeInv /\ UNCHANGED vars => TypeInv'
BY DEF TypeInv, TypeOK, StoreTypeOK, OpShape, KindAndPC, vars, storeVars, ids, past

LEMMA NextTypeInv == TypeInv /\ [Next]_vars => TypeInv'
<1> SUFFICES ASSUME TypeInv, [Next]_vars PROVE TypeInv'
  OBVIOUS
<1>1. ASSUME NEW t \in Threads, Begin(t) PROVE TypeInv'
  BY <1>1, BeginSnapshotTypeInv, CommitBeginTypeInv DEF Begin, LocalBegin, PrepareBegin
<1>2. ASSUME NEW t \in Threads, Step(t) PROVE TypeInv'
  BY <1>2, LocalCopyTypeInv, LocalReuseTypeInv, LocalPublishTypeInv,
     InsertArtifactTypeInv, InsertUploadTypeInv, InsertVersionTypeInv,
     UpsertShareTypeInv, ReadBackTypeInv, InsertCommittedTypeInv, RaiseTypeInv
  DEF Step
<1>3. ASSUME NEW up \in Upls, HostCopy(up) PROVE TypeInv'
  BY <1>3, HostCopyTypeInv
<1>4. ASSUME NEW tok \in Toks, NEW u \in Users, RevokeShare(tok, u) PROVE TypeInv'
  BY <1>4, RevokeShareTypeInv
<1> QED BY <1>1, <1>2, <1>3, <1>4, CrashTypeInv, StutterTypeInv DEF Next

\* Every variable of the Hub keeps its type; at most the thread that holds the
\* operation lock is in an operation, and its local variables are set when the
\* calls that use them are reached.
THEOREM TypeInvariant == Spec => []TypeInv
BY InitTypeInv, NextTypeInv, PTL DEF Spec

\* The Hub's tables, files, lock and operations keep their types.
THEOREM TypeCorrect == Spec => []TypeOK
<1>1. TypeInv => TypeOK
  BY DEF TypeInv
<1> QED BY <1>1, TypeInvariant, PTL

-----------------------------------------------------------------------------
(***************************************************************************)
(* What ends an operation: the lock is only ever held by a thread that is  *)
(* in one, and each of its calls leads on to a later one or to its end,    *)
(* where it lets go of the lock.                                           *)
(***************************************************************************)
HolderRuns == lock # NoThread => lock \in Threads /\ op[lock] # Idle

CallsLeft(p) ==
  CASE p = "copy" -> 7 [] p = "inspect" -> 6 [] p = "artifact" -> 5
    [] p \in {"version", "upload"} -> 4 [] p = "share" -> 3
    [] p = "readback" -> 2 [] p = "mark" -> 1

OperationsGoOn ==
  \A t \in Threads : op[t] # Idle =>
    /\ op'[t] # op[t] =>
         IF op'[t] = Idle THEN lock' = NoThread
         ELSE lock' = t /\ CallsLeft(op'[t].pc) < CallsLeft(op[t].pc)
    /\ Step(t) => op'[t] # op[t]

LEMMA CommitBeginRuns ==
  ASSUME TypeInv, NEW t \in Threads, NEW up \in Upls, NEW u \in Users, CommitBegin(t, up, u)
  PROVE  lock' = t /\ op'[t] # Idle
<1> DEFINE k == uploads[up].key
           o == [kind |-> "commit", pc |-> "version", user |-> u,
                 source |-> artifacts[k[1]].source, isNew |-> FALSE,
                 key |-> k, row |-> k, bytes |-> files[k], upload |-> up, token |-> 0]
<1>1. k \in Keys /\ k[1] \in Arts /\ artifacts[k[1]] # NoRow
  BY DEF CommitBegin, CommitAccepts, TypeInv, TypeOK, StoreTypeOK, UploadRow, Keys
<1>2. artifacts[k[1]].source \in Sources /\ files[k] \in Contents \cup {NoFile}
  BY <1>1 DEF TypeInv, TypeOK, StoreTypeOK, ArtifactRow
<1>3. o \in OpRec
  BY <1>1, <1>2 DEF OpRec, PCs
<1>4. lock' = t /\ op' = [op EXCEPT ![t] = o]
  BY DEF CommitBegin, Acquire
<1> HIDE DEF o
<1> QED BY <1>3, <1>4, HubAssumption DEF TypeInv, TypeOK

\* What a call does to the operation of its thread.
LEMMA StepForms ==
  ASSUME TypeInv, NEW t \in Threads, Step(t)
  PROVE  /\ op[t] # Idle /\ op[t] \in OpRec /\ lock = t
         /\ \A r \in Threads : r # t => op[r] = Idle /\ op'[r] = Idle
         /\ \/ op'[t] = Idle /\ lock' = NoThread
            \/ /\ op'[t] \in OpRec /\ lock' = t
               /\ CallsLeft(op'[t].pc) < CallsLeft(op[t].pc)
<1>1. op[t] # Idle
  BY DEF Step, LocalCopy, LocalReuse, LocalPublish, InsertArtifact, InsertUpload, InsertVersion,
     UpsertShare, ReadBack, InsertCommitted, Raise, At
<1>2. /\ op[t] \in OpRec /\ lock = t /\ op \in [Threads -> OpRec \cup {Idle}]
      /\ \A r \in Threads : r # t => op[r] = Idle
  BY <1>1, Running DEF TypeInv, TypeOK
<1>3. CASE InsertUpload(t) \/ InsertCommitted(t) \/ Raise(t) \/ (ReadBack(t) /\ op[t].kind = "local")
  BY <1>1, <1>2, <1>3 DEF InsertUpload, InsertCommitted, Raise, ReadBack, Release, Unwind
<1>4. CASE \/ LocalCopy(t) \/ LocalReuse(t) \/ LocalPublish(t) \/ InsertArtifact(t)
           \/ InsertVersion(t) \/ UpsertShare(t) \/ (ReadBack(t) /\ op[t].kind # "local")
  <2> DEFINE Moved(p, o) ==
        /\ op' = [op EXCEPT ![t] = o] /\ lock' = lock
        /\ o \in OpRec /\ o.pc = p /\ CallsLeft(p) < CallsLeft(op[t].pc)
  <2>1. files \in [Keys -> Contents \cup {NoFile}] /\ op[t].key \in Keys
    BY <1>2 DEF OpRec, TypeInv, TypeOK, StoreTypeOK
  <2>2. \E p, o : Moved(p, o)
    <3>1. CASE LocalCopy(t)
      <4>1. [op[t] EXCEPT !.pc = "inspect"] \in OpRec
        BY <1>2 DEF OpRec, PCs
      <4>2. Moved("inspect", [op[t] EXCEPT !.pc = "inspect"])
        BY <1>2, <3>1, <4>1 DEF LocalCopy, At, Goto, CallsLeft, OpRec
      <4> QED BY <4>2
    <3>2. CASE LocalReuse(t)
      <4>1. PICK n \in Vers :
              op' = [op EXCEPT ![t].pc = "share", ![t].bytes = files[op[t].key],
                               ![t].row = <<op[t].key[1], n>>]
        BY <3>2 DEF LocalReuse
      <4> DEFINE o == [op[t] EXCEPT !.pc = "share", !.bytes = files[op[t].key],
                                    !.row = <<op[t].key[1], n>>]
      <4>2. o \in OpRec /\ o.pc = "share"
        BY <1>2, <2>1 DEF OpRec, PCs, Keys
      <4>3. op' = [op EXCEPT ![t] = o] /\ lock' = lock /\ op[t].pc = "inspect"
        BY <3>2, <4>1 DEF LocalReuse, At
      <4> HIDE DEF o
      <4>4. Moved("share", o)
        BY <4>2, <4>3 DEF CallsLeft
      <4> QED BY <4>4
    <3>3. CASE LocalPublish(t)
      <4>1. PICK p \in {"artifact", "version"} :
              op' = [op EXCEPT ![t].pc = p, ![t].bytes = files[op[t].key]]
        BY <3>3 DEF LocalPublish
      <4> DEFINE o == [op[t] EXCEPT !.pc = p, !.bytes = files[op[t].key]]
      <4>2. o \in OpRec /\ o.pc = p
        BY <1>2, <2>1 DEF OpRec, PCs
      <4>3. op' = [op EXCEPT ![t] = o] /\ lock' = lock /\ op[t].pc = "inspect"
        BY <3>3, <4>1 DEF LocalPublish, At
      <4> HIDE DEF o
      <4>4. Moved(p, o)
        BY <4>2, <4>3 DEF CallsLeft
      <4> QED BY <4>4
    <3>4. CASE InsertArtifact(t)
      <4>1. PICK p \in {"version", "upload"} : Goto(t, p)
        BY <3>4 DEF InsertArtifact
      <4> DEFINE o == [op[t] EXCEPT !.pc = p]
      <4>2. o \in OpRec /\ o.pc = p
        BY <1>2 DEF OpRec, PCs
      <4>3. op' = [op EXCEPT ![t] = o] /\ lock' = lock /\ op[t].pc = "artifact"
        BY <3>4, <4>1 DEF InsertArtifact, At, Goto
      <4> HIDE DEF o
      <4>4. Moved(p, o)
        BY <4>2, <4>3 DEF CallsLeft
      <4> QED BY <4>4
    <3>5. CASE InsertVersion(t)
      <4>1. [op[t] EXCEPT !.pc = "share"] \in OpRec /\ [op[t] EXCEPT !.pc = "share"].pc = "share"
        BY <1>2 DEF OpRec, PCs
      <4>2. Moved("share", [op[t] EXCEPT !.pc = "share"])
        BY <3>5, <4>1 DEF InsertVersion, At, Goto, CallsLeft
      <4> QED BY <4>2
    <3>6. CASE UpsertShare(t)
      <4>1. PICK tok \in Toks : op' = [op EXCEPT ![t].pc = "readback", ![t].token = tok]
        <5> DEFINE k == op[t].row
                   tok == IF KeepsToken(k) THEN shares[k].token ELSE nextTok
        <5>1. /\ k \in Keys /\ nextTok \in 1..(MaxTok + 1) /\ tok <= MaxTok
              /\ op' = [op EXCEPT ![t].pc = "readback", ![t].token = tok]
          BY <1>2, <3>6 DEF OpRec, TypeInv, TypeOK, UpsertShare
        <5>2. tok \in Toks
          <6>1. CASE KeepsToken(k)
            BY <5>1, <6>1 DEF KeepsToken, TypeInv, TypeOK, StoreTypeOK, ShareRow
          <6>2. CASE ~KeepsToken(k)
            BY <5>1, <6>2, StoreAssumption DEF Toks
          <6> QED BY <6>1, <6>2
        <5> HIDE DEF tok
        <5> QED BY <5>1, <5>2
      <4> DEFINE o == [op[t] EXCEPT !.pc = "readback", !.token = tok]
      <4>2. o \in OpRec /\ o.pc = "readback"
        BY <1>2 DEF OpRec, PCs
      <4>3. op' = [op EXCEPT ![t] = o] /\ lock' = lock /\ op[t].pc = "share"
        BY <3>6, <4>1 DEF UpsertShare, At
      <4> HIDE DEF o
      <4>4. Moved("readback", o)
        BY <4>2, <4>3 DEF CallsLeft
      <4> QED BY <4>4
    <3>7. CASE ReadBack(t) /\ op[t].kind # "local"
      <4>1. [op[t] EXCEPT !.pc = "mark"] \in OpRec /\ [op[t] EXCEPT !.pc = "mark"].pc = "mark"
        BY <1>2 DEF OpRec, PCs
      <4>2. Moved("mark", [op[t] EXCEPT !.pc = "mark"])
        BY <3>7, <4>1 DEF ReadBack, At, Goto, CallsLeft
      <4> QED BY <4>2
    <3> QED BY <1>4, <3>1, <3>2, <3>3, <3>4, <3>5, <3>6, <3>7
  <2>3. PICK p, o : Moved(p, o)
    BY <2>2
  <2>4. op'[t] = o /\ \A r \in Threads : r # t => op'[r] = op[r]
    BY <1>2, <2>3
  <2> QED BY <1>1, <1>2, <2>3, <2>4
<1> QED BY <1>3, <1>4 DEF Step

LEMMA NextHolder == TypeInv /\ HolderRuns /\ [Next]_vars => HolderRuns' /\ [OperationsGoOn]_vars
<1> SUFFICES ASSUME TypeInv, HolderRuns, [Next]_vars PROVE HolderRuns' /\ [OperationsGoOn]_vars
  OBVIOUS
<1>1. ASSUME NEW t \in Threads, Begin(t) PROVE HolderRuns' /\ OperationsGoOn
  <2>1. lock = NoThread
    BY <1>1 DEF Begin, LocalBegin, PrepareBegin, BeginSnapshot, CommitBegin, Acquire
  <2>2. \A r \in Threads : op[r] = Idle
    BY <2>1, Running, HubAssumption
  <2>3. lock' = t /\ op'[t] # Idle
    BY <1>1, BeginFacts, CommitBeginRuns, HubAssumption DEF Begin, LocalBegin, PrepareBegin
  <2> QED BY <2>2, <2>3 DEF HolderRuns, OperationsGoOn
<1>2. ASSUME NEW t \in Threads, Step(t) PROVE HolderRuns' /\ OperationsGoOn
  <2>1. HolderRuns'
    BY <1>2, StepForms, HubAssumption DEF HolderRuns
  <2>2. ASSUME NEW r \in Threads, op[r] # Idle PROVE r = t
    BY <1>2, <2>2, StepForms
  <2>3. /\ op'[t] # op[t]
        /\ IF op'[t] = Idle THEN lock' = NoThread
           ELSE lock' = t /\ CallsLeft(op'[t].pc) < CallsLeft(op[t].pc)
    <3>1. CASE op'[t] = Idle /\ lock' = NoThread
      BY <1>2, <3>1, StepForms
    <3>2. CASE /\ op'[t] \in OpRec /\ lock' = t
               /\ CallsLeft(op'[t].pc) < CallsLeft(op[t].pc)
      <4>1. op[t] \in OpRec
        BY <1>2, StepForms
      <4>2. CallsLeft(op[t].pc) \in Nat
        BY <4>1 DEF OpRec, PCs, CallsLeft
      <4>3. op'[t] # op[t]
        BY <3>2, <4>2
      <4> QED BY <3>2, <4>3, HubAssumption
    <3> QED BY <1>2, <3>1, <3>2, StepForms
  <2> QED BY <2>1, <2>2, <2>3 DEF OperationsGoOn
<1>3. ASSUME UNCHANGED <<lock, op>> PROVE HolderRuns' /\ OperationsGoOn
  <2>1. ASSUME NEW t \in Threads, op[t] # Idle PROVE ~Step(t)
    <3>1. ASSUME Step(t) PROVE FALSE
      BY <1>2, <1>3, <2>1, <3>1 DEF OperationsGoOn
    <3> QED BY <3>1
  <2> QED BY <1>3, <2>1 DEF HolderRuns, OperationsGoOn
<1>4. CASE Crash
  <2>1. lock' = NoThread /\ \A r \in Threads : op'[r] = Idle
    BY <1>4 DEF Crash
  <2>2. OperationsGoOn
    BY <2>1 DEF OperationsGoOn
  <2> QED BY <2>1, <2>2 DEF HolderRuns
<1>5. CASE \E up \in Upls : HostCopy(up)
  BY <1>3, <1>5 DEF HostCopy
<1>6. CASE \E tok \in Toks, u \in Users : RevokeShare(tok, u)
  BY <1>3, <1>6 DEF RevokeShare
<1>7. CASE UNCHANGED vars
  BY <1>3, <1>7 DEF vars
<1> QED BY <1>1, <1>2, <1>4, <1>5, <1>6, <1>7 DEF Next

\* Whoever holds the lock is in an operation, and each call of it leads to a later
\* one or lets go of the lock: after seven calls at most the lock is free, also when
\* one of them raises (_serialized).
THEOREM OperationsComeToAnEnd == Spec => []HolderRuns /\ [][OperationsGoOn]_vars
<1>1. Init => HolderRuns
  BY DEF Init, HolderRuns
<1> QED BY <1>1, NextHolder, TypeInvariant, PTL DEF Spec

-----------------------------------------------------------------------------
(***************************************************************************)
(* Artifact identity.  Rows refer to stored artifacts, whose identifiers   *)
(* were issued; an operation that creates an artifact found none for its   *)
(* Session File, and holds the lock until it has stored it.                *)
(***************************************************************************)
IdentityInv ==
  /\ OneArtifactPerSource
  /\ \A a \in Arts : artifacts[a] # NoRow => a < nextArt
  /\ \A k \in Keys : versions[k] # NoRow => artifacts[k[1]] # NoRow
  /\ \A up \in Upls : uploads[up] # NoRow =>
       /\ up < nextUpl
       /\ artifacts[uploads[up].key[1]] # NoRow
       /\ artifacts[uploads[up].key[1]].creator = uploads[up].creator
  /\ \A t \in Threads : op[t] # Idle =>
       /\ op[t].row[1] = op[t].key[1]
       /\ op[t].key[1] < nextArt
       /\ IF Unstored(op[t])
          THEN /\ artifacts[op[t].key[1]] = NoRow
               /\ \A a \in Arts : artifacts[a] # ArtifactOf(op[t])
          ELSE artifacts[op[t].key[1]] = ArtifactOf(op[t])

(***************************************************************************)
(* Reservation.  The key of a share or a preparation in progress is free:  *)
(* no upload has it, and no version until this operation stores it.        *)
(***************************************************************************)
OpReserved(o) ==
  /\ o.kind # "commit" =>
       \A up \in Upls : uploads[up] # NoRow => uploads[up].key # o.key
  /\ o.kind # "commit" /\ o.pc \notin {"share", "readback"} => versions[o.key] = NoRow
  /\ o.kind = "local" /\ versions[o.key] # NoRow => versions[o.key].mode = "LOCAL"
  /\ o.kind = "commit" => o.key = uploads[o.upload].key /\ sent[o.upload] # NoFile
  /\ o.kind = "commit" \/ o.pc \notin {"share", "readback"} => o.row = o.key
  /\ o.pc \in {"share", "readback", "mark"} => versions[o.row] # NoRow

ReservationInv ==
  /\ VersionReserved
  /\ \A up \in Upls : uploads[up] # NoRow =>
       /\ uploads[up].state = "COMMITTED" => versions[uploads[up].key] # NoRow
       /\ versions[uploads[up].key] # NoRow => sent[up] # NoFile
  /\ \A up \in Upls : sent[up] # NoFile => uploads[up] # NoRow
  /\ \A t \in Threads : op[t] # Idle => OpReserved(op[t])

LEMMA InitIdentityInv == Init => IdentityInv
BY StoreAssumption DEF Init, StoreInit, IdentityInv, OneArtifactPerSource, Keys, Arts, Upls

LEMMA BeginIdentity ==
  ASSUME TypeInv, IdentityInv, NEW t \in Threads, NEW u \in Users, NEW s \in Sources,
         NEW kind \in {"local", "prepare"}, BeginSnapshot(t, u, s, kind)
  PROVE  IdentityInv'
<1>1. /\ \A r \in Threads : r # t => op'[r] = Idle
      /\ op'[t] \in OpRec
      /\ kind = "local" => op'[t].pc = "copy"
      /\ kind = "prepare" => op'[t].pc = IF op'[t].isNew THEN "artifact" ELSE "upload"
      /\ op'[t].row = op'[t].key
      /\ UNCHANGED <<storeVars, nextUpl, nextTok, sent, past>>
      /\ IF op'[t].isNew
         THEN /\ op'[t].key[1] = nextArt /\ nextArt' = nextArt + 1
              /\ \A b \in Arts : artifacts[b] # ArtifactOf(op'[t])
         ELSE /\ artifacts[op'[t].key[1]] = ArtifactOf(op'[t])
              /\ nextArt' = nextArt
  BY BeginFacts
<1>2. op'[t].key[1] \in Arts /\ nextArt \in Nat
  BY <1>1, StoreAssumption DEF OpRec, Keys, TypeInv, TypeOK
<1>3. \A a \in Arts : artifacts[a] # NoRow => a < nextArt
  BY DEF IdentityInv
<1>4. op'[t].key[1] < nextArt' /\ nextArt <= nextArt'
  <2>1. CASE op'[t].isNew
    BY <1>1, <1>2, <2>1
  <2>2. CASE ~op'[t].isNew
    <3>1. artifacts[op'[t].key[1]] # NoRow
      BY <1>1, <1>2, <2>2, StoreAssumption DEF TypeInv, TypeOK, StoreTypeOK, ArtifactOf, ArtifactRow, OpRec
    <3> QED BY <1>1, <1>2, <1>3, <2>2, <3>1
  <2> QED BY <2>1, <2>2
<1>5. IF Unstored(op'[t])
      THEN /\ artifacts[op'[t].key[1]] = NoRow
           /\ \A a \in Arts : artifacts[a] # ArtifactOf(op'[t])
      ELSE artifacts[op'[t].key[1]] = ArtifactOf(op'[t])
  <2>1. Unstored(op'[t]) <=> op'[t].isNew
    BY <1>1 DEF Unstored
  <2>2. op'[t].isNew => artifacts[op'[t].key[1]] = NoRow
    BY <1>1, <1>2, <1>3
  <2> QED BY <1>1, <2>1, <2>2
<1>6. /\ artifacts' = artifacts /\ versions' = versions /\ uploads' = uploads
      /\ nextUpl' = nextUpl
  BY <1>1 DEF storeVars
<1>7. \A r \in Threads : op'[r] # Idle =>
        /\ op'[r].row[1] = op'[r].key[1]
        /\ op'[r].key[1] < nextArt'
        /\ IF Unstored(op'[r])
           THEN /\ artifacts[op'[r].key[1]] = NoRow
                /\ \A a \in Arts : artifacts[a] # ArtifactOf(op'[r])
           ELSE artifacts[op'[r].key[1]] = ArtifactOf(op'[r])
  BY <1>1, <1>4, <1>5
<1>8. \A a \in Arts : artifacts[a] # NoRow => a < nextArt'
  BY <1>2, <1>3, <1>4, <1>1 DEF Arts
<1> QED BY <1>6, <1>7, <1>8 DEF IdentityInv, OneArtifactPerSource

LEMMA CommitBeginIdentity ==
  ASSUME TypeInv, IdentityInv, NEW t \in Threads, NEW up \in Upls, NEW u \in Users,
         CommitBegin(t, up, u)
  PROVE  IdentityInv'
<1> DEFINE k == uploads[up].key
<1> DEFINE o == [kind |-> "commit", pc |-> "version", user |-> u,
                 source |-> artifacts[k[1]].source, isNew |-> FALSE,
                 key |-> k, row |-> k, bytes |-> files[k],
                 upload |-> up, token |-> 0]
<1>1. /\ uploads[up] # NoRow /\ uploads[up].creator = u
      /\ lock = NoThread /\ lock' = t
      /\ op' = [op EXCEPT ![t] = o]
      /\ UNCHANGED <<storeVars, ids, sent, past>>
  BY DEF CommitBegin, CommitAccepts, Acquire
<1>2. \A r \in Threads : op[r] = Idle
  BY <1>1, HubAssumption DEF TypeInv, OpShape
<1>3. k \in Keys /\ k[1] \in Arts
  BY <1>1 DEF TypeInv, TypeOK, StoreTypeOK, UploadRow, Keys
<1>4. /\ artifacts[k[1]] \in ArtifactRow
      /\ artifacts[k[1]].creator = u
      /\ k[1] < nextArt
  BY <1>1, <1>3 DEF IdentityInv, TypeInv, TypeOK, StoreTypeOK
<1>5. artifacts[k[1]] = [source |-> artifacts[k[1]].source, creator |-> u]
  BY <1>4 DEF ArtifactRow
<1>6. /\ o.row[1] = o.key[1] /\ o.key[1] = k[1]
      /\ ~Unstored(o)
      /\ artifacts[k[1]] = ArtifactOf(o)
  BY <1>5 DEF Unstored, ArtifactOf
<1> HIDE DEF o
<1>7. op'[t] = o /\ \A r \in Threads : r # t => op'[r] = Idle
  BY <1>1, <1>2 DEF TypeInv, TypeOK
<1>8. \A r \in Threads : op'[r] # Idle =>
        /\ op'[r].row[1] = op'[r].key[1]
        /\ op'[r].key[1] < nextArt
        /\ ~Unstored(op'[r]) /\ artifacts[op'[r].key[1]] = ArtifactOf(op'[r])
  BY <1>4, <1>6, <1>7
<1> QED BY <1>1, <1>8 DEF IdentityInv, OneArtifactPerSource, storeVars, ids

\* A step inside an operation that stores no artifact, version or upload and
\* does not make the operation another one.
LEMMA InsideIdentity ==
  ASSUME TypeInv, IdentityInv, NEW t \in Threads,
         UNCHANGED <<artifacts, versions, uploads, nextArt, nextUpl>>,
         op[t] # Idle,
         op' = [op EXCEPT ![t] = Idle] \/
           /\ \A r \in Threads : r # t => op'[r] = op[r]
           /\ op'[t].row[1] = op[t].row[1] /\ op'[t].key = op[t].key
           /\ op'[t].source = op[t].source /\ op'[t].user = op[t].user
           /\ Unstored(op'[t]) <=> Unstored(op[t])
  PROVE  IdentityInv'
<1>1. \A r \in Threads : op'[r] # Idle =>
        /\ op[r] # Idle
        /\ op'[r].row[1] = op[r].row[1] /\ op'[r].key = op[r].key
        /\ ArtifactOf(op'[r]) = ArtifactOf(op[r])
        /\ Unstored(op'[r]) <=> Unstored(op[r])
  BY DEF TypeInv, TypeOK, ArtifactOf
<1>2. \A r \in Threads : op'[r] # Idle =>
        /\ op'[r].row[1] = op'[r].key[1]
        /\ op'[r].key[1] < nextArt
        /\ IF Unstored(op'[r])
           THEN /\ artifacts[op'[r].key[1]] = NoRow
                /\ \A a \in Arts : artifacts[a] # ArtifactOf(op'[r])
           ELSE artifacts[op'[r].key[1]] = ArtifactOf(op'[r])
  BY <1>1 DEF IdentityInv
<1> QED BY <1>2 DEF IdentityInv, OneArtifactPerSource

LEMMA InsertArtifactIdentity ==
  ASSUME TypeInv, IdentityInv, NEW t \in Threads, InsertArtifact(t)
  PROVE  IdentityInv'
<1> DEFINE a == op[t].key[1]
<1>1. /\ op[t] \in OpRec
      /\ \A r \in Threads : r # t => op[r] = Idle
      /\ op[t] # Idle /\ Unstored(op[t])
  BY Running DEF InsertArtifact, At, TypeInv, OpShape, Unstored
<1>2. PICK p \in {"version", "upload"} : op' = [op EXCEPT ![t].pc = p]
  BY DEF InsertArtifact, Goto
<1>3. artifacts' = [artifacts EXCEPT ![a] = ArtifactOf(op[t])]
  BY DEF InsertArtifact, CreateArtifact, ArtifactOf
<1>4. /\ op'[t].row = op[t].row /\ op'[t].key = op[t].key
      /\ ArtifactOf(op'[t]) = ArtifactOf(op[t])
      /\ ~Unstored(op'[t])
      /\ \A r \in Threads : r # t => op'[r] = Idle
  BY <1>1, <1>2 DEF TypeInv, TypeOK, OpRec, ArtifactOf, Unstored
<1>5. a \in Arts /\ ArtifactOf(op[t]) \in ArtifactRow
  BY <1>1 DEF OpRec, Keys, ArtifactOf, ArtifactRow
<1>6. /\ artifacts'[a] = ArtifactOf(op[t])
      /\ artifacts'[a] # NoRow
      /\ \A b \in Arts : b # a => artifacts'[b] = artifacts[b]
  BY <1>3, <1>5, StoreAssumption DEF TypeInv, TypeOK, StoreTypeOK
<1>7. /\ artifacts[a] = NoRow
      /\ \A b \in Arts : artifacts[b] # ArtifactOf(op[t])
      /\ a < nextArt /\ op[t].row[1] = a
  BY <1>1 DEF IdentityInv
<1>8. OneArtifactPerSource'
  BY <1>6, <1>7 DEF IdentityInv, OneArtifactPerSource
<1>9. /\ \A b \in Arts : artifacts[b] # NoRow => artifacts'[b] = artifacts[b]
      /\ \A b \in Arts : artifacts'[b] # NoRow => b < nextArt
  BY <1>6, <1>7 DEF IdentityInv
<1>10. /\ versions' = versions /\ uploads' = uploads
       /\ nextArt' = nextArt /\ nextUpl' = nextUpl
  BY DEF InsertArtifact, ids
<1>11. \A k \in Keys : versions[k] # NoRow => artifacts'[k[1]] # NoRow
  BY <1>9 DEF IdentityInv, Keys
<1>12. \A up \in Upls : uploads[up] # NoRow =>
         /\ up < nextUpl
         /\ artifacts'[uploads[up].key[1]] # NoRow
         /\ artifacts'[uploads[up].key[1]].creator = uploads[up].creator
  <2>1. \A up \in Upls : uploads[up] # NoRow => uploads[up].key[1] \in Arts
    BY DEF TypeInv, TypeOK, StoreTypeOK, UploadRow, Keys
  <2> QED BY <1>9, <2>1 DEF IdentityInv
<1>13. \A r \in Threads : op'[r] # Idle =>
         /\ op'[r].row[1] = op'[r].key[1]
         /\ op'[r].key[1] < nextArt
         /\ ~Unstored(op'[r])
         /\ artifacts'[op'[r].key[1]] = ArtifactOf(op'[r])
  BY <1>4, <1>6, <1>7
<1> QED BY <1>8, <1>9, <1>10, <1>11, <1>12, <1>13 DEF IdentityInv

LEMMA InsertVersionIdentity ==
  ASSUME TypeInv, IdentityInv, NEW t \in Threads, InsertVersion(t)
  PROVE  IdentityInv'
<1>1. /\ op[t] \in OpRec
      /\ \A r \in Threads : r # t => op[r] = Idle
      /\ op[t] # Idle /\ op[t].pc = "version"
  BY Running DEF InsertVersion, At
<1>2. op' = [op EXCEPT ![t].pc = "share"]
  BY DEF InsertVersion, Goto
<1>3. /\ \A r \in Threads : op'[r] # Idle => r = t
      /\ op'[t].row = op[t].row /\ op'[t].key = op[t].key
      /\ ArtifactOf(op'[t]) = ArtifactOf(op[t])
      /\ ~Unstored(op'[t]) /\ ~Unstored(op[t])
  BY <1>1, <1>2 DEF TypeInv, TypeOK, OpRec, ArtifactOf, Unstored
<1>4. /\ artifacts[op[t].key[1]] = ArtifactOf(op[t])
      /\ op[t].row[1] = op[t].key[1] /\ op[t].key[1] < nextArt
  BY <1>1, <1>3 DEF IdentityInv
<1>5. /\ \A k \in Keys : k # op[t].row => versions'[k] = versions[k]
      /\ artifacts' = artifacts /\ uploads' = uploads
      /\ nextArt' = nextArt /\ nextUpl' = nextUpl
  BY DEF InsertVersion, CreateVersion, TypeInv, TypeOK, StoreTypeOK, ids
<1>6. artifacts[op[t].row[1]] # NoRow
  <2>1. ArtifactOf(op[t]) \in ArtifactRow
    BY <1>1 DEF OpRec, ArtifactOf, ArtifactRow
  <2> QED BY <1>4, <2>1, StoreAssumption
<1>7. \A k \in Keys : versions'[k] # NoRow => artifacts[k[1]] # NoRow
  BY <1>5, <1>6 DEF IdentityInv
<1> QED BY <1>3, <1>4, <1>5, <1>7 DEF IdentityInv, OneArtifactPerSource

LEMMA InsertUploadIdentity ==
  ASSUME TypeInv, IdentityInv, NEW t \in Threads, InsertUpload(t)
  PROVE  IdentityInv'
<1>1. /\ op[t] \in OpRec
      /\ \A r \in Threads : r # t => op[r] = Idle
      /\ op[t] # Idle /\ op[t].pc = "upload"
  BY Running DEF InsertUpload, At
<1>2. \A r \in Threads : op'[r] = Idle
  BY <1>1 DEF InsertUpload, Release, TypeInv, TypeOK
<1>3. artifacts[op[t].key[1]] = ArtifactOf(op[t])
  BY <1>1 DEF IdentityInv, Unstored
<1>4. ArtifactOf(op[t]) # NoRow /\ ArtifactOf(op[t]).creator = op[t].user
  <2>1. ArtifactOf(op[t]) \in ArtifactRow
    BY <1>1 DEF OpRec, ArtifactOf, ArtifactRow
  <2> QED BY <2>1, StoreAssumption DEF ArtifactOf
<1>5. /\ nextUpl \in Upls /\ nextUpl' = nextUpl + 1
      /\ uploads' = [uploads EXCEPT ![nextUpl] =
           [key |-> op[t].key, creator |-> op[t].user, state |-> "PREPARED"]]
      /\ UNCHANGED <<artifacts, versions, nextArt>>
  BY StoreAssumption DEF InsertUpload, CreateUpload, TypeInv, TypeOK, Upls
<1>6. \A up \in Upls : uploads'[up] # NoRow =>
        /\ up < nextUpl'
        /\ artifacts[uploads'[up].key[1]] # NoRow
        /\ artifacts[uploads'[up].key[1]].creator = uploads'[up].creator
  <2> TAKE up \in Upls
  <2>1. CASE up = nextUpl
    <3>1. uploads'[up] = [key |-> op[t].key, creator |-> op[t].user, state |-> "PREPARED"]
      BY <1>5, <2>1 DEF TypeInv, TypeOK, StoreTypeOK
    <3> QED BY <1>3, <1>4, <1>5, <2>1, <3>1 DEF Upls
  <2>2. CASE up # nextUpl
    <3>1. uploads'[up] = uploads[up]
      BY <1>5, <2>2 DEF TypeInv, TypeOK, StoreTypeOK
    <3> QED BY <1>5, <3>1 DEF IdentityInv, Upls
  <2> QED BY <2>1, <2>2
<1> QED BY <1>2, <1>5, <1>6 DEF IdentityInv, OneArtifactPerSource

LEMMA InsertCommittedIdentity ==
  ASSUME TypeInv, IdentityInv, NEW t \in Threads, InsertCommitted(t)
  PROVE  IdentityInv'
<1>1. /\ \A r \in Threads : r # t => op[r] = Idle
      /\ op[t] # Idle
  BY Running DEF InsertCommitted, At
<1>2. \A r \in Threads : op'[r] = Idle
  BY <1>1 DEF InsertCommitted, Release, TypeInv, TypeOK
<1>3. /\ uploads' = [uploads EXCEPT ![op[t].upload].state = "COMMITTED"]
      /\ UNCHANGED <<artifacts, versions, ids>>
  BY DEF InsertCommitted, MarkUploadCommitted
<1>4. uploads[op[t].upload] \in UploadRow /\ op[t].upload \in Upls
  BY <1>1 DEF InsertCommitted, At, TypeInv, TypeOK, StoreTypeOK, OpShape, KindAndPC, OpRec
<1>5. \A up \in Upls : uploads'[up] # NoRow =>
        /\ uploads[up] # NoRow
        /\ uploads'[up].key = uploads[up].key
        /\ uploads'[up].creator = uploads[up].creator
  BY <1>3, <1>4, StoreAssumption DEF TypeInv, TypeOK, StoreTypeOK, UploadRow
<1> QED BY <1>2, <1>3, <1>5 DEF IdentityInv, OneArtifactPerSource, ids

LEMMA StepIdentity ==
  ASSUME TypeInv, IdentityInv, NEW t \in Threads, Step(t)
  PROVE  IdentityInv'
<1>1. CASE LocalCopy(t)
  <2>1. op[t] \in OpRec /\ op[t] # Idle /\ op[t].pc = "copy"
    BY <1>1, Running DEF LocalCopy, At
  <2> QED BY <1>1, <2>1, InsideIdentity
          DEF LocalCopy, Goto, ids, TypeInv, TypeOK, OpRec, Unstored
<1>2. CASE LocalReuse(t)
  <2>1. op[t] \in OpRec /\ op[t] # Idle /\ ~op[t].isNew
    BY <1>2, Running DEF LocalReuse, At
  <2>2. PICK n \in Vers :
          op' = [op EXCEPT ![t].pc = "share", ![t].bytes = files[op[t].key],
                           ![t].row = <<op[t].key[1], n>>]
    BY <1>2 DEF LocalReuse
  <2>3. /\ op'[t].row = <<op[t].key[1], n>> /\ op'[t].key = op[t].key
        /\ op'[t].source = op[t].source /\ op'[t].user = op[t].user
        /\ op'[t].isNew = op[t].isNew
        /\ \A r \in Threads : r # t => op'[r] = op[r]
    BY <2>1, <2>2 DEF TypeInv, TypeOK, OpRec
  <2>4. op'[t].row[1] = op[t].row[1]
    BY <2>1, <2>3 DEF IdentityInv
  <2>5. Unstored(op'[t]) <=> Unstored(op[t])
    BY <2>1, <2>3 DEF Unstored
  <2>6. UNCHANGED <<artifacts, versions, uploads, nextArt, nextUpl>>
    BY <1>2 DEF LocalReuse, ids
  <2> QED BY <2>1, <2>3, <2>4, <2>5, <2>6, InsideIdentity
<1>3. CASE LocalPublish(t)
  <2>1. op[t] \in OpRec /\ op[t] # Idle /\ op[t].pc = "inspect"
    BY <1>3, Running DEF LocalPublish, At
  <2>2. /\ op'[t].row = op[t].row /\ op'[t].key = op[t].key
        /\ op'[t].source = op[t].source /\ op'[t].user = op[t].user
        /\ op'[t].isNew = op[t].isNew
        /\ op'[t].pc = IF op[t].isNew THEN "artifact" ELSE "version"
        /\ \A r \in Threads : r # t => op'[r] = op[r]
    BY <1>3, <2>1 DEF LocalPublish, TypeInv, TypeOK, OpRec
  <2>3. Unstored(op'[t]) <=> Unstored(op[t])
    BY <2>1, <2>2 DEF Unstored
  <2>4. UNCHANGED <<artifacts, versions, uploads, nextArt, nextUpl>>
    BY <1>3 DEF LocalPublish, storeVars, ids
  <2> QED BY <2>1, <2>2, <2>3, <2>4, InsideIdentity
<1>4. CASE UpsertShare(t)
  <2>1. op[t] \in OpRec /\ op[t] # Idle /\ op[t].pc = "share"
    BY <1>4, Running DEF UpsertShare, At
  <2>2. PICK tok : op' = [op EXCEPT ![t].pc = "readback", ![t].token = tok]
    BY <1>4 DEF UpsertShare
  <2>3. /\ op'[t].row = op[t].row /\ op'[t].key = op[t].key
        /\ op'[t].source = op[t].source /\ op'[t].user = op[t].user
        /\ op'[t].pc = "readback"
        /\ \A r \in Threads : r # t => op'[r] = op[r]
    BY <2>1, <2>2 DEF TypeInv, TypeOK, OpRec
  <2>4. ~Unstored(op'[t]) /\ ~Unstored(op[t])
    BY <2>1, <2>3 DEF Unstored
  <2>5. UNCHANGED <<artifacts, versions, uploads, nextArt, nextUpl>>
    BY <1>4 DEF UpsertShare
  <2> QED BY <2>1, <2>3, <2>4, <2>5, InsideIdentity
<1>5. CASE ReadBack(t)
  <2>1. op[t] \in OpRec /\ op[t] # Idle /\ op[t].pc = "readback"
    BY <1>5, Running DEF ReadBack, At
  <2>2. UNCHANGED <<artifacts, versions, uploads, nextArt, nextUpl>>
    BY <1>5 DEF ReadBack, storeVars, ids
  <2>3. op' = [op EXCEPT ![t] = Idle] \/ op' = [op EXCEPT ![t].pc = "mark"]
    BY <1>5 DEF ReadBack, Release, Goto
  <2> QED BY <2>1, <2>2, <2>3, InsideIdentity
          DEF TypeInv, TypeOK, OpRec, Unstored
<1>6. CASE Raise(t)
  BY <1>6, InsideIdentity DEF Raise, Unwind, Release, ids
<1> QED
  BY <1>1, <1>2, <1>3, <1>4, <1>5, <1>6, InsertArtifactIdentity, InsertUploadIdentity,
     InsertVersionIdentity, InsertCommittedIdentity
  DEF Step

LEMMA NextIdentity == TypeInv /\ IdentityInv /\ [Next]_vars => IdentityInv'
<1> SUFFICES ASSUME TypeInv, IdentityInv, [Next]_vars PROVE IdentityInv'
  OBVIOUS
<1>1. ASSUME NEW t \in Threads, Begin(t) PROVE IdentityInv'
  BY <1>1, BeginIdentity, CommitBeginIdentity DEF Begin, LocalBegin, PrepareBegin
<1>2. ASSUME NEW t \in Threads, Step(t) PROVE IdentityInv'
  BY <1>2, StepIdentity
<1>3. CASE \/ \E up \in Upls : HostCopy(up)
           \/ \E tok \in Toks, u \in Users : RevokeShare(tok, u)
           \/ UNCHANGED vars
  <2>1. UNCHANGED <<artifacts, versions, uploads, op, nextArt, nextUpl>>
    BY <1>3 DEF HostCopy, RevokeShare, vars, storeVars, ids
  <2> QED BY <2>1 DEF IdentityInv, OneArtifactPerSource, Unstored, ArtifactOf
<1>4. CASE Crash
  BY <1>4 DEF Crash, IdentityInv, OneArtifactPerSource, storeVars, ids
<1> QED BY <1>1, <1>2, <1>3, <1>4 DEF Next

LEMMA Identity == Spec => []IdentityInv
<1>1. Init => IdentityInv
  BY InitIdentityInv
<1> QED BY <1>1, NextIdentity, TypeInvariant, PTL DEF Spec

\* However operations interleave, fail, crash and are tried again, a creator
\* has one artifact for a Session File.
THEOREM ArtifactIsUnique == Spec => []OneArtifactPerSource
<1>1. IdentityInv => OneArtifactPerSource
  BY DEF IdentityInv
<1> QED BY <1>1, Identity, PTL

-----------------------------------------------------------------------------
LEMMA InitReservationInv == Init => ReservationInv
BY StoreAssumption DEF Init, StoreInit, ReservationInv, VersionReserved, Keys, Upls

\* Nothing has the key of a share or a preparation that begins.
LEMMA BeginReservation ==
  ASSUME TypeInv, IdentityInv, ReservationInv,
         NEW t \in Threads, NEW u \in Users, NEW s \in Sources,
         NEW kind \in {"local", "prepare"}, BeginSnapshot(t, u, s, kind)
  PROVE  ReservationInv'
<1> DEFINE k == op'[t].key
<1>1. /\ \A r \in Threads : r # t => op'[r] = Idle
      /\ op'[t] \in OpRec
      /\ op'[t].kind = kind
      /\ kind = "local" => op'[t].pc = "copy"
      /\ kind = "prepare" => op'[t].pc = IF op'[t].isNew THEN "artifact" ELSE "upload"
      /\ op'[t].row = k
      /\ UNCHANGED <<storeVars, nextUpl, nextTok, sent, past>>
      /\ IF op'[t].isNew THEN k[1] = nextArt ELSE IsNextVersion(k[1], k[2])
  BY BeginFacts
<1>2. k \in Keys /\ k = <<k[1], k[2]>> /\ k[1] \in Arts /\ k[2] \in Vers
  BY <1>1 DEF OpRec, Keys
<1>3. versions[k] = NoRow /\ \A up \in Upls : uploads[up] # NoRow => uploads[up].key # k
  <2>1. CASE op'[t].isNew
    <3>1. artifacts[k[1]] = NoRow
      BY <1>1, <1>2, <2>1, StoreAssumption DEF IdentityInv, TypeInv, TypeOK, Arts
    <3> QED BY <1>2, <3>1 DEF IdentityInv
  <2>2. CASE ~op'[t].isNew
    <3>1. k[2] \notin TakenVersions(k[1])
      BY <1>1, <1>2, <2>2, StoreAssumption DEF IsNextVersion, Vers
    <3>2. versions[k] = NoRow
      BY <1>2, <3>1 DEF TakenVersions
    <3>3. \A up \in Upls : uploads[up] # NoRow /\ uploads[up].key = k
                             => uploads[up].state # "PREPARED"
      BY <1>2, <3>1 DEF TakenVersions
    <3>4. \A up \in Upls : uploads[up] # NoRow => uploads[up].state \in {"PREPARED", "COMMITTED"}
      BY DEF TypeInv, TypeOK, StoreTypeOK, UploadRow
    <3> QED BY <3>2, <3>3, <3>4 DEF ReservationInv
  <2> QED BY <2>1, <2>2
<1>4. versions' = versions /\ uploads' = uploads /\ sent' = sent
  BY <1>1 DEF storeVars
<1>5. OpReserved(op[t])'
  BY <1>1, <1>3, <1>4 DEF OpReserved
<1> QED BY <1>1, <1>4, <1>5 DEF ReservationInv, VersionReserved

LEMMA CommitBeginReservation ==
  ASSUME TypeInv, ReservationInv, NEW t \in Threads, NEW up \in Upls, NEW u \in Users,
         CommitBegin(t, up, u)
  PROVE  ReservationInv'
<1> DEFINE k == uploads[up].key
<1> DEFINE o == [kind |-> "commit", pc |-> "version", user |-> u,
                 source |-> artifacts[k[1]].source, isNew |-> FALSE,
                 key |-> k, row |-> k, bytes |-> files[k],
                 upload |-> up, token |-> 0]
<1>1. /\ uploads[up] # NoRow /\ sent[up] # NoFile
      /\ lock = NoThread
      /\ op' = [op EXCEPT ![t] = o]
      /\ UNCHANGED <<storeVars, ids, sent, past>>
  BY DEF CommitBegin, CommitAccepts, Acquire
<1>2. \A r \in Threads : op[r] = Idle
  BY <1>1, HubAssumption DEF TypeInv, OpShape
<1>3. /\ o.kind = "commit" /\ o.pc = "version" /\ o.key = k /\ o.row = k /\ o.upload = up
  OBVIOUS
<1> HIDE DEF o
<1>4. op'[t] = o /\ \A r \in Threads : r # t => op'[r] = Idle
  BY <1>1, <1>2 DEF TypeInv, TypeOK
<1>5. versions' = versions /\ uploads' = uploads /\ sent' = sent
  BY <1>1 DEF storeVars
<1>6. OpReserved(op[t])'
  BY <1>1, <1>3, <1>4, <1>5 DEF OpReserved
<1> QED BY <1>4, <1>5, <1>6 DEF ReservationInv, VersionReserved

\* A step inside an operation that changes no reservation.
LEMMA InsideReservation ==
  ASSUME ReservationInv, NEW t \in Threads,
         UNCHANGED <<versions, uploads, sent>>,
         \A r \in Threads : r # t => op'[r] = op[r] \/ op'[r] = Idle,
         op'[t] # Idle => OpReserved(op'[t])
  PROVE  ReservationInv'
BY DEF ReservationInv, VersionReserved, OpReserved

LEMMA InsertVersionReservation ==
  ASSUME TypeInv, ReservationInv, NEW t \in Threads, InsertVersion(t)
  PROVE  ReservationInv'
<1> DEFINE k == op[t].key
<1>1. /\ op[t] \in OpRec
      /\ \A r \in Threads : r # t => op[r] = Idle
      /\ op[t] # Idle /\ op[t].pc = "version"
  BY Running DEF InsertVersion, At
<1>2. OpReserved(op[t]) /\ op[t].row = k /\ k \in Keys
  BY <1>1 DEF ReservationInv, OpReserved, OpRec
<1>3. op[t].kind \in {"local", "commit"}
  BY <1>1 DEF TypeInv, OpShape, KindAndPC
<1>4. /\ op' = [op EXCEPT ![t].pc = "share"]
      /\ uploads' = uploads /\ sent' = sent
      /\ versions' = [versions EXCEPT ![k] =
           [mode |-> IF op[t].kind = "local" THEN "LOCAL" ELSE "NAS",
            checksum |-> op[t].bytes]]
  BY <1>2 DEF InsertVersion, CreateVersion, Goto
<1>5. /\ op'[t].kind = op[t].kind /\ op'[t].key = k /\ op'[t].row = k
      /\ op'[t].upload = op[t].upload /\ op'[t].pc = "share"
      /\ \A r \in Threads : r # t => op'[r] = Idle
  BY <1>1, <1>2, <1>4 DEF TypeInv, TypeOK, OpRec
<1>6. /\ versions'[k].mode = IF op[t].kind = "local" THEN "LOCAL" ELSE "NAS"
      /\ versions'[k] # NoRow
      /\ \A m \in Keys : m # k => versions'[m] = versions[m]
  <2>1. versions' \in [Keys -> VersionRow \cup {NoRow}]
    BY <1>4, InsertVersionTypeInv DEF TypeInv, TypeOK, StoreTypeOK
  <2>2. versions'[k] = [mode |-> IF op[t].kind = "local" THEN "LOCAL" ELSE "NAS",
                        checksum |-> op[t].bytes]
    BY <1>2, <1>4 DEF TypeInv, TypeOK, StoreTypeOK
  <2>3. op[t].bytes \in Contents
    BY <1>1 DEF TypeInv, OpShape, OpRec
  <2>4. versions'[k] \in VersionRow
    BY <2>2, <2>3 DEF VersionRow
  <2> QED BY <1>2, <1>4, <2>2, <2>4, StoreAssumption DEF TypeInv, TypeOK, StoreTypeOK
<1>7. OpReserved(op[t])'
  BY <1>2, <1>3, <1>4, <1>5, <1>6 DEF OpReserved
<1>8. \A up \in Upls : uploads[up] # NoRow /\ uploads[up].key = k =>
        op[t].kind = "commit" /\ up = op[t].upload /\ sent[up] # NoFile
  <2>1. CASE op[t].kind = "local"
    BY <1>2, <2>1 DEF OpReserved
  <2>2. CASE op[t].kind = "commit"
    <3>1. /\ op[t].upload \in Upls /\ uploads[op[t].upload] # NoRow
          /\ uploads[op[t].upload].key = k /\ sent[op[t].upload] # NoFile
      BY <1>1, <1>2, <2>2 DEF OpReserved, TypeInv, OpShape, OpRec
    <3> QED BY <2>2, <3>1 DEF ReservationInv, VersionReserved
  <2> QED BY <1>3, <2>1, <2>2
<1>9. \A up \in Upls : uploads[up] # NoRow => uploads[up].key \in Keys
  BY DEF TypeInv, TypeOK, StoreTypeOK, UploadRow
<1>10. VersionReserved'
  BY <1>4, <1>6, <1>8, <1>9 DEF ReservationInv, VersionReserved
<1>11. \A up \in Upls : uploads[up] # NoRow =>
         /\ uploads[up].state = "COMMITTED" => versions'[uploads[up].key] # NoRow
         /\ versions'[uploads[up].key] # NoRow => sent[up] # NoFile
  BY <1>6, <1>8, <1>9 DEF ReservationInv
<1> QED BY <1>4, <1>5, <1>7, <1>10, <1>11 DEF ReservationInv

LEMMA InsertUploadReservation ==
  ASSUME TypeInv, ReservationInv, NEW t \in Threads, InsertUpload(t)
  PROVE  ReservationInv'
<1> DEFINE k == op[t].key
<1>1. /\ op[t] \in OpRec
      /\ \A r \in Threads : r # t => op[r] = Idle
      /\ op[t] # Idle /\ op[t].pc = "upload"
  BY Running DEF InsertUpload, At
<1>2. /\ k \in Keys /\ versions[k] = NoRow
      /\ \A up \in Upls : uploads[up] # NoRow => uploads[up].key # k
  BY <1>1 DEF ReservationInv, OpReserved, OpRec, TypeInv, OpShape, KindAndPC
<1>3. \A r \in Threads : op'[r] = Idle
  BY <1>1 DEF InsertUpload, Release, TypeInv, TypeOK
<1>4. /\ nextUpl \in Upls
      /\ uploads' = [uploads EXCEPT ![nextUpl] =
           [key |-> k, creator |-> op[t].user, state |-> "PREPARED"]]
      /\ versions' = versions /\ sent' = sent
  BY StoreAssumption DEF InsertUpload, CreateUpload, TypeInv, TypeOK, Upls
<1>5. /\ uploads'[nextUpl].key = k /\ uploads'[nextUpl].state = "PREPARED"
      /\ uploads'[nextUpl] # NoRow
      /\ \A up \in Upls : up # nextUpl => uploads'[up] = uploads[up]
  <2>1. [key |-> k, creator |-> op[t].user, state |-> "PREPARED"] \in UploadRow
    BY <1>1, <1>2 DEF UploadRow, OpRec
  <2> QED BY <1>4, <2>1, StoreAssumption DEF TypeInv, TypeOK, StoreTypeOK
<1>6. VersionReserved'
  BY <1>2, <1>4, <1>5 DEF ReservationInv, VersionReserved
<1> QED BY <1>2, <1>3, <1>4, <1>5, <1>6 DEF ReservationInv

LEMMA InsertCommittedReservation ==
  ASSUME TypeInv, ReservationInv, NEW t \in Threads, InsertCommitted(t)
  PROVE  ReservationInv'
<1>1. /\ op[t] \in OpRec
      /\ \A r \in Threads : r # t => op[r] = Idle
      /\ op[t] # Idle /\ op[t].pc = "mark"
  BY Running DEF InsertCommitted, At
<1>2. \A r \in Threads : op'[r] = Idle
  BY <1>1 DEF InsertCommitted, Release, TypeInv, TypeOK
<1>3. op[t].kind = "commit"
  BY <1>1 DEF TypeInv, OpShape, KindAndPC
<1>4. op[t].upload \in Upls /\ versions[uploads[op[t].upload].key] # NoRow
  BY <1>1, <1>3 DEF ReservationInv, OpReserved, TypeInv, OpShape, OpRec
<1>5. /\ uploads' = [uploads EXCEPT ![op[t].upload].state = "COMMITTED"]
      /\ versions' = versions /\ sent' = sent
  BY DEF InsertCommitted, MarkUploadCommitted
<1>6. \A up \in Upls :
        /\ uploads'[up] # NoRow <=> uploads[up] # NoRow
        /\ uploads[up] # NoRow => uploads'[up].key = uploads[up].key
        /\ up # op[t].upload => uploads'[up] = uploads[up]
  <2>1. uploads[op[t].upload] \in UploadRow
    BY <1>1, <1>3, <1>4 DEF TypeInv, TypeOK, StoreTypeOK, OpShape
  <2>2. [uploads[op[t].upload] EXCEPT !.state = "COMMITTED"] \in UploadRow
    BY <2>1 DEF UploadRow
  <2> QED BY <1>4, <1>5, <2>1, <2>2, StoreAssumption
          DEF TypeInv, TypeOK, StoreTypeOK, UploadRow
<1>7. VersionReserved'
  BY <1>5, <1>6 DEF ReservationInv, VersionReserved
<1> QED BY <1>2, <1>4, <1>5, <1>6, <1>7 DEF ReservationInv

LEMMA StepReservation ==
  ASSUME TypeInv, ReservationInv, NEW t \in Threads, Step(t)
  PROVE  ReservationInv'
<1>1. op[t] # Idle /\ op[t] \in OpRec /\ \A r \in Threads : r # t => op[r] = Idle
  BY Running DEF Step, At, LocalCopy, LocalReuse, LocalPublish, InsertArtifact, InsertUpload,
     InsertVersion, UpsertShare, ReadBack, InsertCommitted, Raise
<1>2. OpReserved(op[t])
  BY <1>1 DEF ReservationInv
<1>3. CASE LocalCopy(t)
  <2>1. /\ op[t].pc = "copy" /\ op' = [op EXCEPT ![t].pc = "inspect"]
        /\ UNCHANGED <<versions, uploads, sent>>
    BY <1>3 DEF LocalCopy, At, Goto
  <2>2. /\ op'[t].kind = op[t].kind /\ op'[t].key = op[t].key /\ op'[t].row = op[t].row
        /\ op'[t].upload = op[t].upload /\ op'[t].pc = "inspect"
        /\ \A r \in Threads : r # t => op'[r] = op[r]
    BY <1>1, <2>1 DEF TypeInv, TypeOK, OpRec
  <2>3. OpReserved(op'[t])
    BY <1>2, <2>1, <2>2 DEF OpReserved
  <2> QED BY <2>1, <2>2, <2>3, InsideReservation
<1>4. CASE LocalReuse(t)
  <2>1. PICK n \in Vers :
          /\ SameAsLatest(op[t].key, n)
          /\ op' = [op EXCEPT ![t].pc = "share", ![t].bytes = files[op[t].key],
                              ![t].row = <<op[t].key[1], n>>]
    BY <1>4 DEF LocalReuse
  <2>2. /\ op[t].pc = "inspect" /\ op[t].kind = "local"
        /\ UNCHANGED <<versions, uploads, sent>>
    BY <1>1, <1>4 DEF LocalReuse, At, TypeInv, OpShape, KindAndPC
  <2>3. /\ op'[t].kind = "local" /\ op'[t].key = op[t].key
        /\ op'[t].row = <<op[t].key[1], n>> /\ op'[t].pc = "share"
        /\ \A r \in Threads : r # t => op'[r] = op[r]
    BY <1>1, <2>1, <2>2 DEF TypeInv, TypeOK, OpRec
  <2>4. versions[op'[t].row] # NoRow
    BY <2>1, <2>3 DEF SameAsLatest, IsLatestVersion
  <2>5. OpReserved(op'[t])
    BY <1>2, <2>2, <2>3, <2>4 DEF OpReserved
  <2> QED BY <2>2, <2>3, <2>5, InsideReservation
<1>5. CASE LocalPublish(t)
  <2>1. PICK p \in {"artifact", "version"} :
          op' = [op EXCEPT ![t].pc = p, ![t].bytes = files[op[t].key]]
    BY <1>5 DEF LocalPublish
  <2>2. op[t].pc = "inspect" /\ UNCHANGED <<versions, uploads, sent>>
    BY <1>5 DEF LocalPublish, At, storeVars
  <2>3. /\ op'[t].kind = op[t].kind /\ op'[t].key = op[t].key /\ op'[t].row = op[t].row
        /\ op'[t].upload = op[t].upload /\ op'[t].pc \in {"artifact", "version"}
        /\ \A r \in Threads : r # t => op'[r] = op[r]
    BY <1>1, <2>1 DEF TypeInv, TypeOK, OpRec
  <2>4. OpReserved(op'[t])
    BY <1>2, <2>2, <2>3 DEF OpReserved
  <2> QED BY <2>2, <2>3, <2>4, InsideReservation
<1>6. CASE InsertArtifact(t)
  <2>1. PICK p \in {"version", "upload"} : op' = [op EXCEPT ![t].pc = p]
    BY <1>6 DEF InsertArtifact, Goto
  <2>2. op[t].pc = "artifact" /\ UNCHANGED <<versions, uploads, sent>>
    BY <1>6 DEF InsertArtifact, At
  <2>3. /\ op'[t].kind = op[t].kind /\ op'[t].key = op[t].key /\ op'[t].row = op[t].row
        /\ op'[t].upload = op[t].upload /\ op'[t].pc \in {"version", "upload"}
        /\ \A r \in Threads : r # t => op'[r] = op[r]
    BY <1>1, <2>1 DEF TypeInv, TypeOK, OpRec
  <2>4. OpReserved(op'[t])
    BY <1>2, <2>2, <2>3 DEF OpReserved
  <2> QED BY <2>2, <2>3, <2>4, InsideReservation
<1>7. CASE UpsertShare(t)
  <2>1. PICK tok : op' = [op EXCEPT ![t].pc = "readback", ![t].token = tok]
    BY <1>7 DEF UpsertShare
  <2>2. op[t].pc = "share" /\ UNCHANGED <<versions, uploads, sent>>
    BY <1>7 DEF UpsertShare, At
  <2>3. /\ op'[t].kind = op[t].kind /\ op'[t].key = op[t].key /\ op'[t].row = op[t].row
        /\ op'[t].upload = op[t].upload /\ op'[t].pc = "readback"
        /\ \A r \in Threads : r # t => op'[r] = op[r]
    BY <1>1, <2>1 DEF TypeInv, TypeOK, OpRec
  <2>4. OpReserved(op'[t])
    BY <1>2, <2>2, <2>3 DEF OpReserved
  <2> QED BY <2>2, <2>3, <2>4, InsideReservation
<1>8. CASE ReadBack(t)
  <2>1. op[t].pc = "readback" /\ UNCHANGED <<versions, uploads, sent>>
    BY <1>8 DEF ReadBack, At, storeVars
  <2>2. CASE op[t].kind = "local"
    <3>1. op' = [op EXCEPT ![t] = Idle]
      BY <1>8, <2>2 DEF ReadBack, Release
    <3>2. op'[t] = Idle /\ \A r \in Threads : r # t => op'[r] = op[r]
      BY <3>1 DEF TypeInv, TypeOK
    <3> QED BY <2>1, <3>2, InsideReservation
  <2>3. CASE op[t].kind # "local"
    <3>1. op[t].kind = "commit" /\ op' = [op EXCEPT ![t].pc = "mark"]
      BY <1>1, <1>8, <2>1, <2>3 DEF ReadBack, Goto, TypeInv, OpShape, KindAndPC
    <3>2. /\ op'[t].kind = "commit" /\ op'[t].key = op[t].key /\ op'[t].row = op[t].row
          /\ op'[t].upload = op[t].upload /\ op'[t].pc = "mark"
          /\ \A r \in Threads : r # t => op'[r] = op[r]
      BY <1>1, <3>1 DEF TypeInv, TypeOK, OpRec
    <3>3. OpReserved(op'[t])
      BY <1>2, <2>1, <3>1, <3>2 DEF OpReserved
    <3> QED BY <2>1, <3>2, <3>3, InsideReservation
  <2> QED BY <2>2, <2>3
<1>9. CASE Raise(t)
  <2>1. op' = [op EXCEPT ![t] = Idle] /\ UNCHANGED <<versions, uploads, sent>>
    BY <1>9 DEF Raise, Unwind, Release
  <2>2. op'[t] = Idle /\ \A r \in Threads : r # t => op'[r] = op[r]
    BY <2>1 DEF TypeInv, TypeOK
  <2> QED BY <2>1, <2>2, InsideReservation
<1> QED
  BY <1>3, <1>4, <1>5, <1>6, <1>7, <1>8, <1>9, InsertUploadReservation,
     InsertVersionReservation, InsertCommittedReservation
  DEF Step

LEMMA HostCopyReservation ==
  ASSUME TypeInv, ReservationInv, NEW up \in Upls, HostCopy(up)
  PROVE  ReservationInv'
<1>1. PICK c \in Contents : sent' = [sent EXCEPT ![up] = c]
  BY DEF HostCopy
<1>2. uploads[up] # NoRow /\ UNCHANGED <<versions, uploads, op>>
  BY DEF HostCopy
<1>3. /\ sent'[up] # NoFile
      /\ \A other \in Upls : other # up => sent'[other] = sent[other]
  BY <1>1, StoreAssumption DEF TypeInv, TypeOK
<1>4. \A r \in Threads : op[r] # Idle =>
        OpReserved(op[r]) /\ (op[r].kind = "commit" => op[r].upload \in Upls)
  BY DEF ReservationInv, TypeInv, TypeOK, OpShape, OpRec
<1>5. \A r \in Threads : op'[r] # Idle => OpReserved(op[r])'
  BY <1>2, <1>3, <1>4 DEF OpReserved
<1> QED BY <1>2, <1>3, <1>5 DEF ReservationInv, VersionReserved

LEMMA NextReservation ==
  TypeInv /\ IdentityInv /\ ReservationInv /\ [Next]_vars => ReservationInv'
<1> SUFFICES ASSUME TypeInv, IdentityInv, ReservationInv, [Next]_vars PROVE ReservationInv'
  OBVIOUS
<1>1. ASSUME NEW t \in Threads, Begin(t) PROVE ReservationInv'
  BY <1>1, BeginReservation, CommitBeginReservation DEF Begin, LocalBegin, PrepareBegin
<1>2. ASSUME NEW t \in Threads, Step(t) PROVE ReservationInv'
  BY <1>2, StepReservation
<1>3. ASSUME NEW up \in Upls, HostCopy(up) PROVE ReservationInv'
  BY <1>3, HostCopyReservation
<1>4. CASE (\E tok \in Toks, u \in Users : RevokeShare(tok, u)) \/ UNCHANGED vars
  <2>1. UNCHANGED <<versions, uploads, sent, op>>
    BY <1>4 DEF RevokeShare, vars, storeVars
  <2> QED BY <2>1 DEF ReservationInv, VersionReserved, OpReserved
<1>5. CASE Crash
  <2>1. UNCHANGED <<versions, uploads, sent>> /\ \A r \in Threads : op'[r] = Idle
    BY <1>5 DEF Crash, storeVars
  <2> QED BY <2>1 DEF ReservationInv, VersionReserved
<1> QED BY <1>1, <1>2, <1>3, <1>4, <1>5 DEF Next

LEMMA Reservation == Spec => []ReservationInv
<1>1. Init => ReservationInv
  BY InitReservationInv
<1> QED BY <1>1, NextReservation, TypeInvariant, Identity, PTL DEF Spec

\* A version number is given out once, to uploads that are pending, failed or
\* committed out of order as well as to local shares.
THEOREM VersionsAreReserved == Spec => []VersionReserved
<1>1. ReservationInv => VersionReserved
  BY DEF ReservationInv
<1> QED BY <1>1, Reservation, PTL

-----------------------------------------------------------------------------
(***************************************************************************)
(* What the versions' files and the links hold, proved on top of the       *)
(* identity and the reservation invariant of module ArtifactHub_proofs.    *)
(***************************************************************************)

(***************************************************************************)
(* Files.  What is about to be stored as a version's checksum is what the  *)
(* file holds.                                                             *)
(***************************************************************************)
OpFile(o) ==
  \/ o.pc = "version"
  \/ o.kind = "local" /\ o.pc = "artifact"
  => files[o.key] = o.bytes

FilesInv ==
  /\ SentFileIntact
  /\ VersionBytes
  /\ \A t \in Threads : op[t] # Idle => OpFile(op[t])

(***************************************************************************)
(* Links.  Tokens are issued once; the row an answer is made from carries  *)
(* its token, live, for the version with the content shared.               *)
(***************************************************************************)
OpLink(o) ==
  /\ o.pc \in {"share", "readback", "mark"} => versions[o.row].checksum = o.bytes
  /\ o.pc \in {"readback", "mark"} =>
       shares[o.row] = [token |-> o.token, creator |-> o.user, revoked |-> FALSE]

LinksInv ==
  /\ ShareOwner
  /\ RevokedStaysDead
  /\ DeliveredLinkHolds
  /\ \A k \in Keys : shares[k] # NoRow =>
       /\ shares[k].token < nextTok
       /\ shares[k].revoked => shares[k].token \in dead
  /\ \A tok \in dead : tok < nextTok
  /\ \A k, m \in Keys :
       shares[k] # NoRow /\ shares[m] # NoRow /\ shares[k].token = shares[m].token => k = m
  /\ \A t \in Threads : op[t] # Idle => OpLink(op[t])

-----------------------------------------------------------------------------
LEMMA InitFilesInv == Init => FilesInv
BY DEF Init, StoreInit, FilesInv, SentFileIntact, VersionBytes

\* A step that writes no version, upload or file, and whose operation keeps to
\* OpFile.
LEMMA FilesFrame ==
  ASSUME FilesInv, UNCHANGED <<versions, uploads, files, sent>>,
         \A r \in Threads : op'[r] # Idle => op'[r] = op[r] \/ OpFile(op'[r])
  PROVE  FilesInv'
BY DEF FilesInv, SentFileIntact, VersionBytes, OpFile

\* The file of a key that no version and no upload has may become anything.
LEMMA UnreservedFile ==
  ASSUME TypeInv, FilesInv, NEW k \in Keys, NEW c,
         files' = [files EXCEPT ![k] = c],
         UNCHANGED <<versions, uploads, sent>>,
         \A up \in Upls : uploads[up] # NoRow => uploads[up].key # k,
         \A up \in Upls : sent[up] # NoFile => uploads[up] # NoRow,
         versions[k] = NoRow \/ (versions[k].mode = "LOCAL" /\ c = NoFile),
         \A r \in Threads : op'[r] # Idle => OpFile(op[r])'
  PROVE  FilesInv'
<1>1. \A m \in Keys : m # k => files'[m] = files[m]
  BY DEF TypeInv, TypeOK, StoreTypeOK
<1>2. files'[k] = c
  BY DEF TypeInv, TypeOK, StoreTypeOK
<1>3. \A up \in Upls : uploads[up] # NoRow => uploads[up].key \in Keys
  BY DEF TypeInv, TypeOK, StoreTypeOK, UploadRow
<1>4. SentFileIntact'
  BY <1>1, <1>3 DEF FilesInv, SentFileIntact
<1>5. VersionBytes'
  BY <1>1, <1>2 DEF FilesInv, VersionBytes
<1> QED BY <1>4, <1>5 DEF FilesInv

LEMMA BeginFiles ==
  ASSUME TypeInv, FilesInv, NEW t \in Threads, Begin(t)
  PROVE  FilesInv'
<1>1. ASSUME NEW u \in Users, NEW s \in Sources, NEW kind \in {"local", "prepare"},
             BeginSnapshot(t, u, s, kind)
      PROVE  FilesInv'
  <2>1. /\ \A r \in Threads : r # t => op'[r] = Idle
        /\ op'[t].kind = kind
        /\ kind = "local" => op'[t].pc = "copy"
        /\ kind = "prepare" => op'[t].pc = IF op'[t].isNew THEN "artifact" ELSE "upload"
        /\ UNCHANGED <<storeVars, nextUpl, nextTok, sent, past>>
    BY <1>1, BeginFacts
  <2>2. UNCHANGED <<versions, uploads, files, sent>>
    BY <2>1 DEF storeVars
  <2>3. OpFile(op'[t])
    BY <2>1 DEF OpFile
  <2> QED BY <2>1, <2>2, <2>3, FilesFrame
<1>2. ASSUME NEW up \in Upls, NEW u \in Users, CommitBegin(t, up, u)
      PROVE  FilesInv'
  <2> DEFINE k == uploads[up].key
  <2> DEFINE o == [kind |-> "commit", pc |-> "version", user |-> u,
                   source |-> artifacts[k[1]].source, isNew |-> FALSE,
                   key |-> k, row |-> k, bytes |-> files[k],
                   upload |-> up, token |-> 0]
  <2>1. lock = NoThread /\ op' = [op EXCEPT ![t] = o] /\ UNCHANGED storeVars /\ UNCHANGED sent
    BY <1>2 DEF CommitBegin, Acquire
  <2>2. OpFile(o)
    BY DEF OpFile
  <2> HIDE DEF o
  <2>3. op'[t] = o /\ \A r \in Threads : r # t => op'[r] = op[r]
    BY <2>1 DEF TypeInv, TypeOK
  <2> QED BY <2>1, <2>2, <2>3, FilesFrame DEF storeVars
<1> QED BY <1>1, <1>2 DEF Begin, LocalBegin, PrepareBegin

LEMMA LocalCopyFiles ==
  ASSUME TypeInv, ReservationInv, FilesInv, NEW t \in Threads, LocalCopy(t)
  PROVE  FilesInv'
<1>1. /\ op[t] # Idle /\ op[t] \in OpRec /\ op[t].pc = "copy"
      /\ \A r \in Threads : r # t => op[r] = Idle
  BY Running DEF LocalCopy, At
<1>2. op[t].kind = "local" /\ op[t].key \in Keys /\ OpReserved(op[t])
  BY <1>1 DEF TypeInv, OpShape, KindAndPC, ReservationInv, OpRec
<1>3. /\ versions[op[t].key] = NoRow
      /\ \A up \in Upls : uploads[up] # NoRow => uploads[up].key # op[t].key
  BY <1>1, <1>2 DEF OpReserved
<1>4. PICK c \in Contents : files' = [files EXCEPT ![op[t].key] = c]
  BY DEF LocalCopy, CopySnapshot
<1>5. op' = [op EXCEPT ![t].pc = "inspect"] /\ UNCHANGED <<versions, uploads, sent>>
  BY DEF LocalCopy, Goto
<1>6. op'[t].pc = "inspect" /\ \A r \in Threads : r # t => op'[r] = Idle
  BY <1>1, <1>5 DEF TypeInv, TypeOK, OpRec
<1>7. \A r \in Threads : op'[r] # Idle => OpFile(op[r])'
  BY <1>6 DEF OpFile
<1> QED BY <1>2, <1>3, <1>4, <1>5, <1>7, UnreservedFile DEF ReservationInv

LEMMA LocalReuseFiles ==
  ASSUME TypeInv, ReservationInv, FilesInv, NEW t \in Threads, LocalReuse(t)
  PROVE  FilesInv'
<1>1. /\ op[t] # Idle /\ op[t] \in OpRec /\ op[t].pc = "inspect"
      /\ \A r \in Threads : r # t => op[r] = Idle
  BY Running DEF LocalReuse, At
<1>2. op[t].kind = "local" /\ op[t].key \in Keys /\ OpReserved(op[t])
  BY <1>1 DEF TypeInv, OpShape, KindAndPC, ReservationInv, OpRec
<1>3. /\ versions[op[t].key] = NoRow
      /\ \A up \in Upls : uploads[up] # NoRow => uploads[up].key # op[t].key
  BY <1>1, <1>2 DEF OpReserved
<1>4. /\ files' = [files EXCEPT ![op[t].key] = NoFile]
      /\ UNCHANGED <<versions, uploads, sent>>
  BY DEF LocalReuse, Discard
<1>5. PICK n \in Vers :
        op' = [op EXCEPT ![t].pc = "share", ![t].bytes = files[op[t].key],
                         ![t].row = <<op[t].key[1], n>>]
  BY DEF LocalReuse
<1>6. op'[t].pc = "share" /\ \A r \in Threads : r # t => op'[r] = Idle
  BY <1>1, <1>5 DEF TypeInv, TypeOK, OpRec
<1>7. \A r \in Threads : op'[r] # Idle => OpFile(op[r])'
  BY <1>6 DEF OpFile
<1> QED BY <1>2, <1>3, <1>4, <1>7, UnreservedFile DEF ReservationInv

\* An exception discards a local snapshot, also one that a version is stored
\* for: only a NAS file is out of its reach.
LEMMA RaiseFiles ==
  ASSUME TypeInv, ReservationInv, FilesInv, NEW t \in Threads, Raise(t)
  PROVE  FilesInv'
<1>1. /\ op[t] # Idle /\ op[t] \in OpRec
      /\ \A r \in Threads : r # t => op[r] = Idle
  BY Running DEF Raise
<1>2. /\ op' = [op EXCEPT ![t] = Idle]
      /\ UNCHANGED <<versions, uploads, sent>>
  BY DEF Raise, Unwind, Release
<1>3. \A r \in Threads : op'[r] = Idle
  BY <1>1, <1>2 DEF TypeInv, TypeOK
<1>4. CASE DiscardsSnapshot(t)
  <2>1. files' = [files EXCEPT ![op[t].key] = NoFile] /\ op[t].kind = "local"
    BY <1>4 DEF Raise, Discard, DiscardsSnapshot
  <2>2. op[t].key \in Keys /\ OpReserved(op[t])
    BY <1>1 DEF ReservationInv, OpRec
  <2>3. /\ versions[op[t].key] # NoRow => versions[op[t].key].mode = "LOCAL"
        /\ \A up \in Upls : uploads[up] # NoRow => uploads[up].key # op[t].key
    BY <2>1, <2>2 DEF OpReserved
  <2> QED BY <1>2, <1>3, <2>1, <2>2, <2>3, UnreservedFile DEF ReservationInv
<1>5. CASE ~DiscardsSnapshot(t)
  BY <1>2, <1>3, <1>5, FilesFrame DEF Raise
<1> QED BY <1>4, <1>5

LEMMA HostCopyFiles ==
  ASSUME TypeInv, ReservationInv, FilesInv, NEW up \in Upls, HostCopy(up)
  PROVE  FilesInv'
<1> DEFINE k == uploads[up].key
<1>1. PICK c \in Contents :
        files' = [files EXCEPT ![k] = c] /\ sent' = [sent EXCEPT ![up] = c]
  BY DEF HostCopy, CopySnapshot
<1>2. /\ uploads[up] # NoRow /\ sent[up] = NoFile
      /\ UNCHANGED <<versions, uploads, op>>
  BY DEF HostCopy
<1>3. \A other \in Upls : uploads[other] # NoRow => uploads[other].key \in Keys
  BY DEF TypeInv, TypeOK, StoreTypeOK, UploadRow
<1>4. /\ files'[k] = c /\ sent'[up] = c
      /\ \A m \in Keys : m # k => files'[m] = files[m]
      /\ \A other \in Upls : other # up => sent'[other] = sent[other]
  BY <1>1, <1>2, <1>3 DEF TypeInv, TypeOK, StoreTypeOK
<1>5. versions[k] = NoRow
  BY <1>2 DEF ReservationInv
<1>6. \A other \in Upls : sent[other] # NoFile => uploads[other] # NoRow /\ uploads[other].key # k
  BY <1>2 DEF ReservationInv, VersionReserved
<1>7. SentFileIntact'
  BY <1>2, <1>3, <1>4, <1>6 DEF FilesInv, SentFileIntact
<1>8. VersionBytes'
  BY <1>2, <1>4, <1>5 DEF FilesInv, VersionBytes
<1>9. \A r \in Threads : op[r] # Idle => op[r].key \in Keys /\ op[r].key # k
  <2> TAKE r \in Threads
  <2> HAVE op[r] # Idle
  <2>1. op[r].key \in Keys /\ OpReserved(op[r])
    BY DEF TypeInv, TypeOK, OpRec, ReservationInv
  <2>2. CASE op[r].kind = "commit"
    <3>1. op[r].upload \in Upls
      BY <2>2 DEF TypeInv, TypeOK, OpShape, OpRec
    <3> QED BY <1>6, <2>1, <2>2, <3>1 DEF OpReserved
  <2>3. CASE op[r].kind # "commit"
    BY <1>2, <2>1, <2>3 DEF OpReserved
  <2> QED BY <2>1, <2>2, <2>3
<1>10. \A r \in Threads : op'[r] # Idle => OpFile(op[r])'
  BY <1>2, <1>4, <1>9 DEF FilesInv, OpFile
<1> QED BY <1>7, <1>8, <1>10 DEF FilesInv

LEMMA InsertVersionFiles ==
  ASSUME TypeInv, ReservationInv, FilesInv, NEW t \in Threads, InsertVersion(t)
  PROVE  FilesInv'
<1> DEFINE k == op[t].key
<1>1. /\ op[t] # Idle /\ op[t] \in OpRec /\ op[t].pc = "version"
      /\ \A r \in Threads : r # t => op[r] = Idle
  BY Running DEF InsertVersion, At
<1>2. op[t].row = k /\ k \in Keys /\ files[k] = op[t].bytes
  BY <1>1 DEF ReservationInv, OpReserved, FilesInv, OpFile, OpRec
<1>3. PICK mode \in {"LOCAL", "NAS"} :
        versions' = [versions EXCEPT ![k] = [mode |-> mode, checksum |-> op[t].bytes]]
  BY <1>2 DEF InsertVersion, CreateVersion
<1>4. /\ op' = [op EXCEPT ![t].pc = "share"]
      /\ UNCHANGED <<uploads, files, sent>>
  BY DEF InsertVersion, Goto
<1>5. /\ versions'[k].checksum = files[k]
      /\ \A m \in Keys : m # k => versions'[m] = versions[m]
  BY <1>2, <1>3 DEF TypeInv, TypeOK, StoreTypeOK
<1>6. SentFileIntact' /\ VersionBytes'
  BY <1>4, <1>5 DEF FilesInv, SentFileIntact, VersionBytes
<1>7. op'[t].pc = "share" /\ \A r \in Threads : r # t => op'[r] = Idle
  BY <1>1, <1>4 DEF TypeInv, TypeOK, OpRec
<1> QED BY <1>6, <1>7 DEF FilesInv, OpFile

LEMMA UploadFiles ==
  ASSUME TypeInv, IdentityInv, ReservationInv, FilesInv, NEW t \in Threads,
         InsertUpload(t) \/ InsertCommitted(t)
  PROVE  FilesInv'
<1>1. op[t] # Idle /\ op[t] \in OpRec /\ \A r \in Threads : r # t => op[r] = Idle
  BY Running DEF InsertUpload, InsertCommitted, At
<1>2. /\ op' = [op EXCEPT ![t] = Idle]
      /\ UNCHANGED <<versions, files, sent>>
  BY DEF InsertUpload, InsertCommitted, Release
<1>3. \A r \in Threads : op'[r] = Idle
  BY <1>1, <1>2 DEF TypeInv, TypeOK
<1>4. \A up \in Upls : sent[up] # NoFile => uploads'[up].key = uploads[up].key
  <2>1. CASE InsertUpload(t)
    <3>1. \A up \in Upls : sent[up] # NoFile => up # nextUpl
      BY DEF ReservationInv, IdentityInv, Upls, TypeInv, TypeOK
    <3> QED BY <2>1, <3>1 DEF InsertUpload, CreateUpload, TypeInv, TypeOK, StoreTypeOK
  <2>2. CASE InsertCommitted(t)
    <3>1. \A up \in Upls : sent[up] # NoFile => uploads[up] \in UploadRow
      BY DEF ReservationInv, TypeInv, TypeOK, StoreTypeOK
    <3> QED BY <2>2, <3>1 DEF InsertCommitted, MarkUploadCommitted, TypeInv, TypeOK,
                              StoreTypeOK, UploadRow
  <2> QED BY <2>1, <2>2
<1> QED BY <1>2, <1>3, <1>4 DEF FilesInv, SentFileIntact, VersionBytes

\* The steps that change only what the operation knows, or rows of other tables.
LEMMA InsideFiles ==
  ASSUME TypeInv, FilesInv, NEW t \in Threads,
         LocalPublish(t) \/ InsertArtifact(t) \/ UpsertShare(t) \/ ReadBack(t)
  PROVE  FilesInv'
<1>1. op[t] # Idle /\ op[t] \in OpRec /\ OpFile(op[t]) /\ KindAndPC(op[t])
  BY Running DEF LocalPublish, InsertArtifact, UpsertShare, ReadBack, At, FilesInv, TypeInv, OpShape
<1>2. UNCHANGED <<versions, uploads, files, sent>>
  BY DEF LocalPublish, InsertArtifact, UpsertShare, ReadBack, storeVars
<1>3. \A r \in Threads : r # t => op'[r] = op[r]
  BY DEF LocalPublish, InsertArtifact, UpsertShare, ReadBack, Goto, Release, TypeInv, TypeOK
<1>4. CASE LocalPublish(t)
  <2>1. PICK p : op' = [op EXCEPT ![t].pc = p, ![t].bytes = files[op[t].key]]
    BY <1>4 DEF LocalPublish
  <2>2. op'[t].key = op[t].key /\ op'[t].bytes = files[op[t].key]
    BY <1>1, <2>1 DEF TypeInv, TypeOK, OpRec
  <2> QED BY <1>2, <1>3, <2>2, FilesFrame DEF OpFile
<1>5. CASE InsertArtifact(t)
  <2>1. /\ op[t].pc = "artifact"
        /\ op' = [op EXCEPT ![t].pc = IF op[t].kind = "local" THEN "version" ELSE "upload"]
    BY <1>5 DEF InsertArtifact, At, Goto
  <2>2. /\ op'[t].kind = op[t].kind /\ op'[t].key = op[t].key /\ op'[t].bytes = op[t].bytes
        /\ op'[t].pc = IF op[t].kind = "local" THEN "version" ELSE "upload"
    BY <1>1, <2>1 DEF TypeInv, TypeOK, OpRec
  <2>3. OpFile(op'[t])
    BY <1>1, <2>1, <2>2 DEF OpFile
  <2> QED BY <1>2, <1>3, <2>3, FilesFrame
<1>6. CASE UpsertShare(t)
  <2>1. PICK tok : op' = [op EXCEPT ![t].pc = "readback", ![t].token = tok]
    BY <1>6 DEF UpsertShare
  <2>2. op'[t].pc = "readback"
    BY <1>1, <2>1 DEF TypeInv, TypeOK, OpRec
  <2> QED BY <1>2, <1>3, <2>2, FilesFrame DEF OpFile
<1>7. CASE ReadBack(t)
  <2>1. op' = [op EXCEPT ![t] = Idle] \/ op' = [op EXCEPT ![t].pc = "mark"]
    BY <1>7 DEF ReadBack, Release, Goto
  <2>2. op'[t] = Idle \/ op'[t].pc = "mark"
    BY <1>1, <2>1 DEF TypeInv, TypeOK, OpRec
  <2> QED BY <1>2, <1>3, <2>2, FilesFrame DEF OpFile
<1> QED BY <1>4, <1>5, <1>6, <1>7

LEMMA NextFiles ==
  TypeInv /\ IdentityInv /\ ReservationInv /\ FilesInv /\ [Next]_vars => FilesInv'
<1> SUFFICES ASSUME TypeInv, IdentityInv, ReservationInv, FilesInv, [Next]_vars
             PROVE  FilesInv'
  OBVIOUS
<1>1. ASSUME NEW t \in Threads, Begin(t) PROVE FilesInv'
  BY <1>1, BeginFiles
<1>2. ASSUME NEW t \in Threads, Step(t) PROVE FilesInv'
  BY <1>2, LocalCopyFiles, LocalReuseFiles, RaiseFiles, InsertVersionFiles, UploadFiles,
     InsideFiles
  DEF Step
<1>3. ASSUME NEW up \in Upls, HostCopy(up) PROVE FilesInv'
  BY <1>3, HostCopyFiles
<1>4. CASE (\E tok \in Toks, u \in Users : RevokeShare(tok, u)) \/ UNCHANGED vars \/ Crash
  <2>1. /\ UNCHANGED <<versions, uploads, files, sent>>
        /\ \A r \in Threads : op'[r] = Idle \/ op'[r] = op[r]
    BY <1>4 DEF RevokeShare, vars, storeVars, Crash
  <2> QED BY <2>1, FilesFrame
<1> QED BY <1>1, <1>2, <1>3, <1>4 DEF Next

LEMMA Files == Spec => []FilesInv
<1>1. Init => FilesInv
  BY InitFilesInv
<1> QED BY <1>1, NextFiles, TypeInvariant, Identity, Reservation, PTL DEF Spec

\* Nothing the Hub does or fails to do, and no other upload, touches a file the
\* host copied: an upload can be committed at any later time.
THEOREM SentFilesStay == Spec => []SentFileIntact
<1>1. FilesInv => SentFileIntact
  BY DEF FilesInv
<1> QED BY <1>1, Files, PTL

\* A version's file has the version's checksum, except that the file of a LOCAL
\* version may be gone.
THEOREM VersionFilesMatch == Spec => []VersionBytes
<1>1. FilesInv => VersionBytes
  BY DEF FilesInv
<1> QED BY <1>1, Files, PTL

-----------------------------------------------------------------------------
LEMMA InitLinksInv == Init => LinksInv
BY DEF Init, StoreInit, LinksInv, ShareOwner, RevokedStaysDead, DeliveredLinkHolds

\* A step that touches no version and no share, and whose operation keeps to
\* OpLink; artifacts may be added.
LEMMA LinksFrame ==
  ASSUME TypeInv, LinksInv, UNCHANGED <<versions, shares, nextTok, delivered, dead>>,
         \A a \in Arts : artifacts[a] # NoRow => artifacts'[a] = artifacts[a],
         \A r \in Threads : op'[r] # Idle => op'[r] = op[r] \/ OpLink(op'[r])
  PROVE  LinksInv'
<1>1. \A k \in Keys : k[1] \in Arts
  BY DEF Keys
<1>2. ShareOwner'
  BY <1>1 DEF LinksInv, ShareOwner
<1>3. RevokedStaysDead' /\ DeliveredLinkHolds'
  BY DEF LinksInv, RevokedStaysDead, DeliveredLinkHolds
<1>4. \A r \in Threads : op'[r] # Idle => OpLink(op[r])'
  BY DEF LinksInv, OpLink
<1> QED BY <1>2, <1>3, <1>4 DEF LinksInv

LEMMA BeginLinks ==
  ASSUME TypeInv, LinksInv, NEW t \in Threads, Begin(t)
  PROVE  LinksInv'
<1>1. ASSUME NEW u \in Users, NEW s \in Sources, NEW kind \in {"local", "prepare"},
             BeginSnapshot(t, u, s, kind)
      PROVE  LinksInv'
  <2>1. /\ \A r \in Threads : r # t => op'[r] = Idle
        /\ kind = "local" => op'[t].pc = "copy"
        /\ kind = "prepare" => op'[t].pc = IF op'[t].isNew THEN "artifact" ELSE "upload"
        /\ UNCHANGED <<storeVars, nextUpl, nextTok, sent, past>>
    BY <1>1, BeginFacts
  <2>2. UNCHANGED <<artifacts, versions, shares, nextTok, delivered, dead>>
    BY <2>1 DEF storeVars, past
  <2>3. OpLink(op'[t])
    BY <2>1 DEF OpLink
  <2> QED BY <2>1, <2>2, <2>3, LinksFrame
<1>2. ASSUME NEW up \in Upls, NEW u \in Users, CommitBegin(t, up, u)
      PROVE  LinksInv'
  <2> DEFINE k == uploads[up].key
  <2> DEFINE o == [kind |-> "commit", pc |-> "version", user |-> u,
                   source |-> artifacts[k[1]].source, isNew |-> FALSE,
                   key |-> k, row |-> k, bytes |-> files[k],
                   upload |-> up, token |-> 0]
  <2>1. op' = [op EXCEPT ![t] = o] /\ UNCHANGED <<storeVars, ids, past>>
    BY <1>2 DEF CommitBegin, Acquire
  <2>2. o.pc = "version"
    OBVIOUS
  <2> HIDE DEF o
  <2>3. op'[t] = o /\ \A r \in Threads : r # t => op'[r] = op[r]
    BY <2>1 DEF TypeInv, TypeOK
  <2>4. OpLink(op'[t])
    BY <2>2, <2>3 DEF OpLink
  <2> QED BY <2>1, <2>3, <2>4, LinksFrame DEF storeVars, ids, past
<1> QED BY <1>1, <1>2 DEF Begin, LocalBegin, PrepareBegin

LEMMA InsertVersionLinks ==
  ASSUME TypeInv, ReservationInv, LinksInv, NEW t \in Threads, InsertVersion(t)
  PROVE  LinksInv'
<1> DEFINE k == op[t].row
<1>1. /\ op[t] # Idle /\ op[t] \in OpRec /\ op[t].pc = "version"
      /\ \A r \in Threads : r # t => op[r] = Idle
  BY Running DEF InsertVersion, At
<1>2. PICK mode \in {"LOCAL", "NAS"} :
        versions' = [versions EXCEPT ![k] = [mode |-> mode, checksum |-> op[t].bytes]]
  BY DEF InsertVersion, CreateVersion
<1>3. /\ versions[k] = NoRow
      /\ op' = [op EXCEPT ![t].pc = "share"]
      /\ UNCHANGED <<artifacts, shares, nextTok, delivered, dead>>
  BY DEF InsertVersion, CreateVersion, Goto, ids, past
<1>4. /\ k \in Keys /\ op[t].bytes \in Contents
      /\ versions'[k] = [mode |-> mode, checksum |-> op[t].bytes]
      /\ \A m \in Keys : m # k => versions'[m] = versions[m]
  BY <1>1, <1>2 DEF TypeInv, TypeOK, StoreTypeOK, OpShape, OpRec
<1>5. versions'[k] # NoRow
  <2>1. versions'[k] \in VersionRow
    BY <1>4 DEF VersionRow
  <2> QED BY <2>1, StoreAssumption
<1>6. ShareOwner'
  BY <1>3, <1>4, <1>5 DEF LinksInv, ShareOwner
<1>7. RevokedStaysDead' /\ DeliveredLinkHolds'
  BY <1>3, <1>4 DEF LinksInv, RevokedStaysDead, DeliveredLinkHolds
<1>8. /\ op'[t].row = k /\ op'[t].bytes = op[t].bytes /\ op'[t].pc = "share"
      /\ \A r \in Threads : r # t => op'[r] = Idle
  BY <1>1, <1>3 DEF TypeInv, TypeOK, OpRec
<1>9. \A r \in Threads : op'[r] # Idle => OpLink(op[r])'
  BY <1>4, <1>8 DEF OpLink
<1> QED BY <1>3, <1>6, <1>7, <1>9 DEF LinksInv

\* The share's row: the same token as long as it is live, else a fresh one.
LEMMA UpsertShareLinks ==
  ASSUME TypeInv, IdentityInv, ReservationInv, LinksInv, NEW t \in Threads, UpsertShare(t)
  PROVE  LinksInv'
<1> DEFINE k == op[t].row
<1> DEFINE tok == IF KeepsToken(k) THEN shares[k].token ELSE nextTok
<1> DEFINE row == [token |-> tok, creator |-> op[t].user, revoked |-> FALSE]
<1>1. /\ op[t] # Idle /\ op[t] \in OpRec /\ op[t].pc = "share"
      /\ \A r \in Threads : r # t => op[r] = Idle
  BY Running DEF UpsertShare, At
<1>2. /\ tok <= MaxTok
      /\ shares' = [shares EXCEPT ![k] = row]
      /\ nextTok' = IF KeepsToken(k) THEN nextTok ELSE nextTok + 1
      /\ op' = [op EXCEPT ![t].pc = "readback", ![t].token = tok]
      /\ UNCHANGED <<artifacts, versions, delivered, dead>>
  BY DEF UpsertShare, UpsertShareRow, past
<1>3. /\ k \in Keys /\ k[1] \in Arts /\ versions[k] # NoRow
      /\ versions[k].checksum = op[t].bytes
  BY <1>1 DEF ReservationInv, OpReserved, LinksInv, OpLink, OpRec, Keys
<1>4. artifacts[k[1]] # NoRow /\ artifacts[k[1]].creator = op[t].user
  <2>1. artifacts[k[1]] = ArtifactOf(op[t])
    BY <1>1 DEF IdentityInv, Unstored
  <2>2. ArtifactOf(op[t]) \in ArtifactRow
    BY <1>1 DEF ArtifactOf, ArtifactRow, OpRec
  <2> QED BY <2>1, <2>2, StoreAssumption DEF ArtifactOf
<1>5. nextTok \in Nat /\ \A m \in Keys : shares[m] # NoRow => shares[m].token \in Nat
  BY DEF TypeInv, TypeOK, StoreTypeOK, ShareRow, Toks
<1>6. /\ tok < nextTok' /\ nextTok <= nextTok' /\ nextTok' \in Nat
      /\ KeepsToken(k) => tok = shares[k].token
      /\ ~KeepsToken(k) => tok = nextTok
  BY <1>2, <1>3, <1>5 DEF KeepsToken, LinksInv
<1>7. /\ row.token = tok /\ row.creator = op[t].user /\ row.revoked = FALSE
      /\ row # NoRow
  <2>1. tok \in Toks
    BY <1>2, <1>3, <1>6 DEF KeepsToken, TypeInv, TypeOK, StoreTypeOK, ShareRow, Toks
  <2>2. row \in ShareRow
    BY <1>1, <2>1 DEF ShareRow, OpRec
  <2> QED BY <2>2, StoreAssumption
<1> HIDE DEF tok, row
<1>8. shares'[k] = row /\ \A m \in Keys : m # k => shares'[m] = shares[m]
  BY <1>2, <1>3 DEF TypeInv, TypeOK, StoreTypeOK
<1>9. ShareOwner'
  BY <1>2, <1>3, <1>4, <1>7, <1>8 DEF LinksInv, ShareOwner
<1>10. tok \notin dead
  <2>1. CASE KeepsToken(k)
    BY <1>3, <1>6, <2>1 DEF KeepsToken, LinksInv, RevokedStaysDead
  <2>2. CASE ~KeepsToken(k)
    BY <1>5, <1>6, <2>2 DEF LinksInv
  <2> QED BY <2>1, <2>2
<1>11. RevokedStaysDead'
  BY <1>2, <1>7, <1>8, <1>10 DEF LinksInv, RevokedStaysDead
<1>12. DeliveredLinkHolds'
  <2> SUFFICES ASSUME NEW d \in delivered, d[1] \notin dead
               PROVE  \E m \in Keys : /\ shares'[m] # NoRow
                                      /\ shares'[m].token = d[1]
                                      /\ ~shares'[m].revoked
                                      /\ versions[m] # NoRow
                                      /\ versions[m].checksum = d[2]
    BY <1>2 DEF DeliveredLinkHolds
  <2>1. PICK m \in Keys : /\ shares[m] # NoRow
                          /\ shares[m].token = d[1]
                          /\ ~shares[m].revoked
                          /\ versions[m] # NoRow
                          /\ versions[m].checksum = d[2]
    BY DEF LinksInv, DeliveredLinkHolds
  <2>2. CASE m = k
    BY <1>6, <1>7, <1>8, <2>1, <2>2 DEF KeepsToken
  <2>3. CASE m # k
    BY <1>8, <2>1, <2>3
  <2> QED BY <2>2, <2>3
<1>13. \A m \in Keys : shares'[m] # NoRow =>
         shares'[m].token < nextTok' /\ (shares'[m].revoked => shares'[m].token \in dead)
  BY <1>5, <1>6, <1>7, <1>8 DEF LinksInv
<1>14. \A m \in Keys : m # k /\ shares[m] # NoRow => shares[m].token # tok
  <2>1. CASE KeepsToken(k)
    BY <1>3, <1>6, <2>1 DEF KeepsToken, LinksInv
  <2>2. CASE ~KeepsToken(k)
    BY <1>5, <1>6, <2>2 DEF LinksInv
  <2> QED BY <2>1, <2>2
<1>15. \A m, n \in Keys : shares'[m] # NoRow /\ shares'[n] # NoRow
                            /\ shares'[m].token = shares'[n].token => m = n
  BY <1>7, <1>8, <1>14 DEF LinksInv
<1>16. \A d \in dead : d < nextTok'
  BY <1>5, <1>6 DEF LinksInv, TypeInv, TypeOK, Toks
<1>17. /\ op'[t].row = k /\ op'[t].bytes = op[t].bytes /\ op'[t].pc = "readback"
       /\ op'[t].token = tok /\ op'[t].user = op[t].user
       /\ \A r \in Threads : r # t => op'[r] = Idle
  BY <1>1, <1>2 DEF TypeInv, TypeOK, OpRec
<1>18. \A r \in Threads : op'[r] # Idle => OpLink(op[r])'
  BY <1>2, <1>3, <1>8, <1>17 DEF OpLink, row
<1> QED BY <1>2, <1>9, <1>11, <1>12, <1>13, <1>15, <1>16, <1>18 DEF LinksInv

\* The link an operation is about to return is live, for the content shared.
LEMMA DeliverLinks ==
  ASSUME TypeInv, ReservationInv, LinksInv, NEW t \in Threads,
         op[t] # Idle, op[t].pc \in {"readback", "mark"}, Deliver(t),
         UNCHANGED <<versions, shares, dead>>
  PROVE  DeliveredLinkHolds'
<1>1. op[t].row \in Keys /\ OpReserved(op[t]) /\ OpLink(op[t])
  BY Running DEF ReservationInv, LinksInv, OpRec
<1>2. /\ versions[op[t].row] # NoRow
      /\ versions[op[t].row].checksum = op[t].bytes
      /\ shares[op[t].row] = [token |-> op[t].token, creator |-> op[t].user, revoked |-> FALSE]
  BY <1>1 DEF OpReserved, OpLink
<1>3. /\ shares[op[t].row].token = op[t].token /\ ~shares[op[t].row].revoked
      /\ shares[op[t].row] # NoRow
  <2>1. op[t].token \in Toks
    BY Running DEF TypeInv, OpShape, OpRec
  <2>2. shares[op[t].row] \in ShareRow
    BY <1>2, <2>1, Running DEF ShareRow, OpRec
  <2>3. shares[op[t].row] # NoRow
    BY <2>2, StoreAssumption
  <2>4. shares[op[t].row].token = op[t].token /\ shares[op[t].row].revoked = FALSE
    BY <1>2
  <2> QED BY <2>3, <2>4
<1> QED BY <1>1, <1>2, <1>3 DEF Deliver, LinksInv, DeliveredLinkHolds

LEMMA AnswerLinks ==
  ASSUME TypeInv, ReservationInv, LinksInv, NEW t \in Threads,
         ReadBack(t) \/ InsertCommitted(t)
  PROVE  LinksInv'
<1>1. /\ op[t] # Idle /\ op[t] \in OpRec /\ op[t].pc \in {"readback", "mark"}
      /\ OpLink(op[t])
      /\ \A r \in Threads : r # t => op[r] = Idle
  BY Running DEF ReadBack, InsertCommitted, At, LinksInv
<1>2. UNCHANGED <<artifacts, versions, shares, nextTok, dead>>
  BY DEF ReadBack, InsertCommitted, storeVars, ids
<1>3. \/ op' = [op EXCEPT ![t] = Idle] /\ Deliver(t)
      \/ op' = [op EXCEPT ![t].pc = "mark"] /\ UNCHANGED delivered
  BY DEF ReadBack, InsertCommitted, Release, Goto
<1>4. DeliveredLinkHolds'
  <2>1. CASE Deliver(t)
    BY <1>1, <1>2, <2>1, DeliverLinks
  <2>2. CASE UNCHANGED delivered
    BY <1>2, <2>2 DEF LinksInv, DeliveredLinkHolds
  <2> QED BY <1>3, <2>1, <2>2
<1>5. \A r \in Threads : op'[r] # Idle => OpLink(op[r])'
  <2>1. CASE op' = [op EXCEPT ![t] = Idle]
    BY <1>1, <2>1 DEF TypeInv, TypeOK
  <2>2. CASE op' = [op EXCEPT ![t].pc = "mark"]
    <3>1. /\ op'[t].row = op[t].row /\ op'[t].bytes = op[t].bytes /\ op'[t].pc = "mark"
          /\ op'[t].token = op[t].token /\ op'[t].user = op[t].user
          /\ \A r \in Threads : r # t => op'[r] = Idle
      BY <1>1, <2>2 DEF TypeInv, TypeOK, OpRec
    <3> QED BY <1>1, <1>2, <3>1 DEF OpLink
  <2> QED BY <1>3, <2>1, <2>2
<1>6. ShareOwner' /\ RevokedStaysDead'
  BY <1>2 DEF LinksInv, ShareOwner, RevokedStaysDead
<1> QED BY <1>2, <1>4, <1>5, <1>6 DEF LinksInv

LEMMA RevokeShareLinks ==
  ASSUME TypeInv, LinksInv, NEW tok \in Toks, NEW u \in Users, RevokeShare(tok, u)
  PROVE  LinksInv'
<1>1. PICK k \in Keys :
        /\ shares[k] # NoRow /\ shares[k].token = tok
        /\ shares' = [shares EXCEPT ![k].revoked = TRUE]
  BY DEF RevokeShare, SharesByToken, RevokeShareRow
<1>2. /\ UNCHANGED <<artifacts, versions, nextTok, delivered>>
      /\ dead' = dead \cup {tok}
      /\ \A r \in Threads : op'[r] = Idle
  BY HubAssumption DEF RevokeShare, ids, TypeInv, OpShape
<1>3. /\ shares'[k] # NoRow /\ shares'[k].token = tok /\ shares'[k].revoked
      /\ shares'[k].creator = shares[k].creator
      /\ \A m \in Keys : m # k => shares'[m] = shares[m]
  <2>1. shares[k] \in ShareRow
    BY <1>1 DEF TypeInv, TypeOK, StoreTypeOK
  <2>2. [shares[k] EXCEPT !.revoked = TRUE] \in ShareRow
    BY <2>1 DEF ShareRow
  <2>3. shares'[k] = [shares[k] EXCEPT !.revoked = TRUE]
    BY <1>1 DEF TypeInv, TypeOK, StoreTypeOK
  <2>4. \A m \in Keys : m # k => shares'[m] = shares[m]
    BY <1>1 DEF TypeInv, TypeOK, StoreTypeOK
  <2> QED BY <1>1, <2>1, <2>2, <2>3, <2>4, StoreAssumption DEF ShareRow
<1>4. ShareOwner'
  BY <1>1, <1>2, <1>3 DEF LinksInv, ShareOwner
<1>5. RevokedStaysDead'
  BY <1>1, <1>2, <1>3 DEF LinksInv, RevokedStaysDead
<1>6. DeliveredLinkHolds'
  <2> SUFFICES ASSUME NEW d \in delivered, d[1] \notin dead, d[1] # tok
               PROVE  \E m \in Keys : /\ shares'[m] # NoRow
                                      /\ shares'[m].token = d[1]
                                      /\ ~shares'[m].revoked
                                      /\ versions[m] # NoRow
                                      /\ versions[m].checksum = d[2]
    BY <1>2 DEF DeliveredLinkHolds
  <2>1. PICK m \in Keys : /\ shares[m] # NoRow
                          /\ shares[m].token = d[1]
                          /\ ~shares[m].revoked
                          /\ versions[m] # NoRow
                          /\ versions[m].checksum = d[2]
    BY DEF LinksInv, DeliveredLinkHolds
  <2> QED BY <1>1, <1>3, <2>1
<1>7. \A m \in Keys : shares'[m] # NoRow =>
        shares'[m].token < nextTok /\ (shares'[m].revoked => shares'[m].token \in dead')
  BY <1>1, <1>2, <1>3 DEF LinksInv
<1>8. \A m, n \in Keys : shares'[m] # NoRow /\ shares'[n] # NoRow
                           /\ shares'[m].token = shares'[n].token => m = n
  BY <1>1, <1>3 DEF LinksInv
<1>9. \A d \in dead' : d < nextTok
  BY <1>1, <1>2 DEF LinksInv
<1> QED BY <1>2, <1>4, <1>5, <1>6, <1>7, <1>8, <1>9 DEF LinksInv

\* The steps before a version's row is written, and the ones that end badly.
LEMMA InsideLinks ==
  ASSUME TypeInv, IdentityInv, LinksInv, NEW t \in Threads,
         \/ LocalCopy(t) \/ LocalPublish(t)
         \/ InsertArtifact(t) \/ InsertUpload(t) \/ Raise(t)
  PROVE  LinksInv'
<1>1. op[t] # Idle /\ op[t] \in OpRec
  BY Running DEF LocalCopy, LocalPublish, InsertArtifact, InsertUpload, Raise, At
<1>2. UNCHANGED <<versions, shares, nextTok, delivered, dead>>
  BY DEF LocalCopy, LocalPublish, InsertArtifact, InsertUpload, Raise, storeVars, ids, past
<1>3. \A a \in Arts : artifacts[a] # NoRow => artifacts'[a] = artifacts[a]
  <2>1. CASE InsertArtifact(t)
    <3>1. artifacts[op[t].key[1]] = NoRow
      BY <1>1, <2>1 DEF InsertArtifact, At, IdentityInv, Unstored, TypeInv, OpShape
    <3> QED BY <2>1, <3>1 DEF InsertArtifact, CreateArtifact, TypeInv, TypeOK, StoreTypeOK
  <2>2. CASE ~InsertArtifact(t)
    BY <2>2 DEF LocalCopy, LocalPublish, InsertUpload, Raise, storeVars
  <2> QED BY <2>1, <2>2
<1>4. \/ op' = [op EXCEPT ![t] = Idle]
      \/ \E p \in {"inspect", "artifact", "version", "upload"} :
           \/ op' = [op EXCEPT ![t].pc = p]
           \/ op' = [op EXCEPT ![t].pc = p, ![t].bytes = files[op[t].key]]
  BY DEF LocalCopy, LocalPublish, InsertArtifact, InsertUpload, Raise, Goto, Release, Unwind
<1>5. /\ \A r \in Threads : r # t => op'[r] = op[r]
      /\ op'[t] = Idle \/ op'[t].pc \in {"inspect", "artifact", "version", "upload"}
  BY <1>1, <1>4 DEF TypeInv, TypeOK, OpRec
<1>6. op'[t] # Idle => OpLink(op'[t])
  BY <1>5 DEF OpLink
<1> QED BY <1>2, <1>3, <1>5, <1>6, LinksFrame

LEMMA LocalReuseLinks ==
  ASSUME TypeInv, LinksInv, NEW t \in Threads, LocalReuse(t)
  PROVE  LinksInv'
<1>1. op[t] # Idle /\ op[t] \in OpRec
  BY Running DEF LocalReuse, At
<1>2. PICK n \in Vers :
        /\ SameAsLatest(op[t].key, n)
        /\ op' = [op EXCEPT ![t].pc = "share", ![t].bytes = files[op[t].key],
                            ![t].row = <<op[t].key[1], n>>]
  BY DEF LocalReuse
<1>3. /\ op'[t].pc = "share" /\ op'[t].bytes = files[op[t].key]
      /\ op'[t].row = <<op[t].key[1], n>>
      /\ \A r \in Threads : r # t => op'[r] = op[r]
  BY <1>1, <1>2 DEF TypeInv, TypeOK, OpRec
<1>4. OpLink(op'[t])
  BY <1>2, <1>3 DEF OpLink, SameAsLatest
<1>5. UNCHANGED <<artifacts, versions, shares, nextTok, delivered, dead>>
  BY DEF LocalReuse, ids, past
<1> QED BY <1>3, <1>4, <1>5, LinksFrame

LEMMA NextLinks ==
  TypeInv /\ IdentityInv /\ ReservationInv /\ LinksInv /\ [Next]_vars => LinksInv'
<1> SUFFICES ASSUME TypeInv, IdentityInv, ReservationInv, LinksInv, [Next]_vars
             PROVE  LinksInv'
  OBVIOUS
<1>1. ASSUME NEW t \in Threads, Begin(t) PROVE LinksInv'
  BY <1>1, BeginLinks
<1>2. ASSUME NEW t \in Threads, Step(t) PROVE LinksInv'
  BY <1>2, InsideLinks, LocalReuseLinks, InsertVersionLinks, UpsertShareLinks, AnswerLinks
  DEF Step
<1>3. ASSUME NEW tok \in Toks, NEW u \in Users, RevokeShare(tok, u) PROVE LinksInv'
  BY <1>3, RevokeShareLinks
<1>4. CASE (\E up \in Upls : HostCopy(up)) \/ UNCHANGED vars \/ Crash
  <2>1. /\ UNCHANGED <<artifacts, versions, shares, nextTok, delivered, dead>>
        /\ \A r \in Threads : op'[r] = Idle \/ op'[r] = op[r]
    BY <1>4 DEF HostCopy, vars, storeVars, Crash, ids, past
  <2> QED BY <2>1, LinksFrame
<1> QED BY <1>1, <1>2, <1>3, <1>4 DEF Next

LEMMA Links == Spec => []LinksInv
<1>1. Init => LinksInv
  BY InitLinksInv
<1> QED BY <1>1, NextLinks, TypeInvariant, Identity, Reservation, PTL DEF Spec

\* Re-sharing keeps a live link: what was handed to a user works until revoked.
THEOREM DeliveredLinksHold == Spec => []DeliveredLinkHolds
<1>1. LinksInv => DeliveredLinkHolds
  BY DEF LinksInv
<1> QED BY <1>1, Links, PTL

\* No later share revives a token that was revoked.
THEOREM RevokedLinksStayDead == Spec => []RevokedStaysDead
<1>1. LinksInv => RevokedStaysDead
  BY DEF LinksInv
<1> QED BY <1>1, Links, PTL

\* Every share is of a stored version and is its artifact's creator's to revoke.
THEOREM SharesAreOwned == Spec => []ShareOwner
<1>1. LinksInv => ShareOwner
  BY DEF LinksInv
<1> QED BY <1>1, Links, PTL

-----------------------------------------------------------------------------
(***************************************************************************)
(* The Hub keeps the contract of a link as long as no call fails, and a    *)
(* local share never repeats the latest version.                           *)
(***************************************************************************)

\* What a local share is about to store differs from the latest version.
OpFresh(o) ==
  o.kind = "local" /\ o.pc \in {"artifact", "version"} =>
    \A n \in Vers : IsLatestVersion(o.key[1], n) => versions[<<o.key[1], n>>].checksum # o.bytes

FreshInv == \A t \in Threads : op[t] # Idle => OpFresh(op[t])

LiveRow(k, tok) == shares[k] # NoRow /\ shares[k].token = tok /\ ~shares[k].revoked

\* The state of a link, in terms of the row that carries its token.
LinkView ==
  \A tok \in Toks :
    /\ \A k \in Keys : LiveRow(k, tok) =>
         LinkState[tok] = [state |-> "live", content |-> versions[k].checksum]
    /\ (\A k \in Keys : ~LiveRow(k, tok)) =>
         LinkState[tok] = [state |-> IF tok < nextTok THEN "revoked" ELSE "unissued",
                           content |-> NoFile]

-----------------------------------------------------------------------------
LEMMA FreshFrame ==
  ASSUME FreshInv, UNCHANGED versions,
         \A r \in Threads : op'[r] # Idle => op'[r] = op[r] \/ OpFresh(op'[r])
  PROVE  FreshInv'
BY DEF FreshInv, OpFresh, IsLatestVersion

LEMMA BeginFresh ==
  ASSUME TypeInv, FreshInv, NEW t \in Threads, Begin(t)
  PROVE  FreshInv'
<1>1. ASSUME NEW u \in Users, NEW s \in Sources, NEW kind \in {"local", "prepare"},
             BeginSnapshot(t, u, s, kind)
      PROVE  FreshInv'
  <2>1. /\ \A r \in Threads : r # t => op'[r] = Idle
        /\ op'[t].kind = kind
        /\ kind = "local" => op'[t].pc = "copy"
        /\ UNCHANGED <<storeVars, nextUpl, nextTok, sent, past>>
    BY <1>1, BeginFacts
  <2>2. OpFresh(op'[t])
    BY <2>1 DEF OpFresh
  <2> QED BY <2>1, <2>2, FreshFrame DEF storeVars
<1>2. ASSUME NEW up \in Upls, NEW u \in Users, CommitBegin(t, up, u)
      PROVE  FreshInv'
  <2> DEFINE k == uploads[up].key
  <2> DEFINE o == [kind |-> "commit", pc |-> "version", user |-> u,
                   source |-> artifacts[k[1]].source, isNew |-> FALSE,
                   key |-> k, row |-> k, bytes |-> files[k],
                   upload |-> up, token |-> 0]
  <2>1. op' = [op EXCEPT ![t] = o] /\ UNCHANGED storeVars
    BY <1>2 DEF CommitBegin, Acquire
  <2>2. o.kind = "commit"
    OBVIOUS
  <2> HIDE DEF o
  <2>3. op'[t] = o /\ \A r \in Threads : r # t => op'[r] = op[r]
    BY <2>1 DEF TypeInv, TypeOK
  <2>4. OpFresh(op'[t])
    BY <2>2, <2>3 DEF OpFresh
  <2> QED BY <2>1, <2>3, <2>4, FreshFrame DEF storeVars
<1> QED BY <1>1, <1>2 DEF Begin, LocalBegin, PrepareBegin

LEMMA LocalPublishFresh ==
  ASSUME TypeInv, IdentityInv, FreshInv, NEW t \in Threads, LocalPublish(t)
  PROVE  FreshInv'
<1> DEFINE k == op[t].key
<1>1. op[t] # Idle /\ op[t] \in OpRec /\ op[t].pc = "inspect"
  BY Running DEF LocalPublish, At
<1>2. PICK p : op' = [op EXCEPT ![t].pc = p, ![t].bytes = files[k]]
  BY DEF LocalPublish
<1>3. /\ op'[t].key = k /\ op'[t].bytes = files[k]
      /\ \A r \in Threads : r # t => op'[r] = op[r]
  BY <1>1, <1>2 DEF TypeInv, TypeOK, OpRec
<1>4. \A n \in Vers : IsLatestVersion(k[1], n) => versions[<<k[1], n>>].checksum # files[k]
  <2>1. CASE op[t].isNew
    <3>1. k[1] \in Arts /\ artifacts[k[1]] = NoRow
      BY <1>1, <2>1 DEF IdentityInv, Unstored, OpRec, Keys
    <3>2. \A n \in Vers : versions[<<k[1], n>>] = NoRow
      BY <3>1 DEF IdentityInv, Keys
    <3> QED BY <3>2 DEF IsLatestVersion
  <2>2. CASE ~op[t].isNew
    BY <2>2 DEF LocalPublish, SameAsLatest
  <2> QED BY <2>1, <2>2
<1>5. OpFresh(op'[t])
  BY <1>3, <1>4 DEF OpFresh
<1> QED BY <1>3, <1>5, FreshFrame DEF LocalPublish, storeVars

LEMMA StepFresh ==
  ASSUME TypeInv, IdentityInv, FreshInv, NEW t \in Threads, Step(t)
  PROVE  FreshInv'
<1>1. op[t] # Idle /\ op[t] \in OpRec /\ \A r \in Threads : r # t => op[r] = Idle
  BY Running DEF Step, At, LocalCopy, LocalReuse, LocalPublish, InsertArtifact, InsertUpload,
     InsertVersion, UpsertShare, ReadBack, InsertCommitted, Raise
<1>2. CASE InsertArtifact(t)
  <2>1. PICK p \in {"version", "upload"} : op' = [op EXCEPT ![t].pc = p]
    BY <1>2 DEF InsertArtifact, Goto
  <2>2. /\ op[t].pc = "artifact"
        /\ op'[t].kind = op[t].kind /\ op'[t].key = op[t].key /\ op'[t].bytes = op[t].bytes
        /\ \A r \in Threads : r # t => op'[r] = op[r]
    BY <1>1, <1>2, <2>1 DEF InsertArtifact, At, TypeInv, TypeOK, OpRec
  <2>3. OpFresh(op'[t])
    BY <1>1, <2>2 DEF FreshInv, OpFresh
  <2> QED BY <1>2, <2>2, <2>3, FreshFrame DEF InsertArtifact
<1>3. CASE \/ LocalCopy(t) \/ LocalReuse(t) \/ InsertUpload(t) \/ InsertVersion(t)
           \/ UpsertShare(t) \/ ReadBack(t) \/ InsertCommitted(t) \/ Raise(t)
  <2>1. \/ op' = [op EXCEPT ![t] = Idle]
        \/ \E p \in {"inspect", "share", "readback", "mark"} :
             \/ op' = [op EXCEPT ![t].pc = p]
             \/ \E tok : op' = [op EXCEPT ![t].pc = p, ![t].token = tok]
             \/ \E b, m : op' = [op EXCEPT ![t].pc = p, ![t].bytes = b, ![t].row = m]
    BY <1>3 DEF LocalCopy, LocalReuse, InsertUpload, InsertVersion, UpsertShare, ReadBack,
       InsertCommitted, Raise, Goto, Release, Unwind
  <2>2. /\ \A r \in Threads : r # t => op'[r] = Idle
        /\ op'[t] = Idle \/ op'[t].pc \in {"inspect", "share", "readback", "mark"}
    <3>1. op \in [Threads -> OpRec \cup {Idle}]
      BY DEF TypeInv, TypeOK
    <3>2. CASE op' = [op EXCEPT ![t] = Idle]
      BY <1>1, <3>1, <3>2
    <3>3. ASSUME NEW p \in {"inspect", "share", "readback", "mark"}, NEW tok, NEW b, NEW m,
                 \/ op' = [op EXCEPT ![t].pc = p]
                 \/ op' = [op EXCEPT ![t].pc = p, ![t].token = tok]
                 \/ op' = [op EXCEPT ![t].pc = p, ![t].bytes = b, ![t].row = m]
          PROVE  op'[t].pc = p /\ \A r \in Threads : r # t => op'[r] = Idle
      BY <1>1, <3>1, <3>3 DEF OpRec
    <3> QED BY <2>1, <3>2, <3>3
  <2> QED BY <2>2 DEF FreshInv, OpFresh
<1> QED BY <1>2, <1>3, LocalPublishFresh DEF Step

LEMMA NextFresh == TypeInv /\ IdentityInv /\ FreshInv /\ [Next]_vars => FreshInv'
<1> SUFFICES ASSUME TypeInv, IdentityInv, FreshInv, [Next]_vars PROVE FreshInv'
  OBVIOUS
<1>1. ASSUME NEW t \in Threads, Begin(t) PROVE FreshInv'
  BY <1>1, BeginFresh
<1>2. ASSUME NEW t \in Threads, Step(t) PROVE FreshInv'
  BY <1>2, StepFresh
<1>3. CASE \/ \E up \in Upls : HostCopy(up)
           \/ \E tok \in Toks, u \in Users : RevokeShare(tok, u)
           \/ Crash \/ UNCHANGED vars
  <2>1. UNCHANGED versions /\ \A r \in Threads : op'[r] = Idle \/ op'[r] = op[r]
    BY <1>3 DEF HostCopy, RevokeShare, Crash, vars, storeVars
  <2> QED BY <2>1, FreshFrame
<1> QED BY <1>1, <1>2, <1>3 DEF Next

LEMMA Fresh == Spec => []FreshInv
<1>1. Init => FreshInv
  BY DEF Init, FreshInv
<1> QED BY <1>1, NextFresh, TypeInvariant, Identity, PTL DEF Spec

\* Only a call of create_version adds a version.
LEMMA OnlyInsertVersion ==
  ASSUME TypeInv, [Next]_vars, versions' # versions
  PROVE  \E t \in Threads : InsertVersion(t)
<1>1. ASSUME NEW t \in Threads, Begin(t) PROVE FALSE
  BY <1>1 DEF Begin, LocalBegin, PrepareBegin, BeginSnapshot, CommitBegin, storeVars
<1>2. ASSUME NEW t \in Threads, Step(t), ~InsertVersion(t) PROVE FALSE
  BY <1>2 DEF Step, LocalCopy, LocalReuse, LocalPublish, InsertArtifact, InsertUpload,
     UpsertShare, ReadBack, InsertCommitted, Raise, storeVars
<1> QED BY <1>1, <1>2 DEF Next, HostCopy, RevokeShare, Crash, vars, storeVars

\* Sharing by local snapshot never stores the content of the latest version as
\* another version, however versions were added and uploads committed before.
THEOREM LocalSharesAreFresh == Spec => LocalNeverRepeatsLatest
<1> DEFINE NoRepeat ==
      \A k \in Keys, n \in Vers :
        /\ versions[k] = NoRow /\ versions'[k] # NoRow
        /\ versions'[k].mode = "LOCAL"
        /\ IsLatestVersion(k[1], n)
        => versions[<<k[1], n>>].checksum # versions'[k].checksum
<1>1. ASSUME TypeInv, ReservationInv, FreshInv, [Next]_vars PROVE [NoRepeat]_vars
  <2>1. SUFFICES ASSUME NEW k \in Keys, NEW n \in Vers,
                        versions[k] = NoRow, versions'[k] # NoRow,
                        versions'[k].mode = "LOCAL", IsLatestVersion(k[1], n)
                 PROVE  versions[<<k[1], n>>].checksum # versions'[k].checksum
    OBVIOUS
  <2>2. PICK t \in Threads : InsertVersion(t)
    BY <1>1, <2>1, OnlyInsertVersion
  <2>3. op[t] # Idle /\ op[t] \in OpRec /\ op[t].pc = "version" /\ KindAndPC(op[t])
    BY <1>1, <2>2, Running DEF InsertVersion, At, TypeInv, OpShape
  <2>4. op[t].row = op[t].key /\ op[t].key \in Keys
    BY <1>1, <2>3 DEF ReservationInv, OpReserved, OpRec
  <2>5. versions' = [versions EXCEPT ![op[t].key] =
          [mode |-> IF op[t].kind = "local" THEN "LOCAL" ELSE "NAS", checksum |-> op[t].bytes]]
    BY <2>2, <2>4 DEF InsertVersion, CreateVersion
  <2>6. /\ k = op[t].key
        /\ versions'[k] = [mode |-> IF op[t].kind = "local" THEN "LOCAL" ELSE "NAS",
                           checksum |-> op[t].bytes]
    BY <1>1, <2>1, <2>4, <2>5 DEF TypeInv, TypeOK, StoreTypeOK
  <2>7. op[t].kind = "local" /\ versions'[k].checksum = op[t].bytes
    BY <2>1, <2>6
  <2> QED BY <1>1, <2>1, <2>3, <2>6, <2>7 DEF FreshInv, OpFresh
<1> QED
  BY <1>1, TypeInvariant, Reservation, Fresh, PTL DEF Spec, LocalNeverRepeatsLatest

-----------------------------------------------------------------------------
(***************************************************************************)
(* From here on no call fails: an operation ends early only where a call   *)
(* refuses by itself, which no local share ever meets.                     *)
(***************************************************************************)
LEMMA NoDiscard ==
  ASSUME "error" \notin Faults, TypeInv, ReservationInv, LinksInv,
         NEW t \in Threads, Raise(t)
  PROVE  UNCHANGED files
<1>1. op[t] # Idle /\ op[t] \in OpRec /\ OpReserved(op[t]) /\ OpLink(op[t])
  BY Running DEF Raise, ReservationInv, LinksInv
<1>2. SUFFICES ASSUME op[t].kind = "local" PROVE ~Refused(t)
  BY DEF Raise, DiscardsSnapshot
<1>3. ~(At(t, "version") /\ versions[op[t].row] # NoRow)
  BY <1>1, <1>2 DEF At, OpReserved
<1>4. ~At(t, "mark")
  BY <1>1, <1>2 DEF At, TypeInv, OpShape, KindAndPC
<1>5. ~(At(t, "readback") /\ SharesByToken(op[t].token) = {})
  <2>1. SUFFICES ASSUME At(t, "readback") PROVE op[t].row \in SharesByToken(op[t].token)
    OBVIOUS
  <2>2. shares[op[t].row] = [token |-> op[t].token, creator |-> op[t].user, revoked |-> FALSE]
    BY <1>1, <2>1 DEF At, OpLink
  <2>3. op[t].token \in Toks /\ op[t].row \in Keys
    BY <1>1, <2>1 DEF At, TypeInv, OpShape, OpRec
  <2>4. shares[op[t].row] \in ShareRow
    BY <1>1, <2>2, <2>3 DEF ShareRow, OpRec
  <2>5. shares[op[t].row] # NoRow
    BY <2>4, StoreAssumption
  <2> QED BY <2>2, <2>3, <2>5 DEF SharesByToken
<1> QED BY <1>3, <1>4, <1>5 DEF Refused

\* A stored version's file is not written or discarded.
LEMMA StoredFileStays ==
  ASSUME "error" \notin Faults, TypeInv, ReservationInv, LinksInv, [Next]_vars,
         NEW k \in Keys, versions[k] # NoRow
  PROVE  files'[k] = files[k]
<1>1. ASSUME NEW t \in Threads, Begin(t) PROVE UNCHANGED files
  BY <1>1 DEF Begin, LocalBegin, PrepareBegin, BeginSnapshot, CommitBegin, storeVars
<1>2. ASSUME NEW t \in Threads, Step(t) PROVE files'[k] = files[k]
  <2>1. CASE LocalCopy(t) \/ LocalReuse(t)
    <3>1. op[t] # Idle /\ op[t].pc \in {"copy", "inspect"} /\ op[t].key \in Keys
      BY <2>1, Running DEF LocalCopy, LocalReuse, At, OpRec
    <3>2. versions[op[t].key] = NoRow
      BY <3>1 DEF ReservationInv, OpReserved, TypeInv, OpShape, KindAndPC
    <3> QED BY <2>1, <3>1, <3>2 DEF LocalCopy, LocalReuse, CopySnapshot, Discard,
                                 TypeInv, TypeOK, StoreTypeOK
  <2>2. CASE Raise(t)
    BY <2>2, NoDiscard
  <2> QED BY <1>2, <2>1, <2>2 DEF Step, LocalPublish, InsertArtifact, InsertUpload,
             InsertVersion, UpsertShare, ReadBack, InsertCommitted, storeVars
<1>3. ASSUME NEW up \in Upls, HostCopy(up) PROVE files'[k] = files[k]
  <2>1. versions[uploads[up].key] = NoRow
    BY <1>3 DEF HostCopy, ReservationInv
  <2> QED BY <1>3, <2>1 DEF HostCopy, CopySnapshot, TypeInv, TypeOK, StoreTypeOK
<1> QED BY <1>1, <1>2, <1>3 DEF Next, RevokeShare, Crash, vars, storeVars

LEMMA NextStored ==
  ASSUME "error" \notin Faults, TypeInv, ReservationInv, FilesInv, LinksInv,
         StoredVersionHasFile, [Next]_vars
  PROVE  StoredVersionHasFile'
<1>1. CASE UNCHANGED versions
  BY <1>1, StoredFileStays DEF StoredVersionHasFile
<1>2. CASE versions' # versions
  <2>1. PICK t \in Threads : InsertVersion(t)
    BY <1>2, OnlyInsertVersion
  <2>2. op[t] # Idle /\ op[t] \in OpRec /\ op[t].pc = "version"
    BY <2>1, Running DEF InsertVersion, At
  <2>3. op[t].row = op[t].key /\ op[t].key \in Keys /\ files[op[t].key] = op[t].bytes
    BY <2>2 DEF ReservationInv, OpReserved, FilesInv, OpFile, OpRec
  <2>4. PICK mode : versions' = [versions EXCEPT ![op[t].key] =
                                   [mode |-> mode, checksum |-> op[t].bytes]]
    BY <2>1, <2>3 DEF InsertVersion, CreateVersion
  <2>5. /\ versions'[op[t].key].checksum = op[t].bytes
        /\ \A k \in Keys : k # op[t].key => versions'[k] = versions[k]
    BY <2>3, <2>4 DEF TypeInv, TypeOK, StoreTypeOK
  <2>6. UNCHANGED files
    BY <2>1 DEF InsertVersion
  <2> QED BY <2>3, <2>5, <2>6 DEF StoredVersionHasFile
<1> QED BY <1>1, <1>2

\* As long as no call fails, crashes at any point included, every stored version
\* has the file its checksum was computed from.
THEOREM StoredVersionsKeepFiles ==
  ASSUME "error" \notin Faults
  PROVE  Spec => []StoredVersionHasFile
<1>1. Init => StoredVersionHasFile
  BY DEF Init, StoreInit, StoredVersionHasFile
<1>2. TypeInv /\ ReservationInv /\ FilesInv /\ LinksInv /\ StoredVersionHasFile /\ [Next]_vars
        => StoredVersionHasFile'
  BY NextStored
<1> QED BY <1>1, <1>2, TypeInvariant, Reservation, Files, Links, PTL DEF Spec

-----------------------------------------------------------------------------
\* What a token stands for can be read off the row that carries it.
LEMMA LinkViewHolds == TypeInv /\ LinksInv /\ StoredVersionHasFile => LinkView
<1> SUFFICES ASSUME TypeInv, LinksInv, StoredVersionHasFile, NEW tok \in Toks
             PROVE  /\ \A k \in Keys : LiveRow(k, tok) =>
                         LinkState[tok] = [state |-> "live", content |-> versions[k].checksum]
                    /\ (\A k \in Keys : ~LiveRow(k, tok)) =>
                         LinkState[tok] = [state |-> IF tok < nextTok THEN "revoked" ELSE "unissued",
                                           content |-> NoFile]
  BY DEF LinkView
<1>1. \A k \in Keys : LiveRow(k, tok) <=> k \in LiveAt(tok)
  BY DEF LiveRow, LiveAt, SharesByToken
<1>2. LiveAt(tok) \subseteq Keys
  BY DEF LiveAt, SharesByToken
<1>3. LinkState[tok] =
        IF LiveAt(tok) # {}
        THEN [state |-> "live", content |-> files[CHOOSE k \in LiveAt(tok) : TRUE]]
        ELSE [state |-> IF tok < nextTok THEN "revoked" ELSE "unissued", content |-> NoFile]
  BY DEF LinkState
<1>4. ASSUME NEW k \in Keys, LiveRow(k, tok)
      PROVE  LinkState[tok] = [state |-> "live", content |-> versions[k].checksum]
  <2>1. LiveAt(tok) = {k}
    <3>1. \A m \in LiveAt(tok) : m = k
      BY <1>4 DEF LiveAt, SharesByToken, LiveRow, LinksInv
    <3> QED BY <1>1, <1>4, <3>1
  <2>2. (CHOOSE m \in LiveAt(tok) : TRUE) = k
    BY <2>1
  <2>3. files[k] = versions[k].checksum
    BY <1>4 DEF LiveRow, LinksInv, ShareOwner, StoredVersionHasFile
  <2> QED BY <1>3, <2>1, <2>2, <2>3
<1>5. ASSUME \A k \in Keys : ~LiveRow(k, tok)
      PROVE  LinkState[tok] = [state |-> IF tok < nextTok THEN "revoked" ELSE "unissued",
                               content |-> NoFile]
  <2>1. LiveAt(tok) = {}
    BY <1>1, <1>2, <1>5
  <2> QED BY <1>3, <2>1
<1> QED BY <1>4, <1>5

LEMMA LinkStateDomain ==
  LinkState = [tok \in Toks |-> LinkState[tok]] /\ DOMAIN LinkState = Toks
BY DEF LinkState

\* The state of a token whose live row, or lack of one, a step leaves alone.
LEMMA SameLink ==
  ASSUME LinkView, LinkView', NEW tok \in Toks,
         \A k \in Keys : LiveRow(k, tok)' <=> LiveRow(k, tok),
         \A k \in Keys : LiveRow(k, tok) => versions'[k].checksum = versions[k].checksum,
         tok < nextTok' <=> tok < nextTok
  PROVE  LinkState'[tok] = LinkState[tok]
<1>1. CASE \E k \in Keys : LiveRow(k, tok)
  <2>1. PICK k \in Keys : LiveRow(k, tok)
    BY <1>1
  <2>2. LinkState[tok] = [state |-> "live", content |-> versions[k].checksum]
    BY <2>1 DEF LinkView
  <2>3. LinkState'[tok] = [state |-> "live", content |-> versions'[k].checksum]
    BY <2>1 DEF LinkView, LiveRow
  <2> QED BY <2>1, <2>2, <2>3
<1>2. CASE \A k \in Keys : ~LiveRow(k, tok)
  <2>1. LinkState[tok] = [state |-> IF tok < nextTok THEN "revoked" ELSE "unissued",
                          content |-> NoFile]
    BY <1>2 DEF LinkView
  <2>2. LinkState'[tok] = [state |-> IF tok < nextTok' THEN "revoked" ELSE "unissued",
                           content |-> NoFile]
    BY <1>2 DEF LinkView, LiveRow
  <2> QED BY <2>1, <2>2
<1> QED BY <1>1, <1>2

LEMMA UpsertShareContract ==
  ASSUME TypeInv, IdentityInv, ReservationInv, LinksInv, LinkView, LinkView',
         NEW t \in Threads, UpsertShare(t)
  PROVE  Contract!Next \/ LinkState' = LinkState
<1>1. op[t] # Idle /\ op[t] \in OpRec /\ op[t].pc = "share"
  BY Running DEF UpsertShare, At
<1>2. op[t].row \in Keys /\ versions[op[t].row] # NoRow
  BY <1>1 DEF ReservationInv, OpReserved, OpRec
<1>3. PICK k \in Keys : k = op[t].row
  BY <1>2
<1>4. PICK tok \in Toks : tok = IF KeepsToken(k) THEN shares[k].token ELSE nextTok
  BY <1>3 DEF UpsertShare, KeepsToken, TypeInv, TypeOK, StoreTypeOK, ShareRow, Toks
<1>5. /\ KeepsToken(k) => tok = shares[k].token
      /\ ~KeepsToken(k) => tok = nextTok
      /\ nextTok \in Nat
      /\ versions[k] # NoRow /\ versions[k].checksum \in Contents
  BY <1>2, <1>3, <1>4 DEF TypeInv, TypeOK, StoreTypeOK, VersionRow
<1>6. PICK row \in ShareRow : row.token = tok /\ ~row.revoked /\ shares' = [shares EXCEPT ![k] = row]
  <2>1. [token |-> tok, creator |-> op[t].user, revoked |-> FALSE] \in ShareRow
    BY <1>1 DEF ShareRow, OpRec
  <2>2. shares' = [shares EXCEPT ![k] = [token |-> tok, creator |-> op[t].user, revoked |-> FALSE]]
    BY <1>3, <1>4 DEF UpsertShare, UpsertShareRow
  <2> QED BY <2>1, <2>2
<1>7. /\ shares'[k] = row /\ row # NoRow
      /\ \A m \in Keys : m # k => shares'[m] = shares[m]
      /\ nextTok' = IF KeepsToken(k) THEN nextTok ELSE nextTok + 1
      /\ versions' = versions
  BY <1>3, <1>6, StoreAssumption DEF UpsertShare, TypeInv, TypeOK, StoreTypeOK
<1>8. LiveRow(k, tok)'
  BY <1>6, <1>7 DEF LiveRow
<1>9. \A other \in Toks : other # tok =>
        \A m \in Keys : LiveRow(m, other)' <=> LiveRow(m, other)
  <2> SUFFICES ASSUME NEW other \in Toks, other # tok, NEW m \in Keys
               PROVE  LiveRow(m, other)' <=> LiveRow(m, other)
    OBVIOUS
  <2>1. CASE m = k
    <3>1. ~LiveRow(m, other)
      BY <1>5, <2>1 DEF LiveRow, KeepsToken
    <3>2. ~LiveRow(m, other)'
      BY <1>6, <1>7, <2>1 DEF LiveRow
    <3> QED BY <3>1, <3>2
  <2>2. CASE m # k
    BY <1>7, <2>2 DEF LiveRow
  <2> QED BY <2>1, <2>2
<1>10. \A other \in Toks : other # tok => LinkState'[other] = LinkState[other]
  <2> SUFFICES ASSUME NEW other \in Toks, other # tok
               PROVE  LinkState'[other] = LinkState[other]
    OBVIOUS
  <2>1. other < nextTok' <=> other < nextTok
    BY <1>5, <1>7 DEF Toks
  <2> QED BY <1>7, <1>9, <2>1, SameLink
<1>11. CASE KeepsToken(k)
  <2>1. \A m \in Keys : LiveRow(m, tok)' <=> LiveRow(m, tok)
    <3>1. LiveRow(k, tok)
      BY <1>5, <1>11 DEF LiveRow, KeepsToken
    <3>2. \A m \in Keys : m # k => (LiveRow(m, tok)' <=> LiveRow(m, tok))
      BY <1>7 DEF LiveRow
    <3> QED BY <1>8, <3>1, <3>2
  <2>2. LinkState'[tok] = LinkState[tok]
    <3>1. nextTok' = nextTok
      BY <1>7, <1>11
    <3> QED BY <1>7, <2>1, <3>1, SameLink
  <2>3. \A x \in Toks : LinkState'[x] = LinkState[x]
    BY <1>10, <2>2
  <2> QED BY <2>3 DEF LinkState
<1>12. CASE ~KeepsToken(k)
  <2> DEFINE c == versions[k].checksum
  <2>1. LinkState'[tok] = [state |-> "live", content |-> c]
    BY <1>7, <1>8 DEF LinkView, LiveRow
  <2>2. \A m \in Keys : ~LiveRow(m, tok)
    BY <1>5, <1>12 DEF LiveRow, LinksInv
  <2>3. LinkState[tok] = [state |-> "unissued", content |-> NoFile]
    BY <1>5, <1>12, <2>2 DEF LinkView
  <2>4. LinkState' = [LinkState EXCEPT ![tok] = [state |-> "live", content |-> c]]
    BY <1>10, <2>1 DEF LinkState
  <2>5. Contract!Issue(tok, c)
    BY <2>3, <2>4 DEF Contract!Issue, Contract!Unissued, Contract!Live
  <2> QED BY <1>5, <2>5 DEF Contract!Next
<1> QED BY <1>11, <1>12

LEMMA RevokeShareContract ==
  ASSUME TypeInv, LinksInv, LinkView, LinkView',
         NEW tok \in Toks, NEW u \in Users, RevokeShare(tok, u)
  PROVE  Contract!Next
<1>1. PICK k \in Keys :
        /\ shares[k] # NoRow /\ shares[k].token = tok /\ ~shares[k].revoked
        /\ shares' = [shares EXCEPT ![k].revoked = TRUE]
  BY DEF RevokeShare, SharesByToken, RevokeShareRow
<1>2. versions' = versions /\ nextTok' = nextTok
  BY DEF RevokeShare, ids
<1>3. /\ shares'[k] = [shares[k] EXCEPT !.revoked = TRUE]
      /\ shares[k] \in ShareRow
      /\ \A m \in Keys : m # k => shares'[m] = shares[m]
  BY <1>1 DEF TypeInv, TypeOK, StoreTypeOK
<1>4. shares'[k].revoked /\ shares'[k].token = tok
  BY <1>1, <1>3 DEF ShareRow
<1>5. LiveRow(k, tok) /\ \A m \in Keys : m # k => ~LiveRow(m, tok)
  BY <1>1 DEF LiveRow, LinksInv
<1>6. \A m \in Keys : ~LiveRow(m, tok)'
  BY <1>3, <1>4, <1>5 DEF LiveRow
<1>7. LinkState[tok].state = "live"
  <2>1. LinkState[tok] = [state |-> "live", content |-> versions[k].checksum]
    BY <1>5 DEF LinkView
  <2> QED BY <2>1
<1>8. LinkState'[tok] = [state |-> "revoked", content |-> NoFile]
  <2>1. tok < nextTok'
    BY <1>1, <1>2 DEF LinksInv
  <2> QED BY <1>6, <2>1 DEF LinkView, LiveRow
<1>9. \A other \in Toks : other # tok => LinkState'[other] = LinkState[other]
  <2> SUFFICES ASSUME NEW other \in Toks, other # tok
               PROVE  LinkState'[other] = LinkState[other]
    OBVIOUS
  <2>1. \A m \in Keys : LiveRow(m, other)' <=> LiveRow(m, other)
    BY <1>1, <1>3, <1>4 DEF LiveRow
  <2> QED BY <1>2, <2>1, SameLink
<1>10. LinkState' = [LinkState EXCEPT ![tok] = [state |-> "revoked", content |-> NoFile]]
  BY <1>8, <1>9 DEF LinkState
<1>11. Contract!Revoke(tok)
  BY <1>7, <1>10 DEF Contract!Revoke, Contract!Revoked
<1> QED BY <1>11 DEF Contract!Next

\* A step that writes no share leaves every link as it is: the versions that
\* are shared keep their checksums.
LEMMA OtherStepContract ==
  ASSUME TypeInv, LinksInv, LinkView, LinkView',
         UNCHANGED <<shares, nextTok>>,
         \A k \in Keys : versions[k] # NoRow => versions'[k] = versions[k]
  PROVE  LinkState' = LinkState
<1>1. ASSUME NEW tok \in Toks PROVE LinkState'[tok] = LinkState[tok]
  <2>1. \A k \in Keys : LiveRow(k, tok)' <=> LiveRow(k, tok)
    BY DEF LiveRow
  <2>2. \A k \in Keys : LiveRow(k, tok) => versions'[k] = versions[k]
    BY DEF LiveRow, LinksInv, ShareOwner
  <2> QED BY <1>1, <2>1, <2>2, SameLink
<1> QED BY <1>1 DEF LinkState

LEMMA NextContract ==
  ASSUME TypeInv, IdentityInv, ReservationInv, LinksInv, LinkView, LinkView', [Next]_vars
  PROVE  Contract!Next \/ LinkState' = LinkState
<1>1. \A k \in Keys : versions[k] # NoRow => versions'[k] = versions[k]
  <2>1. CASE UNCHANGED versions
    BY <2>1
  <2>2. ASSUME NEW t \in Threads, InsertVersion(t)
        PROVE  \A k \in Keys : versions[k] # NoRow => versions'[k] = versions[k]
    BY <2>2 DEF InsertVersion, CreateVersion, TypeInv, TypeOK, StoreTypeOK
  <2> QED BY <2>1, <2>2, OnlyInsertVersion
<1>2. ASSUME NEW t \in Threads, UpsertShare(t) PROVE Contract!Next \/ LinkState' = LinkState
  BY <1>2, UpsertShareContract
<1>3. ASSUME NEW tok \in Toks, NEW u \in Users, RevokeShare(tok, u) PROVE Contract!Next
  BY <1>3, RevokeShareContract
<1>4. CASE UNCHANGED <<shares, nextTok>>
  BY <1>1, <1>4, OtherStepContract
<1>5. ASSUME NEW t \in Threads, Begin(t) PROVE UNCHANGED <<shares, nextTok>>
  BY <1>5 DEF Begin, LocalBegin, PrepareBegin, BeginSnapshot, CommitBegin, storeVars, ids
<1>6. ASSUME NEW t \in Threads, Step(t), ~UpsertShare(t) PROVE UNCHANGED <<shares, nextTok>>
  BY <1>6 DEF Step, LocalCopy, LocalReuse, LocalPublish, InsertArtifact, InsertUpload,
     InsertVersion, ReadBack, InsertCommitted, Raise, storeVars, ids
<1>7. CASE (\E up \in Upls : HostCopy(up)) \/ Crash \/ UNCHANGED vars
  <2>1. UNCHANGED <<shares, nextTok>>
    BY <1>7 DEF HostCopy, Crash, vars, storeVars, ids
  <2> QED BY <1>4, <2>1
<1> QED BY <1>2, <1>3, <1>4, <1>5, <1>6, <1>7 DEF Next

\* As long as no call fails, a link stands for the same bytes from its issue to
\* its revocation, and for none afterwards.
THEOREM HubKeepsContract ==
  ASSUME "error" \notin Faults
  PROVE  Spec => KeepsContract
<1>1. Init => Contract!Init
  <2> SUFFICES ASSUME Init PROVE \A tok \in Toks :
                 LinkState[tok] = [state |-> "unissued", content |-> NoFile]
    BY DEF Contract!Init, Contract!Unissued, LinkState
  <2>1. \A tok \in Toks : LiveAt(tok) = {} /\ ~(tok < nextTok)
    BY DEF Init, StoreInit, LiveAt, SharesByToken, Toks
  <2> QED BY <2>1 DEF LinkState
<1>2. TypeInv /\ IdentityInv /\ ReservationInv /\ LinksInv /\ LinkView /\ LinkView' /\ [Next]_vars
        => Contract!Next \/ LinkState' = LinkState
  BY NextContract
<1>3. Spec => []StoredVersionHasFile
  BY StoredVersionsKeepFiles
<1>4. Spec => []LinkView
  BY <1>3, LinkViewHolds, TypeInvariant, Links, PTL
<1>5. [Contract!Next]_LinkState <=> (Contract!Next \/ LinkState' = LinkState)
  OBVIOUS
<1>6. Spec => Contract!Init /\ [][Contract!Next]_LinkState
  BY <1>1, <1>2, <1>4, <1>5, TypeInvariant, Identity, Reservation, Links, PTL DEF Spec
<1> QED BY <1>6 DEF KeepsContract, Contract!Spec

=============================================================================
