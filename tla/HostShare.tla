------------------------------ MODULE HostShare ------------------------------
(***************************************************************************)
(* The plugin host serving share requests of the browser.  In Local mode   *)
(* one call asks the Hub to copy the Session File; in NAS mode the host    *)
(* asks the Hub for a reservation, copies the file to the reserved key     *)
(* through a temporary file, and asks the Hub to commit.  Requests run     *)
(* concurrently; calls to the Hub and their answers get lost or come late; *)
(* the browser aborts; filesystem calls fail; the host crashes and is      *)
(* started again, perhaps in the other mode.  An operation of the Hub is   *)
(* one step here (it holds the operation lock: module ArtifactHub).        *)
(***************************************************************************)
EXTENDS Integers

CONSTANTS
  Requests,  \* share requests of the browser, all for one Session File
  Contents,  \* contents of the file; a checksum identifies its content
  MaxVer,    \* bound on the version numbers of the artifact
  NoFile,    \* no file under that name
  Partial,   \* a file that is not written to its end
  NoRow      \* no such row at the Hub, no call to it

VARIABLES
  mode,      \* storage.mode of the running host
  source,    \* resolveSourceFile finds the Session File now
  root,      \* resolveArtifactRoot finds the NAS now
  uploads,   \* Hub: the request a version number is reserved for
  versions,  \* Hub: the versions, with the request that published them
  files,     \* the storage root, by version number
  tmp,       \* the temporary file of each request's copy
  req,       \* each request: where it is, its reserved key, what it has read
  call,      \* each request's latest call to the Hub
  answer     \* what the browser is answered

hub  == <<uploads, versions>>
vars == <<mode, source, root, uploads, versions, files, tmp, req, call, answer>>

Keys    == 1..MaxVer
Version == [sum : Contents, by : Requests]
Waits   == {"local", "prepare", "commit"}
PCs     == Waits \cup {"new", "resolve", "open", "stream", "rename", "clean", "failed", "end"}
Status  == {"sent", "ok", "refused", "broken"}
Codes   == {"none", "ok", "bad-request", "session-not-found", "internal"}
Request == [pc : PCs, key : Keys \cup {0}, read : Contents \cup {NoFile}, aborted : BOOLEAN]
Call    == [kind : Waits, status : Status, key : Keys \cup {0}, sum : Contents \cup {NoFile}]

ASSUME HostAssumption ==
  /\ MaxVer \in Nat
  /\ NoFile \notin Contents /\ Partial \notin Contents /\ NoFile # Partial
  /\ NoRow \notin Version \cup Requests \cup Call

TypeOK ==
  /\ mode \in {"local", "nas"} /\ source \in BOOLEAN /\ root \in BOOLEAN
  /\ uploads \in [Keys -> Requests \cup {NoRow}]
  /\ versions \in [Keys -> Version \cup {NoRow}]
  /\ files \in [Keys -> Contents \cup {NoFile, Partial}]
  /\ tmp \in [Requests -> Contents \cup {NoFile, Partial}]
  /\ req \in [Requests -> Request]
  /\ call \in [Requests -> Call \cup {NoRow}]
  /\ answer \in [Requests -> Codes]

Init ==
  /\ mode \in {"local", "nas"} /\ source = TRUE /\ root = TRUE
  /\ uploads = [k \in Keys |-> NoRow]
  /\ versions = [k \in Keys |-> NoRow]
  /\ files = [k \in Keys |-> NoFile]
  /\ tmp = [r \in Requests |-> NoFile]
  /\ req = [r \in Requests |-> [pc |-> "new", key |-> 0, read |-> NoFile, aborted |-> FALSE]]
  /\ call = [r \in Requests |-> NoRow]
  /\ answer = [r \in Requests |-> "none"]

-----------------------------------------------------------------------------
\* The Hub

Taken == {k \in Keys : versions[k] # NoRow \/ uploads[k] # NoRow}

\* Mutant: reserved numbers are not counted.
IsNextOfVersions(k) ==
  /\ \A m \in Keys : versions[m] # NoRow => m < k
  /\ k - 1 \in {m \in Keys : versions[m] # NoRow} \cup {0}

IsNext(k) == (\A m \in Taken : m < k) /\ k - 1 \in Taken \cup {0}

Publish(k, c, r) ==
  /\ versions[k] = NoRow
  /\ versions' = [versions EXCEPT ![k] = [sum |-> c, by |-> r]]

Reply(r, status, k) == call' = [call EXCEPT ![r].status = status, ![r].key = k]

\* Each operation is done and answered, or fails before or after its writes;
\* the host can tell a refusal (4xx) from a failure (5xx), not which failure.
HubPrepares(r) ==
  \E k \in Keys, status \in {"ok", "broken"} :
    /\ IsNext(k)
    /\ uploads' = [uploads EXCEPT ![k] = r]
    /\ Reply(r, status, k)
    /\ UNCHANGED <<versions, files>>

Accepts(r) ==
  /\ versions[call[r].key] = NoRow
  /\ files[call[r].key] = call[r].sum

HubCommits(r) ==
  \E status \in {"ok", "broken"} :
    /\ Accepts(r)
    /\ Publish(call[r].key, call[r].sum, r)
    /\ Reply(r, status, call[r].key)
    /\ UNCHANGED <<uploads, files>>

\* A local share copies what it finds, as a new version unless the latest has
\* that content; a failure after the version is stored takes its file away.
HubShares(r) ==
  \E c \in Contents, k \in Keys, status \in {"ok", "broken"} :
    /\ source
    /\ UNCHANGED uploads
    /\ Reply(r, status, k)
    /\ \/ /\ versions[k] # NoRow /\ versions[k].sum = c
          /\ \A m \in Keys : versions[m] # NoRow => m <= k
          /\ UNCHANGED <<versions, files>>
       \/ /\ \A m \in Keys : versions[m] # NoRow /\ (\A n \in Keys : versions[n] # NoRow => n <= m)
                               => versions[m].sum # c
          /\ IsNext(k)
          /\ Publish(k, c, r)
          /\ files' = [files EXCEPT ![k] = IF status = "ok" THEN c ELSE NoFile]

HubFails(r) ==
  /\ \E status \in {"refused", "broken"} : Reply(r, status, call[r].key)
  /\ UNCHANGED <<hub, files>>

\* A call may reach the Hub long after the host has stopped waiting for it.
HubHandles(r) ==
  /\ call[r] # NoRow /\ call[r].status = "sent"
  /\ \/ call[r].kind = "local"   /\ HubShares(r)
     \/ call[r].kind = "prepare" /\ HubPrepares(r)
     \/ call[r].kind = "commit"  /\ HubCommits(r)
     \/ HubFails(r)
  /\ UNCHANGED <<mode, source, root, tmp, req, answer>>

-----------------------------------------------------------------------------
\* The host: ending a request, and calling the Hub

Goto(r, p) == req' = [req EXCEPT ![r].pc = p]

End(r, code) ==
  /\ Goto(r, "end")
  /\ answer' = [answer EXCEPT ![r] = code]

Fetch(r, kind) ==
  /\ Goto(r, kind)
  /\ call' = [call EXCEPT ![r] = [kind |-> kind, status |-> "sent", key |-> req[r].key,
                                  sum |-> req[r].read]]
  /\ UNCHANGED answer

\* fetch rejects at once when its signal is aborted.
Send(r, kind) ==
  IF req[r].aborted
  THEN End(r, "bad-request") /\ UNCHANGED call
  ELSE Fetch(r, kind)

\* handleShareRequest: the request is malformed, its session unknown, or it
\* goes the way of the host's mode.
Receive(r) ==
  /\ req[r].pc = "new"
  /\ \/ \E code \in {"bad-request", "session-not-found"} : End(r, code) /\ UNCHANGED call
     \/ mode = "nas" /\ Goto(r, "resolve") /\ UNCHANGED <<call, answer>>
     \/ mode = "local" /\ Send(r, "local")
  /\ UNCHANGED <<mode, source, root, hub, files, tmp>>

\* createNasShare looks for the file and the NAS before it asks the Hub.
Resolve(r) ==
  /\ req[r].pc = "resolve"
  /\ IF source /\ root THEN Send(r, "prepare") ELSE End(r, "bad-request") /\ UNCHANGED call
  /\ UNCHANGED <<mode, source, root, hub, files, tmp>>

Waiting(r) == req[r].pc \in Waits

\* Mutant: every failure counts as the request's fault.
FailureIsFault(status) == "bad-request"

\* Mutant: the Hub's own status is passed on.
FailurePassedOn(status) == status

\* handleShareRequest: 4xx is the request's fault, anything else is internal.
FailureCode(status) == IF status = "refused" THEN "bad-request" ELSE "internal"

\* The Hub's answer arrives: the reservation leads on to the copy, a share to
\* the browser.
TakeAnswer(r) ==
  /\ Waiting(r) /\ call[r].status # "sent"
  /\ \/ /\ call[r].status # "ok"
        /\ End(r, FailureCode(call[r].status))
     \/ /\ call[r].status = "ok" /\ req[r].pc = "prepare"
        /\ req' = [req EXCEPT ![r].pc = "open", ![r].key = call[r].key]
        /\ UNCHANGED answer
     \/ /\ call[r].status = "ok" /\ req[r].pc # "prepare"
        /\ req' = [req EXCEPT ![r].pc = "end", ![r].key = call[r].key]
        /\ answer' = [answer EXCEPT ![r] = "ok"]
  /\ UNCHANGED <<mode, source, root, hub, files, tmp, call>>

\* Mutant: a call without an answer is made again.
ResendsCall(r) ==
  /\ Waiting(r)
  /\ call' = [call EXCEPT ![r].status = "sent"]
  /\ UNCHANGED <<mode, source, root, hub, files, tmp, req, answer>>

\* post: the connection fails, or its answer is no envelope or no result.  What
\* became of the call the host cannot know, and it does not make it again.
CallBreaks(r) ==
  /\ Waiting(r)
  /\ End(r, "internal")
  /\ UNCHANGED <<mode, source, root, hub, files, tmp, call>>

\* Mutant: the commit is sent without the signal.
WaitAbortsPrepareOnly(r) ==
  /\ req[r].pc = "prepare" /\ req[r].aborted
  /\ \E code \in {"bad-request", "internal"} : End(r, code)
  /\ UNCHANGED <<mode, source, root, hub, files, tmp, call>>

\* The signal ends the wait: an AbortError, or a body cut off (502).
WaitAborts(r) ==
  /\ Waiting(r) /\ req[r].aborted
  /\ \E code \in {"bad-request", "internal"} : End(r, code)
  /\ UNCHANGED <<mode, source, root, hub, files, tmp, call>>

-----------------------------------------------------------------------------
\* copyNasSnapshot

\* The paths are resolved again, the target's directory made, and a temporary
\* file opened that no other copy has the name of.
OpenCopy(r) ==
  /\ req[r].pc = "open"
  /\ \/ /\ source /\ root /\ ~req[r].aborted
        /\ tmp' = [tmp EXCEPT ![r] = Partial]
        /\ Goto(r, "stream")
        /\ UNCHANGED answer
     \/ End(r, "bad-request") /\ UNCHANGED tmp
  /\ UNCHANGED <<mode, source, root, hub, files, call>>

\* Mutant: the stream writes the target itself.
StreamToTarget(r) ==
  /\ req[r].pc = "stream"
  /\ \/ /\ files' = [files EXCEPT ![req[r].key] = Partial]
        /\ Goto(r, "failed") /\ UNCHANGED tmp
     \/ \E c \in Contents :
          /\ tmp' = [tmp EXCEPT ![r] = c]
          /\ req' = [req EXCEPT ![r].pc = "rename", ![r].read = c]
          /\ UNCHANGED files
  /\ UNCHANGED <<mode, source, root, hub, call, answer>>

\* The file may change while it is read: what counts is what was written, and
\* hashed.  The stream fails with the source, the NAS or the signal.
Stream(r) ==
  /\ req[r].pc = "stream"
  /\ \/ \E c \in Contents :
          /\ tmp' = [tmp EXCEPT ![r] = c]
          /\ req' = [req EXCEPT ![r].pc = "rename", ![r].read = c]
     \/ Goto(r, "failed") /\ UNCHANGED tmp
  /\ UNCHANGED <<mode, source, root, hub, files, call, answer>>

Rename(r) ==
  /\ req[r].pc = "rename"
  /\ \/ /\ files' = [files EXCEPT ![req[r].key] = tmp[r]]
        /\ tmp' = [tmp EXCEPT ![r] = NoFile]
        /\ Goto(r, "clean")
     \/ Goto(r, "failed") /\ UNCHANGED <<files, tmp>>
  /\ UNCHANGED <<mode, source, root, hub, call, answer>>

\* finally: unlink the temporary file; one that is not there is fine.
Unlink(r) ==
  \/ /\ req[r].pc = "clean"
     /\ Send(r, "commit")
     /\ UNCHANGED <<mode, source, root, hub, files, tmp>>
  \/ /\ req[r].pc = "failed"
     /\ \/ tmp' = [tmp EXCEPT ![r] = NoFile]
        \/ UNCHANGED tmp
     /\ End(r, "bad-request")
     /\ UNCHANGED <<mode, source, root, hub, files, call>>

-----------------------------------------------------------------------------
\* The surroundings

Abort(r) ==
  /\ req[r].pc # "end" /\ ~req[r].aborted
  /\ req' = [req EXCEPT ![r].aborted = TRUE]
  /\ UNCHANGED <<mode, source, root, hub, files, tmp, call, answer>>

\* The user moves the file away or back; the NAS is unmounted or mounted.
PathsChange ==
  /\ source' \in BOOLEAN /\ root' \in BOOLEAN
  /\ UNCHANGED <<mode, hub, files, tmp, req, call, answer>>

\* The host dies and starts again, with the mode its configuration now says;
\* the requests it was in get no answer.  Temporary files stay.
Crash ==
  /\ \E r \in Requests : req[r].pc \notin {"new", "end"}
  /\ req' = [r \in Requests |->
               IF req[r].pc = "new" THEN req[r] ELSE [req[r] EXCEPT !.pc = "end"]]
  /\ mode' \in {"local", "nas"}
  /\ UNCHANGED <<source, root, hub, files, tmp, call, answer>>

Host(r) ==
  \/ Receive(r) \/ Resolve(r) \/ TakeAnswer(r) \/ WaitAborts(r)
  \/ OpenCopy(r) \/ Stream(r) \/ Rename(r) \/ Unlink(r)

Next ==
  \/ \E r \in Requests : Host(r) \/ CallBreaks(r) \/ HubHandles(r) \/ Abort(r)
  \/ PathsChange
  \/ Crash

Spec == Init /\ [][Next]_vars

\* The host goes on by itself; nothing is promised of the Hub or the network.
FairSpec == Spec /\ \A r \in Requests : WF_vars(Host(r))

-----------------------------------------------------------------------------
(***************************************************************************)
(* Properties                                                              *)
(***************************************************************************)

\* A share the browser is told of exists, and a NAS share is of exactly the
\* bytes the host copied: the published version has their checksum, its file
\* has them, and no temporary file is left (createNasShare's whole protocol,
\* with other requests, crashes and late calls in between).
AnsweredShareHolds ==
  \A r \in Requests : answer[r] = "ok" =>
    /\ versions[req[r].key] # NoRow
    /\ tmp[r] = NoFile
    /\ req[r].read # NoFile =>
         /\ versions[req[r].key] = [sum |-> req[r].read, by |-> r]
         /\ files[req[r].key] = req[r].read

\* A request publishes one version at most, whatever happens to its calls; and one
\* that the browser did not abort and that is answered as its own fault
\* (bad-request, session-not-found) has published none, and has no call on its way
\* to the Hub: asking again cannot make a second version.
PublishesOnce ==
  /\ \A k, m \in Keys :
       versions[k] # NoRow /\ versions[m] # NoRow /\ versions[k].by = versions[m].by => k = m
  /\ \A r \in Requests :
       /\ answer[r] \in {"bad-request", "session-not-found"} /\ ~req[r].aborted
       => /\ \A k \in Keys : versions[k] # NoRow => versions[k].by # r
          /\ call[r] = NoRow \/ call[r].status # "sent"

\* The file under a storage key is all of what some copy read: a crash, a full
\* NAS or a removed source never leave part of a file there.
NoPartialFile == \A k \in Keys : files[k] # Partial

\* The file of a published version is not written again, by no retry of the
\* user and no copy that comes late.
PublishedFileStays ==
  [][\A k \in Keys : versions[k] # NoRow => files'[k] = files[k]]_vars

\* An aborted request ends whatever the Hub does: no step waits for the Hub
\* without the signal.
AbortEnds == \A r \in Requests : req[r].aborted ~> req[r].pc = "end"

=============================================================================
