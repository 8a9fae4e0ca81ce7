--------------------------- MODULE HostShare_proofs ---------------------------
(***************************************************************************)
(* What the plugin host's share requests come to, for any number of        *)
(* requests, contents and versions: whatever the network loses or delays,  *)
(* wherever the host stops.  The inductive invariant says what a request   *)
(* has at each place of the protocol, what its latest call to the Hub      *)
(* knows, and that a version is of its request's latest call.              *)
(***************************************************************************)
EXTENDS HostShare, TLAPS

Copying == {"open", "stream", "rename", "clean", "failed"}
Faults  == {"bad-request", "session-not-found"}

Has(r, kinds)  == call[r] # NoRow /\ call[r].kind \in kinds
Got(r, status) == call[r] # NoRow /\ call[r].status = status
Mine(r) == [sum |-> req[r].read, by |-> r]

\* Where a request is, and what it has by then.
PlaceInv(r) ==
  /\ req[r].pc \in {"new", "resolve"} => call[r] = NoRow /\ req[r].read = NoFile /\ tmp[r] = NoFile
  /\ req[r].pc \in Waits => Has(r, {req[r].pc})
  /\ req[r].pc \in Copying => Has(r, {"prepare"}) /\ Got(r, "ok") /\ call[r].key = req[r].key
  /\ req[r].pc = "rename" => req[r].read \in Contents /\ tmp[r] = req[r].read
  /\ req[r].pc = "clean" => /\ req[r].read \in Contents /\ tmp[r] = NoFile
                            /\ files[req[r].key] = req[r].read

\* What an answer to the browser says of the latest call.
AnswerInv(r) ==
  /\ answer[r] # "none" => req[r].pc = "end"
  /\ answer[r] = "ok" => Has(r, {"local", "commit"}) /\ Got(r, "ok") /\ call[r].key = req[r].key
  /\ answer[r] \in Faults /\ ~req[r].aborted =>
       call[r] = NoRow \/ Got(r, "refused") \/ (Has(r, {"prepare"}) /\ Got(r, "ok"))

\* What each kind of call knows.
LocalInv(r) ==
  Has(r, {"local"}) =>
    /\ req[r].pc \in {"local", "end"} /\ req[r].read = NoFile /\ tmp[r] = NoFile
    /\ Got(r, "ok") => call[r].key \in Keys /\ versions[call[r].key] # NoRow

PrepareInv(r) ==
  Has(r, {"prepare"}) /\ Got(r, "ok") =>
    call[r].key \in Keys /\ uploads[call[r].key] = r /\ versions[call[r].key] = NoRow

CommitInv(r) ==
  Has(r, {"commit"}) =>
    /\ req[r].pc \in {"commit", "end"} /\ req[r].read \in Contents /\ tmp[r] = NoFile
    /\ call[r].key \in Keys /\ call[r].key = req[r].key /\ call[r].sum = req[r].read
    /\ uploads[call[r].key] = r /\ files[call[r].key] = req[r].read
    /\ versions[call[r].key] \in {NoRow, Mine(r)}
    /\ Got(r, "ok") => versions[call[r].key] = Mine(r)

\* A version is of its request's latest call, whether or not the host knows.
VersionInv(k) ==
  versions[k] # NoRow =>
    /\ Has(versions[k].by, {"local", "commit"})
    /\ Got(versions[k].by, "ok") \/ Got(versions[k].by, "broken")
    /\ call[versions[k].by].key = k

RequestInv(r) == PlaceInv(r) /\ AnswerInv(r) /\ LocalInv(r) /\ PrepareInv(r) /\ CommitInv(r)

HostInv ==
  /\ TypeOK
  /\ \A r \in Requests : RequestInv(r)
  /\ \A k \in Keys : VersionInv(k)
  /\ NoPartialFile

-----------------------------------------------------------------------------
\* What the small steps do to one request, and to no other.

LEMMA GotoFacts ==
  ASSUME TypeOK, NEW r \in Requests, NEW p \in PCs, Goto(r, p)
  PROVE  /\ req'[r].pc = p /\ req'[r].key = req[r].key /\ req'[r].read = req[r].read
         /\ req'[r].aborted = req[r].aborted
         /\ \A q \in Requests : q # r => req'[q] = req[q]
         /\ req' \in [Requests -> Request]
BY DEF TypeOK, Goto, Request

\* Two parts of a request change in one assignment.
GotoWithKey(r, p, k) == req' = [req EXCEPT ![r].pc = p, ![r].key = k]

LEMMA KeyFacts ==
  ASSUME TypeOK, NEW r \in Requests, NEW p \in PCs, NEW k \in Keys \cup {0}, GotoWithKey(r, p, k)
  PROVE  /\ req'[r].pc = p /\ req'[r].key = k /\ req'[r].read = req[r].read
         /\ req'[r].aborted = req[r].aborted
         /\ \A q \in Requests : q # r => req'[q] = req[q]
         /\ req' \in [Requests -> Request]
<1>1. req[r] \in Request /\ req \in [Requests -> Request]
  BY DEF TypeOK
<1>2. req'[r] = [[req[r] EXCEPT !.pc = p] EXCEPT !.key = k]
  BY <1>1 DEF GotoWithKey
<1>3. /\ req'[r] \in Request /\ req'[r].pc = p /\ req'[r].key = k
      /\ req'[r].read = req[r].read /\ req'[r].aborted = req[r].aborted
  BY <1>1, <1>2 DEF Request
<1> QED BY <1>1, <1>3 DEF GotoWithKey

LEMMA ReadFacts ==
  ASSUME TypeOK, NEW r \in Requests, NEW p \in PCs, NEW c \in Contents,
         req' = [req EXCEPT ![r].pc = p, ![r].read = c]
  PROVE  /\ req'[r].pc = p /\ req'[r].key = req[r].key /\ req'[r].read = c
         /\ \A q \in Requests : q # r => req'[q] = req[q]
         /\ req' \in [Requests -> Request]
<1>1. req[r] \in Request /\ req \in [Requests -> Request]
  BY DEF TypeOK
<1>2. req'[r] = [[req[r] EXCEPT !.pc = p] EXCEPT !.read = c]
  BY <1>1
<1>3. req'[r] \in Request /\ req'[r].pc = p /\ req'[r].key = req[r].key /\ req'[r].read = c
  BY <1>1, <1>2 DEF Request
<1> QED BY <1>1, <1>3

LEMMA EndFacts ==
  ASSUME TypeOK, NEW r \in Requests, NEW code \in Codes, End(r, code)
  PROVE  /\ req'[r].pc = "end" /\ req'[r].key = req[r].key /\ req'[r].read = req[r].read
         /\ req'[r].aborted = req[r].aborted
         /\ \A q \in Requests : q # r => req'[q] = req[q] /\ answer'[q] = answer[q]
         /\ answer'[r] = code
         /\ req' \in [Requests -> Request] /\ answer' \in [Requests -> Codes]
<1>1. Goto(r, "end") /\ "end" \in PCs
  BY DEF End, PCs
<1> QED BY <1>1, GotoFacts DEF End, TypeOK

LEMMA FetchFacts ==
  ASSUME TypeOK, NEW r \in Requests, NEW kind \in Waits, Fetch(r, kind)
  PROVE  /\ req'[r].pc = kind /\ req'[r].key = req[r].key /\ req'[r].read = req[r].read
         /\ req'[r].aborted = req[r].aborted
         /\ \A q \in Requests : q # r => req'[q] = req[q] /\ call'[q] = call[q]
         /\ call'[r] # NoRow /\ call'[r].kind = kind /\ call'[r].status = "sent"
         /\ call'[r].key = req[r].key /\ call'[r].sum = req[r].read
         /\ answer' = answer
         /\ req' \in [Requests -> Request] /\ call' \in [Requests -> Call \cup {NoRow}]
<1>1. Goto(r, kind) /\ kind \in PCs
  BY DEF Fetch, PCs
<1>2. req[r].key \in Keys \cup {0} /\ req[r].read \in Contents \cup {NoFile}
  BY DEF TypeOK, Request
<1>3. [kind |-> kind, status |-> "sent", key |-> req[r].key, sum |-> req[r].read] \in Call
  BY <1>2 DEF Call, Status
<1>4. call'[r] = [kind |-> kind, status |-> "sent", key |-> req[r].key, sum |-> req[r].read]
  BY DEF Fetch, TypeOK
<1>5. call' \in [Requests -> Call \cup {NoRow}] /\ \A q \in Requests : q # r => call'[q] = call[q]
  BY <1>3 DEF Fetch, TypeOK
<1>6. call'[r] # NoRow
  BY <1>3, <1>4, HostAssumption
<1> QED BY <1>1, <1>4, <1>5, <1>6, GotoFacts DEF Fetch

\* A call is sent, or the request was aborted and ends.
LEMMA SendFacts ==
  ASSUME TypeOK, NEW r \in Requests, NEW kind \in Waits, Send(r, kind)
  PROVE  \/ Fetch(r, kind)
         \/ req[r].aborted /\ End(r, "bad-request") /\ call' = call
BY DEF Send

LEMMA ReplyFacts ==
  ASSUME TypeOK, NEW r \in Requests, NEW status \in Status, NEW k \in Keys \cup {0},
         Reply(r, status, k), call[r] # NoRow
  PROVE  /\ call'[r] # NoRow /\ call'[r].kind = call[r].kind /\ call'[r].sum = call[r].sum
         /\ call'[r].status = status /\ call'[r].key = k
         /\ \A q \in Requests : q # r => call'[q] = call[q]
         /\ call' \in [Requests -> Call \cup {NoRow}]
<1>1. call[r] \in Call
  BY DEF TypeOK
<1>2. call'[r] = [[call[r] EXCEPT !.status = status] EXCEPT !.key = k]
  BY DEF Reply, TypeOK
<1>3. call'[r] \in Call /\ call'[r].kind = call[r].kind /\ call'[r].sum = call[r].sum
        /\ call'[r].status = status /\ call'[r].key = k
  BY <1>1, <1>2 DEF Call
<1>4. call' \in [Requests -> Call \cup {NoRow}] /\ \A q \in Requests : q # r => call'[q] = call[q]
  BY <1>3 DEF Reply, TypeOK
<1> QED BY <1>3, <1>4, HostAssumption

\* A version number the Hub gives out is not in use.
LEMMA NextIsFree ==
  ASSUME TypeOK, NEW k \in Keys, IsNext(k)
  PROVE  uploads[k] = NoRow /\ versions[k] = NoRow
<1> SUFFICES ASSUME k \in Taken PROVE FALSE
  BY DEF Taken
<1>1. k < k
  BY DEF IsNext
<1> QED BY <1>1 DEF Keys

-----------------------------------------------------------------------------
\* What a step of another request leaves alone.

LEMMA RequestFrame ==
  ASSUME TypeOK, NEW q \in Requests, RequestInv(q),
         req'[q] = req[q], call'[q] = call[q], tmp'[q] = tmp[q], answer'[q] = answer[q],
         \A k \in Keys : versions[k] # NoRow => versions'[k] # NoRow,
         \A k \in Keys : uploads[k] = q => uploads'[k] = q /\ versions'[k] = versions[k]
                                           /\ files'[k] = files[k]
  PROVE  RequestInv(q)'
<1>1. PlaceInv(q)'
  <2>1. ASSUME req[q].pc = "clean" PROVE files'[req[q].key] = files[req[q].key]
    <3>1. req[q].key \in Keys /\ uploads[req[q].key] = q
      BY <2>1 DEF RequestInv, PlaceInv, PrepareInv, Copying
    <3> QED BY <3>1
  <2> QED BY <2>1 DEF RequestInv, PlaceInv, Has, Got
<1>2. AnswerInv(q)'
  BY DEF RequestInv, AnswerInv, Has, Got
<1>3. LocalInv(q)'
  BY DEF RequestInv, LocalInv, Has, Got
<1>4. PrepareInv(q)'
  BY DEF RequestInv, PrepareInv, Has, Got
<1>5. CommitInv(q)'
  BY DEF RequestInv, CommitInv, Has, Got, Mine
<1> QED BY <1>1, <1>2, <1>3, <1>4, <1>5 DEF RequestInv

\* The versions stay, and the calls that made them.
LEMMA VersionFrame ==
  ASSUME TypeOK, NEW k \in Keys, VersionInv(k), versions'[k] = versions[k],
         versions[k] # NoRow => call'[versions[k].by] = call[versions[k].by]
  PROVE  VersionInv(k)'
BY DEF VersionInv, Has, Got

\* A request whose latest call is not a share or a commit that was done has no
\* version; so its call may go.
LEMMA NoVersionYet ==
  ASSUME TypeOK, NEW r \in Requests, \A k \in Keys : VersionInv(k),
         call[r] = NoRow \/ Has(r, {"prepare"}) \/ Got(r, "sent")
  PROVE  \A k \in Keys : versions[k] # NoRow => versions[k].by # r /\ versions[k].by \in Requests
<1> SUFFICES ASSUME NEW k \in Keys, versions[k] # NoRow
             PROVE  versions[k].by # r /\ versions[k].by \in Requests
  OBVIOUS
<1>1. versions[k] \in Version
  BY DEF TypeOK
<1>2. versions[k].by \in Requests
  BY <1>1 DEF Version
<1> QED BY <1>2 DEF VersionInv, Has, Got

\* A step of the host's on one request, which does not touch the Hub.
LEMMA HostFrame ==
  ASSUME HostInv, NEW r \in Requests, UNCHANGED hub,
         \A q \in Requests : q # r => /\ req'[q] = req[q] /\ call'[q] = call[q]
                                      /\ tmp'[q] = tmp[q] /\ answer'[q] = answer[q],
         call'[r] = call[r] \/ call[r] = NoRow \/ Has(r, {"prepare"}),
         \A k \in Keys : files'[k] = files[k] \/ uploads[k] = r,
         RequestInv(r)', NoPartialFile', TypeOK'
  PROVE  HostInv'
<1>1. ASSUME NEW q \in Requests PROVE RequestInv(q)'
  <2>1. CASE q # r
    BY <2>1, RequestFrame DEF HostInv, hub
  <2> QED BY <2>1
<1>2. ASSUME NEW k \in Keys PROVE VersionInv(k)'
  <2>1. versions[k] # NoRow => call'[versions[k].by] = call[versions[k].by]
    <3> SUFFICES ASSUME versions[k] # NoRow PROVE call'[versions[k].by] = call[versions[k].by]
      OBVIOUS
    <3>1. versions[k].by \in Requests
      BY DEF HostInv, TypeOK, Version
    <3>2. CASE versions[k].by = r
      BY <3>2, NoVersionYet DEF HostInv
    <3> QED BY <3>1, <3>2
  <2> QED BY <2>1, VersionFrame DEF HostInv, hub
<1> QED BY <1>1, <1>2 DEF HostInv

-----------------------------------------------------------------------------
\* The host's steps

\* A call is sent by a request that has made none, or has its copy in place.
LEMMA SendStep ==
  ASSUME HostInv, NEW r \in Requests, NEW kind \in Waits, Send(r, kind), ~req[r].aborted,
         UNCHANGED <<mode, source, root, hub, files, tmp>>,
         req[r].pc # "end",
         kind = "commit" => req[r].pc = "clean",
         kind # "commit" => call[r] = NoRow /\ req[r].read = NoFile /\ tmp[r] = NoFile
  PROVE  HostInv'
<1>1. TypeOK /\ RequestInv(r)
  BY DEF HostInv
<1>2. Fetch(r, kind)
  BY <1>1, SendFacts
<1>3. /\ req'[r].pc = kind /\ req'[r].key = req[r].key /\ req'[r].read = req[r].read
      /\ req'[r].aborted = req[r].aborted
      /\ \A q \in Requests : q # r => req'[q] = req[q] /\ call'[q] = call[q]
      /\ call'[r] # NoRow /\ call'[r].kind = kind /\ call'[r].status = "sent"
      /\ call'[r].key = req[r].key /\ call'[r].sum = req[r].read
      /\ answer' = answer
      /\ req' \in [Requests -> Request] /\ call' \in [Requests -> Call \cup {NoRow}]
  BY <1>1, <1>2, FetchFacts
<1>4. TypeOK'
  BY <1>1, <1>3 DEF TypeOK, hub
<1>5. answer[r] = "none"
  BY <1>1 DEF RequestInv, AnswerInv
<1>6. PlaceInv(r)' /\ AnswerInv(r)'
  BY <1>3, <1>5 DEF PlaceInv, AnswerInv, Has, Got, Waits, Copying, Faults
<1>7. LocalInv(r)' /\ PrepareInv(r)'
  BY <1>3, <1>5 DEF LocalInv, PrepareInv, Has, Got
<1>8. CommitInv(r)'
  <2>1. CASE kind = "commit"
    <3>1. /\ req[r].read \in Contents /\ tmp[r] = NoFile /\ files[req[r].key] = req[r].read
          /\ req[r].key \in Keys /\ uploads[req[r].key] = r /\ versions[req[r].key] = NoRow
      BY <1>1, <2>1 DEF RequestInv, PlaceInv, PrepareInv, Copying
    <3> QED BY <1>3, <2>1, <3>1 DEF CommitInv, Has, Got, hub
  <2>2. CASE kind # "commit"
    BY <1>3, <2>2 DEF CommitInv, Has
  <2> QED BY <2>1, <2>2
<1>9. call[r] = NoRow \/ Has(r, {"prepare"})
  BY <1>1 DEF RequestInv, PlaceInv, Copying
<1> QED BY <1>3, <1>4, <1>6, <1>7, <1>8, <1>9, HostFrame DEF HostInv, RequestInv, NoPartialFile

\* A request ends, with an answer its latest call bears out.
LEMMA EndStep ==
  ASSUME HostInv, NEW r \in Requests, NEW code \in Codes, End(r, code), req[r].pc # "end",
         UNCHANGED <<mode, source, root, hub, files, call>>,
         tmp' \in [Requests -> Contents \cup {NoFile, Partial}],
         \A q \in Requests : q # r => tmp'[q] = tmp[q],
         tmp'[r] = tmp[r] \/ req[r].pc \in Copying,
         code # "ok",
         code \in Faults /\ ~req[r].aborted =>
           call[r] = NoRow \/ Got(r, "refused") \/ (Has(r, {"prepare"}) /\ Got(r, "ok"))
  PROVE  HostInv'
<1>1. TypeOK /\ RequestInv(r)
  BY DEF HostInv
<1>2. /\ req'[r].pc = "end" /\ req'[r].key = req[r].key /\ req'[r].read = req[r].read
      /\ req'[r].aborted = req[r].aborted
      /\ \A q \in Requests : q # r => req'[q] = req[q] /\ answer'[q] = answer[q]
      /\ answer'[r] = code
      /\ req' \in [Requests -> Request] /\ answer' \in [Requests -> Codes]
  BY <1>1, EndFacts
<1>3. TypeOK'
  BY <1>1, <1>2 DEF TypeOK, hub
<1>4. PlaceInv(r)' /\ AnswerInv(r)'
  BY <1>2 DEF PlaceInv, AnswerInv, Has, Got, Waits, Copying
<1>5. CASE tmp'[r] = tmp[r]
  <2>1. LocalInv(r)' /\ PrepareInv(r)' /\ CommitInv(r)'
    BY <1>1, <1>2, <1>5 DEF RequestInv, LocalInv, PrepareInv, CommitInv, Has, Got, Mine, hub
  <2> QED BY <1>2, <1>3, <1>4, <2>1, HostFrame DEF HostInv, RequestInv, NoPartialFile
<1>6. CASE req[r].pc \in Copying
  <2>1. Has(r, {"prepare"})
    BY <1>1, <1>6 DEF RequestInv, PlaceInv
  <2>2. LocalInv(r)' /\ PrepareInv(r)' /\ CommitInv(r)'
    BY <1>1, <1>2, <2>1 DEF RequestInv, LocalInv, PrepareInv, CommitInv, Has, Got, hub
  <2> QED BY <1>2, <1>3, <1>4, <2>2, HostFrame DEF HostInv, RequestInv, NoPartialFile
<1> QED BY <1>5, <1>6

\* An aborted request that would send a call ends instead.
LEMMA SendOrEnd ==
  ASSUME HostInv, NEW r \in Requests, NEW kind \in Waits, Send(r, kind),
         UNCHANGED <<mode, source, root, hub, files, tmp>>,
         req[r].pc # "end",
         kind = "commit" => req[r].pc = "clean",
         kind # "commit" => call[r] = NoRow /\ req[r].read = NoFile /\ tmp[r] = NoFile
  PROVE  HostInv'
<1>1. CASE req[r].aborted
  <2>1. End(r, "bad-request") /\ call' = call /\ "bad-request" \in Codes
    BY <1>1 DEF Send, Codes
  <2> QED BY <1>1, <2>1, EndStep DEF HostInv, TypeOK
<1>2. CASE ~req[r].aborted
  BY <1>2, SendStep
<1> QED BY <1>1, <1>2

\* The request goes from one place to the next, and nothing else happens.
LEMMA ReceiveStep ==
  ASSUME HostInv, NEW r \in Requests, Receive(r)
  PROVE  HostInv'
<1>1. TypeOK /\ RequestInv(r)
  BY DEF HostInv
<1>2. call[r] = NoRow /\ req[r].read = NoFile /\ tmp[r] = NoFile
  BY <1>1 DEF Receive, RequestInv, PlaceInv
<1>3. CASE \E code \in {"bad-request", "session-not-found"} : End(r, code) /\ UNCHANGED call
  BY <1>1, <1>2, <1>3, EndStep DEF Receive, Codes, TypeOK
<1>4. CASE Goto(r, "resolve") /\ UNCHANGED <<call, answer>>
  <2>1. /\ req'[r].pc = "resolve" /\ req'[r].key = req[r].key /\ req'[r].read = req[r].read
        /\ \A q \in Requests : q # r => req'[q] = req[q]
        /\ req' \in [Requests -> Request]
    BY <1>1, <1>4, GotoFacts DEF PCs
  <2>2. TypeOK'
    BY <1>1, <1>4, <2>1 DEF Receive, TypeOK, hub
  <2>3. answer[r] = "none"
    BY <1>1 DEF Receive, RequestInv, AnswerInv
  <2>4. RequestInv(r)'
    BY <1>2, <1>4, <2>1, <2>3 DEF Receive, RequestInv, PlaceInv, AnswerInv, LocalInv, PrepareInv,
       CommitInv, Has, Waits, Copying, Faults
  <2> QED BY <1>4, <2>1, <2>2, <2>4, HostFrame DEF Receive, HostInv, NoPartialFile
<1>5. CASE Send(r, "local")
  BY <1>2, <1>5, SendOrEnd DEF Receive, Waits
<1> QED BY <1>3, <1>4, <1>5 DEF Receive

LEMMA ResolveStep ==
  ASSUME HostInv, NEW r \in Requests, Resolve(r)
  PROVE  HostInv'
<1>1. call[r] = NoRow /\ req[r].read = NoFile /\ tmp[r] = NoFile
  BY DEF HostInv, Resolve, RequestInv, PlaceInv
<1>2. CASE source /\ root
  BY <1>1, <1>2, SendOrEnd DEF Resolve, Waits
<1>3. CASE ~(source /\ root)
  BY <1>1, <1>3, EndStep DEF Resolve, Codes, HostInv, TypeOK
<1> QED BY <1>2, <1>3

LEMMA TakeAnswerStep ==
  ASSUME HostInv, NEW r \in Requests, TakeAnswer(r)
  PROVE  HostInv'
<1>1. TypeOK /\ RequestInv(r)
  BY DEF HostInv
<1>2. call[r] # NoRow /\ call[r].kind = req[r].pc /\ req[r].pc \in Waits /\ call[r] \in Call
  BY <1>1 DEF TakeAnswer, Waiting, RequestInv, PlaceInv, Has, TypeOK
<1>3. CASE call[r].status # "ok" /\ End(r, FailureCode(call[r].status))
  <2>1. FailureCode(call[r].status) \in {"bad-request", "internal"}
        /\ (FailureCode(call[r].status) = "bad-request" => call[r].status = "refused")
    BY DEF FailureCode
  <2> QED BY <1>1, <1>2, <1>3, <2>1, EndStep
          DEF TakeAnswer, Codes, Faults, Got, Waits, TypeOK
<1>4. CASE call[r].status = "ok" /\ req[r].pc = "prepare"
           /\ req' = [req EXCEPT ![r].pc = "open", ![r].key = call[r].key] /\ UNCHANGED answer
  <2>1. call[r].key \in Keys \cup {0}
    BY <1>2 DEF Call
  <2>2. /\ req'[r].pc = "open" /\ req'[r].key = call[r].key /\ req'[r].read = req[r].read
        /\ req'[r].aborted = req[r].aborted
        /\ \A q \in Requests : q # r => req'[q] = req[q]
        /\ req' \in [Requests -> Request]
    <3>1. "open" \in PCs
      BY DEF PCs
    <3>2. GotoWithKey(r, "open", call[r].key)
      BY <1>4 DEF GotoWithKey
    <3> QED BY <1>1, <2>1, <3>1, <3>2, KeyFacts
  <2>3. TypeOK'
    BY <1>1, <1>4, <2>2 DEF TakeAnswer, TypeOK, hub
  <2>4. answer[r] = "none"
    BY <1>1, <1>2 DEF RequestInv, AnswerInv, Waits
  <2>5. PlaceInv(r)' /\ AnswerInv(r)' /\ LocalInv(r)' /\ CommitInv(r)'
    BY <1>2, <1>4, <2>2, <2>4 DEF TakeAnswer, PlaceInv, AnswerInv, LocalInv, CommitInv,
       Has, Got, Waits, Copying, Faults
  <2>6. PrepareInv(r)'
    BY <1>1, <1>4, <2>2 DEF TakeAnswer, RequestInv, PrepareInv, Has, Got, hub
  <2> QED BY <1>4, <2>2, <2>3, <2>5, <2>6, HostFrame
          DEF TakeAnswer, HostInv, RequestInv, NoPartialFile
<1>5. CASE call[r].status = "ok" /\ req[r].pc # "prepare"
           /\ req' = [req EXCEPT ![r].pc = "end", ![r].key = call[r].key]
           /\ answer' = [answer EXCEPT ![r] = "ok"]
  <2>1. call[r].key \in Keys \cup {0}
    BY <1>2 DEF Call
  <2>2. /\ req'[r].pc = "end" /\ req'[r].key = call[r].key /\ req'[r].read = req[r].read
        /\ \A q \in Requests : q # r => req'[q] = req[q] /\ answer'[q] = answer[q]
        /\ answer'[r] = "ok"
        /\ req' \in [Requests -> Request] /\ answer' \in [Requests -> Codes]
    <3>1. /\ answer' \in [Requests -> Codes] /\ answer'[r] = "ok"
          /\ \A q \in Requests : q # r => answer'[q] = answer[q]
      BY <1>1, <1>5 DEF TypeOK, Codes
    <3>2. "end" \in PCs
      BY DEF PCs
    <3>3. /\ req'[r].pc = "end" /\ req'[r].key = call[r].key /\ req'[r].read = req[r].read
          /\ \A q \in Requests : q # r => req'[q] = req[q]
          /\ req' \in [Requests -> Request]
      <4>1. GotoWithKey(r, "end", call[r].key)
        BY <1>5 DEF GotoWithKey
      <4> QED BY <1>1, <2>1, <3>2, <4>1, KeyFacts
    <3> QED BY <3>1, <3>3
  <2>3. TypeOK'
    BY <1>1, <1>5, <2>2 DEF TakeAnswer, TypeOK, hub
  <2>4. PlaceInv(r)' /\ AnswerInv(r)' /\ PrepareInv(r)'
    BY <1>2, <1>5, <2>2 DEF TakeAnswer, PlaceInv, AnswerInv, PrepareInv, Has, Got,
       Waits, Copying, Faults
  <2>5. LocalInv(r)'
    BY <1>1, <2>2 DEF TakeAnswer, RequestInv, LocalInv, Has, Got, hub
  <2>6. CommitInv(r)'
    BY <1>1, <2>2 DEF TakeAnswer, RequestInv, CommitInv, Has, Got, Mine, hub
  <2> QED BY <1>5, <2>2, <2>3, <2>4, <2>5, <2>6, HostFrame
          DEF TakeAnswer, HostInv, RequestInv, NoPartialFile
<1> QED BY <1>3, <1>4, <1>5 DEF TakeAnswer

LEMMA BreakStep ==
  ASSUME HostInv, NEW r \in Requests, CallBreaks(r) \/ WaitAborts(r)
  PROVE  HostInv'
<1>1. req[r].pc # "end"
  BY DEF CallBreaks, WaitAborts, Waiting, Waits
<1>2. CASE CallBreaks(r)
  BY <1>1, <1>2, EndStep DEF CallBreaks, Codes, Faults, HostInv, TypeOK
<1>3. CASE WaitAborts(r)
  BY <1>1, <1>3, EndStep DEF WaitAborts, Codes, Faults, HostInv, TypeOK
<1> QED BY <1>2, <1>3

\* A place of the copy leads on to another, and the request's files with it.
LEMMA CopyStep ==
  ASSUME HostInv, NEW r \in Requests, req[r].pc \in Copying \ {"clean"},
         UNCHANGED <<mode, source, root, hub, call, answer>>,
         req' \in [Requests -> Request],
         \A q \in Requests : q # r => req'[q] = req[q] /\ tmp'[q] = tmp[q],
         req'[r].pc \in Copying, req'[r].key = req[r].key,
         tmp' \in [Requests -> Contents \cup {NoFile, Partial}],
         files' \in [Keys -> Contents \cup {NoFile, Partial}],
         \A k \in Keys : files'[k] = files[k] \/ k = req[r].key,
         NoPartialFile',
         req'[r].pc = "rename" => req'[r].read \in Contents /\ tmp'[r] = req'[r].read,
         req'[r].pc = "clean" => /\ req'[r].read \in Contents /\ tmp'[r] = NoFile
                                 /\ files'[req[r].key] = req'[r].read
  PROVE  HostInv'
<1>1. TypeOK /\ RequestInv(r)
  BY DEF HostInv
<1>2. Has(r, {"prepare"}) /\ Got(r, "ok") /\ call[r].key = req[r].key
  BY <1>1 DEF RequestInv, PlaceInv
<1>3. uploads[req[r].key] = r /\ req[r].key \in Keys
  BY <1>1, <1>2 DEF RequestInv, PrepareInv
<1>4. TypeOK'
  BY <1>1 DEF TypeOK, hub
<1>5. answer[r] = "none"
  BY <1>1 DEF RequestInv, AnswerInv, Copying
<1>6. PlaceInv(r)' /\ AnswerInv(r)' /\ LocalInv(r)' /\ CommitInv(r)'
  BY <1>2, <1>5 DEF PlaceInv, AnswerInv, LocalInv, CommitInv, Has, Got, Waits, Copying, Faults
<1>7. PrepareInv(r)'
  BY <1>1 DEF RequestInv, PrepareInv, Has, Got, hub
<1> QED BY <1>3, <1>4, <1>6, <1>7, HostFrame DEF RequestInv

LEMMA OpenStep ==
  ASSUME HostInv, NEW r \in Requests, OpenCopy(r)
  PROVE  HostInv'
<1>1. TypeOK /\ RequestInv(r) /\ req[r].pc = "open"
  BY DEF HostInv, OpenCopy
<1>2. CASE tmp' = [tmp EXCEPT ![r] = Partial] /\ Goto(r, "stream") /\ UNCHANGED answer
  <2>1. /\ req'[r].pc = "stream" /\ req'[r].key = req[r].key
        /\ \A q \in Requests : q # r => req'[q] = req[q]
        /\ req' \in [Requests -> Request]
    BY <1>1, <1>2, GotoFacts DEF PCs
  <2>2. /\ tmp' \in [Requests -> Contents \cup {NoFile, Partial}]
        /\ \A q \in Requests : q # r => tmp'[q] = tmp[q]
    BY <1>1, <1>2 DEF TypeOK
  <2> QED BY <1>1, <1>2, <2>1, <2>2, CopyStep
          DEF OpenCopy, Copying, HostInv, TypeOK, NoPartialFile
<1>3. CASE End(r, "bad-request") /\ UNCHANGED tmp
  <2>1. Has(r, {"prepare"}) /\ Got(r, "ok")
    BY <1>1 DEF RequestInv, PlaceInv, Copying
  <2> QED BY <1>1, <1>3, <2>1, EndStep DEF OpenCopy, Codes, TypeOK
<1> QED BY <1>2, <1>3 DEF OpenCopy

LEMMA StreamStep ==
  ASSUME HostInv, NEW r \in Requests, Stream(r)
  PROVE  HostInv'
<1>1. TypeOK /\ req[r].pc = "stream"
  BY DEF HostInv, Stream
<1>2. ASSUME NEW c \in Contents, tmp' = [tmp EXCEPT ![r] = c],
             req' = [req EXCEPT ![r].pc = "rename", ![r].read = c]
      PROVE  HostInv'
  <2>1. /\ req'[r].pc = "rename" /\ req'[r].key = req[r].key /\ req'[r].read = c
        /\ \A q \in Requests : q # r => req'[q] = req[q]
        /\ req' \in [Requests -> Request]
    <3>1. "rename" \in PCs
      BY DEF PCs
    <3> QED BY <1>1, <1>2, <3>1, ReadFacts
  <2>2. /\ tmp' \in [Requests -> Contents \cup {NoFile, Partial}] /\ tmp'[r] = c
        /\ \A q \in Requests : q # r => tmp'[q] = tmp[q]
    BY <1>1, <1>2 DEF TypeOK
  <2> QED BY <1>1, <2>1, <2>2, CopyStep DEF Stream, Copying, HostInv, TypeOK, NoPartialFile
<1>3. CASE Goto(r, "failed") /\ UNCHANGED tmp
  <2>1. /\ req'[r].pc = "failed" /\ req'[r].key = req[r].key
        /\ \A q \in Requests : q # r => req'[q] = req[q]
        /\ req' \in [Requests -> Request]
    BY <1>1, <1>3, GotoFacts DEF PCs
  <2> QED BY <1>1, <1>3, <2>1, CopyStep DEF Stream, Copying, HostInv, TypeOK, NoPartialFile
<1> QED BY <1>2, <1>3 DEF Stream

LEMMA RenameStep ==
  ASSUME HostInv, NEW r \in Requests, Rename(r)
  PROVE  HostInv' /\ \A k \in Keys : versions[k] # NoRow => files'[k] = files[k]
<1>1. TypeOK /\ RequestInv(r) /\ req[r].pc = "rename"
  BY DEF HostInv, Rename
<1>2. req[r].read \in Contents /\ tmp[r] = req[r].read
      /\ Has(r, {"prepare"}) /\ Got(r, "ok") /\ call[r].key = req[r].key
  BY <1>1 DEF RequestInv, PlaceInv, Copying
<1>3. req[r].key \in Keys /\ versions[req[r].key] = NoRow
  BY <1>1, <1>2 DEF RequestInv, PrepareInv
<1>4. CASE files' = [files EXCEPT ![req[r].key] = tmp[r]] /\ tmp' = [tmp EXCEPT ![r] = NoFile]
           /\ Goto(r, "clean")
  <2>1. /\ req'[r].pc = "clean" /\ req'[r].key = req[r].key /\ req'[r].read = req[r].read
        /\ \A q \in Requests : q # r => req'[q] = req[q]
        /\ req' \in [Requests -> Request]
    BY <1>1, <1>4, GotoFacts DEF PCs
  <2>2. /\ tmp' \in [Requests -> Contents \cup {NoFile, Partial}] /\ tmp'[r] = NoFile
        /\ \A q \in Requests : q # r => tmp'[q] = tmp[q]
    BY <1>1, <1>4 DEF TypeOK
  <2>3. /\ files' \in [Keys -> Contents \cup {NoFile, Partial}]
        /\ files'[req[r].key] = req[r].read
        /\ \A k \in Keys : files'[k] = files[k] \/ k = req[r].key
    BY <1>1, <1>2, <1>3, <1>4 DEF TypeOK
  <2>4. NoPartialFile'
    BY <1>2, <2>3, HostAssumption DEF HostInv, NoPartialFile
  <2>5. HostInv'
    BY <1>1, <1>2, <2>1, <2>2, <2>3, <2>4, CopyStep DEF Rename, Copying
  <2> QED BY <1>3, <2>3, <2>5
<1>5. CASE Goto(r, "failed") /\ UNCHANGED <<files, tmp>>
  <2>1. /\ req'[r].pc = "failed" /\ req'[r].key = req[r].key
        /\ \A q \in Requests : q # r => req'[q] = req[q]
        /\ req' \in [Requests -> Request]
    BY <1>1, <1>5, GotoFacts DEF PCs
  <2>2. HostInv'
    BY <1>1, <1>5, <2>1, CopyStep DEF Rename, Copying, HostInv, TypeOK, NoPartialFile
  <2> QED BY <1>5, <2>2
<1> QED BY <1>4, <1>5 DEF Rename

LEMMA UnlinkStep ==
  ASSUME HostInv, NEW r \in Requests, Unlink(r)
  PROVE  HostInv'
<1>1. TypeOK /\ RequestInv(r)
  BY DEF HostInv
<1>2. CASE req[r].pc = "clean" /\ Send(r, "commit") /\ UNCHANGED <<mode, source, root, hub, files, tmp>>
  BY <1>2, SendOrEnd DEF Waits
<1>3. CASE req[r].pc = "failed" /\ End(r, "bad-request")
           /\ UNCHANGED <<mode, source, root, hub, files, call>>
           /\ (tmp' = [tmp EXCEPT ![r] = NoFile] \/ UNCHANGED tmp)
  <2>1. Has(r, {"prepare"}) /\ Got(r, "ok")
    BY <1>1, <1>3 DEF RequestInv, PlaceInv, Copying
  <2>2. /\ tmp' \in [Requests -> Contents \cup {NoFile, Partial}]
        /\ \A q \in Requests : q # r => tmp'[q] = tmp[q]
    BY <1>1, <1>3 DEF TypeOK
  <2> QED BY <1>3, <2>1, <2>2, EndStep DEF Codes, Copying
<1> QED BY <1>2, <1>3 DEF Unlink


-----------------------------------------------------------------------------
\* The surroundings

LEMMA AbortStep ==
  ASSUME HostInv, NEW r \in Requests, Abort(r)
  PROVE  HostInv'
<1>1. TypeOK /\ RequestInv(r) /\ req[r].pc # "end"
  BY DEF HostInv, Abort
<1>2. req[r] \in Request /\ req \in [Requests -> Request]
  BY <1>1 DEF TypeOK
<1>3. req'[r] = [req[r] EXCEPT !.aborted = TRUE]
      /\ \A q \in Requests : q # r => req'[q] = req[q]
  BY <1>2 DEF Abort
<1>4. req'[r] \in Request /\ req'[r].pc = req[r].pc /\ req'[r].key = req[r].key
      /\ req'[r].read = req[r].read /\ req'[r].aborted = TRUE
  BY <1>2, <1>3 DEF Request
<1>5. req' \in [Requests -> Request]
  BY <1>2, <1>4 DEF Abort
<1>6. TypeOK'
  BY <1>1, <1>5 DEF Abort, TypeOK, hub
<1>7. PlaceInv(r)' /\ AnswerInv(r)'
  BY <1>1, <1>4 DEF Abort, RequestInv, PlaceInv, AnswerInv, Has, Got
<1>8. LocalInv(r)' /\ PrepareInv(r)' /\ CommitInv(r)'
  BY <1>1, <1>4 DEF Abort, RequestInv, LocalInv, PrepareInv, CommitInv, Has, Got, Mine, hub
<1> QED BY <1>3, <1>6, <1>7, <1>8, HostFrame DEF Abort, HostInv, RequestInv, NoPartialFile

LEMMA PathsStep ==
  ASSUME HostInv, PathsChange
  PROVE  HostInv'
<1>1. TypeOK'
  BY DEF HostInv, PathsChange, TypeOK, hub
<1>2. ASSUME NEW r \in Requests PROVE RequestInv(r)'
  BY <1>2, RequestFrame DEF HostInv, PathsChange, hub
<1>3. ASSUME NEW k \in Keys PROVE VersionInv(k)'
  BY <1>3, VersionFrame DEF HostInv, PathsChange, hub
<1> QED BY <1>1, <1>2, <1>3 DEF HostInv, PathsChange, NoPartialFile

\* A request that dies with the host keeps what it had, and has no answer.
LEMMA CrashStep ==
  ASSUME HostInv, Crash
  PROVE  HostInv'
<1>1. TypeOK
  BY DEF HostInv
<1>2. ASSUME NEW r \in Requests
      PROVE  /\ req'[r] \in Request /\ req'[r].key = req[r].key /\ req'[r].read = req[r].read
             /\ req'[r].aborted = req[r].aborted
             /\ \/ req[r].pc = "new" /\ req'[r] = req[r]
                \/ req[r].pc # "new" /\ req'[r].pc = "end"
  <2>1. req[r] \in Request
    BY <1>1 DEF TypeOK
  <2>2. CASE req[r].pc = "new"
    BY <2>1, <2>2 DEF Crash
  <2>3. CASE req[r].pc # "new"
    <3>1. req'[r] = [req[r] EXCEPT !.pc = "end"]
      BY <2>3 DEF Crash
    <3> QED BY <2>1, <2>3, <3>1 DEF Request, PCs
  <2> QED BY <2>2, <2>3
<1>3. req' \in [Requests -> Request]
  BY <1>2 DEF Crash
<1>4. TypeOK'
  BY <1>1, <1>3 DEF Crash, TypeOK, hub
<1>5. ASSUME NEW r \in Requests PROVE RequestInv(r)'
  <2>1. RequestInv(r)
    BY DEF HostInv
  <2>2. CASE req'[r] = req[r]
    BY <1>1, <2>1, <2>2, RequestFrame DEF Crash, hub
  <2>3. CASE req[r].pc # "new" /\ req'[r].pc = "end"
    <3>1. PlaceInv(r)' /\ AnswerInv(r)'
      BY <1>2, <2>1, <2>3 DEF Crash, RequestInv, PlaceInv, AnswerInv, Has, Got, Waits, Copying
    <3>2. LocalInv(r)' /\ PrepareInv(r)' /\ CommitInv(r)'
      BY <1>2, <2>1, <2>3 DEF Crash, RequestInv, LocalInv, PrepareInv, CommitInv, Has, Got, Mine, hub
    <3> QED BY <3>1, <3>2 DEF RequestInv
  <2> QED BY <1>2, <2>2, <2>3
<1>6. ASSUME NEW k \in Keys PROVE VersionInv(k)'
  BY <1>1, <1>6, VersionFrame DEF HostInv, Crash, hub
<1> QED BY <1>4, <1>5, <1>6 DEF HostInv, Crash, NoPartialFile

-----------------------------------------------------------------------------
\* The Hub's steps

\* What the Hub does for request r disturbs no other request, and no version of
\* another: it keeps what is published and what is reserved.
HubKeeps(r) ==
  \A k \in Keys : /\ versions[k] # NoRow => versions'[k] = versions[k]
                  /\ uploads[k] # NoRow => uploads'[k] = uploads[k] /\ files'[k] = files[k]
                  /\ uploads[k] \notin {NoRow, r} => versions'[k] = versions[k]

NewVersionsInv ==
  \A k \in Keys : versions'[k] # NoRow /\ versions[k] = NoRow => VersionInv(k)'

LEMMA HubFrame ==
  ASSUME HostInv, NEW r \in Requests, NEW status \in Status, NEW j \in Keys \cup {0},
         call[r] # NoRow, call[r].status = "sent", Reply(r, status, j),
         UNCHANGED <<mode, source, root, tmp, req, answer>>,
         HubKeeps(r), NewVersionsInv,
         RequestInv(r)', NoPartialFile', TypeOK'
  PROVE  HostInv'
<1>1. TypeOK
  BY DEF HostInv
<1>2. \A q \in Requests : q # r => call'[q] = call[q]
  BY <1>1, ReplyFacts
<1>3. ASSUME NEW q \in Requests PROVE RequestInv(q)'
  <2>1. CASE q # r
    <3>1. q # NoRow
      BY HostAssumption
    <3>2. RequestInv(q)
      BY DEF HostInv
    <3>3. \A k \in Keys : versions[k] # NoRow => versions'[k] # NoRow
      BY DEF HubKeeps
    <3>4. \A k \in Keys : uploads[k] = q => uploads'[k] = q /\ versions'[k] = versions[k]
                                             /\ files'[k] = files[k]
      BY <2>1, <3>1 DEF HubKeeps
    <3> QED BY <1>1, <1>2, <2>1, <3>2, <3>3, <3>4, RequestFrame
  <2> QED BY <2>1
<1>4. ASSUME NEW k \in Keys PROVE VersionInv(k)'
  <2>1. CASE versions[k] # NoRow
    <3>1. versions[k].by # r /\ versions[k].by \in Requests
      BY <1>1, <2>1, NoVersionYet DEF HostInv, Got
    <3> QED BY <1>1, <1>2, <2>1, <3>1, VersionFrame DEF HostInv, HubKeeps
  <2>2. CASE versions[k] = NoRow /\ versions'[k] = NoRow
    BY <2>2 DEF VersionInv
  <2>3. CASE versions[k] = NoRow /\ versions'[k] # NoRow
    BY <2>3 DEF NewVersionsInv
  <2> QED BY <2>1, <2>2, <2>3
<1> QED BY <1>3, <1>4 DEF HostInv

\* A request with a call on its way has no answer, or has given the call up.
LEMMA SentFacts ==
  ASSUME HostInv, NEW r \in Requests, call[r] # NoRow, call[r].status = "sent"
  PROVE  /\ req[r].pc \notin {"new", "resolve"} /\ req[r].pc \notin Copying
         /\ answer[r] # "ok"
         /\ answer[r] \in Faults => req[r].aborted
         /\ \A k \in Keys : versions[k] # NoRow => versions[k].by # r
BY NoVersionYet DEF HostInv, RequestInv, PlaceInv, AnswerInv, Got, Has

\* What the answer leaves of the request's own place and answer.
LEMMA SentPlace ==
  ASSUME HostInv, NEW r \in Requests, call[r] # NoRow, call[r].status = "sent",
         NEW status \in Status, NEW k \in Keys \cup {0}, Reply(r, status, k),
         UNCHANGED <<tmp, req, answer>>
  PROVE  PlaceInv(r)' /\ AnswerInv(r)'
<1>1. TypeOK /\ RequestInv(r)
  BY DEF HostInv
<1>2. call'[r] # NoRow /\ call'[r].kind = call[r].kind
  BY <1>1, ReplyFacts
<1>3. /\ req[r].pc \notin {"new", "resolve"} /\ req[r].pc \notin Copying
      /\ answer[r] # "ok" /\ (answer[r] \in Faults => req[r].aborted)
  BY SentFacts
<1>4. PlaceInv(r)'
  BY <1>1, <1>2, <1>3 DEF RequestInv, PlaceInv, Has, Copying
<1>5. AnswerInv(r)'
  BY <1>1, <1>3 DEF RequestInv, AnswerInv
<1> QED BY <1>4, <1>5

LEMMA HubFailsStep ==
  ASSUME HostInv, NEW r \in Requests, call[r] # NoRow, call[r].status = "sent", HubFails(r),
         UNCHANGED <<mode, source, root, tmp, req, answer>>
  PROVE  HostInv'
<1>1. TypeOK /\ RequestInv(r)
  BY DEF HostInv
<1>2. PICK status \in {"refused", "broken"} : Reply(r, status, call[r].key)
  BY DEF HubFails
<1>3. status \in Status /\ call[r].key \in Keys \cup {0}
  BY <1>1 DEF TypeOK, Status, Call
<1>4. /\ call'[r] # NoRow /\ call'[r].kind = call[r].kind /\ call'[r].sum = call[r].sum
      /\ call'[r].status = status /\ call'[r].key = call[r].key
      /\ call' \in [Requests -> Call \cup {NoRow}]
  BY <1>1, <1>2, <1>3, ReplyFacts
<1>5. TypeOK'
  BY <1>1, <1>4 DEF HubFails, TypeOK, hub
<1>6. PlaceInv(r)' /\ AnswerInv(r)'
  BY <1>2, <1>3, SentPlace
<1>7. LocalInv(r)' /\ PrepareInv(r)' /\ CommitInv(r)'
  BY <1>1, <1>4 DEF HubFails, RequestInv, LocalInv, PrepareInv, CommitInv, Has, Got, Mine, hub
<1> QED BY <1>2, <1>3, <1>5, <1>6, <1>7, HubFrame
        DEF HubFails, HostInv, RequestInv, NoPartialFile, hub, HubKeeps, NewVersionsInv

LEMMA HubPreparesStep ==
  ASSUME HostInv, NEW r \in Requests, call[r] # NoRow, call[r].status = "sent",
         call[r].kind = "prepare", HubPrepares(r),
         UNCHANGED <<mode, source, root, tmp, req, answer>>
  PROVE  HostInv'
<1>1. TypeOK /\ RequestInv(r)
  BY DEF HostInv
<1>2. PICK k \in Keys, status \in {"ok", "broken"} :
        IsNext(k) /\ uploads' = [uploads EXCEPT ![k] = r] /\ Reply(r, status, k)
  BY DEF HubPrepares
<1>3. status \in Status /\ uploads[k] = NoRow /\ versions[k] = NoRow
  BY <1>1, <1>2, NextIsFree DEF Status
<1>4. /\ call'[r] # NoRow /\ call'[r].kind = "prepare"
      /\ call'[r].status = status /\ call'[r].key = k
      /\ call' \in [Requests -> Call \cup {NoRow}]
  BY <1>1, <1>2, <1>3, ReplyFacts
<1>5. TypeOK'
  BY <1>1, <1>2, <1>4 DEF HubPrepares, TypeOK
<1>6. PlaceInv(r)' /\ AnswerInv(r)'
  BY <1>2, <1>3, SentPlace
<1>7. uploads'[k] = r /\ \A m \in Keys : m # k => uploads'[m] = uploads[m]
  BY <1>1, <1>2 DEF TypeOK
<1>8. LocalInv(r)' /\ PrepareInv(r)' /\ CommitInv(r)'
  BY <1>3, <1>4, <1>7 DEF HubPrepares, LocalInv, PrepareInv, CommitInv, Has, Got
<1> QED BY <1>2, <1>3, <1>5, <1>6, <1>7, <1>8, HubFrame
        DEF HubPrepares, HostInv, RequestInv, NoPartialFile, HubKeeps, NewVersionsInv

LEMMA HubCommitsStep ==
  ASSUME HostInv, NEW r \in Requests, call[r] # NoRow, call[r].status = "sent",
         call[r].kind = "commit", HubCommits(r),
         UNCHANGED <<mode, source, root, tmp, req, answer>>
  PROVE  HostInv'
<1>1. TypeOK /\ RequestInv(r)
  BY DEF HostInv
<1>2. PICK k \in Keys : k = call[r].key
  BY <1>1 DEF RequestInv, CommitInv, Has
<1>3. /\ req[r].pc \in {"commit", "end"} /\ req[r].read \in Contents /\ tmp[r] = NoFile
      /\ k = req[r].key /\ call[r].sum = req[r].read
      /\ uploads[k] = r /\ files[k] = req[r].read
  BY <1>1, <1>2 DEF RequestInv, CommitInv, Has
<1>4. PICK status \in {"ok", "broken"} : Reply(r, status, k)
  BY <1>2 DEF HubCommits
<1>5. /\ call'[r] # NoRow /\ call'[r].kind = "commit" /\ call'[r].sum = call[r].sum
      /\ call'[r].status = status /\ call'[r].key = k
      /\ call' \in [Requests -> Call \cup {NoRow}]
  <2>1. status \in Status /\ k \in Keys \cup {0}
    BY DEF Status
  <2> QED BY <1>1, <1>4, <2>1, ReplyFacts
<1>6. /\ versions[k] = NoRow /\ Mine(r) \in Version /\ Mine(r) # NoRow
      /\ versions'[k] = Mine(r) /\ \A m \in Keys : m # k => versions'[m] = versions[m]
      /\ versions' \in [Keys -> Version \cup {NoRow}]
  <2>1. Mine(r) \in Version
    BY <1>3 DEF Mine, Version
  <2>2. versions' = [versions EXCEPT ![k] = Mine(r)] /\ versions[k] = NoRow
    BY <1>2, <1>3 DEF HubCommits, Publish, Mine
  <2> QED BY <1>1, <1>3, <2>1, <2>2, HostAssumption DEF TypeOK
<1>7. TypeOK'
  BY <1>1, <1>5, <1>6 DEF HubCommits, TypeOK
<1>8. PlaceInv(r)' /\ AnswerInv(r)'
  <2>1. status \in Status /\ k \in Keys \cup {0}
    BY DEF Status
  <2> QED BY <1>4, <2>1, SentPlace
<1>9. LocalInv(r)' /\ PrepareInv(r)'
  BY <1>5 DEF LocalInv, PrepareInv, Has
<1>10. CommitInv(r)'
  BY <1>3, <1>5, <1>6 DEF HubCommits, CommitInv, Has, Got, Mine
<1>11. ASSUME NEW m \in Keys, versions'[m] # NoRow, versions[m] = NoRow PROVE VersionInv(m)'
  <2>1. m = k /\ versions'[m].by = r
    BY <1>6, <1>11 DEF Mine
  <2> QED BY <1>5, <2>1 DEF VersionInv, Has, Got
<1>12. HubKeeps(r)
  BY <1>3, <1>6 DEF HubCommits, HubKeeps
<1>13. RequestInv(r)' /\ NoPartialFile' /\ status \in Status /\ k \in Keys \cup {0}
  BY <1>8, <1>9, <1>10 DEF HubCommits, HostInv, RequestInv, NoPartialFile, Status
<1>14. NewVersionsInv
  BY <1>11 DEF NewVersionsInv
<1> QED BY <1>4, <1>7, <1>12, <1>13, <1>14, HubFrame

\* A local share finds its content in the latest version, or publishes the next.
LEMMA HubSharesStep ==
  ASSUME HostInv, NEW r \in Requests, call[r] # NoRow, call[r].status = "sent",
         call[r].kind = "local", HubShares(r),
         UNCHANGED <<mode, source, root, tmp, req, answer>>
  PROVE  HostInv' /\ \A k \in Keys : versions[k] # NoRow => files'[k] = files[k]
<1>1. TypeOK /\ RequestInv(r) /\ NoPartialFile
  BY DEF HostInv
<1>2. PICK c \in Contents, k \in Keys, status \in {"ok", "broken"} :
        /\ Reply(r, status, k) /\ UNCHANGED uploads
        /\ \/ versions[k] # NoRow /\ UNCHANGED <<versions, files>>
           \/ /\ IsNext(k) /\ Publish(k, c, r)
              /\ files' = [files EXCEPT ![k] = IF status = "ok" THEN c ELSE NoFile]
  BY DEF HubShares
<1>3. status \in Status /\ k \in Keys \cup {0}
  BY DEF Status
<1>4. /\ call'[r] # NoRow /\ call'[r].kind = "local" /\ call'[r].status = status
      /\ call'[r].key = k /\ call' \in [Requests -> Call \cup {NoRow}]
  BY <1>1, <1>2, <1>3, ReplyFacts
<1>5. PlaceInv(r)' /\ AnswerInv(r)'
  BY <1>2, <1>3, SentPlace
<1>6. PrepareInv(r)' /\ CommitInv(r)'
  BY <1>4 DEF PrepareInv, CommitInv, Has
<1>7. ASSUME versions'[k] # NoRow PROVE LocalInv(r)'
  BY <1>1, <1>4, <1>7 DEF RequestInv, LocalInv, Has, Got
<1>8. CASE versions[k] # NoRow /\ UNCHANGED <<versions, files>>
  <2>1. TypeOK' /\ NoPartialFile' /\ RequestInv(r)'
    BY <1>1, <1>2, <1>4, <1>5, <1>6, <1>7, <1>8 DEF TypeOK, NoPartialFile, RequestInv
  <2>2. HubKeeps(r) /\ NewVersionsInv
    BY <1>2, <1>8 DEF HubKeeps, NewVersionsInv
  <2> QED BY <1>2, <1>3, <1>8, <2>1, <2>2, HubFrame
<1>9. CASE /\ IsNext(k) /\ Publish(k, c, r)
           /\ files' = [files EXCEPT ![k] = IF status = "ok" THEN c ELSE NoFile]
  <2>1. uploads[k] = NoRow /\ versions[k] = NoRow
    BY <1>1, <1>9, NextIsFree
  <2>2. [sum |-> c, by |-> r] \in Version /\ [sum |-> c, by |-> r] # NoRow
    BY HostAssumption DEF Version
  <2>3. /\ versions' \in [Keys -> Version \cup {NoRow}] /\ versions'[k] = [sum |-> c, by |-> r]
        /\ \A m \in Keys : m # k => versions'[m] = versions[m]
    BY <1>1, <1>9, <2>2 DEF TypeOK, Publish
  <2>4. /\ files' \in [Keys -> Contents \cup {NoFile, Partial}] /\ files'[k] # Partial
        /\ \A m \in Keys : m # k => files'[m] = files[m]
    BY <1>1, <1>9, HostAssumption DEF TypeOK
  <2>5. TypeOK'
    BY <1>1, <1>2, <1>4, <2>3, <2>4 DEF TypeOK
  <2>6. NoPartialFile' /\ RequestInv(r)'
    BY <1>1, <1>5, <1>6, <1>7, <2>2, <2>3, <2>4 DEF NoPartialFile, RequestInv
  <2>7. ASSUME NEW m \in Keys, versions'[m] # NoRow, versions[m] = NoRow PROVE VersionInv(m)'
    <3>1. m = k /\ versions'[m].by = r
      BY <2>3, <2>7
    <3> QED BY <1>4, <3>1 DEF VersionInv, Has, Got
  <2>8. HubKeeps(r) /\ NewVersionsInv
    BY <1>2, <2>1, <2>3, <2>4, <2>7 DEF HubKeeps, NewVersionsInv
  <2>9. HostInv'
    BY <1>2, <1>3, <2>5, <2>6, <2>8, HubFrame
  <2> QED BY <2>1, <2>4, <2>9
<1> QED BY <1>2, <1>8, <1>9

LEMMA HubStep ==
  ASSUME HostInv, NEW r \in Requests, HubHandles(r)
  PROVE  HostInv' /\ \A k \in Keys : versions[k] # NoRow => files'[k] = files[k]
<1>1. call[r] # NoRow /\ call[r].status = "sent" /\ UNCHANGED <<mode, source, root, tmp, req, answer>>
  BY DEF HubHandles
<1>2. CASE call[r].kind = "local" /\ HubShares(r)
  BY <1>1, <1>2, HubSharesStep
<1>3. CASE call[r].kind = "prepare" /\ HubPrepares(r)
  <2>1. HostInv'
    BY <1>1, <1>3, HubPreparesStep
  <2> QED BY <1>3, <2>1 DEF HubPrepares
<1>4. CASE call[r].kind = "commit" /\ HubCommits(r)
  <2>1. HostInv'
    BY <1>1, <1>4, HubCommitsStep
  <2> QED BY <1>4, <2>1 DEF HubCommits
<1>5. CASE HubFails(r)
  <2>1. HostInv'
    BY <1>1, <1>5, HubFailsStep
  <2> QED BY <1>5, <2>1 DEF HubFails
<1> QED BY <1>2, <1>3, <1>4, <1>5 DEF HubHandles

-----------------------------------------------------------------------------
\* The invariant, and what follows from it

LEMMA HostInit ==
  ASSUME Init
  PROVE  HostInv
<1>1. TypeOK
  <2>1. \A r \in Requests : req[r] \in Request
    BY DEF Init, Request, PCs
  <2>2. req \in [Requests -> Request]
    BY <2>1 DEF Init
  <2> QED BY <2>2 DEF Init, TypeOK, Codes
<1>2. ASSUME NEW r \in Requests PROVE RequestInv(r)
  BY DEF Init, RequestInv, PlaceInv, AnswerInv, LocalInv, PrepareInv, CommitInv, Has, Got,
     Waits, Copying, Faults
<1>3. NoPartialFile /\ \A k \in Keys : VersionInv(k)
  BY HostAssumption DEF Init, NoPartialFile, VersionInv
<1> QED BY <1>1, <1>2, <1>3 DEF HostInv

LEMMA HostStep ==
  ASSUME HostInv, [Next]_vars
  PROVE  HostInv' /\ \A k \in Keys : versions[k] # NoRow => files'[k] = files[k]
<1>1. CASE UNCHANGED vars
  <2>1. ASSUME NEW r \in Requests PROVE RequestInv(r)'
    BY <1>1, RequestFrame DEF HostInv, vars
  <2>2. ASSUME NEW k \in Keys PROVE VersionInv(k)'
    BY <1>1, VersionFrame DEF HostInv, vars
  <2> QED BY <1>1, <2>1, <2>2 DEF HostInv, TypeOK, NoPartialFile, vars
<1>2. ASSUME NEW r \in Requests, Host(r)
      PROVE  HostInv' /\ \A k \in Keys : versions[k] # NoRow => files'[k] = files[k]
  <2>1. CASE Receive(r)
    BY <2>1, ReceiveStep DEF Receive
  <2>2. CASE Resolve(r)
    BY <2>2, ResolveStep DEF Resolve
  <2>3. CASE TakeAnswer(r)
    BY <2>3, TakeAnswerStep DEF TakeAnswer
  <2>4. CASE WaitAborts(r)
    BY <2>4, BreakStep DEF WaitAborts
  <2>5. CASE OpenCopy(r)
    BY <2>5, OpenStep DEF OpenCopy
  <2>6. CASE Stream(r)
    BY <2>6, StreamStep DEF Stream
  <2>7. CASE Rename(r)
    BY <2>7, RenameStep
  <2>8. CASE Unlink(r)
    BY <2>8, UnlinkStep DEF Unlink
  <2> QED BY <1>2, <2>1, <2>2, <2>3, <2>4, <2>5, <2>6, <2>7, <2>8 DEF Host
<1>3. ASSUME NEW r \in Requests, CallBreaks(r)
      PROVE  HostInv' /\ \A k \in Keys : versions[k] # NoRow => files'[k] = files[k]
  BY <1>3, BreakStep DEF CallBreaks
<1>4. ASSUME NEW r \in Requests, HubHandles(r)
      PROVE  HostInv' /\ \A k \in Keys : versions[k] # NoRow => files'[k] = files[k]
  BY <1>4, HubStep
<1>5. ASSUME NEW r \in Requests, Abort(r)
      PROVE  HostInv' /\ \A k \in Keys : versions[k] # NoRow => files'[k] = files[k]
  BY <1>5, AbortStep DEF Abort
<1>6. CASE PathsChange
  BY <1>6, PathsStep DEF PathsChange
<1>7. CASE Crash
  BY <1>7, CrashStep DEF Crash
<1> QED BY <1>1, <1>2, <1>3, <1>4, <1>5, <1>6, <1>7 DEF Next

THEOREM HostInvariant == Spec => []HostInv
<1>1. Init => HostInv
  BY HostInit
<1>2. HostInv /\ [Next]_vars => HostInv'
  BY HostStep
<1> QED BY <1>1, <1>2, PTL DEF Spec

\* The state of the host and its requests has its types in every behaviour.
THEOREM TypeCorrect == Spec => []TypeOK
<1>1. HostInv => TypeOK
  BY DEF HostInv
<1> QED BY <1>1, HostInvariant, PTL

\* A share the browser is told of exists, with the bytes the host copied
\* (createNasShare, createLocalShare), for any number of requests and versions.
THEOREM AnsweredSharesHold == Spec => []AnsweredShareHolds
<1>1. HostInv => AnsweredShareHolds
  <2> SUFFICES ASSUME HostInv, NEW r \in Requests, answer[r] = "ok"
               PROVE  /\ versions[req[r].key] # NoRow
                      /\ tmp[r] = NoFile
                      /\ req[r].read # NoFile =>
                           /\ versions[req[r].key] = [sum |-> req[r].read, by |-> r]
                           /\ files[req[r].key] = req[r].read
    BY DEF AnsweredShareHolds
  <2>1. Has(r, {"local", "commit"}) /\ Got(r, "ok") /\ call[r].key = req[r].key
    BY DEF HostInv, RequestInv, AnswerInv
  <2>2. CASE Has(r, {"local"})
    BY <2>1, <2>2 DEF HostInv, RequestInv, LocalInv
  <2>3. CASE Has(r, {"commit"})
    <3>1. Mine(r) # NoRow
      BY <2>3, HostAssumption DEF HostInv, RequestInv, CommitInv, Mine, Version
    <3> QED BY <2>1, <2>3, <3>1 DEF HostInv, RequestInv, CommitInv, Mine
  <2> QED BY <2>1, <2>2, <2>3 DEF Has
<1> QED BY <1>1, HostInvariant, PTL

\* A request has one version at most, and none when it is answered as its own
\* fault (handleShareRequest's 4xx), for any number of requests.
THEOREM RequestsPublishOnce == Spec => []PublishesOnce
<1>1. HostInv => PublishesOnce
  <2> SUFFICES ASSUME HostInv PROVE PublishesOnce
    OBVIOUS
  <2>1. \A k, m \in Keys :
          versions[k] # NoRow /\ versions[m] # NoRow /\ versions[k].by = versions[m].by => k = m
    BY DEF HostInv, VersionInv
  <2>2. ASSUME NEW r \in Requests, answer[r] \in {"bad-request", "session-not-found"},
               ~req[r].aborted
        PROVE  /\ \A k \in Keys : versions[k] # NoRow => versions[k].by # r
               /\ call[r] = NoRow \/ call[r].status # "sent"
    <3>1. call[r] = NoRow \/ Got(r, "refused") \/ (Has(r, {"prepare"}) /\ Got(r, "ok"))
      BY <2>2 DEF HostInv, RequestInv, AnswerInv, Faults
    <3>2. ASSUME NEW k \in Keys, versions[k] # NoRow PROVE versions[k].by # r
      BY <3>1, <3>2 DEF HostInv, VersionInv, Has, Got
    <3> QED BY <3>1, <3>2 DEF Got
  <2> QED BY <2>1, <2>2 DEF PublishesOnce
<1> QED BY <1>1, HostInvariant, PTL

\* No step and no crash leaves part of a file under a storage key
\* (copyNasSnapshot's temporary file and rename).
THEOREM NoPartialFiles == Spec => []NoPartialFile
<1>1. HostInv => NoPartialFile
  BY DEF HostInv
<1> QED BY <1>1, HostInvariant, PTL

\* The file of a published version is never written again, by whatever request
\* is still copying (the reserved key of createNasShare is its own).
THEOREM PublishedFilesStay == Spec => PublishedFileStays
<1>1. HostInv /\ [Next]_vars => [\A k \in Keys : versions[k] # NoRow => files'[k] = files[k]]_vars
  BY HostStep
<1> QED BY <1>1, HostInvariant, PTL DEF Spec, PublishedFileStays

-----------------------------------------------------------------------------
(***************************************************************************)
(* What ends an aborted request: nothing takes a request back to a place   *)
(* it has left, and each of the host's steps takes it on.                  *)
(***************************************************************************)
Distance(p) ==
  CASE p = "new" -> 8 [] p = "resolve" -> 7 [] p = "prepare" -> 6 [] p = "open" -> 5
    [] p = "stream" -> 4 [] p = "rename" -> 3 [] p \in {"clean", "failed"} -> 2
    [] p \in {"local", "commit"} -> 1 [] p = "end" -> 0

Nearer(p, q) == Distance(p) < Distance(q)

RequestsGoOn ==
  \A r \in Requests :
    /\ req[r].aborted => req'[r].aborted
    /\ req'[r].pc = req[r].pc \/ Nearer(req'[r].pc, req[r].pc)
    /\ Host(r) => Nearer(req'[r].pc, req[r].pc)

LEMMA Order ==
  /\ \A p \in PCs \ {"end"} : Nearer("end", p)
  /\ Nearer("resolve", "new") /\ Nearer("local", "new") /\ Nearer("prepare", "resolve")
  /\ Nearer("open", "prepare") /\ Nearer("stream", "open")
  /\ Nearer("rename", "stream") /\ Nearer("failed", "stream")
  /\ Nearer("clean", "rename") /\ Nearer("failed", "rename") /\ Nearer("commit", "clean")
BY DEF Nearer, Distance, PCs, Waits

\* Where a request is taken: to a place p, with another key or other bytes or none.
GoesTo(r, p) ==
  \/ req' = [req EXCEPT ![r].pc = p]
  \/ \E k : req' = [req EXCEPT ![r].pc = p, ![r].key = k]
  \/ \E c : req' = [req EXCEPT ![r].pc = p, ![r].read = c]

LEMMA StepsAreNearer ==
  ASSUME TypeOK, NEW r \in Requests, Host(r) \/ CallBreaks(r)
  PROVE  /\ req'[r].aborted = req[r].aborted /\ Nearer(req'[r].pc, req[r].pc)
         /\ \A q \in Requests : q # r => req'[q] = req[q]
<1>1. req \in [Requests -> Request] /\ req[r] \in Request
  BY DEF TypeOK
<1>2. /\ \A p : Goto(r, p) => GoesTo(r, p)
      /\ \A code : End(r, code) => GoesTo(r, "end")
      /\ \A kind : Send(r, kind) => GoesTo(r, "end") \/ GoesTo(r, kind)
  BY DEF Goto, End, Send, Fetch, GoesTo
<1>3. \E p \in PCs : GoesTo(r, p) /\ Nearer(p, req[r].pc)
  <2> DEFINE Advances(p) == GoesTo(r, p) /\ Nearer(p, req[r].pc)
  <2>1. CASE Receive(r)
    <3>1. Advances("end") \/ Advances("resolve") \/ Advances("local")
      BY <1>2, <2>1, Order DEF Receive, PCs, Waits
    <3> QED BY <3>1 DEF PCs, Waits
  <2>2. CASE Resolve(r)
    <3>1. Advances("end") \/ Advances("prepare")
      BY <1>2, <2>2, Order DEF Resolve, PCs, Waits
    <3> QED BY <3>1 DEF PCs, Waits
  <2>3. CASE TakeAnswer(r)
    <3>1. CASE call[r].status # "ok"
      <4>1. Advances("end")
        BY <1>2, <2>3, <3>1, Order DEF TakeAnswer, Waiting, PCs, Waits
      <4> QED BY <4>1 DEF PCs
    <3>2. CASE call[r].status = "ok" /\ req[r].pc = "prepare"
      <4>1. Advances("open")
        BY <2>3, <3>2, Order DEF TakeAnswer, GoesTo
      <4> QED BY <4>1 DEF PCs
    <3>3. CASE call[r].status = "ok" /\ req[r].pc # "prepare"
      <4>1. Advances("end")
        BY <2>3, <3>3, Order DEF TakeAnswer, GoesTo, Waiting, PCs, Waits
      <4> QED BY <4>1 DEF PCs
    <3> QED BY <3>1, <3>2, <3>3
  <2>4. CASE WaitAborts(r) \/ CallBreaks(r)
    <3>1. Advances("end")
      BY <1>2, <2>4, Order DEF WaitAborts, CallBreaks, Waiting, PCs, Waits
    <3> QED BY <3>1 DEF PCs
  <2>5. CASE OpenCopy(r)
    <3>1. Advances("end") \/ Advances("stream")
      BY <1>2, <2>5, Order DEF OpenCopy, PCs
    <3> QED BY <3>1 DEF PCs
  <2>6. CASE Stream(r)
    <3>1. GoesTo(r, "rename") \/ GoesTo(r, "failed")
      BY <1>2, <2>6 DEF Stream, GoesTo
    <3>2. Advances("rename") \/ Advances("failed")
      BY <2>6, <3>1, Order DEF Stream
    <3> QED BY <3>2 DEF PCs
  <2>7. CASE Rename(r)
    <3>1. Advances("clean") \/ Advances("failed")
      BY <1>2, <2>7, Order DEF Rename
    <3> QED BY <3>1 DEF PCs
  <2>8. CASE Unlink(r)
    <3>1. Advances("end") \/ Advances("commit")
      BY <1>2, <2>8, Order DEF Unlink, PCs
    <3> QED BY <3>1 DEF PCs, Waits
  <2> QED BY <2>1, <2>2, <2>3, <2>4, <2>5, <2>6, <2>7, <2>8 DEF Host
<1>4. PICK p \in PCs : GoesTo(r, p) /\ Nearer(p, req[r].pc)
  BY <1>3
<1>5. /\ req'[r].aborted = req[r].aborted /\ req'[r].pc = p
      /\ \A q \in Requests : q # r => req'[q] = req[q]
  BY <1>1, <1>4 DEF GoesTo, Request
<1> QED BY <1>4, <1>5

\* An aborted request stays aborted and never goes back, whatever the Hub, the other
\* requests and crashes do: it is at its end after eight steps of the host at most
\* (handleShareRequest has no retry, every wait for the Hub has the signal).
THEOREM AbortsGoOn == Spec => [][RequestsGoOn]_vars
<1>1. ASSUME TypeOK, Next PROVE RequestsGoOn
  <2>1. req \in [Requests -> Request]
    BY <1>1 DEF TypeOK
  <2>2. ASSUME NEW q \in Requests, Host(q) \/ CallBreaks(q) PROVE RequestsGoOn
    <3>1. ASSUME NEW r \in Requests, Host(r) PROVE Nearer(req'[r].pc, req[r].pc)
      BY <1>1, <3>1, StepsAreNearer
    <3> QED BY <1>1, <2>2, <3>1, StepsAreNearer DEF RequestsGoOn
  <2>3. ASSUME NEW q \in Requests, HubHandles(q) \/ Abort(q) \/ PathsChange \/ Crash
        PROVE  RequestsGoOn
    <3>1. ASSUME NEW r \in Requests, Host(r) PROVE Nearer(req'[r].pc, req[r].pc)
      BY <1>1, <3>1, StepsAreNearer
    <3>2. \A r \in Requests :
            /\ req[r].aborted => req'[r].aborted
            /\ req'[r].pc \in {req[r].pc, "end"}
      <4>1. CASE HubHandles(q)
        BY <4>1 DEF HubHandles
      <4>2. CASE Abort(q)
        BY <2>1, <4>2 DEF Abort, Request
      <4>3. CASE PathsChange
        BY <4>3 DEF PathsChange
      <4>4. CASE Crash
        BY <2>1, <4>4 DEF Crash, Request
      <4> QED BY <2>3, <4>1, <4>2, <4>3, <4>4
    <3>3. \A r \in Requests : req[r].pc # "end" => Nearer("end", req[r].pc)
      BY <2>1, Order DEF Request
    <3> QED BY <3>1, <3>2, <3>3 DEF RequestsGoOn
  <2>4. CASE \E q \in Requests : Host(q) \/ CallBreaks(q) \/ HubHandles(q) \/ Abort(q)
    BY <2>2, <2>3, <2>4
  <2>5. CASE PathsChange \/ Crash
    <3>1. CASE Requests # {}
      BY <2>3, <2>5, <3>1
    <3>2. CASE Requests = {}
      BY <3>2 DEF RequestsGoOn
    <3> QED BY <3>1, <3>2
  <2> QED BY <1>1, <2>4, <2>5 DEF Next
<1>2. TypeOK /\ [Next]_vars => [RequestsGoOn]_vars
  BY <1>1
<1> QED BY <1>2, TypeCorrect, PTL DEF Spec

=============================================================================
