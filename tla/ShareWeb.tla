------------------------------ MODULE ShareWeb -------------------------------
(***************************************************************************)
(* The public page of a share.  It asks the Hub for the share when it is   *)
(* opened, and shows it with a preview of its content, or an error that    *)
(* may offer to try again.  The link's state changes at the Hub all the    *)
(* while; calls fail in the network, at the Hub and on the way back.  In   *)
(* StrictMode every effect runs, is cleaned up, and runs again, so that    *)
(* the first load is aborted before the network has seen it.               *)
(***************************************************************************)
EXTENDS Integers, Sequences

CONSTANTS
  Mimes, Exts,  \* what MIME types and file extensions say of a file's kind
  MaxChurn,     \* bound on the changes of the link
  MaxFaults     \* bound on the calls that fail for no reason in the link

VARIABLES
  file,     \* the share's MIME type and file extension
  token,    \* shareTokenFromPath finds a token in the address
  link,     \* what resolve_share says of the token now
  page,     \* App's state
  basis,    \* history: the link's states until the load behind the page was answered
  loads,    \* loadShare: the one aborted by StrictMode, of the opening, of a retry
  preview,  \* ArtifactPreview's state
  fetched,  \* history: the link's states since the preview was mounted
  churn, faults

page_ == <<page, basis, loads, preview, fetched>>
vars  == <<file, token, link, page_, churn, faults>>

Links   == {"share", "share_expired", "share_revoked", "not_found", "access_restricted"}
Codes   == (Links \ {"share"}) \cup {"network_error", "invalid_response", "unknown"}
\* What a call comes to: the Hub's verdict; an error of it without a code; an
\* answer cut off, or no envelope of a share; no answer.
Answers == Links \cup {"failure", "garbled", "lost"}
Slots   == {"strict", "open", "retry"}
Load    == [status : Answers \cup {"none", "aborted", "sent"}, seen : SUBSET Links]
NoLoad  == [status |-> "none", seen |-> {}]

ASSUME WebAssumption ==
  /\ MaxChurn \in Nat /\ MaxFaults \in Nat
  /\ Mimes \subseteq {"markdown", "json", "code", "image", "pdf", "html", "text", "other"}
  /\ Exts \subseteq {"markdown", "json", "code", "pdf", "html", "other"}

TypeOK ==
  /\ file \in [mime : Mimes, ext : Exts] /\ token \in BOOLEAN
  /\ link \in Links
  /\ page \in Codes \cup {"loading", "share"}
  /\ loads \in [Slots -> Load]
  /\ preview \in {"none", "loading", "shown", "failed", "media", "unsupported"}
  /\ basis \subseteq Links /\ fetched \subseteq Links
  /\ churn \in 0..MaxChurn /\ faults \in 0..MaxFaults

-----------------------------------------------------------------------------
\* What is shown of a file

KindTests == <<"markdown", "json", "code", "image", "pdf", "html">>

Passes(f) == {i \in DOMAIN KindTests : KindTests[i] \in {f.mime, f.ext}}

\* previewKind: the first test that the type or the extension passes.
Kind(f) ==
  IF Passes(f) # {} THEN KindTests[CHOOSE i \in Passes(f) : \A j \in Passes(f) : i <= j]
  ELSE IF f.mime = "text" THEN "code"
  ELSE "unsupported"

\* ArtifactPreview: text is fetched by the page, media by the browser.
Mounted(f) ==
  CASE Kind(f) \in {"markdown", "json", "code"} -> "loading"
    [] Kind(f) \in {"image", "pdf", "html"}     -> "media"
    [] Kind(f) = "unsupported"                  -> "unsupported"

-----------------------------------------------------------------------------
\* The link

\* Time passes, the version is shared again, the share is revoked.  Sharing what
\* was revoked makes another link.  Rows of the former access modes are restricted.
LinkGoes(from) ==
  CASE from = "share"             -> {"share_expired", "share_revoked"}
    [] from = "share_expired"     -> {"share", "share_revoked"}
    [] from = "share_revoked"     -> {"not_found"}
    [] from = "access_restricted" -> {"share", "share_expired", "share_revoked"}
    [] from = "not_found"         -> {}

LinkChanges ==
  /\ churn < MaxChurn /\ churn' = churn + 1
  /\ link' \in LinkGoes(link)
  /\ loads' = [s \in Slots |-> IF loads[s].status = "sent"
                               THEN [loads[s] EXCEPT !.seen = @ \cup {link'}] ELSE loads[s]]
  /\ fetched' = IF preview = "loading" THEN fetched \cup {link'} ELSE fetched
  /\ UNCHANGED <<file, token, page, basis, preview, faults>>

-----------------------------------------------------------------------------
\* The page

Sent(l) == [status |-> "sent", seen |-> {l}]

\* An address without a token is an error at once; otherwise the effect loads,
\* in StrictMode twice.
Opened(l) ==
  /\ basis' = {} /\ preview' = "none" /\ fetched' = {}
  /\ IF token
     THEN /\ page' = "loading"
          /\ \E strict \in {NoLoad, [status |-> "aborted", seen |-> {}]} :
               loads' = [s \in Slots |->
                 CASE s = "strict" -> strict [] s = "open" -> Sent(l) [] s = "retry" -> NoLoad]
     ELSE page' = "not_found" /\ loads' = [s \in Slots |-> NoLoad]

Init ==
  /\ file \in [mime : Mimes, ext : Exts] /\ token \in BOOLEAN
  /\ link \in {"share", "not_found", "access_restricted"}
  /\ page = IF token THEN "loading" ELSE "not_found"
  /\ \E strict \in {"none", "aborted"} :
       loads = [s \in Slots |-> CASE ~token \/ s = "retry" -> NoLoad
                                  [] token /\ s = "open"   -> Sent(link)
                                  [] token /\ s = "strict" -> [status |-> strict, seen |-> {}]]
  /\ basis = {} /\ preview = "none" /\ fetched = {}
  /\ churn = 0 /\ faults = 0

\* The page is loaded anew, as a preview that failed advises, or just so.
Reload ==
  /\ page # "loading" /\ preview # "loading"
  /\ Opened(link)
  /\ UNCHANGED <<file, token, link, churn, faults>>

Fault == faults < MaxFaults /\ faults' = faults + 1

\* The Hub looks at the link, or the call fails.
HubAnswers(s) ==
  /\ loads[s].status = "sent"
  /\ \/ /\ loads' = [loads EXCEPT ![s].status = link]
        /\ UNCHANGED faults
     \/ /\ Fault
        /\ \E a \in {"failure", "garbled", "lost"} : loads' = [loads EXCEPT ![s].status = a]
  /\ UNCHANGED <<file, token, link, page, basis, preview, fetched, churn>>

\* Mutant: an error without a code is taken for a missing share.
AnyErrorIsNotFound(answer) ==
  CASE answer \in Links  -> answer
    [] answer = "garbled" -> "invalid_response"
    [] answer = "lost"    -> "network_error"
    [] answer = "failure" -> "not_found"

\* Mutant: the answer's code is passed on as it is.
AnyCode(answer) == answer

\* fetchPublicShare: what the page makes of the answer.
Outcome(answer) ==
  CASE answer \in Links  -> answer
    [] answer = "garbled" -> "invalid_response"
    [] answer = "lost"    -> "network_error"
    [] answer = "failure" -> "unknown"

\* loadShare after its await.
Land(s) ==
  /\ loads[s].status \in Answers
  /\ page' = Outcome(loads[s].status)
  /\ basis' = loads[s].seen
  /\ preview' = IF page' = "share" THEN Mounted(file) ELSE "none"
  /\ fetched' = IF page' = "share" THEN {link} ELSE {}
  /\ loads' = [loads EXCEPT ![s] = NoLoad]
  /\ UNCHANGED <<file, token, link, churn, faults>>

\* Mutant: an abort is an error like any other.
AbortIsShown ==
  /\ loads["strict"].status = "aborted"
  /\ page' = "unknown" /\ basis' = {} /\ preview' = "none" /\ fetched' = {}
  /\ loads' = [loads EXCEPT !["strict"] = NoLoad]
  /\ UNCHANGED <<file, token, link, churn, faults>>

\* The aborted load ends with an AbortError, which loadShare ignores.
LandAborted ==
  /\ loads["strict"].status = "aborted"
  /\ loads' = [loads EXCEPT !["strict"] = NoLoad]
  /\ UNCHANGED <<file, token, link, page, basis, preview, fetched, churn, faults>>

\* Mutant: an answer that cannot be read is final.
RetryOnNetworkError == {"access_restricted", "network_error", "unknown"}

\* The errors whose page has the retry button.
Retryable == {"access_restricted", "network_error", "invalid_response", "unknown"}

\* The retry has no signal; it takes the place of the page, and of its preview.
Retry ==
  /\ page \in Retryable
  /\ page' = "loading"
  /\ loads' = [loads EXCEPT !["retry"] = Sent(link)]
  /\ preview' = "none" /\ fetched' = {}
  /\ UNCHANGED <<file, token, link, basis, churn, faults>>

\* TextPreview's fetch ends: the content, or not.
PreviewLands ==
  /\ preview = "loading"
  /\ \/ preview' = (IF link = "share" THEN "shown" ELSE "failed") /\ UNCHANGED faults
     \/ preview' = "failed" /\ Fault
  /\ UNCHANGED <<file, token, link, page, basis, loads, fetched, churn>>

-----------------------------------------------------------------------------
Next ==
  \/ LinkChanges \/ Reload \/ Retry \/ LandAborted \/ PreviewLands
  \/ \E s \in Slots : HubAnswers(s) \/ Land(s)

Spec == Init /\ [][Next]_vars

\* The browser ends every fetch some time.
FairSpec ==
  /\ Spec
  /\ WF_vars(PreviewLands)
  /\ \A s \in Slots : WF_vars(HubAnswers(s) \/ Land(s))

-----------------------------------------------------------------------------
\* What the page says without offering to try again is so, not the trouble of a
\* call: the share, or the error, was the link's state while the load was under
\* way, and the text was to be had when it was fetched.  A link that the page
\* calls revoked or unknown does not work again (loadShare, normalizeErrorCode,
\* the errors without retry).
PageIsTrue ==
  /\ token /\ page \notin Retryable \cup {"loading"} => page \in basis
  /\ preview = "shown" => "share" \in fetched
  /\ token /\ page \in {"share_revoked", "not_found"} => link \in {"share_revoked", "not_found"}

\* Only one load at a time decides what the page shows: when a share or an error
\* is there, none is left that could replace it, StrictMode and retries included.
OneLoadDecides ==
  page # "loading" => \A s \in Slots : loads[s].status \in {"none", "aborted"}

\* Who clicks the retry button, and reloads the page when a preview has failed,
\* comes to a verdict of the Hub, with the text if the link works: no failure of
\* a call is a dead end, and no load hangs.
AdviceHelps ==
  WF_vars(Retry) /\ WF_vars(Reload /\ preview = "failed") =>
    []<>(page \in Links /\ preview \notin {"loading", "failed"})

=============================================================================
