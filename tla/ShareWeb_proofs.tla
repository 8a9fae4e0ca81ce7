--------------------------- MODULE ShareWeb_proofs ---------------------------
(***************************************************************************)
(* What the public page shows is true, for every set of kinds of files and *)
(* any number of changes and faults.  The invariant says that one load at  *)
(* a time is alive, that it has seen every state of the link since it was  *)
(* sent, and that a link that is dead stays dead.                          *)
(***************************************************************************)
EXTENDS ShareWeb, TLAPS

Dead == {"share_revoked", "not_found"}

Alive(s) == loads[s].status \notin {"none", "aborted"}

\* At most one load is alive, and only while nothing is shown.
LoadsInv ==
  /\ loads["strict"].status \in {"none", "aborted"}
  /\ \A s \in Slots : Alive(s) =>
       page = "loading" /\ token /\ \A t \in Slots : Alive(t) => t = s

\* What a load that is alive, and a text being fetched, have seen.
SeenInv ==
  /\ \A s \in Slots :
       /\ loads[s].status = "sent" => link \in loads[s].seen
       /\ loads[s].status \in Links => loads[s].status \in loads[s].seen
       /\ loads[s].status \in Dead => link \in Dead
  /\ preview = "loading" => link \in fetched

\* An address without a token has nothing to retry.
TokenInv == ~token => page = "not_found"

WebInv == TypeOK /\ LoadsInv /\ TokenInv /\ SeenInv /\ PageIsTrue

-----------------------------------------------------------------------------
LEMMA KindFacts ==
  ASSUME WebAssumption, NEW f \in [mime : Mimes, ext : Exts]
  PROVE  Mounted(f) \in {"loading", "media", "unsupported"}
<1> DEFINE six == {"markdown", "json", "code", "image", "pdf", "html"}
<1>1. \A i \in DOMAIN KindTests : KindTests[i] \in six
  BY DEF KindTests
<1>2. Kind(f) \in six \cup {"unsupported"}
  <2>1. CASE Passes(f) # {}
    <3>1. Passes(f) \subseteq 1..6
      BY DEF Passes, KindTests
    <3>2. \E i \in Passes(f) : \A j \in Passes(f) : i <= j
      <4> DEFINE L(n) == n \in Passes(f) /\ \A j \in Passes(f) : n <= j
      <4>1. CASE 1 \in Passes(f)
        BY <3>1, <4>1
      <4>2. CASE 1 \notin Passes(f) /\ 2 \in Passes(f)
        BY <3>1, <4>2
      <4>3. CASE 1 \notin Passes(f) /\ 2 \notin Passes(f) /\ 3 \in Passes(f)
        BY <3>1, <4>3
      <4>4. CASE Passes(f) \cap {1, 2, 3} = {} /\ 4 \in Passes(f)
        BY <3>1, <4>4
      <4>5. CASE Passes(f) \cap {1, 2, 3, 4} = {} /\ 5 \in Passes(f)
        BY <3>1, <4>5
      <4>6. CASE Passes(f) \cap {1, 2, 3, 4, 5} = {}
        BY <2>1, <3>1, <4>6
      <4> QED BY <4>1, <4>2, <4>3, <4>4, <4>5, <4>6
    <3>3. (CHOOSE i \in Passes(f) : \A j \in Passes(f) : i <= j) \in Passes(f)
      BY <3>2
    <3>4. Passes(f) \subseteq DOMAIN KindTests
      BY DEF Passes
    <3> QED BY <1>1, <2>1, <3>3, <3>4 DEF Kind
  <2>2. CASE Passes(f) = {}
    BY <2>2 DEF Kind
  <2> QED BY <2>1, <2>2
<1> QED BY <1>2 DEF Mounted

LEMMA InitWeb == ASSUME WebAssumption, Init PROVE WebInv
<1>1. PICK strict \in {"none", "aborted"} :
        loads = [s \in Slots |-> CASE ~token \/ s = "retry" -> NoLoad
                                   [] token /\ s = "open"   -> Sent(link)
                                   [] token /\ s = "strict" -> [status |-> strict, seen |-> {}]]
  BY DEF Init
<1>2. /\ loads["open"] = IF token THEN Sent(link) ELSE NoLoad
      /\ loads["strict"] = IF token THEN [status |-> strict, seen |-> {}] ELSE NoLoad
      /\ loads["retry"] = NoLoad
      /\ token \in BOOLEAN /\ link \in Links
  BY <1>1 DEF Init, Slots, Links
<1>3. loads \in [Slots -> Load]
  BY <1>1, <1>2 DEF Slots, Load, NoLoad, Sent, Answers
<1>4. TypeOK
  <2>1. churn \in 0..MaxChurn /\ faults \in 0..MaxFaults
    BY DEF Init, WebAssumption
  <2>2. page \in Codes \cup {"loading", "share"}
    BY DEF Init, Codes, Links
  <2> QED BY <1>2, <1>3, <2>1, <2>2 DEF Init, TypeOK
<1>5. LoadsInv
  BY <1>2 DEF Init, LoadsInv, Alive, Slots, NoLoad, Sent
<1>6. SeenInv
  BY <1>2 DEF Init, SeenInv, Slots, NoLoad, Sent, Links, Dead
<1>7. PageIsTrue
  BY DEF Init, PageIsTrue
<1>8. TokenInv
  BY DEF Init, TokenInv
<1> QED BY <1>4, <1>5, <1>6, <1>7, <1>8 DEF WebInv

-----------------------------------------------------------------------------
LEMMA LinkChangesKeeps ==
  ASSUME WebAssumption, WebInv, LinkChanges
  PROVE  WebInv'
<1> USE DEF WebInv
<1>1. link' \in Links /\ (link \in Dead => link' \in Dead)
  BY DEF LinkChanges, LinkGoes, Links, Dead, TypeOK
<1>2. \A s \in Slots : /\ loads'[s].status = loads[s].status
                       /\ loads[s].status # "sent" => loads'[s] = loads[s]
                       /\ loads[s].status = "sent" => loads'[s].seen = loads[s].seen \cup {link'}
                       /\ loads'[s] \in Load
  BY <1>1 DEF LinkChanges, TypeOK, Load
<1>3. TypeOK'
  <2>1. loads' \in [Slots -> Load]
    BY <1>2 DEF LinkChanges
  <2>2. fetched' \subseteq Links
    BY <1>1 DEF LinkChanges, TypeOK
  <2>3. churn' \in 0..MaxChurn
    BY DEF LinkChanges, TypeOK, WebAssumption
  <2> QED BY <1>1, <2>1, <2>2, <2>3 DEF LinkChanges, TypeOK
<1>4. LoadsInv'
  BY <1>2 DEF LinkChanges, LoadsInv, Alive, Slots
<1>5. SeenInv'
  BY <1>1, <1>2 DEF LinkChanges, SeenInv, Links, Dead
<1>6. PageIsTrue'
  BY <1>1 DEF LinkChanges, PageIsTrue, Dead
<1>7. TokenInv'
  BY DEF LinkChanges, TokenInv
<1> QED BY <1>3, <1>4, <1>5, <1>6, <1>7

LEMMA ReloadKeeps ==
  ASSUME WebAssumption, WebInv, Reload
  PROVE  WebInv'
<1> USE DEF WebInv
<1>1. CASE token
  <2>1. PICK strict \in {NoLoad, [status |-> "aborted", seen |-> {}]} :
          loads' = [s \in Slots |->
            CASE s = "strict" -> strict [] s = "open" -> Sent(link) [] s = "retry" -> NoLoad]
    BY <1>1 DEF Reload, Opened
  <2>2. loads'["strict"] = strict /\ loads'["open"] = Sent(link) /\ loads'["retry"] = NoLoad
    BY <2>1 DEF Slots
  <2>3. page' = "loading" /\ basis' = {} /\ preview' = "none" /\ fetched' = {}
    BY <1>1 DEF Reload, Opened
  <2>4. loads' \in [Slots -> Load]
    BY <2>1 DEF TypeOK, Slots, Load, NoLoad, Sent, Answers
  <2>5. TypeOK'
    BY <2>3, <2>4 DEF Reload, TypeOK
  <2>6. LoadsInv'
    BY <1>1, <2>2, <2>3 DEF Reload, LoadsInv, Alive, Slots, NoLoad, Sent
  <2>7. SeenInv'
    BY <2>2, <2>3 DEF Reload, SeenInv, Slots, NoLoad, Sent, Links, Dead
  <2>8. PageIsTrue'
    BY <2>3 DEF PageIsTrue
  <2>9. TokenInv'
    BY <1>1 DEF Reload, TokenInv
  <2> QED BY <2>5, <2>6, <2>7, <2>8, <2>9
<1>2. CASE ~token
  <2>1. /\ page' = "not_found" /\ loads' = [s \in Slots |-> NoLoad]
        /\ basis' = {} /\ preview' = "none" /\ fetched' = {}
    BY <1>2 DEF Reload, Opened
  <2>2. TypeOK'
    BY <2>1 DEF Reload, TypeOK, Load, NoLoad, Codes, Links
  <2>3. LoadsInv' /\ SeenInv'
    BY <2>1 DEF LoadsInv, SeenInv, Alive, Slots, NoLoad, Links, Dead
  <2>4. PageIsTrue'
    BY <1>2, <2>1 DEF Reload, PageIsTrue
  <2>5. TokenInv'
    BY <2>1 DEF TokenInv
  <2> QED BY <2>2, <2>3, <2>4, <2>5
<1> QED BY <1>1, <1>2

LEMMA HubAnswersKeeps ==
  ASSUME WebAssumption, WebInv, NEW s \in Slots, HubAnswers(s)
  PROVE  WebInv'
<1> USE DEF WebInv
<1>1. PICK a \in Answers :
        /\ loads' = [loads EXCEPT ![s].status = a]
        /\ a \in Links => a = link
        /\ faults' \in 0..MaxFaults
  BY DEF HubAnswers, Fault, TypeOK, WebAssumption, Answers, Links
<1>2. /\ loads'[s].status = a /\ loads'[s].seen = loads[s].seen
      /\ \A t \in Slots : t # s => loads'[t] = loads[t]
      /\ loads' \in [Slots -> Load]
      /\ loads[s].status = "sent"
      /\ UNCHANGED <<file, token, link, page, basis, preview, fetched, churn>>
  BY <1>1 DEF HubAnswers, TypeOK, Load
<1>3. TypeOK'
  BY <1>1, <1>2 DEF TypeOK
<1>4. LoadsInv'
  <2>1. Alive(s) /\ s # "strict"
    BY <1>2 DEF Alive, LoadsInv
  <2> QED BY <1>2, <2>1 DEF LoadsInv, Alive, Slots
<1>5. SeenInv'
  <2>1. "sent" \notin Answers /\ Dead \subseteq Links
    BY DEF Answers, Links, Dead
  <2> QED BY <1>1, <1>2, <2>1 DEF SeenInv
<1>6. PageIsTrue'
  BY <1>2 DEF PageIsTrue, Retryable
<1>7. TokenInv'
  BY <1>2 DEF TokenInv
<1> QED BY <1>3, <1>4, <1>5, <1>6, <1>7

LEMMA LandKeeps ==
  ASSUME WebAssumption, WebInv, NEW s \in Slots, Land(s)
  PROVE  WebInv'
<1> USE DEF WebInv
<1>1. /\ loads'[s] = NoLoad /\ \A t \in Slots : t # s => loads'[t] = loads[t]
      /\ loads' \in [Slots -> Load]
      /\ loads[s].status \in Answers /\ loads[s].seen \subseteq Links
      /\ UNCHANGED <<file, token, link, churn, faults>>
  BY DEF Land, TypeOK, Load, NoLoad
<1>2. Alive(s) /\ \A t \in Slots : t # s => ~Alive(t)
  BY <1>1 DEF LoadsInv, Alive, Answers, Links
<1>3. /\ page' = Outcome(loads[s].status) /\ page' \in Codes \cup {"share"}
      /\ page' \in Links => page' = loads[s].status
      /\ page' \notin Retryable => page' \in Links
      /\ basis' = loads[s].seen
  BY <1>1 DEF Land, Outcome, Codes, Answers, Links, Retryable
<1>4. /\ preview' \in {"none", "loading", "media", "unsupported"}
      /\ fetched' \subseteq Links
      /\ preview' = "loading" => fetched' = {link}
  BY <1>1, KindFacts DEF Land, TypeOK
<1>5. TypeOK'
  <2>1. basis' \subseteq Links
    BY <1>1, <1>3
  <2>2. page' \in Codes \cup {"loading", "share"}
    BY <1>3
  <2> QED BY <1>1, <1>4, <2>1, <2>2 DEF TypeOK
<1>6. LoadsInv'
  BY <1>1, <1>2 DEF LoadsInv, Alive, NoLoad, Slots
<1>7. SeenInv'
  BY <1>1, <1>4 DEF SeenInv, NoLoad, Links, Dead
<1>8. PageIsTrue'
  <2>1. page' \in Links => page' \in basis'
    BY <1>1, <1>3 DEF SeenInv
  <2>2. page' \in Dead => link \in Dead
    BY <1>1, <1>3 DEF SeenInv, Dead, Links
  <2> QED BY <1>1, <1>3, <1>4, <2>1, <2>2 DEF PageIsTrue, Dead, Retryable
<1>9. TokenInv'
  BY <1>1, <1>2 DEF LoadsInv, TokenInv
<1> QED BY <1>5, <1>6, <1>7, <1>8, <1>9

LEMMA LandAbortedKeeps ==
  ASSUME WebAssumption, WebInv, LandAborted
  PROVE  WebInv'
<1> USE DEF WebInv
<1>1. /\ loads'["strict"] = NoLoad /\ \A t \in Slots : t # "strict" => loads'[t] = loads[t]
      /\ loads' \in [Slots -> Load]
      /\ UNCHANGED <<file, token, link, page, basis, preview, fetched, churn, faults>>
  BY DEF LandAborted, TypeOK, Load, NoLoad, Slots
<1>2. TypeOK'
  BY <1>1 DEF TypeOK
<1>3. LoadsInv'
  BY <1>1 DEF LoadsInv, Alive, NoLoad, Slots
<1>4. SeenInv'
  BY <1>1 DEF SeenInv, NoLoad, Links, Dead
<1>5. PageIsTrue'
  BY <1>1 DEF PageIsTrue, Retryable
<1>6. TokenInv'
  BY <1>1 DEF TokenInv
<1> QED BY <1>2, <1>3, <1>4, <1>5, <1>6

LEMMA RetryKeeps ==
  ASSUME WebAssumption, WebInv, Retry
  PROVE  WebInv'
<1> USE DEF WebInv
<1>1. /\ loads'["retry"] = Sent(link) /\ \A t \in Slots : t # "retry" => loads'[t] = loads[t]
      /\ loads' \in [Slots -> Load]
      /\ page' = "loading" /\ preview' = "none" /\ fetched' = {}
      /\ UNCHANGED <<file, token, link, basis, churn, faults>>
  BY DEF Retry, TypeOK, Load, Sent, Slots
<1>2. page \in Retryable /\ \A t \in Slots : ~Alive(t)
  BY DEF Retry, LoadsInv, Retryable
<1>3. token
  BY <1>2 DEF TokenInv, Retryable
<1>4. TypeOK'
  BY <1>1 DEF TypeOK
<1>5. LoadsInv'
  BY <1>1, <1>2, <1>3 DEF LoadsInv, Alive, Sent, Slots
<1>6. SeenInv'
  BY <1>1 DEF SeenInv, Sent, Links, Dead
<1>7. PageIsTrue'
  BY <1>1 DEF PageIsTrue
<1>8. TokenInv'
  BY <1>1, <1>3 DEF TokenInv
<1> QED BY <1>4, <1>5, <1>6, <1>7, <1>8

LEMMA PreviewLandsKeeps ==
  ASSUME WebAssumption, WebInv, PreviewLands
  PROVE  WebInv'
<1> USE DEF WebInv
<1>1. /\ preview' \in {"shown", "failed"} /\ (preview' = "shown" => link = "share")
      /\ preview = "loading" /\ faults' \in 0..MaxFaults
      /\ UNCHANGED <<file, token, link, page, basis, loads, fetched, churn>>
  BY DEF PreviewLands, Fault, TypeOK, WebAssumption
<1>2. TypeOK'
  BY <1>1 DEF TypeOK
<1>3. LoadsInv'
  BY <1>1 DEF LoadsInv, Alive
<1>4. SeenInv'
  BY <1>1 DEF SeenInv
<1>5. PageIsTrue'
  BY <1>1 DEF PageIsTrue, SeenInv, Retryable
<1>6. TokenInv'
  BY <1>1 DEF TokenInv
<1> QED BY <1>2, <1>3, <1>4, <1>5, <1>6

LEMMA StepKeepsWeb == ASSUME WebAssumption, WebInv, [Next]_vars PROVE WebInv'
<1>1. CASE LinkChanges
  BY <1>1, LinkChangesKeeps
<1>2. CASE Reload
  BY <1>2, ReloadKeeps
<1>3. CASE Retry
  BY <1>3, RetryKeeps
<1>4. CASE LandAborted
  BY <1>4, LandAbortedKeeps
<1>5. CASE PreviewLands
  BY <1>5, PreviewLandsKeeps
<1>6. CASE \E s \in Slots : HubAnswers(s) \/ Land(s)
  BY <1>6, HubAnswersKeeps, LandKeeps
<1>7. CASE UNCHANGED vars
  BY <1>7 DEF WebInv, TypeOK, LoadsInv, TokenInv, SeenInv, PageIsTrue, Alive, Retryable, vars, page_
<1> QED BY <1>1, <1>2, <1>3, <1>4, <1>5, <1>6, <1>7 DEF Next

\* The invariant holds of the page at all times.
THEOREM WebInvariant == Spec => []WebInv
<1>1. Init => WebInv
  BY InitWeb, WebAssumption
<1>2. WebInv /\ [Next]_vars => WebInv'
  BY StepKeepsWeb, WebAssumption
<1> QED BY <1>1, <1>2, PTL DEF Spec

\* The page's state is well formed: each answer, of whatever kind, has an outcome
\* that App can show, and each file a preview that ArtifactPreview knows.
THEOREM WebTypeCorrect == Spec => []TypeOK
<1>1. WebInv => TypeOK
  BY DEF WebInv
<1> QED BY <1>1, WebInvariant, PTL

\* Verdicts are the Hub's, text shown was to be had, and a link called dead is.
THEOREM PagesAreTrue == Spec => []PageIsTrue
<1>1. WebInv => PageIsTrue
  BY DEF WebInv
<1> QED BY <1>1, WebInvariant, PTL

\* No load is left that could replace what the page shows.
THEOREM OneLoadAtATime == Spec => []OneLoadDecides
<1>1. WebInv => OneLoadDecides
  BY DEF WebInv, LoadsInv, Alive, OneLoadDecides
<1> QED BY <1>1, WebInvariant, PTL

-----------------------------------------------------------------------------
(***************************************************************************)
(* What ends the page's loading: it waits for a load that is alive, which  *)
(* the Hub answers or the network fails.                                   *)
(***************************************************************************)
LoadingHasLoad == page = "loading" => \E s \in Slots : Alive(s)

LEMMA StepKeepsLoad == ASSUME WebInv, LoadingHasLoad, [Next]_vars PROVE LoadingHasLoad'
<1>1. loads \in [Slots -> Load] /\ {"strict", "open", "retry"} = Slots
  BY DEF WebInv, TypeOK, Slots
<1>2. CASE LinkChanges
  <2>1. \A s \in Slots : loads'[s].status = loads[s].status
    BY <1>1, <1>2 DEF LinkChanges, Load
  <2> QED BY <1>2, <2>1 DEF LinkChanges, LoadingHasLoad, Alive
<1>3. CASE Reload
  <2>1. token => loads'["open"] = Sent(link)
    BY <1>1, <1>3 DEF Reload, Opened
  <2>2. ~token => page' # "loading"
    BY <1>3 DEF Reload, Opened
  <2> QED BY <1>1, <1>3, <2>1, <2>2 DEF Reload, LoadingHasLoad, Alive, Sent
<1>4. CASE Retry
  <2>1. loads'["retry"] = Sent(link)
    BY <1>1, <1>4 DEF Retry
  <2> QED BY <1>1, <2>1 DEF LoadingHasLoad, Alive, Sent
<1>5. CASE LandAborted
  <2>1. /\ page' = page /\ loads["strict"].status = "aborted"
        /\ \A s \in Slots : s # "strict" => loads'[s] = loads[s]
    BY <1>1, <1>5 DEF LandAborted
  <2> QED BY <2>1 DEF LoadingHasLoad, Alive
<1>6. ASSUME NEW s \in Slots, HubAnswers(s) PROVE LoadingHasLoad'
  <2>1. PICK a \in Answers : loads' = [loads EXCEPT ![s].status = a]
    BY <1>1, <1>6 DEF HubAnswers, Answers, WebInv, TypeOK
  <2>2. loads'[s].status = a /\ "none" \notin Answers /\ "aborted" \notin Answers
    BY <1>1, <2>1 DEF Load, Answers, Links
  <2> QED BY <2>2 DEF LoadingHasLoad, Alive
<1>7. ASSUME NEW s \in Slots, Land(s) PROVE LoadingHasLoad'
  <2>1. page' = Outcome(loads[s].status) /\ loads[s].status \in Answers
    BY <1>7 DEF Land
  <2>2. page' # "loading"
    BY <2>1 DEF Outcome, Answers, Links
  <2> QED BY <2>2 DEF LoadingHasLoad
<1>8. CASE PreviewLands
  BY <1>8 DEF PreviewLands, LoadingHasLoad, Alive
<1>9. CASE UNCHANGED vars
  BY <1>9 DEF vars, page_, LoadingHasLoad, Alive
<1> QED BY <1>2, <1>3, <1>4, <1>5, <1>6, <1>7, <1>8, <1>9 DEF Next

\* A page that is loading has a load that will be answered, and that is the one it
\* takes: no abort of StrictMode, retry or reload leaves it loading for nothing
\* (loadShare, the effect's cleanup).
THEOREM LoadingPagesWait == Spec => [](LoadingHasLoad /\ OneLoadDecides)
<1>1. Init => LoadingHasLoad
  <2> SUFFICES ASSUME Init, page = "loading" PROVE loads["open"] = Sent(link)
    BY DEF LoadingHasLoad, Alive, Sent, Slots
  <2> QED BY DEF Init, Slots
<1>2. WebInv /\ LoadingHasLoad /\ [Next]_vars => LoadingHasLoad'
  BY StepKeepsLoad
<1> QED BY <1>1, <1>2, WebInvariant, OneLoadAtATime, PTL DEF Spec

=============================================================================
