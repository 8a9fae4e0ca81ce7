----------------------------- MODULE ShareCenter -----------------------------
(***************************************************************************)
(* The share center's panel.  It asks for the creator's shares whenever it *)
(* is opened, and when its refresh button is clicked.  The request of an   *)
(* opening is aborted when the panel closes; a refresh has no signal, so   *)
(* it lives on and may land in a later opening.  The shares change at the  *)
(* Hub all the while: a list is of the moment the Hub was asked for it.    *)
(***************************************************************************)
EXTENDS PanelNav, Sequences, FiniteSets

CONSTANTS
  Artifacts,
  MaxVer,     \* bound on the versions of an artifact
  Refreshes,  \* requests the refresh button can have under way (a bound)
  Collapsed,  \* COLLAPSED_VERSION_COUNT
  NoCall,     \* no request under way
  NoQuery     \* the search field is empty

VARIABLES
  history,   \* the creator's shares at each moment; the last is now
  list,      \* the moment the list shown is of; the first one is empty
  loading, error,
  calls,     \* the requests under way
  newest,    \* history: the latest request, when it was made, what came of it
  leaked     \* history: a refresh outlived a closing and may still be under way

center == <<list, loading, error, calls, newest, leaked>>
vars   == <<navVars, history, center>>

Slots    == Refreshes \cup {"open"}
Vers     == 1..MaxVer
Now      == Len(history)
Moments  == 1..Now
Statuses == {"active", "expired", "revoked"}
Share    == [artifact : Artifacts, version : Vers, revoked : BOOLEAN]
Outcomes == {"sent", "listed", "failed"}

ASSUME CenterAssumption ==
  /\ MaxVer \in Nat /\ Collapsed \in Nat
  /\ "open" \notin Refreshes
  /\ NoQuery \notin Artifacts \cup Vers
  /\ NoCall \notin [status : Outcomes, of : Nat]

TypeOK ==
  /\ NavTypeOK
  /\ history \in Seq(SUBSET Share)
  /\ list \in Moments
  /\ loading \in BOOLEAN /\ error \in BOOLEAN /\ leaked \in BOOLEAN
  /\ calls \in [Slots -> [status : Outcomes, of : Moments] \cup {NoCall}]
  /\ newest \in [slot : Slots, at : Moments, outcome : Outcomes]

Init ==
  /\ NavInit
  /\ history = <<{}>>
  /\ list = 1 /\ loading = FALSE /\ error = FALSE /\ leaked = FALSE
  /\ calls = [s \in Slots |-> NoCall]
  /\ newest = [slot |-> "open", at |-> 1, outcome |-> "listed"]

-----------------------------------------------------------------------------
\* What is shown of a list; passed are the shares whose expiry has passed by now

Status(s, passed) ==
  IF s.revoked THEN "revoked" ELSE IF s \in passed THEN "expired" ELSE "active"

Active(shares, passed) == {s \in shares : Status(s, passed) = "active"}

\* groupCreatedShares and filterArtifactGroups: a card for each artifact with a
\* share that has the status asked for and matches the query, by the artifact or
\* by the version.
Cards(shares, query, status, passed) ==
  LET match == {s \in shares : /\ status \in {"all", Status(s, passed)}
                               /\ query \in {NoQuery, s.artifact, s.version}}
  IN {{s \in match : s.artifact = a} : a \in Artifacts} \ {{}}

\* selectVisibleVersionShares: a collapsed card has rows for the newest versions.
Rows(card, expanded) ==
  {s \in card : expanded \/ Cardinality({o \in card : o.version > s.version}) < Collapsed}

Newest(shares) == {s \in shares : \A o \in shares : o.version <= s.version}

\* Mutant: the preview is that of a row, if the card has one for it.
PreviewOfRow(card, passed) == Newest(Active(Rows(card, FALSE), passed))

\* ArtifactCard: its preview is the newest version with an active share.
Preview(card, passed) == Newest(Active(card, passed))

-----------------------------------------------------------------------------
\* The Hub: shares are made, renewed and revoked

SharesChange ==
  /\ mounted
  /\ churn < MaxChurn /\ churn' = churn + 1
  /\ \E a \in Artifacts, v \in Vers :
       LET same == {s \in history[Now] : s.artifact = a /\ s.version = v}
       IN \/ /\ \A s \in same : s.revoked
             /\ history' = Append(history, (history[Now] \ same)
                             \cup {[artifact |-> a, version |-> v, revoked |-> FALSE]})
          \/ /\ \E s \in same : ~s.revoked
             /\ history' = Append(history, (history[Now] \ same)
                             \cup {[artifact |-> a, version |-> v, revoked |-> TRUE]})
  /\ UNCHANGED <<mounted, panels, sidebar, dom, center>>

\* Mutant: a malformed list is an outcome of its own.
HubListsMalformed(s) ==
  /\ calls[s] # NoCall /\ calls[s].status = "sent"
  /\ calls' = [calls EXCEPT ![s].status = "malformed"]
  /\ UNCHANGED <<navVars, history, list, loading, error, newest, leaked>>

\* The host asks the Hub for the list and checks its form; a refusal, a broken
\* call or a malformed list is a failure.
HubLists(s) ==
  /\ calls[s] # NoCall /\ calls[s].status = "sent"
  /\ \/ calls' = [calls EXCEPT ![s] = [status |-> "listed", of |-> Now]]
     \/ calls' = [calls EXCEPT ![s].status = "failed"]
  /\ UNCHANGED <<navVars, history, list, loading, error, newest, leaked>>

-----------------------------------------------------------------------------
\* load

UnderWay == {s \in Slots : calls[s] # NoCall}

\* load up to its await.
BeginLoad(s) ==
  /\ calls' = [calls EXCEPT ![s] = [status |-> "sent", of |-> 1]]
  /\ loading' = TRUE /\ error' = FALSE
  /\ newest' = [slot |-> s, at |-> Now, outcome |-> "sent"]
  /\ leaked' = (leaked /\ UnderWay # {})
  /\ UNCHANGED list

\* Mutant: an error leaves the panel loading.
LandKeepsLoading(s) ==
  /\ calls[s] # NoCall /\ calls[s].status # "sent"
  /\ list' = IF calls[s].status = "listed" THEN calls[s].of ELSE list
  /\ error' = (error \/ calls[s].status = "failed")
  /\ loading' = (calls[s].status = "failed")
  /\ newest' = IF s = newest.slot THEN [newest EXCEPT !.outcome = calls[s].status] ELSE newest
  /\ calls' = [calls EXCEPT ![s] = NoCall]
  /\ UNCHANGED <<navVars, history, leaked>>

\* load after its await: whichever request it was, its list is shown.
Land(s) ==
  /\ calls[s] # NoCall /\ calls[s].status # "sent"
  /\ list' = IF calls[s].status = "listed" THEN calls[s].of ELSE list
  /\ error' = (error \/ calls[s].status = "failed")
  /\ loading' = FALSE
  /\ newest' = IF s = newest.slot THEN [newest EXCEPT !.outcome = calls[s].status] ELSE newest
  /\ calls' = [calls EXCEPT ![s] = NoCall]
  /\ UNCHANGED <<navVars, history, leaked>>

\* Mutant: the button works while a list is on its way.
RefreshAnytime(s) ==
  /\ mounted /\ open
  /\ calls[s] = NoCall
  /\ BeginLoad(s)
  /\ UNCHANGED <<navVars, history>>

\* The refresh button is disabled while loading.
Refresh(s) ==
  /\ mounted /\ open /\ ~loading
  /\ calls[s] = NoCall
  /\ BeginLoad(s)
  /\ UNCHANGED <<navVars, history>>

\* The row is clicked: an open panel stays as it is, a closed one loads.
OpenPanel ==
  /\ ClickEntry
  /\ IF open THEN UNCHANGED center ELSE BeginLoad("open")
  /\ UNCHANGED history

\* The opening's request is aborted: it does no more than set the list, and that
\* only if it had been answered just then.
AbortOpening ==
  /\ calls' = [calls EXCEPT !["open"] = NoCall]
  /\ \/ UNCHANGED list
     \/ calls["open"] # NoCall /\ calls["open"].status = "listed" /\ list' = calls["open"].of

ClosePanel ==
  /\ Leave \/ \E p \in Peers : PeerOpens(p)
  /\ IF open
     THEN /\ AbortOpening
          /\ leaked' = (leaked \/ UnderWay \cap Refreshes # {})
     ELSE UNCHANGED <<calls, list, leaked>>
  /\ UNCHANGED <<history, loading, error, newest>>

\* The panel is gone with its state.
Unload ==
  /\ Dispose
  /\ list' = 1 /\ loading' = FALSE /\ error' = FALSE /\ leaked' = FALSE
  /\ calls' = [s \in Slots |-> NoCall]
  /\ newest' = [slot |-> "open", at |-> 1, outcome |-> "listed"]
  /\ UNCHANGED history

Elsewhere ==
  /\ \/ WaitCallback \/ RootCallback \/ Rerender \/ ThrowOut
     \/ \E p \in Peers : PeerMarks(p) \/ PeerCloses(p)
  /\ UNCHANGED <<history, center>>

-----------------------------------------------------------------------------
Next ==
  \/ OpenPanel \/ ClosePanel \/ Unload \/ Elsewhere
  \/ SharesChange
  \/ \E s \in Slots : HubLists(s) \/ Land(s)
  \/ \E s \in Refreshes : Refresh(s)

Spec == Init /\ [][Next]_vars

\* Observers are called back, and requests settle.
FairSpec ==
  /\ Spec
  /\ WF_vars((WaitCallback \/ RootCallback) /\ UNCHANGED <<history, center>>)
  /\ \A s \in Slots : WF_vars(HubLists(s) \/ Land(s))

-----------------------------------------------------------------------------
\* A panel that is not loading shows what came of its latest request.  Under every
\* filter, the previews the cards offer lead to shares that were live at some moment
\* since the request; and an artifact one of whose shares has been live ever since
\* has its preview when nothing is filtered, also when that version is not among the
\* rows of its collapsed card.  The exception is a refresh that outlived a closing:
\* it lands whenever it is answered, over any newer list (load after its await, the
\* effect that aborts, the disabled button).
PreviewsAreCurrent ==
  mounted /\ open /\ ~loading /\ ~leaked =>
    LET since == newest.at..Now IN
    /\ newest.outcome = (IF error THEN "failed" ELSE "listed")
    /\ error \/ \A passed \in SUBSET history[list] :
         /\ \A query \in Artifacts \cup Vers \cup {NoQuery}, status \in Statuses \cup {"all"} :
              \A card \in Cards(history[list], query, status, passed) :
                \A s \in Preview(card, passed) : \E m \in since : s \in Active(history[m], passed)
         /\ \A s \in history[list] : (\A m \in since : s \in Active(history[m], passed)) =>
              \E card \in Cards(history[list], NoQuery, "all", passed) :
                s \in card /\ \E o \in Preview(card, passed) : o.version >= s.version

\* Every load of an open panel comes to its end.
LoadingEnds == (mounted /\ open /\ loading) ~> ~(mounted /\ open /\ loading)

=============================================================================
