-------------------------- MODULE ShareCenter_proofs --------------------------
(***************************************************************************)
(* Proofs about modules PanelNav and ShareCenter: the panel and its row    *)
(* first, then the list, for any panels, roots, shares and refreshes.      *)
(***************************************************************************)
EXTENDS ShareCenter, WellFoundedInduction, TLAPS

(***************************************************************************)
(* The row.  An observer that is to be called back by changes outside its  *)
(* root is what a row that is out of place may count on; there is no other *)
(* promise.                                                                *)
(***************************************************************************)
Settled ==
  \/ InBody
  \/ dom.found = None
  \/ root \in dom.up /\ root \notin dom.button

RowInv ==
  /\ mounted => "wait" \in due \/ Settled
  /\ ~mounted => due = {} /\ entryIn = None /\ Hub \notin marks

(***************************************************************************)
(* The list.  Unless a refresh outlived a closing, a panel waits for its   *)
(* latest request alone, and a closed one for none.                        *)
(***************************************************************************)
WaitInv ==
  mounted =>
    /\ ~open => calls["open"] = NoCall
    /\ ~open /\ ~leaked => UnderWay = {}
    /\ open /\ ~leaked /\ loading => UnderWay \subseteq {newest.slot} /\ ~error
    /\ open /\ ~leaked /\ ~loading =>
         /\ UnderWay = {}
         /\ newest.outcome = (IF error THEN "failed" ELSE "listed")
         /\ error \/ list >= newest.at

LatestInv ==
  calls[newest.slot] # NoCall /\ calls[newest.slot].status = "listed" =>
    calls[newest.slot].of >= newest.at

CenterInv == TypeOK /\ OnePanelMarked /\ RowInv /\ WaitInv /\ LatestInv

-----------------------------------------------------------------------------
\* What a step of the share center is to the panel and the row

OnlyChurn ==
  /\ churn < MaxChurn /\ churn' = churn + 1
  /\ UNCHANGED <<mounted, panels, sidebar, dom>>

PeerStep == \E p \in Peers : PeerOpens(p) \/ PeerMarks(p) \/ PeerCloses(p)

NavStep ==
  \/ WaitCallback \/ RootCallback \/ Rerender \/ ThrowOut \/ Dispose
  \/ ClickEntry \/ Leave \/ PeerStep \/ OnlyChurn \/ UNCHANGED navVars

LEMMA StepIsNavStep == [Next]_vars => NavStep
<1> SUFFICES ASSUME [Next]_vars PROVE NavStep
  OBVIOUS
<1>1. CASE OpenPanel
  BY <1>1 DEF OpenPanel, NavStep
<1>2. CASE ClosePanel
  BY <1>2 DEF ClosePanel, NavStep, PeerStep
<1>3. CASE Unload
  BY <1>3 DEF Unload, NavStep
<1>4. CASE Elsewhere
  BY <1>4 DEF Elsewhere, NavStep, PeerStep
<1>5. CASE SharesChange
  BY <1>5 DEF SharesChange, NavStep, OnlyChurn
<1>6. CASE \E s \in Slots : HubLists(s) \/ Land(s)
  BY <1>6 DEF HubLists, Land, NavStep
<1>7. CASE \E s \in Refreshes : Refresh(s)
  BY <1>7 DEF Refresh, NavStep
<1>8. CASE UNCHANGED vars
  BY <1>8 DEF vars, NavStep
<1> QED BY <1>1, <1>2, <1>3, <1>4, <1>5, <1>6, <1>7, <1>8 DEF Next

-----------------------------------------------------------------------------
\* The types of the panel and the row

LEMMA TryPlaceType ==
  ASSUME NavTypeOK, NEW was, NEW left, left \subseteq {"wait", "root"}, TryPlace(was, left)
  PROVE  /\ placed' \in BOOLEAN /\ {entryIn', root', observed'} \subseteq Roots \cup {None}
         /\ due' \subseteq {"wait", "root"}
<1> DEFINE known == root \in dom.up
           rest == IF known \/ root = None THEN left ELSE left \ {"root"}
           r == IF known THEN root ELSE dom.found
<1>1. rest \subseteq {"wait", "root"} /\ r \in Roots \cup {None} /\ dom.button \subseteq Roots
  BY DEF NavTypeOK
<1>2. CASE was /\ known /\ InBody
  BY <1>1, <1>2 DEF TryPlace, NavTypeOK
<1>3. CASE ~(was /\ known /\ InBody) /\ r = None
  BY <1>1, <1>3 DEF TryPlace, NavTypeOK
<1>4. CASE ~(was /\ known /\ InBody) /\ r # None
  <2>1. PlaceEntry(r, rest)
    BY <1>4 DEF TryPlace
  <2> HIDE DEF r, rest
  <2> QED BY <1>1, <2>1 DEF PlaceEntry, NavTypeOK
<1> QED BY <1>2, <1>3, <1>4

LEMMA NavStepType ==
  ASSUME NavTypeOK, NavStep
  PROVE  NavTypeOK'
<1>1. CASE WaitCallback
  <2>1. due \ {"wait"} \subseteq {"wait", "root"}
    BY DEF NavTypeOK
  <2>2. /\ placed' \in BOOLEAN /\ {entryIn', root', observed'} \subseteq Roots \cup {None}
        /\ due' \subseteq {"wait", "root"}
    BY <1>1, <2>1, TryPlaceType DEF WaitCallback
  <2> QED BY <1>1, <2>2 DEF WaitCallback, panels, shell, NavTypeOK
<1>2. CASE RootCallback
  <2>1. due \ {"root"} \subseteq {"wait", "root"}
    BY DEF NavTypeOK
  <2>2. /\ placed' \in BOOLEAN /\ {entryIn', root', observed'} \subseteq Roots \cup {None}
        /\ due' \subseteq {"wait", "root"}
    <3>1. CASE root \notin dom.up \/ entryIn # root
      BY <1>2, <2>1, <3>1, TryPlaceType DEF RootCallback
    <3>2. CASE ~(root \notin dom.up \/ entryIn # root)
      BY <1>2, <2>1, <3>2 DEF RootCallback, NavTypeOK
    <3> QED BY <3>1, <3>2
  <2> QED BY <1>2, <2>2 DEF RootCallback, panels, shell, NavTypeOK
<1>3. CASE Rerender
  <2>1. dom'.up \subseteq Roots /\ dom'.button \subseteq Roots /\ dom'.found \in dom'.up \cup {None}
    BY <1>3 DEF Rerender
  <2>2. due' \subseteq {"wait", "root"}
    BY <1>3 DEF Rerender, NavTypeOK
  <2>3. churn' \in 0..MaxChurn
    BY <1>3, NavAssumption DEF Rerender, NavTypeOK
  <2> QED BY <1>3, <2>1, <2>2, <2>3 DEF Rerender, panels, NavTypeOK
<1>4. CASE ThrowOut
  <2>1. due' \subseteq {"wait", "root"}
    BY <1>4 DEF ThrowOut, NavTypeOK
  <2>2. churn' \in 0..MaxChurn
    BY <1>4, NavAssumption DEF ThrowOut, NavTypeOK
  <2> QED BY <1>4, <2>1, <2>2 DEF ThrowOut, panels, NavTypeOK
<1>5. CASE Dispose
  BY <1>5 DEF Dispose, shell, NavTypeOK
<1>6. CASE ClickEntry
  BY <1>6 DEF ClickEntry, SyncActive, sidebar, shell, NavTypeOK
<1>7. CASE Leave
  BY <1>7 DEF Leave, SyncActive, sidebar, shell, NavTypeOK
<1>8. ASSUME NEW p \in Peers, PeerOpens(p) PROVE NavTypeOK'
  BY <1>8 DEF PeerOpens, sidebar, shell, NavTypeOK
<1>9. ASSUME NEW p \in Peers, PeerMarks(p) PROVE NavTypeOK'
  <2>1. churn' \in 0..MaxChurn
    BY <1>9, NavAssumption DEF PeerMarks, NavTypeOK
  <2> QED BY <1>9, <2>1 DEF PeerMarks, sidebar, NavTypeOK
<1>10. ASSUME NEW p \in Peers, PeerCloses(p) PROVE NavTypeOK'
  BY <1>10 DEF PeerCloses, sidebar, shell, NavTypeOK
<1>11. CASE OnlyChurn
  <2>1. churn' \in 0..MaxChurn
    BY <1>11, NavAssumption DEF OnlyChurn, NavTypeOK
  <2> QED BY <1>11, <2>1 DEF OnlyChurn, panels, sidebar, NavTypeOK
<1>12. CASE UNCHANGED navVars
  BY <1>12 DEF navVars, panels, sidebar, shell, NavTypeOK
<1> QED BY <1>1, <1>2, <1>3, <1>4, <1>5, <1>6, <1>7, <1>8, <1>9, <1>10, <1>11, <1>12
    DEF NavStep, PeerStep

-----------------------------------------------------------------------------
\* One panel at most

LEMMA NavStepMarks ==
  ASSUME OnePanelMarked, NavTypeOK, NavStep
  PROVE  OnePanelMarked'
<1>1. Hub \notin Peers
  BY NavAssumption
<1>2. CASE WaitCallback \/ RootCallback \/ Rerender \/ ThrowOut \/ OnlyChurn \/ UNCHANGED navVars
  BY <1>2 DEF WaitCallback, RootCallback, Rerender, ThrowOut, OnlyChurn, navVars, panels,
              OnePanelMarked
<1>3. CASE Dispose
  BY <1>3 DEF Dispose, OnePanelMarked
<1>4. CASE ClickEntry
  BY <1>4 DEF ClickEntry, SyncActive, OnePanelMarked
<1>5. CASE Leave
  BY <1>5 DEF Leave, SyncActive, OnePanelMarked
<1>6. ASSUME NEW p \in Peers, PeerOpens(p) PROVE OnePanelMarked'
  <2>1. open' = FALSE /\ marks' = {p} /\ p # Hub
    BY <1>1, <1>6 DEF PeerOpens
  <2> QED BY <2>1 DEF OnePanelMarked
<1>7. ASSUME NEW p \in Peers, PeerMarks(p) PROVE OnePanelMarked'
  <2>1. mounted' = mounted /\ open' = open /\ marks' = marks \cup {p} /\ silent' = TRUE /\ p # Hub
    BY <1>1, <1>7 DEF PeerMarks
  <2> QED BY <2>1 DEF OnePanelMarked
<1>8. ASSUME NEW p \in Peers, PeerCloses(p) PROVE OnePanelMarked'
  <2>1. mounted' = mounted /\ open' = open /\ marks' = marks \ {p} /\ silent' = silent /\ p # Hub
    BY <1>1, <1>8 DEF PeerCloses
  <2> QED BY <2>1 DEF OnePanelMarked
<1> QED BY <1>2, <1>3, <1>4, <1>5, <1>6, <1>7, <1>8 DEF NavStep, PeerStep

-----------------------------------------------------------------------------
\* The row

\* tryPlace leaves the row in the document, unless there is no sidebar, or none but
\* one that has no button yet.
LEMMA TryPlaceSettles ==
  ASSUME NavTypeOK, NEW was, NEW left, TryPlace(was, left), UNCHANGED dom
  PROVE  Settled'
<1> DEFINE known == root \in dom.up
           rest == IF known \/ root = None THEN left ELSE left \ {"root"}
           r == IF known THEN root ELSE dom.found
<1>1. CASE was /\ known /\ InBody
  BY <1>1 DEF TryPlace, Settled, InBody
<1>2. CASE ~(was /\ known /\ InBody) /\ r = None
  <2>1. ~known
    BY <1>2, NavAssumption DEF NavTypeOK
  <2> QED BY <1>2, <2>1 DEF Settled
<1>3. CASE ~(was /\ known /\ InBody) /\ r # None
  <2>1. PlaceEntry(r, rest)
    BY <1>3 DEF TryPlace
  <2>2. r \in dom.up
    BY <1>3 DEF NavTypeOK
  <2> HIDE DEF r, rest
  <2>3. root' = r /\ (r \in dom.button => entryIn' = r)
    BY <2>1 DEF PlaceEntry
  <2> QED BY <2>2, <2>3 DEF Settled, InBody
<1> QED BY <1>1, <1>2, <1>3

LEMMA NavStepRow ==
  ASSUME RowInv, NavTypeOK, NavStep
  PROVE  RowInv'
<1>1. CASE WaitCallback
  <2>1. Settled' /\ mounted' = mounted /\ "wait" \in due
    BY <1>1, TryPlaceSettles DEF WaitCallback, shell
  <2> QED BY <2>1 DEF RowInv
<1>2. CASE RootCallback
  <2>1. mounted' = mounted /\ "root" \in due /\ dom' = dom
    BY <1>2 DEF RootCallback, shell
  <2>2. CASE root \notin dom.up \/ entryIn # root
    <3>1. Settled'
      BY <1>2, <2>1, <2>2, TryPlaceSettles DEF RootCallback
    <3> QED BY <2>1, <3>1 DEF RowInv
  <2>3. CASE ~(root \notin dom.up \/ entryIn # root)
    <3>1. Settled'
      BY <1>2, <2>1, <2>3 DEF RootCallback, Settled, InBody
    <3> QED BY <2>1, <3>1 DEF RowInv
  <2> QED BY <2>2, <2>3
<1>3. CASE Rerender
  BY <1>3 DEF Rerender, RowInv
<1>4. CASE ThrowOut
  <2>1. mounted' = mounted /\ dom' = dom /\ root' = root /\ entryIn # None
        /\ due \subseteq due' /\ (InBody => "wait" \in due')
    BY <1>4 DEF ThrowOut
  <2> QED BY <2>1 DEF RowInv, Settled
<1>5. CASE Dispose
  BY <1>5 DEF Dispose, RowInv
<1>6. CASE ClickEntry \/ Leave \/ PeerStep
  <2>1. mounted /\ mounted' = mounted /\ UNCHANGED <<sidebar, dom>>
    BY <1>6 DEF ClickEntry, Leave, PeerStep, PeerOpens, PeerMarks, PeerCloses, shell
  <2> QED BY <2>1 DEF sidebar, RowInv, Settled, InBody
<1>7. CASE OnlyChurn \/ UNCHANGED navVars
  BY <1>7 DEF OnlyChurn, navVars, panels, sidebar, shell, RowInv, Settled, InBody
<1> QED BY <1>1, <1>2, <1>3, <1>4, <1>5, <1>6, <1>7 DEF NavStep

LEMMA RowFollows ==
  ASSUME NavTypeOK, RowInv
  PROVE  RowInPlace
<1> SUFFICES ASSUME mounted, due = {}, dom.found \in dom.button, root \in dom.up => root = dom.found
             PROVE  InBody
  BY DEF RowInPlace, RowInv
<1>1. dom.found # None
  BY NavAssumption DEF NavTypeOK
<1> QED BY <1>1 DEF RowInv, Settled

-----------------------------------------------------------------------------
\* The types of the list

LEMMA InitTypeOK == Init => TypeOK
<1> SUFFICES ASSUME Init PROVE TypeOK
  OBVIOUS
<1>1. NavTypeOK
  <2>1. 0 \in 0..MaxChurn
    BY NavAssumption
  <2> QED BY <2>1 DEF Init, NavInit, NavTypeOK
<1>2. history \in Seq(SUBSET Share) /\ Moments = 1..1
  BY DEF Init, Moments, Now
<1>3. list \in Moments /\ newest \in [slot : Slots, at : Moments, outcome : Outcomes]
  BY <1>2 DEF Init, Slots, Outcomes
<1> QED BY <1>1, <1>2, <1>3 DEF Init, TypeOK

LEMMA CallType ==
  ASSUME TypeOK, NEW s \in Slots, calls[s] # NoCall
  PROVE  /\ calls[s] \in [status : Outcomes, of : Moments]
         /\ calls[s].status \in Outcomes /\ calls[s].of \in Moments
BY DEF TypeOK

LEMMA NowType ==
  ASSUME TypeOK
  PROVE  Now \in Nat /\ 1 \in Moments /\ Now \in Moments /\ history[Now] \in SUBSET Share
<1>1. Now \in Nat /\ list \in 1..Now
  BY DEF TypeOK, Moments, Now
<1>2. 1 <= Now
  BY <1>1
<1> QED BY <1>1, <1>2 DEF TypeOK, Moments, Now

LEMMA BeginLoadType ==
  ASSUME TypeOK, NEW s \in Slots, BeginLoad(s), NavTypeOK', history' = history
  PROVE  TypeOK'
<1>1. Moments' = Moments
  BY DEF Moments, Now
<1>2. calls' \in [Slots -> [status : Outcomes, of : Moments] \cup {NoCall}]
  BY NowType DEF BeginLoad, TypeOK, Outcomes
<1>3. newest' \in [slot : Slots, at : Moments, outcome : Outcomes]
  BY NowType DEF BeginLoad, Outcomes
<1> QED BY <1>1, <1>2, <1>3 DEF BeginLoad, TypeOK

LEMMA CenterFrame ==
  ASSUME TypeOK, NavTypeOK', UNCHANGED <<history, center>>
  PROVE  TypeOK'
BY DEF TypeOK, center, Moments, Now

LEMMA ClosePanelType ==
  ASSUME TypeOK, NavTypeOK', ClosePanel
  PROVE  TypeOK'
<1>1. history' = history /\ loading' = loading /\ error' = error /\ newest' = newest
      /\ Moments' = Moments
  BY DEF ClosePanel, Moments, Now
<1>2. calls' \in [Slots -> [status : Outcomes, of : Moments] \cup {NoCall}]
  BY DEF ClosePanel, AbortOpening, TypeOK
<1>3. list' \in Moments
  <2>1. "open" \in Slots
    BY DEF Slots
  <2> QED BY <2>1, CallType DEF ClosePanel, AbortOpening, TypeOK
<1>4. leaked' \in BOOLEAN
  BY DEF ClosePanel, TypeOK
<1> QED BY <1>1, <1>2, <1>3, <1>4 DEF TypeOK

LEMMA UnloadType ==
  ASSUME TypeOK, NavTypeOK', Unload
  PROVE  TypeOK'
<1>1. history' = history /\ Moments' = Moments
  BY DEF Unload, Moments, Now
<1>2. newest' \in [slot : Slots, at : Moments, outcome : Outcomes]
  BY NowType DEF Unload, Slots, Outcomes
<1> QED BY <1>1, <1>2, NowType DEF Unload, TypeOK

LEMMA SharesChangeType ==
  ASSUME TypeOK, NavTypeOK', SharesChange
  PROVE  TypeOK' /\ Now' = Now + 1
<1>1. PICK shares \in SUBSET Share : history' = Append(history, shares)
  <2>1. PICK a \in Artifacts, v \in Vers, same \in SUBSET history[Now], revoked \in BOOLEAN :
          history' = Append(history, (history[Now] \ same)
                       \cup {[artifact |-> a, version |-> v, revoked |-> revoked]})
    BY DEF SharesChange
  <2>2. (history[Now] \ same) \cup {[artifact |-> a, version |-> v, revoked |-> revoked]}
          \in SUBSET Share
    BY NowType DEF Share
  <2> QED BY <2>1, <2>2
<1>2. history' \in Seq(SUBSET Share) /\ Now' = Now + 1
  BY <1>1 DEF TypeOK, Now
<1>3. Moments \subseteq Moments'
  BY <1>2, NowType DEF Moments
<1>4. UNCHANGED <<list, loading, error, calls, newest, leaked>>
  BY DEF SharesChange, center
<1>5. calls' \in [Slots -> [status : Outcomes, of : Moments'] \cup {NoCall}]
  <2>1. [status : Outcomes, of : Moments] \subseteq [status : Outcomes, of : Moments']
    BY <1>3
  <2> QED BY <2>1, <1>4 DEF TypeOK
<1>6. newest' \in [slot : Slots, at : Moments', outcome : Outcomes]
  BY <1>3, <1>4 DEF TypeOK
<1> QED BY <1>2, <1>3, <1>4, <1>5, <1>6 DEF TypeOK

LEMMA HubListsType ==
  ASSUME TypeOK, NavTypeOK', NEW s \in Slots, HubLists(s)
  PROVE  TypeOK'
<1>1. history' = history /\ Moments' = Moments /\ UNCHANGED <<list, loading, error, newest, leaked>>
  BY DEF HubLists, Moments, Now
<1>2. calls[s] \in [status : Outcomes, of : Moments]
  BY CallType DEF HubLists
<1>3. [status |-> "listed", of |-> Now] \in [status : Outcomes, of : Moments]
  BY NowType DEF Outcomes
<1>4. [calls[s] EXCEPT !.status = "failed"] \in [status : Outcomes, of : Moments]
  BY <1>2 DEF Outcomes
<1>5. calls' \in [Slots -> [status : Outcomes, of : Moments] \cup {NoCall}]
  <2>1. CASE calls' = [calls EXCEPT ![s] = [status |-> "listed", of |-> Now]]
    BY <1>3, <2>1 DEF TypeOK
  <2>2. CASE calls' = [calls EXCEPT ![s].status = "failed"]
    BY <1>4, <2>2 DEF TypeOK
  <2> QED BY <2>1, <2>2 DEF HubLists
<1> QED BY <1>1, <1>5 DEF TypeOK

LEMMA LandType ==
  ASSUME TypeOK, NavTypeOK', NEW s \in Slots, Land(s)
  PROVE  TypeOK'
<1>1. history' = history /\ leaked' = leaked /\ Moments' = Moments
  BY DEF Land, Moments, Now
<1>2. calls[s].status \in Outcomes /\ calls[s].of \in Moments
  BY CallType DEF Land
<1>3. list' \in Moments
  BY <1>2 DEF Land, TypeOK
<1>4. newest' \in [slot : Slots, at : Moments, outcome : Outcomes]
  BY <1>2 DEF Land, TypeOK
<1>5. calls' \in [Slots -> [status : Outcomes, of : Moments] \cup {NoCall}]
  BY DEF Land, TypeOK
<1>6. loading' \in BOOLEAN /\ error' \in BOOLEAN
  BY DEF Land, TypeOK
<1> QED BY <1>1, <1>3, <1>4, <1>5, <1>6 DEF TypeOK

LEMMA NextTypeOK == TypeOK /\ [Next]_vars => TypeOK'
<1> SUFFICES ASSUME TypeOK, [Next]_vars PROVE TypeOK'
  OBVIOUS
<1>1. NavTypeOK'
  BY StepIsNavStep, NavStepType DEF TypeOK
<1>2. CASE OpenPanel
  <2>1. "open" \in Slots
    BY DEF Slots
  <2> QED BY <1>1, <1>2, <2>1, CenterFrame, BeginLoadType DEF OpenPanel
<1>3. CASE ClosePanel
  BY <1>1, <1>3, ClosePanelType
<1>4. CASE Unload
  BY <1>1, <1>4, UnloadType
<1>5. CASE Elsewhere
  BY <1>1, <1>5, CenterFrame DEF Elsewhere
<1>6. CASE SharesChange
  BY <1>1, <1>6, SharesChangeType
<1>7. ASSUME NEW s \in Slots, HubLists(s) \/ Land(s) PROVE TypeOK'
  BY <1>1, <1>7, HubListsType, LandType
<1>8. ASSUME NEW s \in Refreshes, Refresh(s) PROVE TypeOK'
  <2>1. s \in Slots
    BY DEF Slots
  <2> QED BY <1>1, <1>8, <2>1, BeginLoadType DEF Refresh
<1>9. CASE UNCHANGED vars
  BY <1>1, <1>9, CenterFrame DEF vars
<1> QED BY <1>2, <1>3, <1>4, <1>5, <1>6, <1>7, <1>8, <1>9 DEF Next

-----------------------------------------------------------------------------
\* What the list waits for

LEMMA InitWaitInv == Init => WaitInv /\ LatestInv
<1>1. Init => \A s \in Slots : calls[s] = NoCall
  BY DEF Init
<1>2. Init => open = FALSE /\ calls["open"] = NoCall /\ newest.slot = "open"
  BY <1>1 DEF Init, NavInit, Slots
<1> QED BY <1>1, <1>2 DEF WaitInv, LatestInv, UnderWay

\* A request that begins is the only one, unless a refresh has leaked.
LEMMA BeginLoadInv ==
  ASSUME TypeOK, NEW s \in Slots, BeginLoad(s), mounted, open',
         leaked \/ UnderWay = {}
  PROVE  WaitInv' /\ LatestInv'
<1>1. /\ calls' = [calls EXCEPT ![s] = [status |-> "sent", of |-> 1]]
      /\ loading' = TRUE /\ error' = FALSE /\ newest'.slot = s
      /\ leaked' = (leaked /\ UnderWay # {})
  BY DEF BeginLoad
<1>2. ~leaked' => UnderWay = {}
  BY <1>1
<1>3. calls'[s] = [status |-> "sent", of |-> 1] /\ \A r \in Slots : r # s => calls'[r] = calls[r]
  BY <1>1 DEF TypeOK
<1>4. ~leaked' => UnderWay' \subseteq {newest'.slot}
  BY <1>1, <1>2, <1>3 DEF UnderWay
<1>5. WaitInv'
  BY <1>1, <1>4 DEF WaitInv
<1>6. calls'[newest'.slot].status = "sent"
  BY <1>1, <1>3
<1> QED BY <1>5, <1>6 DEF LatestInv

LEMMA WaitFrame ==
  ASSUME WaitInv, LatestInv, UNCHANGED <<mounted, open, center>>
  PROVE  WaitInv' /\ LatestInv'
BY DEF WaitInv, LatestInv, center, UnderWay

LEMMA OpenPanelInv ==
  ASSUME TypeOK, WaitInv, LatestInv, OpenPanel
  PROVE  WaitInv' /\ LatestInv'
<1>1. mounted /\ mounted' = mounted /\ open' = TRUE /\ open \in BOOLEAN
  BY DEF OpenPanel, ClickEntry, SyncActive, TypeOK, NavTypeOK
<1>2. CASE open
  BY <1>1, <1>2, WaitFrame DEF OpenPanel
<1>3. CASE ~open
  <2>1. "open" \in Slots /\ BeginLoad("open")
    BY <1>3 DEF OpenPanel, Slots
  <2>2. leaked \/ UnderWay = {}
    BY <1>1, <1>3 DEF WaitInv
  <2> QED BY <1>1, <2>1, <2>2, BeginLoadInv
<1> QED BY <1>2, <1>3

LEMMA RefreshInv ==
  ASSUME TypeOK, WaitInv, LatestInv, NEW s \in Refreshes, Refresh(s)
  PROVE  WaitInv' /\ LatestInv'
<1>1. s \in Slots /\ BeginLoad(s) /\ mounted /\ open /\ ~loading /\ open' = open
  BY DEF Refresh, Slots, navVars, panels
<1>2. leaked \/ UnderWay = {}
  BY <1>1 DEF WaitInv
<1> QED BY <1>1, <1>2, BeginLoadInv

\* A closing aborts the opening's request; what else is under way has leaked.
LEMMA ClosePanelInv ==
  ASSUME TypeOK, WaitInv, LatestInv, ClosePanel
  PROVE  WaitInv' /\ LatestInv'
<1>1. mounted /\ mounted' /\ open' = FALSE /\ newest' = newest /\ open \in BOOLEAN
  BY DEF ClosePanel, Leave, PeerOpens, SyncActive, TypeOK, NavTypeOK
<1>2. CASE open
  <2>1. calls' = [calls EXCEPT !["open"] = NoCall] /\ leaked' = (leaked \/ UnderWay \cap Refreshes # {})
    BY <1>2 DEF ClosePanel, AbortOpening
  <2>2. calls'["open"] = NoCall /\ \A s \in Slots : s # "open" => calls'[s] = calls[s]
    BY <2>1 DEF TypeOK, Slots
  <2>3. UnderWay' \subseteq UnderWay \cap Refreshes
    BY <2>2 DEF UnderWay, Slots
  <2>4. ~leaked' => UnderWay' = {}
    BY <2>1, <2>3
  <2>5. WaitInv'
    BY <1>1, <2>2, <2>4 DEF WaitInv
  <2>6. newest.slot \in Slots
    BY DEF TypeOK
  <2>7. LatestInv'
    BY <1>1, <2>2, <2>6 DEF LatestInv
  <2> QED BY <2>5, <2>7
<1>3. CASE ~open
  <2>1. UNCHANGED <<calls, list, leaked, newest>>
    BY <1>3 DEF ClosePanel
  <2> QED BY <1>1, <1>3, <2>1 DEF WaitInv, LatestInv, UnderWay
<1> QED BY <1>2, <1>3

LEMMA UnloadInv ==
  ASSUME Unload
  PROVE  WaitInv' /\ LatestInv'
<1>1. ~mounted' /\ newest'.slot = "open" /\ calls' = [s \in Slots |-> NoCall]
  BY DEF Unload, Dispose
<1>2. calls'["open"] = NoCall
  BY <1>1 DEF Slots
<1> QED BY <1>1, <1>2 DEF WaitInv, LatestInv

LEMMA HubListsInv ==
  ASSUME TypeOK, WaitInv, LatestInv, NEW s \in Slots, HubLists(s)
  PROVE  WaitInv' /\ LatestInv'
<1>1. /\ UNCHANGED <<mounted, open, list, loading, error, newest, leaked>>
      /\ calls[s] # NoCall
      /\ \A r \in Slots : r # s => calls'[r] = calls[r]
  BY DEF HubLists, TypeOK, navVars, panels
<1>2. UnderWay' \subseteq UnderWay
  BY <1>1 DEF UnderWay
<1>3. ~open => s # "open" \/ ~mounted
  BY <1>1 DEF WaitInv
<1>4. "open" \in Slots
  BY DEF Slots
<1>5. WaitInv'
  BY <1>1, <1>2, <1>3, <1>4 DEF WaitInv
<1>6. calls'[s].status = "listed" => calls'[s].of >= newest.at
  <2>1. calls[s] \in [status : Outcomes, of : Moments]
    BY <1>1, CallType
  <2>2. CASE calls' = [calls EXCEPT ![s] = [status |-> "listed", of |-> Now]]
    <3>1. calls'[s].of = Now
      BY <2>2 DEF TypeOK
    <3>2. newest.at \in 1..Now /\ Now \in Nat
      BY NowType DEF TypeOK, Moments
    <3> QED BY <3>1, <3>2
  <2>3. CASE calls' = [calls EXCEPT ![s].status = "failed"]
    BY <2>1, <2>3 DEF TypeOK
  <2> QED BY <2>2, <2>3 DEF HubLists
<1>7. newest.slot \in Slots
  BY DEF TypeOK
<1>8. LatestInv'
  BY <1>1, <1>6, <1>7 DEF LatestInv
<1> QED BY <1>5, <1>8

LEMMA LandInv ==
  ASSUME TypeOK, WaitInv, LatestInv, NEW s \in Slots, Land(s)
  PROVE  WaitInv' /\ LatestInv'
<1>1. /\ UNCHANGED <<mounted, open, leaked>>
      /\ calls[s] # NoCall /\ calls[s].status # "sent" /\ calls[s].status \in Outcomes
      /\ calls'[s] = NoCall /\ \A r \in Slots : r # s => calls'[r] = calls[r]
  BY CallType DEF Land, TypeOK, navVars, panels
<1>2. /\ list' = IF calls[s].status = "listed" THEN calls[s].of ELSE list
      /\ error' = (error \/ calls[s].status = "failed")
      /\ loading' = FALSE
      /\ newest' = IF s = newest.slot THEN [newest EXCEPT !.outcome = calls[s].status] ELSE newest
  BY DEF Land
<1>3. /\ newest'.slot = newest.slot /\ newest'.at = newest.at /\ newest.slot \in Slots
      /\ s = newest.slot => newest'.outcome = calls[s].status
  BY <1>2 DEF TypeOK
<1>4. UnderWay' = UnderWay \ {s} /\ s \in UnderWay
  BY <1>1 DEF UnderWay
<1>5. ~open /\ mounted => calls'["open"] = NoCall
  <2>1. "open" \in Slots
    BY DEF Slots
  <2> QED BY <1>1, <2>1 DEF WaitInv
<1>6. ASSUME mounted, open, ~leaked
      PROVE  /\ UnderWay' = {} /\ newest'.outcome = (IF error' THEN "failed" ELSE "listed")
             /\ error' \/ list' >= newest'.at
  <2>1. loading \in BOOLEAN /\ UnderWay \subseteq {newest.slot} /\ error = FALSE
    BY <1>4, <1>6 DEF WaitInv, TypeOK
  <2>2. s = newest.slot /\ UnderWay' = {}
    BY <1>4, <2>1
  <2>3. CASE calls[s].status = "failed"
    BY <1>2, <1>3, <2>1, <2>2, <2>3
  <2>4. CASE calls[s].status = "listed"
    <3>1. list' = calls[s].of /\ error' = FALSE
      BY <1>2, <2>1, <2>4
    <3>2. calls[s].of >= newest.at
      BY <1>1, <2>2, <2>4 DEF LatestInv
    <3> QED BY <1>3, <2>2, <2>4, <3>1, <3>2
  <2> QED BY <1>1, <2>3, <2>4 DEF Outcomes
<1>7. WaitInv'
  <2>1. ~open /\ ~leaked /\ mounted => UnderWay' = {}
    BY <1>4 DEF WaitInv
  <2> QED BY <1>1, <1>2, <1>5, <1>6, <2>1 DEF WaitInv
<1>8. LatestInv'
  <2>1. CASE s = newest.slot
    BY <1>1, <1>3, <2>1 DEF LatestInv
  <2>2. CASE s # newest.slot
    BY <1>1, <1>3, <2>2 DEF LatestInv
  <2> QED BY <2>1, <2>2
<1> QED BY <1>7, <1>8

LEMMA SharesChangeInv ==
  ASSUME WaitInv, LatestInv, SharesChange
  PROVE  WaitInv' /\ LatestInv'
BY WaitFrame DEF SharesChange, panels

LEMMA ElsewhereInv ==
  ASSUME WaitInv, LatestInv, Elsewhere
  PROVE  WaitInv' /\ LatestInv'
<1>1. UNCHANGED <<mounted, open, center>>
  BY DEF Elsewhere, WaitCallback, RootCallback, Rerender, ThrowOut, PeerMarks, PeerCloses, panels
<1> QED BY <1>1, WaitFrame

-----------------------------------------------------------------------------
\* What the cards say of a list

\* Among shares there is one of the newest version.
LEMMA NewestExists ==
  ASSUME NEW S \in SUBSET Share, NEW s \in S
  PROVE  \E m \in Newest(S) : m.version >= s.version
<1> DEFINE T == {n \in Nat : \E k \in S : n = MaxVer - k.version}
<1>1. MaxVer \in Nat /\ \A k \in S : k.version \in 1..MaxVer
  BY CenterAssumption DEF Share, Vers
<1>2. \A k \in S : MaxVer - k.version \in T
  BY <1>1
<1>3. T \subseteq Nat /\ T # {}
  BY <1>2
<1>4. PICK x \in T : \A y \in T : ~(<<y, x>> \in OpToRel(<, Nat))
  <2> HIDE DEF T
  <2> QED BY <1>3, NatLessThanWellFounded, WFMin
<1>5. \A y \in T : ~(y < x)
  BY <1>3, <1>4 DEF OpToRel
<1>6. PICK m \in S : x = MaxVer - m.version
  OBVIOUS
<1>7. ASSUME NEW k \in S PROVE k.version <= m.version
  <2>1. ~(MaxVer - k.version < MaxVer - m.version)
    BY <1>2, <1>5, <1>6
  <2> QED BY <2>1, <1>1
<1>8. m \in Newest(S)
  BY <1>7 DEF Newest
<1> QED BY <1>7, <1>8

\* A card is made of the list's shares, and so is its preview, of live ones.
LEMMA PreviewIsLive ==
  ASSUME NEW shares, NEW query, NEW status, NEW passed,
         NEW card \in Cards(shares, query, status, passed), NEW s \in Preview(card, passed)
  PROVE  s \in Active(shares, passed)
<1>1. card \subseteq shares
  BY DEF Cards
<1> QED BY <1>1 DEF Preview, Newest, Active

\* Without a filter each live share of the list is on a card, which has a preview of
\* its version or of a newer one, collapsed or not.
LEMMA LiveShareHasPreview ==
  ASSUME NEW shares \in SUBSET Share, NEW passed, NEW s \in Active(shares, passed)
  PROVE  \E card \in Cards(shares, NoQuery, "all", passed) :
           s \in card /\ \E o \in Preview(card, passed) : o.version >= s.version
<1> DEFINE card == {o \in shares : o.artifact = s.artifact}
<1>1. s \in shares /\ s.artifact \in Artifacts
  BY DEF Active, Share
<1>2. {o \in shares : /\ "all" \in {"all", Status(o, passed)}
                      /\ NoQuery \in {NoQuery, o.artifact, o.version}} = shares
  OBVIOUS
<1>3. Cards(shares, NoQuery, "all", passed)
        = {{o \in shares : o.artifact = a} : a \in Artifacts} \ {{}}
  BY <1>2 DEF Cards
<1>4. card \in Cards(shares, NoQuery, "all", passed) /\ s \in card
  BY <1>1, <1>3
<1>5. Active(card, passed) \in SUBSET Share /\ s \in Active(card, passed)
  BY <1>1 DEF Active
<1>6. \E o \in Newest(Active(card, passed)) : o.version >= s.version
  <2> HIDE DEF card
  <2> QED BY <1>5, NewestExists
<1> QED BY <1>4, <1>6 DEF Preview

LEMMA PreviewsFollow ==
  ASSUME TypeOK, WaitInv
  PROVE  PreviewsAreCurrent
<1> SUFFICES ASSUME mounted, open, ~loading, ~leaked
             PROVE  PreviewsAreCurrent
  BY DEF PreviewsAreCurrent
<1> DEFINE since == newest.at..Now
<1>1. /\ newest.outcome = (IF error THEN "failed" ELSE "listed")
      /\ error \/ list >= newest.at
  BY DEF WaitInv
<1>2. ASSUME ~error
      PROVE  list \in since /\ history[list] \in SUBSET Share
  <2>1. newest.at \in 1..Now /\ list \in 1..Now /\ Now \in Nat
    BY NowType DEF TypeOK, Moments
  <2>2. list \in since
    BY <1>1, <1>2, <2>1
  <2>3. history[list] \in SUBSET Share
    BY <2>1 DEF TypeOK, Now
  <2> QED BY <2>2, <2>3
<1> HIDE DEF since
<1>3. ASSUME ~error, NEW passed \in SUBSET history[list],
             NEW query \in Artifacts \cup Vers \cup {NoQuery}, NEW status \in Statuses \cup {"all"},
             NEW card \in Cards(history[list], query, status, passed), NEW s \in Preview(card, passed)
      PROVE  \E m \in since : s \in Active(history[m], passed)
  BY <1>2, <1>3, PreviewIsLive
<1>4. ASSUME ~error, NEW passed \in SUBSET history[list], NEW s \in history[list],
             \A m \in since : s \in Active(history[m], passed)
      PROVE  \E card \in Cards(history[list], NoQuery, "all", passed) :
               s \in card /\ \E o \in Preview(card, passed) : o.version >= s.version
  <2>1. s \in Active(history[list], passed) /\ history[list] \in SUBSET Share
    BY <1>2, <1>4
  <2> QED BY <2>1, LiveShareHasPreview
<1> QED BY <1>1, <1>3, <1>4 DEF PreviewsAreCurrent, since

-----------------------------------------------------------------------------
LEMMA InitCenterInv == Init => CenterInv
<1>1. Init => OnePanelMarked /\ RowInv
  BY DEF Init, NavInit, OnePanelMarked, RowInv, Settled
<1> QED BY <1>1, InitTypeOK, InitWaitInv DEF CenterInv

LEMMA NextWaitInv ==
  ASSUME TypeOK, WaitInv, LatestInv, [Next]_vars
  PROVE  WaitInv' /\ LatestInv'
<1>1. CASE UNCHANGED vars
  BY <1>1, WaitFrame DEF vars, navVars, panels
<1>2. CASE OpenPanel \/ ClosePanel \/ Unload \/ Elsewhere \/ SharesChange
  BY <1>2, OpenPanelInv, ClosePanelInv, UnloadInv, ElsewhereInv, SharesChangeInv
<1>3. ASSUME NEW s \in Slots, HubLists(s) \/ Land(s) PROVE WaitInv' /\ LatestInv'
  BY <1>3, HubListsInv, LandInv
<1>4. ASSUME NEW s \in Refreshes, Refresh(s) PROVE WaitInv' /\ LatestInv'
  BY <1>4, RefreshInv
<1> QED BY <1>1, <1>2, <1>3, <1>4 DEF Next

LEMMA NextCenterInv == CenterInv /\ [Next]_vars => CenterInv'
<1> SUFFICES ASSUME CenterInv, [Next]_vars PROVE CenterInv'
  OBVIOUS
<1>1. TypeOK /\ NavTypeOK /\ OnePanelMarked /\ RowInv /\ WaitInv /\ LatestInv /\ NavStep
  BY StepIsNavStep DEF CenterInv, TypeOK
<1>2. TypeOK'
  BY <1>1, NextTypeOK
<1>3. OnePanelMarked'
  BY <1>1, NavStepMarks
<1>4. RowInv'
  BY <1>1, NavStepRow
<1>5. WaitInv' /\ LatestInv'
  BY <1>1, NextWaitInv
<1> QED BY <1>2, <1>3, <1>4, <1>5 DEF CenterInv

\* The inductive invariant of the panel, its row and its list.
THEOREM CenterInvariant == Spec => []CenterInv
BY InitCenterInv, NextCenterInv, PTL DEF Spec

\* Type correctness: the list shown, and every answer under way, is of a moment the
\* Hub has been asked at.
THEOREM CenterTypeCorrect == Spec => []TypeOK
<1>1. CenterInv => TypeOK
  BY DEF CenterInv
<1> QED BY <1>1, CenterInvariant, PTL

\* The panel's mark and its state agree, and panels that keep the convention exclude
\* each other, for any number of plugins.
THEOREM PanelsExclude == Spec => []OnePanelMarked
<1>1. CenterInv => OnePanelMarked
  BY DEF CenterInv
<1> QED BY <1>1, CenterInvariant, PTL

\* When the observers have been called back the row is in a sidebar that can have it;
\* an unloaded plugin leaves nothing behind and nothing comes back.  That they are
\* called back, and come to rest, is what RowComesBack adds.
THEOREM RowStaysInPlace == Spec => []RowInPlace
<1>1. CenterInv => RowInPlace
  BY RowFollows DEF CenterInv, TypeOK
<1> QED BY <1>1, CenterInvariant, PTL

\* What a panel that is not loading shows came of its latest request: its previews
\* were live since, and what has been live ever since has its preview, under any
\* filter and expiry, unless a refresh outlived a closing.
THEOREM PreviewsStayCurrent == Spec => []PreviewsAreCurrent
<1>1. CenterInv => PreviewsAreCurrent
  BY PreviewsFollow DEF CenterInv
<1> QED BY <1>1, CenterInvariant, PTL

-----------------------------------------------------------------------------
(***************************************************************************)
(* What ends the panel's loading: a request under way.                     *)
(***************************************************************************)
LoadingHasCall == mounted /\ open /\ loading => UnderWay # {}

LEMMA BeginHasCall ==
  ASSUME TypeOK, NEW s \in Slots, BeginLoad(s)
  PROVE  LoadingHasCall'
<1>1. calls' = [calls EXCEPT ![s] = [status |-> "sent", of |-> 1]]
  BY DEF BeginLoad
<1>2. calls'[s] = [status |-> "sent", of |-> 1]
  BY <1>1 DEF TypeOK
<1>3. calls'[s] # NoCall
  BY <1>2, CenterAssumption DEF Outcomes
<1> QED BY <1>3 DEF LoadingHasCall, UnderWay

LEMMA StepKeepsCall == ASSUME TypeOK, LoadingHasCall, [Next]_vars PROVE LoadingHasCall'
<1>1. CASE OpenPanel
  <2>1. CASE open
    <3>1. UNCHANGED center /\ mounted
      BY <1>1, <2>1 DEF OpenPanel, ClickEntry
    <3> QED BY <2>1, <3>1 DEF center, LoadingHasCall, UnderWay
  <2>2. CASE ~open
    BY <1>1, <2>2, BeginHasCall DEF OpenPanel, Slots
  <2> QED BY <2>1, <2>2
<1>2. CASE ClosePanel
  <2>1. open' = FALSE
    BY <1>2 DEF ClosePanel, Leave, PeerOpens, SyncActive, TypeOK, NavTypeOK
  <2> QED BY <2>1 DEF LoadingHasCall
<1>3. CASE Unload
  BY <1>3 DEF Unload, LoadingHasCall
<1>4. CASE Elsewhere
  <2>1. UNCHANGED <<mounted, open>>
    BY <1>4 DEF Elsewhere, WaitCallback, RootCallback, Rerender, ThrowOut, PeerMarks, PeerCloses,
       panels
  <2>2. UNCHANGED center
    BY <1>4 DEF Elsewhere
  <2> QED BY <2>1, <2>2 DEF center, LoadingHasCall, UnderWay
<1>5. CASE SharesChange
  BY <1>5 DEF SharesChange, center, panels, LoadingHasCall, UnderWay
<1>6. ASSUME NEW s \in Slots, HubLists(s) PROVE LoadingHasCall'
  <2>1. UNCHANGED <<mounted, open, loading>>
    BY <1>6 DEF HubLists, navVars, panels
  <2>2. calls'[s] \in [status : Outcomes, of : Nat]
    <3>1. calls[s] \in [status : Outcomes, of : Nat] /\ Now \in Nat
      BY <1>6, CallType, NowType DEF HubLists, Moments
    <3> QED BY <1>6, <3>1 DEF HubLists, TypeOK, Outcomes
  <2>3. calls'[s] # NoCall
    BY <2>2, CenterAssumption
  <2> QED BY <2>3 DEF LoadingHasCall, UnderWay
<1>7. ASSUME NEW s \in Slots, Land(s) PROVE LoadingHasCall'
  BY <1>7 DEF Land, LoadingHasCall
<1>8. ASSUME NEW s \in Refreshes, Refresh(s) PROVE LoadingHasCall'
  BY <1>8, BeginHasCall DEF Refresh, Slots
<1>9. CASE UNCHANGED vars
  BY <1>9 DEF vars, navVars, panels, center, LoadingHasCall, UnderWay
<1> QED BY <1>1, <1>2, <1>3, <1>4, <1>5, <1>6, <1>7, <1>8, <1>9 DEF Next

\* A panel that is loading has a request under way, whose end ends the loading:
\* also when a refresh of an opening before lands first, or the panel was closed
\* and opened again meanwhile (load after its await, the effect that aborts).
THEOREM LoadingPanelsWait == Spec => []LoadingHasCall
<1>1. Init => LoadingHasCall
  BY DEF Init, LoadingHasCall
<1>2. TypeOK /\ LoadingHasCall /\ [Next]_vars => LoadingHasCall'
  BY StepKeepsCall
<1> QED BY <1>1, <1>2, CenterTypeCorrect, PTL DEF Spec

=============================================================================
