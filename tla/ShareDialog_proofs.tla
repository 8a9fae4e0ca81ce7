-------------------------- MODULE ShareDialog_proofs --------------------------
(***************************************************************************)
(* The share dialog lets out live links only, and with the expiry it shows *)
(* unless the Hub served a share whose answer the dialog does not have or  *)
(* the list landed after a share was asked for: for any number of          *)
(* versions, tokens, dates and requests served late, LOCAL and NAS.        *)
(***************************************************************************)
EXTENDS ShareDialog, TLAPS

Served == call # None /\ call.phase # "sent"

\* Nothing was served behind it.
Fresh == Served /\ call.phase # "overtaken"

\* What is shown, and what was asked for.
ViewInv ==
  /\ state = "success" => url # 0
  /\ ~shown => state = "idle" /\ list = None /\ url = 0 /\ existingUrl = 0
  /\ list # None => existingUrl = 0
  /\ call # None => asked
  /\ ~asked => url = 0
  /\ Served => call.link # 0

\* A token is in one row only, and the next one in none.
RowsInv ==
  /\ \A v \in Vers : hub[v] # None => hub[v].token < nextTok
  /\ \A v, w \in Vers : hub[v] # None /\ hub[w] # None /\ hub[v].token = hub[w].token => v = w

Live(link) ==
  \E v \in Vers : hub[v] # None /\ hub[v].token = link /\ hub[v].raw /\ ~hub[v].revoked

Gives(link, e) == \A v \in Vers : hub[v] # None /\ hub[v].token = link => hub[v].expires = e

\* The links the dialog has, or is about to have.
Known(link) ==
  \/ link \in {url, existingUrl}
  \/ list \notin {Waiting, None} /\ link = list.link
  \/ Served /\ link = call.link
  \/ left # None /\ link = left.link

LiveInv == \A link \in Toks : Known(link) => Live(link)

\* What the dialog, and the answers under way, take a link's expiry for: the
\* saved one if nothing makes that doubtful, the list's if nothing was shared
\* since, the one a share was served with if no other was served behind it, and
\* the one a link left with.
Claimed(link, e) ==
  \/ ~doubt /\ ~Served /\ link = Link /\ e = savedExpiresAt
  \/ ~doubt /\ ~asked /\ list \notin {Waiting, None} /\ link = list.link /\ e = list.expires
  \/ Fresh /\ link = call.link /\ e = call.expires
  \/ left # None /\ left.via # "anchor" /\ ~left.doubt /\ link = left.link /\ e = left.field

SavedInv == \A link \in Toks, e \in Fields : Claimed(link, e) => Gives(link, e)

DialogInv == TypeOK /\ ViewInv /\ RowsInv /\ LiveInv /\ SavedInv

-----------------------------------------------------------------------------
LEMMA TypeInit == Init => TypeOK
<1> SUFFICES ASSUME Init PROVE TypeOK
  OBVIOUS
<1> USE DialogAssumption
<1>1. PICK n \in 0..MaxVer : nextTok = n + 1 /\ hub \in [Vers -> Row \cup {None}]
                                   /\ \A v \in Vers : v <= n => hub[v] # None /\ hub[v].token = v
  BY DEF Init
<1>2. nextTok \in 1..(MaxTok + 1)
  <2>1. CASE n = 0
    BY <1>1, <2>1
  <2>2. CASE n # 0
    <3>1. n \in Vers
      BY <2>2 DEF Vers
    <3>2. hub[n] \in Row /\ hub[n].token = n
      BY <1>1, <3>1
    <3>3. n \in Toks
      BY <3>2 DEF Row
    <3> QED BY <1>1, <3>3 DEF Toks
  <2> QED BY <2>1, <2>2
<1>3. late \in [Fields -> 0..MaxLate]
  BY DEF Init
<1> QED BY <1>1, <1>2, <1>3 DEF Init, TypeOK, Fields, Urls

\* What a share does at the Hub: the row of one version, whose token is its
\* live one or a fresh one.
Serves(v, e, token) ==
  /\ hub'[v] \in Row
  /\ hub'[v] = [token |-> token, raw |-> TRUE, expires |-> e, revoked |-> FALSE]
  /\ \A w \in Vers : w # v => hub'[w] = hub[w]
  /\ IF KeepsLink(v) THEN token = hub[v].token /\ nextTok' = nextTok
                     ELSE token = nextTok /\ nextTok' = nextTok + 1

LEMMA ServeRow ==
  ASSUME TypeOK, NEW e \in Fields, NEW token \in Toks, Serve(e, token)
  PROVE  \E v \in Vers : Serves(v, e, token)
<1>1. PICK v \in Vers :
        /\ token = IF KeepsLink(v) THEN hub[v].token ELSE nextTok
        /\ nextTok' = IF KeepsLink(v) THEN nextTok ELSE nextTok + 1
        /\ hub' = [hub EXCEPT ![v] = [token |-> token, raw |-> TRUE,
                                      expires |-> e, revoked |-> FALSE]]
  BY DEF Serve
<1>2. /\ hub'[v] = [token |-> token, raw |-> TRUE, expires |-> e, revoked |-> FALSE]
      /\ \A w \in Vers : w # v => hub'[w] = hub[w]
  BY <1>1 DEF TypeOK
<1>3. hub'[v] \in Row
  BY <1>2 DEF Row
<1>4. Serves(v, e, token)
  BY <1>1, <1>2, <1>3 DEF Serves
<1> QED BY <1>4

LEMMA ServeType ==
  ASSUME TypeOK, NEW e \in Fields, NEW token \in Toks, Serve(e, token)
  PROVE  /\ hub' \in [Vers -> Row \cup {None}] /\ nextTok' \in 1..(MaxTok + 1)
         /\ changed' = FALSE /\ nas' = nas
<1>1. PICK v \in Vers :
        /\ token = IF KeepsLink(v) THEN hub[v].token ELSE nextTok
        /\ nextTok' = IF KeepsLink(v) THEN nextTok ELSE nextTok + 1
        /\ hub' = [hub EXCEPT ![v] = [token |-> token, raw |-> TRUE,
                                      expires |-> e, revoked |-> FALSE]]
  BY DEF Serve
<1>2. [token |-> token, raw |-> TRUE, expires |-> e, revoked |-> FALSE] \in Row
  BY DEF Row
<1>3. hub' \in [Vers -> Row \cup {None}]
  BY <1>1, <1>2 DEF TypeOK
<1>4. nextTok' \in 1..(MaxTok + 1)
  BY <1>1, DialogAssumption DEF TypeOK, Toks
<1> QED BY <1>3, <1>4 DEF Serve

LEMMA TypeStep == TypeOK /\ ViewInv /\ [Next]_vars => TypeOK'
<1> SUFFICES ASSUME TypeOK, ViewInv, [Next]_vars PROVE TypeOK'
  OBVIOUS
<1> USE DialogAssumption
<1>1. CASE CopyOrOpen
  <2>1. CASE expiryDirty
    <3>1. call' \in Call
      BY <1>1, <2>1 DEF CopyOrOpen, StartShare, Call, TypeOK, Urls
    <3> QED BY <1>1, <2>1, <3>1 DEF CopyOrOpen, StartShare, TypeOK, server
  <2>2. CASE ~expiryDirty
    <3>1. Link \in Toks
      BY <1>1 DEF CopyOrOpen, SuccessView, ExistingView, Link, ViewInv, TypeOK, Urls
    <3> QED BY <1>1, <2>2, <3>1 DEF CopyOrOpen, Leave, TypeOK, server, dialog
  <2> QED BY <2>1, <2>2
<1>2. CASE FollowAnchor
  <2>1. url \in Toks
    BY <1>2 DEF FollowAnchor, SuccessView, ViewInv, TypeOK, Urls
  <2> QED BY <1>2, <2>1 DEF FollowAnchor, Leave, TypeOK, server, dialog
<1>3. CASE ShareSucceeds
  <2>1. /\ call \in Call /\ call.link \in Toks
        /\ call.expires \in Fields
    BY <1>3 DEF ShareSucceeds, Served, ViewInv, TypeOK, Call, Urls
  <2>2. \/ left' = None
        \/ left' = [via |-> "share", link |-> call.link,
                    field |-> call.expires, doubt |-> doubt']
    BY <1>3 DEF ShareSucceeds, Leave
  <2>3. url' \in Urls /\ savedExpiresAt' \in Fields /\ state' = "success" /\ call' = None
    BY <1>3, <2>1 DEF ShareSucceeds, Urls
  <2>4. /\ UNCHANGED <<server, expiresAt, existingUrl, shown, list, asked>>
        /\ doubt' \in BOOLEAN /\ late' = late
    BY <1>3 DEF ShareSucceeds
  <2>5. \/ left' = None
        \/ left' \in [via : {"share", "kept", "anchor"}, link : Toks,
                      field : Fields, doubt : BOOLEAN]
    <3>1. ASSUME NEW l \in Toks, NEW e \in Fields, NEW d \in BOOLEAN
          PROVE  [via |-> "share", link |-> l, field |-> e, doubt |-> d]
                   \in [via : {"share", "kept", "anchor"}, link : Toks,
                        field : Fields, doubt : BOOLEAN]
      OBVIOUS
    <3>2. [via |-> "share", link |-> call.link, field |-> call.expires,
           doubt |-> doubt']
            \in [via : {"share", "kept", "anchor"}, link : Toks,
                 field : Fields, doubt : BOOLEAN]
      BY <2>1, <2>4, <3>1, Zenon
    <3> QED BY <2>2, <3>2, Zenon
  <2> QED BY <2>3, <2>4, <2>5 DEF TypeOK, server
<1>4. CASE FileChanges /\ left' = None
  BY <1>4 DEF FileChanges, TypeOK, dialog
<1>5. CASE Open /\ left' = None
  BY <1>5 DEF Open, TypeOK, server, dialog
<1>6. CASE Close /\ left' = None
  BY <1>6 DEF Close, TypeOK, server, Fields, Urls
<1>7. CASE AnswerList /\ left' = None
  <2>1. ASSUME NEW v \in Candidates PROVE [expires |-> hub[v].expires, link |-> LinkOf(v)] \in Match
    <3>1. hub[v] \in Row
      BY DEF Candidates, TypeOK
    <3> QED BY <3>1 DEF Match, Row, LinkOf, Urls
  <2>2. list' \in Match \cup {None}
    BY <1>7, <2>1 DEF AnswerList
  <2> QED BY <1>7, <2>2 DEF AnswerList, TypeOK, server, dialog
<1>8. CASE LandList /\ left' = None
  <2>1. list \in Match
    BY <1>8 DEF LandList, TypeOK
  <2> QED BY <1>8, <2>1 DEF LandList, Restored, TypeOK, server, Match
<1>9. CASE FailList /\ left' = None
  BY <1>9 DEF FailList, TypeOK, server, dialog
<1>10. CASE (\E e \in Fields : Edit(e)) /\ left' = None
  BY <1>10 DEF Edit, TypeOK, server
<1>11. CASE Submit /\ left' = None
  <2>1. call' \in Call
    BY <1>11 DEF Submit, StartShare, Call, TypeOK, Urls
  <2> QED BY <1>11, <2>1 DEF Submit, StartShare, TypeOK, server
<1>12. CASE ServeShare /\ left' = None
  <2>1. call \in Call
    BY <1>12 DEF ServeShare, TypeOK
  <2>2. PICK token \in Toks :
          /\ Serve(call.expires, token)
          /\ call' = [call EXCEPT !.phase = "served", !.link = token]
    BY <1>12 DEF ServeShare
  <2>3. call' \in Call
    BY <2>1, <2>2 DEF Call, Urls
  <2>4. /\ hub' \in [Vers -> Row \cup {None}] /\ nextTok' \in 1..(MaxTok + 1)
        /\ changed' = FALSE /\ nas' = nas
    BY <2>1, <2>2, ServeType DEF Call
  <2> QED BY <1>12, <2>3, <2>4 DEF ServeShare, TypeOK, dialog
<1>13. CASE ServeLate /\ left' = None
  <2>1. PICK e \in Fields, token \in Toks :
          /\ late[e] > 0
          /\ Serve(e, token)
          /\ late' = [late EXCEPT ![e] = late[e] - 1]
    BY <1>13 DEF ServeLate
  <2>2. late' \in [Fields -> 0..MaxLate]
    <3>1. late[e] - 1 \in 0..MaxLate
      BY <2>1 DEF TypeOK
    <3> QED BY <2>1, <3>1 DEF TypeOK
  <2>3. call' \in Call \cup {None} /\ (call' = None <=> call = None)
    BY <1>13 DEF ServeLate, TypeOK, Call
  <2>4. /\ hub' \in [Vers -> Row \cup {None}] /\ nextTok' \in 1..(MaxTok + 1)
        /\ changed' = FALSE /\ nas' = nas
    BY <2>1, ServeType
  <2>5. doubt' \in BOOLEAN
    BY <1>13 DEF ServeLate
  <2> QED BY <1>13, <2>2, <2>3, <2>4, <2>5 DEF ServeLate, TypeOK, dialog
<1>15. CASE ShareFails /\ left' = None
  <2>1. late' \in [Fields -> 0..MaxLate]
    <3>1. CASE UNCHANGED late
      BY <3>1 DEF TypeOK
    <3>2. CASE /\ late[call.expires] < MaxLate
               /\ late' = [late EXCEPT ![call.expires] = late[call.expires] + 1]
      <4>1. call.expires \in Fields
        BY <1>15 DEF ShareFails, TypeOK, Call
      <4>2. late[call.expires] + 1 \in 0..MaxLate
        BY <3>2, <4>1 DEF TypeOK
      <4> QED BY <3>2, <4>2 DEF TypeOK
    <3> QED BY <1>15, <3>1, <3>2 DEF ShareFails
  <2> QED BY <1>15, <2>1 DEF ShareFails, TypeOK, server
<1>14. CASE UNCHANGED vars
  BY <1>14 DEF vars, TypeOK, server, dialog
<1> QED
  BY <1>1, <1>2, <1>3, <1>4, <1>5, <1>6, <1>7, <1>8, <1>9, <1>10, <1>11, <1>12, <1>13, <1>14,
     <1>15
     DEF Next

-----------------------------------------------------------------------------
LEMMA ViewStep == TypeOK /\ ViewInv /\ [Next]_vars => ViewInv'
<1> SUFFICES ASSUME TypeOK, ViewInv, [Next]_vars PROVE ViewInv'
  OBVIOUS
<1> USE DialogAssumption DEF Served
<1>1. CASE CopyOrOpen
  BY <1>1 DEF CopyOrOpen, StartShare, SuccessView, ExistingView, ViewInv, TypeOK, dialog
<1>2. CASE FollowAnchor
  BY <1>2 DEF FollowAnchor, ViewInv, dialog
<1>3. CASE ShareSucceeds
  BY <1>3 DEF ShareSucceeds, ViewInv, TypeOK
<1>4. CASE FileChanges \/ AnswerList \/ FailList
  BY <1>4 DEF FileChanges, AnswerList, FailList, ViewInv, TypeOK, dialog
<1>5. CASE Open \/ Close
  BY <1>5 DEF Open, Close, ViewInv, TypeOK, dialog
<1>6. CASE LandList
  BY <1>6 DEF LandList, ViewInv, TypeOK
<1>7. CASE \E e \in Fields : Edit(e)
  BY <1>7 DEF Edit, ViewInv
<1>8. CASE Submit
  BY <1>8 DEF Submit, FormView, StartShare, ViewInv, TypeOK
<1>9. CASE ServeShare
  <2>1. call' # None /\ call'.link # 0
    <3>1. PICK token \in Toks : call' = [call EXCEPT !.phase = "served", !.link = token]
      BY <1>9 DEF ServeShare
    <3>2. call \in Call
      BY <1>9 DEF ServeShare, TypeOK
    <3>3. call' \in Call /\ call'.link = token
      BY <3>1, <3>2 DEF Call, Urls
    <3> QED BY <3>3 DEF Toks
  <2> QED BY <1>9, <2>1 DEF ServeShare, ViewInv, dialog
<1>12. CASE ServeLate
  BY <1>12 DEF ServeLate, ViewInv, TypeOK, Call, dialog
<1>10. CASE ShareFails
  BY <1>10 DEF ShareFails, ViewInv, TypeOK
<1>11. CASE UNCHANGED vars
  BY <1>11 DEF vars, ViewInv, dialog
<1> QED
  BY <1>1, <1>2, <1>3, <1>4, <1>5, <1>6, <1>7, <1>8, <1>9, <1>10, <1>11, <1>12
     DEF Next

-----------------------------------------------------------------------------
\* The Hub stays, or a share is served.
LEMMA HubStep ==
  ASSUME TypeOK, [Next]_vars
  PROVE  \/ UNCHANGED <<hub, nextTok>>
         \/ \E v \in Vers, e \in Fields, token \in Toks : Serves(v, e, token)
<1>1. CASE ServeShare
  <2>1. call.expires \in Fields
    BY <1>1, DialogAssumption DEF ServeShare, TypeOK, Call
  <2> QED BY <1>1, <2>1, ServeRow DEF ServeShare
<1>2. CASE ServeLate
  BY <1>2, ServeRow DEF ServeLate
<1>3. CASE ~ServeShare /\ ~ServeLate
  BY <1>3 DEF Next, vars, server, CopyOrOpen, StartShare, FollowAnchor, ShareSucceeds,
     FileChanges, Open, Close, AnswerList, LandList, FailList, Edit, Submit, ShareFails
<1> QED BY <1>1, <1>2, <1>3

LEMMA RowsStep == TypeOK /\ TypeOK' /\ RowsInv /\ [Next]_vars => RowsInv'
<1> SUFFICES ASSUME TypeOK, TypeOK', RowsInv, [Next]_vars PROVE RowsInv'
  OBVIOUS
<1>1. CASE UNCHANGED <<hub, nextTok>>
  BY <1>1 DEF RowsInv
<1>2. ASSUME NEW v \in Vers, NEW e \in Fields, NEW tok \in Toks, Serves(v, e, tok)
      PROVE  RowsInv'
  <2> USE <1>2 DEF Serves
  <2>1. hub'[v].token = tok /\ nextTok \in Nat /\ nextTok' \in Nat
    BY <1>2, DialogAssumption DEF TypeOK
  <2>2. \A w \in Vers : hub[w] # None => hub[w].token \in Nat
    BY DEF TypeOK, Row, Toks
  <2>3. KeepsLink(v) => hub[v] # None
    BY DEF KeepsLink
  <2>4. \A w \in Vers : w # v /\ hub'[w] # None => hub'[w].token < nextTok' /\ hub'[w].token # tok
    BY <1>2, <2>1, <2>2, <2>3 DEF RowsInv
  <2>5. tok < nextTok'
    BY <1>2, <2>1, <2>2, <2>3 DEF RowsInv
  <2> QED BY <1>2, <2>1, <2>4, <2>5 DEF RowsInv
<1> QED BY <1>1, <1>2, HubStep

\* A live link stays live.
LEMMA LiveStays ==
  ASSUME TypeOK, [Next]_vars, NEW link, Live(link)
  PROVE  Live(link)'
<1> USE DialogAssumption
<1>1. PICK w \in Vers : hub[w] # None /\ hub[w].token = link /\ hub[w].raw /\ ~hub[w].revoked
  BY DEF Live
<1>2. CASE UNCHANGED <<hub, nextTok>>
  BY <1>2 DEF Live
<1>3. ASSUME NEW v \in Vers, NEW e \in Fields, NEW tok \in Toks, Serves(v, e, tok)
      PROVE  Live(link)'
  <2> USE <1>3 DEF Serves
  <2>1. CASE w = v
    <3>1. tok = link
      BY <1>1, <1>3, <2>1 DEF KeepsLink
    <3>2. hub'[v] # None /\ hub'[v].token = link /\ hub'[v].raw /\ ~hub'[v].revoked
      <4>1. hub'[v] # None
        BY <1>3
      <4>2. hub'[v].raw = TRUE /\ hub'[v].revoked = FALSE /\ hub'[v].token = tok
        BY <1>3
      <4> QED BY <3>1, <4>1, <4>2
    <3> QED BY <3>2 DEF Live
  <2>2. CASE w # v
    BY <1>1, <1>3, <2>2 DEF Live
  <2> QED BY <2>1, <2>2
<1> QED BY <1>2, <1>3, HubStep

LEMMA LiveStep ==
  ASSUME TypeOK, ViewInv, LiveInv, [Next]_vars, NEW link \in Toks, Known(link)'
  PROVE  Live(link)'
<1> USE DialogAssumption DEF Served
<1>0. SUFFICES ASSUME ~Known(link) PROVE Live(link)'
  BY LiveStays DEF LiveInv
<1>nz. link # 0
  BY DEF Toks
<1>1. CASE CopyOrOpen
  BY <1>0, <1>1 DEF CopyOrOpen, StartShare, Leave, Link, Known, dialog
<1>2. CASE FollowAnchor
  BY <1>0, <1>2 DEF FollowAnchor, Leave, Known, dialog
<1>3. CASE ShareSucceeds
  <2>1. /\ url' = call.link /\ call' = None /\ UNCHANGED <<existingUrl, list>>
        /\ left' = None \/ left'.link = call.link
    BY <1>3 DEF ShareSucceeds, Leave
  <2> QED BY <1>0, <1>3, <2>1 DEF ShareSucceeds, Known
<1>4. CASE (FileChanges \/ FailList \/ \E e \in Fields : Edit(e)) /\ left' = None
  BY <1>0, <1>4 DEF FileChanges, FailList, Edit, Known, dialog
<1>5. CASE (Open \/ Close) /\ left' = None
  BY <1>0, <1>5, <1>nz DEF Open, Close, Known, dialog
<1>6. CASE AnswerList /\ left' = None
  <2>1. list' \notin {Waiting, None} /\ link = list'.link
    BY <1>0, <1>6 DEF AnswerList, Known, dialog
  <2>2. PICK v \in Candidates : list'.link = LinkOf(v)
    BY <1>6, <2>1 DEF AnswerList
  <2>3. hub[v] # None /\ hub[v].raw /\ ~hub[v].revoked /\ hub[v].token = link
    BY <2>1, <2>2, <1>nz DEF Candidates, LinkOf
  <2>4. Live(link)
    BY <2>3 DEF Live, Candidates
  <2> QED BY <2>4, LiveStays
<1>7. CASE LandList /\ left' = None
  BY <1>0, <1>7 DEF LandList, Known
<1>8. CASE (Submit \/ ShareFails) /\ left' = None
  BY <1>0, <1>8 DEF Submit, StartShare, ShareFails, Known
<1>9. CASE ServeShare /\ left' = None
  <2>1. PICK tok \in Toks :
          /\ Serve(call.expires, tok)
          /\ call' = [call EXCEPT !.phase = "served", !.link = tok]
    BY <1>9 DEF ServeShare
  <2>2. link = tok
    BY <1>0, <1>9, <2>1 DEF ServeShare, Known, TypeOK, Call, dialog
  <2>3. call.expires \in Fields
    BY <1>9 DEF ServeShare, TypeOK, Call
  <2>4. PICK v \in Vers : Serves(v, call.expires, tok)
    BY <2>1, <2>3, ServeRow
  <2>5. hub'[v].raw = TRUE /\ hub'[v].revoked = FALSE /\ hub'[v].token = link
    BY <2>2, <2>4 DEF Serves
  <2>6. hub'[v] # None
    BY <2>4 DEF Serves
  <2> QED BY <2>5, <2>6 DEF Live
<1>11. CASE ServeLate /\ left' = None
  BY <1>0, <1>11 DEF ServeLate, Known, TypeOK, Call, dialog
<1>10. CASE UNCHANGED vars
  BY <1>0, <1>10 DEF vars, Known, dialog
<1> QED
  BY <1>1, <1>2, <1>3, <1>4, <1>5, <1>6, <1>7, <1>8, <1>9, <1>10, <1>11 DEF Next

-----------------------------------------------------------------------------
LEMMA SavedStep ==
  ASSUME TypeOK, ViewInv, RowsInv, SavedInv, [Next]_vars,
         NEW link \in Toks, NEW e \in Fields, Claimed(link, e)'
  PROVE  Gives(link, e)'
<1> USE DialogAssumption DEF Served, Fresh
<1>0. ASSUME Claimed(link, e), UNCHANGED hub PROVE Gives(link, e)'
  BY <1>0 DEF SavedInv, Gives
<1>nz. link # 0
  BY DEF Toks
<1>1. CASE CopyOrOpen
  <2>1. state # "sharing" /\ call = None /\ UNCHANGED hub
    BY <1>1 DEF CopyOrOpen, TypeOK, StartShare, server
  <2>2. CASE expiryDirty
    BY <1>0, <1>1, <2>1, <2>2 DEF CopyOrOpen, StartShare, Claimed, Link
  <2>3. CASE ~expiryDirty
    BY <1>0, <1>1, <2>1, <2>3 DEF CopyOrOpen, Leave, Claimed, Link, expiryDirty, dialog
  <2> QED BY <2>2, <2>3
<1>2. CASE FollowAnchor
  BY <1>0, <1>2 DEF FollowAnchor, Leave, Claimed, Link, server, dialog
<1>3. CASE ShareSucceeds
  <2>1. /\ url' = call.link /\ call' = None /\ savedExpiresAt' = call.expires
        /\ UNCHANGED <<existingUrl, list, asked>>
        /\ Served /\ call.link # 0 /\ asked
        /\ doubt' = (call.phase = "overtaken")
    BY <1>3 DEF ShareSucceeds, ViewInv
  <2>2. \/ left' = None
        \/ left' = [via |-> "share", link |-> call.link, field |-> call.expires,
                    doubt |-> doubt']
    BY <1>3 DEF ShareSucceeds, Leave
  <2>3. CASE Fresh
    <3>1. left' # None => left'.link = call.link /\ left'.field = call.expires
      BY <2>2
    <3>2. Link' = call.link /\ call' = None /\ asked'
      BY <2>1 DEF Link
    <3>3. link = call.link /\ e = call.expires
      BY <2>1, <3>1, <3>2 DEF Claimed
    <3>4. Claimed(link, e)
      BY <2>3, <3>3 DEF Claimed
    <3> QED BY <1>0, <1>3, <3>4 DEF ShareSucceeds, server
  <2>4. CASE ~Fresh
    <3>1. call.phase = "overtaken"
      BY <2>1, <2>4
    <3>2. left' # None => left'.doubt = TRUE
      <4>1. doubt' = TRUE
        BY <2>1, <3>1
      <4>2. \/ left' = None
            \/ left' = [via |-> "share", link |-> call.link, field |-> call.expires,
                        doubt |-> TRUE]
        BY <2>2, <4>1
      <4> QED BY <4>2
    <3>3. ~Claimed(link, e)'
      BY <2>1, <3>1, <3>2 DEF Claimed
    <3> QED BY <3>3
  <2> QED BY <2>3, <2>4
<1>4. CASE (FileChanges \/ FailList \/ (\E x \in Fields : Edit(x)) \/ Open) /\ left' = None
  BY <1>0, <1>4 DEF FileChanges, FailList, Edit, Open, Claimed, Link, server, dialog
<1>5. CASE Close /\ left' = None
  BY <1>0, <1>5, <1>nz DEF Close, Claimed, Link, TypeOK, server
<1>6. CASE AnswerList /\ left' = None
  <2>1. UNCHANGED hub
    BY <1>6 DEF AnswerList, server
  <2>2. CASE Claimed(link, e)
    BY <1>0, <2>1, <2>2
  <2>3. CASE ~Claimed(link, e)
    <3>1. list' \notin {Waiting, None} /\ link = list'.link /\ e = list'.expires
      BY <1>6, <2>3 DEF AnswerList, Claimed, Link, dialog
    <3>2. PICK v \in Candidates : list' = [expires |-> hub[v].expires, link |-> LinkOf(v)]
      BY <1>6, <3>1 DEF AnswerList
    <3>3. v \in Vers /\ hub[v] # None /\ hub[v].token = link /\ hub[v].expires = e
      BY <3>1, <3>2, <1>nz DEF Candidates, LinkOf
    <3>4. Gives(link, e)
      BY <3>3 DEF Gives, RowsInv
    <3> QED BY <3>4, <2>1 DEF Gives
  <2> QED BY <2>2, <2>3
<1>7. CASE LandList /\ left' = None
  <2>1. /\ list \notin {Waiting, None} /\ list' = None /\ existingUrl = 0
        /\ doubt' = (doubt \/ asked) /\ savedExpiresAt' = list.expires
        /\ existingUrl' = IF list.link # 0 THEN list.link ELSE existingUrl
        /\ UNCHANGED <<url, call, asked>>
    BY <1>7 DEF LandList, ViewInv
  <2>2. ~asked => url = 0 /\ call = None
    BY DEF ViewInv
  <2>3. Claimed(link, e) /\ UNCHANGED hub
    BY <1>7, <1>nz, <2>1, <2>2 DEF Claimed, Link, LandList, server
  <2> QED BY <1>0, <2>3
<1>8. CASE Submit /\ left' = None
  BY <1>0, <1>8 DEF Submit, StartShare, Claimed, Link, TypeOK, server
<1>9. CASE ShareFails /\ left' = None
  BY <1>0, <1>9 DEF ShareFails, Claimed, Link, server
<1>10. CASE ServeShare /\ left' = None
  <2>1. PICK tok \in Toks :
          /\ Serve(call.expires, tok)
          /\ call' = [call EXCEPT !.phase = "served", !.link = tok]
    BY <1>10 DEF ServeShare
  <2>2. /\ call.expires \in Fields /\ call' # None /\ call'.phase = "served"
        /\ call'.link = tok /\ call'.expires = call.expires
    <3>1. call \in Call
      BY <1>10 DEF ServeShare, TypeOK
    <3>2. call' \in Call /\ call'.phase = "served" /\ call'.link = tok
          /\ call'.expires = call.expires
      BY <2>1, <3>1 DEF Call, Urls
    <3> QED BY <3>1, <3>2 DEF Call
  <2>3. link = tok /\ e = call.expires
    <3>1. asked'
      BY <1>10 DEF ServeShare, ViewInv
    <3> QED BY <1>10, <2>2, <3>1 DEF Claimed
  <2>4. PICK v \in Vers : Serves(v, call.expires, tok)
    BY <2>1, <2>2, ServeRow
  <2>5. \A w \in Vers : w # v /\ hub[w] # None => hub[w].token # tok
    BY <2>4 DEF Serves, RowsInv, KeepsLink, TypeOK, Toks
  <2>6. hub'[v].expires = e /\ \A w \in Vers : w # v => hub'[w] = hub[w]
    BY <2>3, <2>4 DEF Serves
  <2> QED BY <2>3, <2>5, <2>6 DEF Gives
\* What was claimed is in doubt now, or was served before.
<1>12. CASE ServeLate /\ left' = None
  <2>1. /\ call' = IF call # None /\ call.phase = "served"
                   THEN [call EXCEPT !.phase = "overtaken"] ELSE call
        /\ doubt' = (doubt \/ Learnt)
        /\ UNCHANGED <<url, existingUrl, list, asked>>
    BY <1>12 DEF ServeLate, dialog
  <2>2. ~Fresh'
    BY <2>1 DEF TypeOK, Call
  <2>3. doubt' \/ Link' = 0
    BY <2>1 DEF Learnt, Link
  <2>4. list' \notin {Waiting, None} => doubt'
    BY <2>1 DEF Learnt
  <2> QED BY <1>12, <1>nz, <2>2, <2>3, <2>4 DEF Claimed
<1>11. CASE UNCHANGED vars
  BY <1>0, <1>11 DEF vars, server, dialog, Claimed, Link
<1> QED
  BY <1>1, <1>2, <1>3, <1>4, <1>5, <1>6, <1>7, <1>8, <1>9, <1>10, <1>11, <1>12
     DEF Next

-----------------------------------------------------------------------------
LEMMA InitInv == Init => DialogInv
<1> SUFFICES ASSUME Init PROVE DialogInv
  OBVIOUS
<1>1. TypeOK
  BY TypeInit
<1>2. ViewInv
  BY DEF Init, ViewInv, Served
<1>3. RowsInv
  BY <1>1 DEF Init, RowsInv, Vers, TypeOK, Row, Toks
<1>4. LiveInv /\ SavedInv
  BY DEF Init, LiveInv, SavedInv, Known, Claimed, Link, Served, Fresh, Toks
<1> QED BY <1>1, <1>2, <1>3, <1>4 DEF DialogInv

LEMMA InvStep == DialogInv /\ [Next]_vars => DialogInv'
<1> SUFFICES ASSUME DialogInv, [Next]_vars PROVE DialogInv'
  OBVIOUS
<1> USE DEF DialogInv
<1>1. TypeOK' /\ ViewInv'
  BY TypeStep, ViewStep
<1>2. RowsInv'
  BY <1>1, RowsStep
<1>3. LiveInv'
  BY LiveStep DEF LiveInv
<1>4. SavedInv'
  BY SavedStep DEF SavedInv
<1> QED BY <1>1, <1>2, <1>3, <1>4

THEOREM DialogInvariant == Spec => []DialogInv
  BY InitInv, InvStep, PTL DEF Spec

\* The dialog's state stays well-typed, and it shows that it is sharing exactly
\* while it has a share request (ShareDialog.tsx:66-86).
THEOREM DialogTypeCorrect == Spec => []TypeOK
<1>1. DialogInv => TypeOK
  BY DEF DialogInv
<1> QED BY <1>1, DialogInvariant, PTL

LEMMA LeftTypes ==
  ASSUME TypeOK, left # None
  PROVE  left.link \in Toks /\ left.field \in Fields
BY DEF TypeOK

\* Whatever arrives late or not at all, a link that leaves the dialog is live
\* at the Hub (ShareDialog.tsx:91-119 and the success view).
THEOREM LeftLinksAreLive == Spec => []LeftLinkIsLive
<1>1. ASSUME DialogInv PROVE LeftLinkIsLive
  <2>1. SUFFICES ASSUME left # None PROVE Published # {}
    BY DEF LeftLinkIsLive
  <2>2. Live(left.link)
    BY <1>1, <2>1, LeftTypes DEF DialogInv, LiveInv, Known
  <2> QED BY <2>2 DEF Live, Published
<1> QED BY <1>1, DialogInvariant, PTL

\* A link that Copy or Open lets out has the expiry the dialog shows, unless the
\* Hub served a share whose answer the dialog does not have, however late, or the
\* list landed after a share was asked for (ShareDialog.tsx:66-119).
THEOREM LinksAreCopiedAsShown == Spec => []CopiedAsShown
<1>1. ASSUME DialogInv PROVE CopiedAsShown
  <2>1. SUFFICES ASSUME left # None, left.via # "anchor", ~left.doubt
                 PROVE  Published # {} /\ \A v \in Published : hub[v].expires = left.field
    BY DEF CopiedAsShown
  <2>2. left.link \in Toks /\ left.field \in Fields
    BY <1>1, <2>1, LeftTypes DEF DialogInv
  <2>3. Live(left.link)
    BY <1>1, <2>1, <2>2 DEF DialogInv, LiveInv, Known
  <2>4. Gives(left.link, left.field)
    BY <1>1, <2>1, <2>2 DEF DialogInv, SavedInv, Claimed
  <2> QED BY <2>3, <2>4 DEF Live, Gives, Published
<1> QED BY <1>1, DialogInvariant, PTL

=============================================================================
