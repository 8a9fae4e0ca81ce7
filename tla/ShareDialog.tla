----------------------------- MODULE ShareDialog -----------------------------
(***************************************************************************)
(* The plugin's share dialog for one Session File.  It asks for the        *)
(* existing shares when it opens and fills itself from the answer, which   *)
(* arrives at any time: before, between and after the user's edits and     *)
(* share requests.  Requests fail before or after the Hub has served them, *)
(* and the Hub may serve one after the dialog has given it up.  The Hub is *)
(* what these requests see of it: the shares of the file's versions        *)
(* (modules ArtifactHub and ShareAccess).                                  *)
(***************************************************************************)
EXTENDS Integers

CONSTANTS
  Dates,   \* expiry times; the field and the requests count whole minutes
  Blank,   \* the empty field, and no expiry at the Hub
  MaxVer,  \* bound on the versions of the file
  MaxTok,  \* bound on link tokens, and the links they are in
  MaxLate, \* bound on the requests of one expiry given up and not served yet
  None,    \* no row, no request
  Waiting  \* the list is not answered yet

VARIABLES
  nas,       \* the host shares by NAS upload
  hub,       \* the shares of the file's versions
  nextTok,
  changed,   \* the file differs from the latest version
  expiresAt, savedExpiresAt, state, url, existingUrl,  \* the dialog's state
  shown,     \* the dialog is mounted
  list,      \* the request for the list of shares and its answer
  call,      \* the share request in progress
  late,      \* how many requests of each expiry the dialog has given up, and
             \* the Hub may still serve
  asked,     \* history: a share was requested since the dialog opened
  doubt,     \* history: savedExpiresAt may be out of date, see CopiedAsShown
  left       \* history: the link that left the dialog in the last step

dialog == <<expiresAt, savedExpiresAt, state, url, existingUrl>>
server == <<nas, hub, nextTok, changed>>
vars   == <<server, dialog, shown, list, call, late, asked, doubt, left>>

Fields == Dates \cup {Blank}
Vers   == 1..MaxVer
Toks   == 1..MaxTok
Urls   == Toks \cup {0}  \* 0: '' in url, null in existingUrl and shareUrl
Row    == [token : Toks, raw : BOOLEAN, expires : Fields, revoked : BOOLEAN]
Match  == [expires : Fields, link : Urls]
Call   == [phase : {"sent", "served", "overtaken"}, expires : Fields, link : Urls,
           after : {"stay", "leave"}]

ASSUME DialogAssumption ==
  /\ MaxVer \in Nat /\ MaxTok \in Nat /\ MaxLate \in Nat
  /\ Blank \notin Dates
  /\ None \notin Row \cup Match \cup Call \cup Fields
  /\ Waiting \notin Match \cup {None}

TypeOK ==
  /\ nas \in BOOLEAN /\ changed \in BOOLEAN
  /\ hub \in [Vers -> Row \cup {None}]
  /\ nextTok \in 1..(MaxTok + 1)
  /\ expiresAt \in Fields /\ savedExpiresAt \in Fields
  /\ state \in {"idle", "sharing", "success", "error"}
  /\ url \in Urls /\ existingUrl \in Urls
  /\ shown \in BOOLEAN /\ asked \in BOOLEAN /\ doubt \in BOOLEAN
  /\ list \in Match \cup {Waiting, None}
  /\ call \in Call \cup {None}
  /\ late \in [Fields -> 0..MaxLate]
  /\ state = "sharing" <=> call # None
  /\ left = None \/ left \in [via : {"share", "kept", "anchor"}, link : Toks, field : Fields,
                              doubt : BOOLEAN]

-----------------------------------------------------------------------------
\* The Hub

Latest(v) == hub[v] # None /\ \A w \in Vers : hub[w] # None => w <= v

\* What the list says of a share: the link only if its token is stored and the
\* share not revoked.
LinkOf(v) == IF hub[v].raw /\ ~hub[v].revoked THEN hub[v].token ELSE 0

\* The version a share request is for: a NAS upload is a new one whatever the
\* file holds.
SharedVersion(v) ==
  IF ~nas /\ ~changed /\ \E w \in Vers : Latest(w)
  THEN Latest(v)
  ELSE hub[v] = None /\ \A w \in 1..(v - 1) : hub[w] # None

\* Mutant: every share gets a fresh token.
NeverKeepsLink(v) == FALSE

KeepsLink(v) == hub[v] # None /\ hub[v].raw /\ ~hub[v].revoked

\* Versions shared earlier, each with its row: any may be revoked or come from
\* an older schema.
Init ==
  /\ nas \in BOOLEAN
  /\ \E n \in 0..MaxVer :
       /\ hub \in [Vers -> Row \cup {None}]
       /\ \A v \in Vers : IF v <= n THEN hub[v] # None /\ hub[v].token = v ELSE hub[v] = None
       /\ nextTok = n + 1
  /\ changed = FALSE
  /\ expiresAt = Blank /\ savedExpiresAt = Blank
  /\ state = "idle" /\ url = 0 /\ existingUrl = 0
  /\ asked = FALSE /\ doubt = FALSE
  /\ late = [e \in Fields |-> 0]
  /\ shown = FALSE /\ list = None /\ call = None /\ left = None

FileChanges ==
  /\ changed' = TRUE
  /\ UNCHANGED <<nas, hub, nextTok, dialog, shown, list, call, late, asked, doubt>>

-----------------------------------------------------------------------------
\* Opening and closing

Open ==
  /\ ~shown
  /\ shown' = TRUE
  /\ list' = Waiting
  /\ UNCHANGED <<server, dialog, call, late, asked, doubt>>

\* Escape, the backdrop and the buttons close it, except while it is sharing.
\* Its state is gone and the request for the list is aborted.
Close ==
  /\ shown
  /\ state # "sharing"
  /\ shown' = FALSE
  /\ list' = None
  /\ expiresAt' = Blank /\ savedExpiresAt' = Blank
  /\ state' = "idle" /\ url' = 0 /\ existingUrl' = 0
  /\ asked' = FALSE /\ doubt' = FALSE
  /\ UNCHANGED <<server, call, late>>

-----------------------------------------------------------------------------
\* The list of existing shares

Candidates == {v \in Vers : hub[v] # None /\ ~hub[v].revoked}

\* matchCreatedShare, on what the Hub holds when it answers: the highest
\* version whose share is not revoked.
AnswerList ==
  /\ list = Waiting
  /\ \/ Candidates = {} /\ list' = None
     \/ \E v \in Candidates :
          /\ \A w \in Candidates : w <= v
          /\ list' = [expires |-> hub[v].expires, link |-> LinkOf(v)]
  /\ UNCHANGED <<server, dialog, shown, call, late, asked, doubt>>

\* An edit made before the answer stays.
Restored(e) == IF expiresAt = Blank THEN e ELSE expiresAt

LandList ==
  /\ list \notin {Waiting, None}
  /\ expiresAt' = Restored(list.expires)
  /\ savedExpiresAt' = list.expires
  /\ existingUrl' = IF list.link # 0 THEN list.link ELSE existingUrl
  /\ list' = None
  /\ doubt' = (doubt \/ asked)
  /\ UNCHANGED <<server, state, url, shown, call, late, asked>>

FailList ==
  /\ list # None
  /\ list' = None
  /\ UNCHANGED <<server, dialog, shown, call, late, asked, doubt>>

-----------------------------------------------------------------------------
\* What the user does

SuccessView  == shown /\ state = "success" /\ existingUrl = 0
ExistingView == shown /\ existingUrl # 0
FormView     == shown /\ ~SuccessView /\ ~ExistingView

\* The field of the first form stays enabled while it is sharing.
Edit(e) ==
  /\ FormView \/ (ExistingView /\ state # "sharing")
  /\ e # expiresAt
  /\ expiresAt' = e
  /\ UNCHANGED <<server, savedExpiresAt, state, url, existingUrl, shown, list, call,
                 late, asked, doubt>>

\* Mutant: the dialog does not show that it is sharing.
StartShareQuietly(after) ==
  /\ call' = [phase |-> "sent", expires |-> expiresAt, link |-> 0, after |-> after]
  /\ asked' = TRUE
  /\ UNCHANGED <<server, dialog, shown, list, late, doubt>>

StartShare(after) ==
  /\ state' = "sharing"
  /\ call' = [phase |-> "sent", expires |-> expiresAt, link |-> 0, after |-> after]
  /\ asked' = TRUE
  /\ UNCHANGED <<server, expiresAt, savedExpiresAt, url, existingUrl, shown, list, late,
                 doubt>>

Submit ==
  /\ FormView
  /\ state # "sharing"
  /\ StartShare("stay")

Link == IF url # 0 THEN url ELSE existingUrl

\* Mutant: clearing the field is no edit.
DirtyWhenFilled == expiresAt # savedExpiresAt /\ expiresAt # Blank

expiryDirty == expiresAt # savedExpiresAt

Leave(link, via, field, unsure) ==
  left' = [via |-> via, link |-> link, field |-> field, doubt |-> unsure]

\* Copy, in both views that show a link, and Open in the existing share's: the
\* edited expiry is saved first, and the link leaves once that is done.
CopyOrOpen ==
  /\ SuccessView \/ ExistingView
  /\ state # "sharing"
  /\ IF expiryDirty
     THEN StartShare("leave") /\ left' = None
     ELSE /\ Leave(Link, "kept", expiresAt, doubt)
          /\ UNCHANGED <<server, dialog, shown, list, call, late, asked, doubt>>

\* The links the success view shows are plain anchors.
FollowAnchor ==
  /\ SuccessView
  /\ Leave(url, "anchor", expiresAt, doubt)
  /\ UNCHANGED <<server, dialog, shown, list, call, late, asked, doubt>>

-----------------------------------------------------------------------------
\* The share request

\* create_local_share or the NAS protocol, as one change of the Hub.
Serve(expires, token) ==
  /\ \E v \in Vers :
       /\ SharedVersion(v)
       /\ token = IF KeepsLink(v) THEN hub[v].token ELSE nextTok
       /\ nextTok' = IF KeepsLink(v) THEN nextTok ELSE nextTok + 1
       /\ hub' = [hub EXCEPT ![v] = [token |-> token, raw |-> TRUE,
                                     expires |-> expires, revoked |-> FALSE]]
  /\ changed' = FALSE
  /\ UNCHANGED nas

ServeShare ==
  /\ call # None /\ call.phase = "sent"
  /\ \E token \in Toks :
       /\ Serve(call.expires, token)
       /\ call' = [call EXCEPT !.phase = "served", !.link = token]
  /\ UNCHANGED <<dialog, shown, list, late, asked, doubt>>

\* The dialog has a link and an expiry it takes for saved, or an answer with them
\* is about to land.
Learnt == Link # 0 \/ list \notin {Waiting, None}

\* Nothing withdraws a request that broke for the dialog: the Hub may serve it at
\* any later time, behind its retry and after the dialog was closed.
ServeLate ==
  /\ \E e \in Fields, token \in Toks :
       /\ late[e] > 0
       /\ Serve(e, token)
       /\ late' = [late EXCEPT ![e] = @ - 1]
  /\ call' = IF call # None /\ call.phase = "served"
             THEN [call EXCEPT !.phase = "overtaken"] ELSE call
  /\ doubt' = (doubt \/ Learnt)
  /\ UNCHANGED <<dialog, shown, list, asked>>

ShareSucceeds ==
  /\ call # None /\ call.phase # "sent"
  /\ url' = call.link
  /\ savedExpiresAt' = call.expires
  /\ state' = "success"
  /\ doubt' = (call.phase = "overtaken")
  /\ IF call.after = "leave"
     THEN Leave(call.link, "share", call.expires, doubt')
     ELSE left' = None
  /\ call' = None
  /\ UNCHANGED <<server, expiresAt, existingUrl, shown, list, late, asked>>

\* The request is refused, lost or slow, or its answer is lost: the dialog cannot
\* tell whether the Hub has served it, or will.
ShareFails ==
  /\ call # None
  /\ state' = "error"
  /\ doubt' = (doubt \/ call.phase # "sent")
  /\ call' = None
  /\ \/ /\ call.phase = "sent" /\ late[call.expires] < MaxLate
        /\ late' = [late EXCEPT ![call.expires] = @ + 1]
     \/ UNCHANGED late
  /\ UNCHANGED <<server, expiresAt, savedExpiresAt, url, existingUrl, shown, list,
                 asked>>

-----------------------------------------------------------------------------
Next ==
  \/ CopyOrOpen \/ FollowAnchor \/ ShareSucceeds
  \/ /\ \/ FileChanges
        \/ Open \/ Close
        \/ AnswerList \/ LandList \/ FailList
        \/ \E e \in Fields : Edit(e)
        \/ Submit
        \/ ServeShare \/ ServeLate \/ ShareFails
     /\ left' = None

Spec == Init /\ [][Next]_vars

-----------------------------------------------------------------------------
\* What the link that has just left gives: the rows with its token.
Published == {v \in Vers : hub[v] # None /\ hub[v].token = left.link /\ ~hub[v].revoked}

\* A link leaves by Copy or Open with the expiry its field shows published at
\* the Hub, unless, since the dialog learnt what is saved, the Hub has served a
\* share whose answer the dialog does not have (the answer was lost, or the
\* request given up and served late), or the list landed after a share was
\* asked for.
CopiedAsShown ==
  left # None /\ left.via # "anchor" /\ ~left.doubt =>
    Published # {} /\ \A v \in Published : hub[v].expires = left.field

\* Whatever the field shows, a link that leaves is live at the Hub.
LeftLinkIsLive == left # None => Published # {}

\* ShareDialog.tsx:95: the edited expiry must reach the Hub before the link
\* leaves the dialog.
EditReachesHub ==
  left # None => \A v \in Published : hub[v].expires = left.field

=============================================================================
