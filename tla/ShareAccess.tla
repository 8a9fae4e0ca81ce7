----------------------------- MODULE ShareAccess -----------------------------
(***************************************************************************)
(* Reading a share: by its link or by a short-lived preview token of the   *)
(* creator's list.  These requests do not take the operation lock, so      *)
(* between a request's calls the clock goes on, shares are revoked and     *)
(* shared again, and the process may be restarted.  The operations that    *)
(* change a share are serialized, and each changes its row in one          *)
(* statement (see ArtifactHub): here they are one step.                    *)
(***************************************************************************)
EXTENDS Integers

CONSTANTS
  Shares,    \* the share identifiers of one creator, one per version
  Requests,  \* the requests that may be in progress at a time
  MaxTok,    \* bound on the link tokens issued
  MaxTime,   \* bound on the clock, in ticks
  MaxEpoch,  \* bound on the starts of the process
  Second,    \* ticks per second: row times are finer than token times
  TTL,       \* _PREVIEW_TTL_SECONDS
  NoRow,     \* no share stored
  Never,     \* expires_at is NULL
  Idle       \* the request slot is free

VARIABLES
  now,       \* the clock, in ticks; it does not go back
  epoch,     \* which start of the process: it stands for _preview_secret
  shares,    \* table dsh_shares by share_id
  nextTok,   \* link tokens issued so far are below
  previews,  \* the preview tokens handed out
  req,       \* the requests in progress, with their local variables
  entitled   \* history: the request's token gave access since it began

vars == <<now, epoch, shares, nextTok, previews, req, entitled>>

Times  == 0..MaxTime
Epochs == 1..MaxEpoch

\* raw says that the link's token is stored, not only its hash; mode that
\* visibility and permission are the supported ones.  Only rows of an older
\* schema have neither.
ShareRow ==
  [token : 1..MaxTok, raw : BOOLEAN, mode : BOOLEAN,
   expires : Times \cup {Never}, revoked : BOOLEAN]

LinkTokens    == [kind : {"link"}, link : 1..MaxTok]
PreviewTokens == [kind : {"preview"}, share : Shares, expires : Nat, epoch : Epochs,
                  at : Times]  \* at, when it was issued, is history
Rows          == [Shares -> ShareRow \cup {NoRow}]

ReadRec ==
  [pc : {"byid", "check", "open"}, token : LinkTokens \cup PreviewTokens,
   share : Shares, row : ShareRow \cup {NoRow}]
ListRec == [pc : {"mint"}, rows : Rows]

ASSUME AccessAssumption ==
  /\ MaxTok \in Nat /\ MaxTime \in Nat /\ MaxEpoch \in Nat \ {0} /\ TTL \in Nat
  /\ Second \in Nat \ {0}
  /\ NoRow \notin ShareRow
  /\ Never \notin Int
  /\ Idle \notin ReadRec \cup ListRec

TypeOK ==
  /\ now \in Times
  /\ epoch \in Epochs
  /\ shares \in Rows
  /\ nextTok \in 1..(MaxTok + 1)
  /\ previews \subseteq PreviewTokens
  /\ req \in [Requests -> ReadRec \cup ListRec \cup {Idle}]
  /\ entitled \in [Requests -> BOOLEAN]

\* The process may start on the rows an older schema left, each with a token
\* of its own: at most one of them here, on link token 1.
Init ==
  /\ now = 0
  /\ epoch = 1
  /\ \/ shares = [s \in Shares |-> NoRow] /\ nextTok = 1
     \/ /\ \E s \in Shares, row \in ShareRow :
             /\ row.token = 1 /\ ~row.raw
             /\ shares = [x \in Shares |-> IF x = s THEN row ELSE NoRow]
        /\ nextTok = 2
  /\ previews = {}
  /\ req = [r \in Requests |-> Idle]
  /\ entitled = [r \in Requests |-> FALSE]

-----------------------------------------------------------------------------
\* Mutant: a share is still good at the moment it expires.
ExpiredAfter(row) == row.expires # Never /\ row.expires < now

\* _is_expired
Expired(row) == row.expires # Never /\ row.expires <= now

\* The checks of resolve_share.
Accessible(row) == ~row.revoked /\ ~Expired(row) /\ row.mode

\* int(timestamp()): tokens count whole seconds.
Seconds == now \div Second

\* Mutant: the life of a preview is taken off the clock.
NewPreviewBackwards(s) ==
  [kind |-> "preview", share |-> s, expires |-> Seconds - TTL, epoch |-> epoch,
   at |-> now]

NewPreview(s) ==
  [kind |-> "preview", share |-> s, expires |-> Seconds + TTL, epoch |-> epoch,
   at |-> now]

\* Mutant: a preview is refused in the second it expires.
PreviewValidBefore(p) == p.expires > Seconds /\ p.epoch = epoch

\* _preview_share_id: in time, and signed with the secret of this process.
PreviewValid(p) == p.expires >= Seconds /\ p.epoch = epoch

-----------------------------------------------------------------------------
\* What changes a share (create_local_share, commit_nas_share, revoke_share)

\* A share that is not revoked keeps its link, unless only its hash is known.
KeepsLink(s) == shares[s] # NoRow /\ ~shares[s].revoked /\ shares[s].raw

\* The expiry may be any time, past ones included: only its form is checked.
UpsertShare(s) ==
  /\ KeepsLink(s) \/ nextTok <= MaxTok
  /\ \E e \in Times \cup {Never} :
       shares' = [shares EXCEPT ![s] =
         [token |-> IF KeepsLink(s) THEN shares[s].token ELSE nextTok,
          raw |-> TRUE, mode |-> TRUE, expires |-> e, revoked |-> FALSE]]
  /\ nextTok' = IF KeepsLink(s) THEN nextTok ELSE nextTok + 1
  /\ UNCHANGED <<now, epoch, previews, req>>

RevokeShare(s) ==
  /\ shares[s] # NoRow
  /\ ~shares[s].revoked
  /\ shares' = [shares EXCEPT ![s].revoked = TRUE]
  /\ UNCHANGED <<now, epoch, nextTok, previews, req>>

-----------------------------------------------------------------------------
\* resolve_share and read_share_content

\* _share_row by the hash of the token.
FindByHash(r, tok) ==
  /\ req[r] = Idle
  /\ tok.kind = "link"
  /\ \E s \in Shares :
       /\ shares[s] # NoRow
       /\ shares[s].token = tok.link
       /\ req' = [req EXCEPT ![r] = [pc |-> "check", token |-> tok, share |-> s,
                                     row |-> shares[s]]]
  /\ UNCHANGED <<now, epoch, shares, nextTok, previews>>

\* No share has the hash of a preview token: it is checked instead, and the
\* share is looked up in a second query.
CheckPreview(r, tok) ==
  /\ req[r] = Idle
  /\ tok.kind = "preview"
  /\ PreviewValid(tok)
  /\ req' = [req EXCEPT ![r] = [pc |-> "byid", token |-> tok, share |-> tok.share,
                                row |-> NoRow]]
  /\ UNCHANGED <<now, epoch, shares, nextTok, previews>>

FindById(r) ==
  /\ req[r] # Idle /\ req[r].pc = "byid"
  /\ req' = [req EXCEPT ![r] =
       IF shares[req[r].share] = NoRow
       THEN Idle ELSE [@ EXCEPT !.pc = "check", !.row = shares[req[r].share]]]
  /\ UNCHANGED <<now, epoch, shares, nextTok, previews>>

\* The row read before is checked against the clock of now.
CheckShare(r) ==
  /\ req[r] # Idle /\ req[r].pc = "check"
  /\ req' = [req EXCEPT ![r] = IF Accessible(req[r].row) THEN [@ EXCEPT !.pc = "open"]
                                                         ELSE Idle]
  /\ UNCHANGED <<now, epoch, shares, nextTok, previews>>

\* The version's file is read and the request answered.
ServeContent(r) ==
  /\ req[r] # Idle /\ req[r].pc = "open"
  /\ req' = [req EXCEPT ![r] = Idle]
  /\ UNCHANGED <<now, epoch, shares, nextTok, previews>>

-----------------------------------------------------------------------------
\* list_created_shares

ListShares(r) ==
  /\ req[r] = Idle
  /\ req' = [req EXCEPT ![r] = [pc |-> "mint", rows |-> shares]]
  /\ UNCHANGED <<now, epoch, shares, nextTok, previews>>

\* A preview for every share the query returned that still is accessible.
MintPreviews(r) ==
  /\ req[r] # Idle /\ req[r].pc = "mint"
  /\ previews' = previews \cup
       {NewPreview(s) : s \in {x \in Shares : /\ req[r].rows[x] # NoRow
                                              /\ Accessible(req[r].rows[x])}}
  /\ req' = [req EXCEPT ![r] = Idle]
  /\ UNCHANGED <<now, epoch, shares, nextTok>>

-----------------------------------------------------------------------------
Tick ==
  /\ now < MaxTime
  /\ now' = now + 1
  /\ UNCHANGED <<epoch, shares, nextTok, previews, req>>

\* create_app gives the service no secret: each start draws one.
Restart ==
  /\ epoch < MaxEpoch
  /\ epoch' = epoch + 1
  /\ req' = [r \in Requests |-> Idle]
  /\ UNCHANGED <<now, shares, nextTok, previews>>

\* A token names a share: a link the one that has it now, a preview always
\* the same one.
Names(tok, s) ==
  IF tok.kind = "link" THEN shares[s] # NoRow /\ shares[s].token = tok.link
                       ELSE tok.share = s

GivesAccess(tok) ==
  \E s \in Shares :
    /\ Names(tok, s)
    /\ shares[s] # NoRow
    /\ ~shares[s].revoked
    /\ shares[s].mode
    /\ shares[s].expires = Never \/ now < shares[s].expires

Reads(r) == req[r] # Idle /\ req[r].pc # "mint"

\* History, in every step.
Watch ==
  entitled' = [r \in Requests |->
    Reads(r)' /\ ((Reads(r) /\ entitled[r]) \/ GivesAccess(req[r].token)')]

Tokens == LinkTokens \cup previews

Next ==
  /\ \/ \E s \in Shares : UpsertShare(s) \/ RevokeShare(s)
     \/ \E r \in Requests, tok \in Tokens : FindByHash(r, tok) \/ CheckPreview(r, tok)
     \/ \E r \in Requests : \/ FindById(r) \/ CheckShare(r) \/ ServeContent(r)
                            \/ ListShares(r) \/ MintPreviews(r)
     \/ Tick
     \/ Restart
  /\ Watch

Spec == Init /\ [][Next]_vars

-----------------------------------------------------------------------------
\* Content is served only if the token of the request gave access (its share
\* stored, not revoked, not expired) at one moment since the request began:
\* whatever is revoked, shared again, expires or is restarted between its
\* calls, the answer is one that an uninterrupted request could have got.
ServedWasEntitled ==
  \A r \in Requests : Reads(r) /\ req[r].pc = "open" => entitled[r]

\* A preview is good for TTL seconds wherever in a second it was issued, until
\* a restart, and for less than one second more (its times are whole seconds).
PreviewLifetime ==
  \A p \in previews :
    /\ p.epoch = epoch /\ now <= p.at + TTL * Second => PreviewValid(p)
    /\ PreviewValid(p) => p.epoch = epoch /\ now < p.at + (TTL + 1) * Second

=============================================================================
