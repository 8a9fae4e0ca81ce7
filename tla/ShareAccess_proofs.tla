-------------------------- MODULE ShareAccess_proofs --------------------------
(***************************************************************************)
(* Proofs about module ShareAccess, for every value of its constants.      *)
(***************************************************************************)
EXTENDS ShareAccess, TLAPS

(***************************************************************************)
(* Type correctness                                                        *)
(***************************************************************************)

\* A time counted in whole seconds is a natural number, however ticks divide.
LEMMA SecondsNat ==
  ASSUME TypeOK
  PROVE  Seconds + TTL \in Nat
<1>1. now \in Nat /\ Second \in Nat \ {0} /\ TTL \in Nat
  BY AccessAssumption DEF TypeOK, Times
<1>2. now \div Second \in Nat
  BY <1>1
<1>. QED BY <1>1, <1>2 DEF Seconds

LEMMA TypeInit == Init => TypeOK
<1> SUFFICES ASSUME Init PROVE TypeOK
  OBVIOUS
<1>1. now \in Times /\ epoch \in Epochs /\ nextTok \in 1..(MaxTok + 1)
  <2>1. 1 \in 1..(MaxTok + 1)
    BY AccessAssumption
  <2>2. CASE nextTok = 2
    <3>1. PICK row \in ShareRow : row.token = 1
      BY <2>2 DEF Init
    <3>2. 1 \in 1..MaxTok
      BY <3>1 DEF ShareRow
    <3>. QED BY <2>2, <3>2, AccessAssumption DEF Init, Times, Epochs
  <2>. QED BY <2>1, <2>2, AccessAssumption DEF Init, Times, Epochs
<1>2. shares \in Rows
  BY DEF Init, Rows
<1>. QED BY <1>1, <1>2 DEF Init, TypeOK

LEMMA TypeStep == TypeOK /\ [Next]_vars => TypeOK'
<1> SUFFICES ASSUME TypeOK, [Next]_vars PROVE TypeOK'
  OBVIOUS
<1> USE AccessAssumption
<1>1. CASE UNCHANGED vars
  BY <1>1 DEF TypeOK, vars
<1>2. CASE Next
  <2>1. entitled' \in [Requests -> BOOLEAN]
    BY <1>2 DEF Next, Watch, Reads
  <2>2. ASSUME NEW s \in Shares, UpsertShare(s) PROVE TypeOK'
    <3>1. PICK e \in Times \cup {Never} :
            shares' = [shares EXCEPT ![s] =
              [token |-> IF KeepsLink(s) THEN shares[s].token ELSE nextTok,
               raw |-> TRUE, mode |-> TRUE, expires |-> e, revoked |-> FALSE]]
      BY <2>2 DEF UpsertShare
    <3>2. KeepsLink(s) => shares[s] \in ShareRow
      BY DEF KeepsLink, TypeOK, Rows
    <3>3. (IF KeepsLink(s) THEN shares[s].token ELSE nextTok) \in 1..MaxTok
      BY <2>2, <3>2 DEF UpsertShare, TypeOK, ShareRow
    <3>4. [token |-> IF KeepsLink(s) THEN shares[s].token ELSE nextTok,
           raw |-> TRUE, mode |-> TRUE, expires |-> e, revoked |-> FALSE] \in ShareRow
      BY <3>3 DEF ShareRow
    <3>5. shares' \in Rows
      BY <3>1, <3>4 DEF TypeOK, Rows
    <3>6. nextTok' \in 1..(MaxTok + 1)
      BY <2>2 DEF UpsertShare, TypeOK
    <3>. QED BY <2>1, <2>2, <3>5, <3>6 DEF UpsertShare, TypeOK
  <2>3. ASSUME NEW s \in Shares, RevokeShare(s) PROVE TypeOK'
    <3>1. shares[s] \in ShareRow
      BY <2>3 DEF RevokeShare, TypeOK, Rows
    <3>2. [shares[s] EXCEPT !.revoked = TRUE] \in ShareRow
      BY <3>1 DEF ShareRow
    <3>3. shares' \in Rows
      BY <2>3, <3>2 DEF RevokeShare, TypeOK, Rows
    <3>. QED BY <2>1, <2>3, <3>3 DEF RevokeShare, TypeOK
  <2>4. ASSUME NEW r \in Requests, NEW tok \in Tokens,
               FindByHash(r, tok) \/ CheckPreview(r, tok)
        PROVE  TypeOK'
    <3>1. tok \in LinkTokens \cup PreviewTokens
      BY DEF Tokens, TypeOK
    <3>2. CASE FindByHash(r, tok)
      <4>1. PICK s \in Shares :
              /\ shares[s] # NoRow
              /\ req' = [req EXCEPT ![r] = [pc |-> "check", token |-> tok,
                                            share |-> s, row |-> shares[s]]]
        BY <3>2 DEF FindByHash
      <4>2. [pc |-> "check", token |-> tok, share |-> s, row |-> shares[s]] \in ReadRec
        BY <3>1 DEF ReadRec, TypeOK, Rows
      <4>3. req' \in [Requests -> ReadRec \cup ListRec \cup {Idle}]
        BY <4>1, <4>2 DEF TypeOK
      <4>. QED BY <2>1, <3>2, <4>3 DEF FindByHash, TypeOK
    <3>3. CASE CheckPreview(r, tok)
      <4>1. tok \in PreviewTokens
        BY <3>1, <3>3 DEF CheckPreview, LinkTokens
      <4>2. tok.share \in Shares
        BY <4>1 DEF PreviewTokens
      <4>3. [pc |-> "byid", token |-> tok, share |-> tok.share, row |-> NoRow] \in ReadRec
        BY <4>1, <4>2 DEF ReadRec
      <4>4. req' \in [Requests -> ReadRec \cup ListRec \cup {Idle}]
        BY <3>3, <4>3 DEF CheckPreview, TypeOK
      <4>. QED BY <2>1, <3>3, <4>4 DEF CheckPreview, TypeOK
    <3>. QED BY <2>4, <3>2, <3>3
  <2>5. ASSUME NEW r \in Requests,
               FindById(r) \/ CheckShare(r) \/ ServeContent(r) \/ ListShares(r)
        PROVE  TypeOK'
    <3>1. req[r] # Idle /\ req[r].pc # "mint" => req[r] \in ReadRec
      BY DEF TypeOK, ListRec
    <3>2. CASE FindById(r)
      <4>1. req[r] \in ReadRec /\ shares[req[r].share] \in ShareRow \cup {NoRow}
        BY <3>1, <3>2 DEF FindById, TypeOK, Rows, ReadRec
      <4>2. [req[r] EXCEPT !.pc = "check", !.row = shares[req[r].share]] \in ReadRec
        BY <4>1 DEF ReadRec
      <4>3. req' \in [Requests -> ReadRec \cup ListRec \cup {Idle}]
        BY <3>2, <4>2 DEF FindById, TypeOK
      <4>. QED BY <2>1, <3>2, <4>3 DEF FindById, TypeOK
    <3>3. CASE CheckShare(r)
      <4>1. req[r] \in ReadRec
        BY <3>1, <3>3 DEF CheckShare
      <4>2. [req[r] EXCEPT !.pc = "open"] \in ReadRec
        BY <4>1 DEF ReadRec
      <4>3. req' \in [Requests -> ReadRec \cup ListRec \cup {Idle}]
        BY <3>3, <4>2 DEF CheckShare, TypeOK
      <4>. QED BY <2>1, <3>3, <4>3 DEF CheckShare, TypeOK
    <3>4. CASE ServeContent(r)
      BY <2>1, <3>4 DEF ServeContent, TypeOK
    <3>5. CASE ListShares(r)
      <4>1. [pc |-> "mint", rows |-> shares] \in ListRec
        BY DEF ListRec, TypeOK
      <4>2. req' \in [Requests -> ReadRec \cup ListRec \cup {Idle}]
        BY <3>5, <4>1 DEF ListShares, TypeOK
      <4>. QED BY <2>1, <3>5, <4>2 DEF ListShares, TypeOK
    <3>. QED BY <2>5, <3>2, <3>3, <3>4, <3>5
  <2>6. ASSUME NEW r \in Requests, MintPreviews(r) PROVE TypeOK'
    <3>1. \A s \in Shares : NewPreview(s) \in PreviewTokens
      <4>1. Seconds + TTL \in Nat
        BY SecondsNat
      <4>. QED BY <4>1 DEF NewPreview, PreviewTokens, TypeOK
    <3>2. previews' \subseteq PreviewTokens
      BY <2>6, <3>1 DEF MintPreviews, TypeOK
    <3>3. req' \in [Requests -> ReadRec \cup ListRec \cup {Idle}]
      BY <2>6 DEF MintPreviews, TypeOK
    <3>. QED BY <2>1, <2>6, <3>2, <3>3 DEF MintPreviews, TypeOK
  <2>7. CASE Tick
    BY <2>1, <2>7 DEF Tick, TypeOK, Times
  <2>8. CASE Restart
    BY <2>1, <2>8 DEF Restart, TypeOK, Epochs
  <2>. QED BY <1>2, <2>2, <2>3, <2>4, <2>5, <2>6, <2>7, <2>8 DEF Next
<1>. QED BY <1>1, <1>2

\* Type correctness of the reading side, for every number of shares, requests
\* and tokens, and every length of clock, second and preview life.
THEOREM AccessTypeCorrect == Spec => []TypeOK
<1>1. Init => TypeOK
  BY TypeInit
<1>2. TypeOK /\ [Next]_vars => TypeOK'
  BY TypeStep
<1>. QED BY <1>1, <1>2, PTL DEF Spec

-----------------------------------------------------------------------------
(***************************************************************************)
(* Entitlement                                                             *)
(***************************************************************************)

(***************************************************************************)
(* A request that found its row holds a copy of it.  If the checks would   *)
(* pass the copy now, the row itself gave access when it was read: nothing *)
(* but the clock enters the checks later, and the clock only expires.      *)
(***************************************************************************)
Passes(row, t) ==
  ~row.revoked /\ row.mode /\ (row.expires = Never \/ ~(row.expires <= t))

Good(r) ==
  Reads(r) =>
    /\ req[r].pc = "byid" => /\ req[r].token.kind = "preview"
                             /\ req[r].token.share = req[r].share
    /\ req[r].pc = "check" => /\ req[r].row \in ShareRow
                              /\ Passes(req[r].row, now) => entitled[r]
    /\ req[r].pc = "open" => entitled[r]

EntitledInv == \A r \in Requests : Good(r)

LEMMA PassesNow == \A row : Accessible(row) <=> Passes(row, now)
  BY DEF Accessible, Expired, Passes

\* A step that leaves a request alone leaves it entitled.
LEMMA StillEntitled ==
  ASSUME Watch, NEW r \in Requests, Reads(r), entitled[r], req'[r] = req[r]
  PROVE  entitled'[r]
<1>1. Reads(r)'
  BY DEF Reads
<1>2. entitled'[r] = (Reads(r)' /\ ((Reads(r) /\ entitled[r]) \/ GivesAccess(req[r].token)'))
  BY DEF Watch
<1>. QED BY <1>1, <1>2

\* A step that does not touch a request keeps what EntitledInv says of it: the
\* clock does not go back, so a copy good now was good before.
LEMMA OtherRequests ==
  ASSUME TypeOK, TypeOK', Watch, now' >= now, NEW r \in Requests,
         req'[r] = req[r], Good(r)
  PROVE  Good(r)'
<1> SUFFICES ASSUME Reads(r)' PROVE Good(r)'
  BY DEF Good
<1>1. Reads(r)
  BY DEF Reads
<1>2. ASSUME req[r].pc = "check", Passes(req[r].row, now') PROVE entitled'[r]
  <2>1. req[r].row \in ShareRow /\ (Passes(req[r].row, now) => entitled[r])
    BY <1>1, <1>2 DEF Good
  <2>2. now \in Int /\ now' \in Int
    BY AccessAssumption DEF TypeOK, Times
  <2>3. req[r].row.expires = Never \/ req[r].row.expires \in Int
    BY <2>1, AccessAssumption DEF ShareRow, Times
  <2>4. Passes(req[r].row, now)
    BY <1>2, <2>2, <2>3 DEF Passes
  <2>. QED BY <1>1, <2>1, <2>4, StillEntitled
<1>. QED BY <1>1, <1>2, StillEntitled DEF Good

\* A request that has just read a row that passes the checks is entitled.
LEMMA FreshRow ==
  ASSUME TypeOK', Watch, UNCHANGED <<now, shares>>, NEW r \in Requests, Reads(r)',
         NEW s \in Shares, shares[s] # NoRow, Passes(shares[s], now),
         Names(req[r].token, s)'
  PROVE  entitled'[r]
<1>1. shares'[s] \in ShareRow
  BY DEF TypeOK, Rows
<1>2. shares'[s].expires = Never \/ now' < shares'[s].expires
  BY <1>1, AccessAssumption DEF Passes, ShareRow, TypeOK, Times
<1>3. GivesAccess(req[r].token)'
  BY <1>2 DEF GivesAccess, Passes
<1>. QED BY <1>3 DEF Watch

LEMMA EntitledStep == TypeOK /\ TypeOK' /\ EntitledInv /\ [Next]_vars => EntitledInv'
<1> SUFFICES ASSUME TypeOK, TypeOK', \A r \in Requests : Good(r), [Next]_vars,
                    NEW r \in Requests
             PROVE  Good(r)'
  BY DEF EntitledInv
<1> USE AccessAssumption
<1>0. req \in [Requests -> ReadRec \cup ListRec \cup {Idle}]
  BY DEF TypeOK
<1>1. CASE UNCHANGED vars
  BY <1>1 DEF vars, Good, Reads
<1>2. CASE Next
  <2>0. Watch
    BY <1>2 DEF Next
  <2>1. ASSUME now' >= now, req'[r] = req[r] PROVE Good(r)'
    BY <2>0, <2>1, OtherRequests
  <2>2. now' = now => now' >= now
    BY DEF TypeOK, Times
  <2>3. ASSUME NEW s \in Shares, UpsertShare(s) \/ RevokeShare(s) PROVE Good(r)'
    BY <2>1, <2>2, <2>3 DEF UpsertShare, RevokeShare
  <2>4. ASSUME NEW x \in Requests, NEW tok \in Tokens, FindByHash(x, tok) PROVE Good(r)'
    <3>1. PICK s \in Shares :
            /\ shares[s] # NoRow
            /\ shares[s].token = tok.link
            /\ req' = [req EXCEPT ![x] = [pc |-> "check", token |-> tok,
                                          share |-> s, row |-> shares[s]]]
      BY <2>4 DEF FindByHash
    <3>2. CASE r = x
      <4>1. req'[r] = [pc |-> "check", token |-> tok, share |-> s, row |-> shares[s]]
        BY <1>0, <3>1, <3>2
      <4>2. shares[s] \in ShareRow
        BY <3>1 DEF TypeOK, Rows
      <4>3. Names(req[r].token, s)'
        BY <2>4, <3>1, <4>1 DEF Names, FindByHash
      <4>4. Passes(shares[s], now) /\ Reads(r)' => entitled'[r]
        BY <2>0, <2>4, <3>1, <4>3, FreshRow DEF FindByHash
      <4>. QED BY <2>4, <4>1, <4>2, <4>4 DEF Good, FindByHash
    <3>3. CASE r # x
      BY <1>0, <2>1, <2>2, <2>4, <3>1, <3>3 DEF FindByHash
    <3>. QED BY <3>2, <3>3
  <2>5. ASSUME NEW x \in Requests, NEW tok \in Tokens, CheckPreview(x, tok) PROVE Good(r)'
    <3>1. CASE r = x
      <4>1. req'[r] = [pc |-> "byid", token |-> tok, share |-> tok.share, row |-> NoRow]
        BY <1>0, <2>5, <3>1 DEF CheckPreview
      <4>. QED BY <2>5, <4>1 DEF Good, CheckPreview
    <3>2. CASE r # x
      BY <1>0, <2>1, <2>2, <2>5, <3>2 DEF CheckPreview
    <3>. QED BY <3>1, <3>2
  <2>6. ASSUME NEW x \in Requests, FindById(x) PROVE Good(r)'
    <3>1. CASE r = x /\ shares[req[x].share] # NoRow
      <4> DEFINE s == req[r].share
      <4>1. Reads(r) /\ req[r].token.kind = "preview" /\ req[r].token.share = s
        BY <2>6, <3>1 DEF FindById, Good, Reads
      <4>2. req[r] \in ReadRec
        BY <1>0, <4>1 DEF Reads, ListRec
      <4>3. s \in Shares /\ shares[s] \in ShareRow
        BY <3>1, <4>2 DEF ReadRec, TypeOK, Rows
      <4>4. /\ req'[r] = [req[r] EXCEPT !.pc = "check", !.row = shares[s]]
            /\ UNCHANGED <<now, shares>>
        BY <1>0, <2>6, <3>1 DEF FindById
      <4>5. /\ req'[r].pc = "check"
            /\ req'[r].row = shares[s]
            /\ req'[r].token = req[r].token
        BY <4>2, <4>4 DEF ReadRec
      <4>6. PICK z \in Shares : z = s
        BY <4>3
      <4>7. Names(req[r].token, z)'
        BY <4>1, <4>5, <4>6 DEF Names
      <4>8. Passes(shares[z], now) /\ Reads(r)' => entitled'[r]
        BY <2>0, <3>1, <4>4, <4>6, <4>7, FreshRow
      <4>. QED BY <4>3, <4>4, <4>5, <4>6, <4>8 DEF Good
    <3>2. CASE r = x /\ shares[req[x].share] = NoRow
      BY <1>0, <2>6, <3>2 DEF FindById, Good, Reads
    <3>3. CASE r # x
      BY <1>0, <2>1, <2>2, <2>6, <3>3 DEF FindById
    <3>. QED BY <3>1, <3>2, <3>3
  <2>7. ASSUME NEW x \in Requests, CheckShare(x) PROVE Good(r)'
    <3>1. CASE r = x /\ Accessible(req[x].row)
      <4>1. Reads(r) /\ Passes(req[r].row, now)
        BY <2>7, <3>1, PassesNow DEF CheckShare, Reads
      <4>2. entitled[r]
        BY <2>7, <3>1, <4>1 DEF CheckShare, Good
      <4>3. req[r] \in ReadRec
        BY <1>0, <4>1 DEF Reads, ListRec
      <4>4. req'[r] = [req[r] EXCEPT !.pc = "open"]
        BY <1>0, <2>7, <3>1 DEF CheckShare
      <4>5. req'[r].pc = "open"
        BY <4>3, <4>4 DEF ReadRec
      <4>6. Reads(r)' => entitled'[r]
        BY <2>0, <4>1, <4>2 DEF Watch
      <4>. QED BY <4>5, <4>6 DEF Good
    <3>2. CASE r = x /\ ~Accessible(req[x].row)
      BY <1>0, <2>7, <3>2 DEF CheckShare, Good, Reads
    <3>3. CASE r # x
      BY <1>0, <2>1, <2>2, <2>7, <3>3 DEF CheckShare
    <3>. QED BY <3>1, <3>2, <3>3
  <2>8. ASSUME NEW x \in Requests, ServeContent(x) \/ MintPreviews(x) PROVE Good(r)'
    <3>1. CASE r = x
      BY <1>0, <2>8, <3>1 DEF ServeContent, MintPreviews, Good, Reads
    <3>2. CASE r # x
      BY <1>0, <2>1, <2>2, <2>8, <3>2 DEF ServeContent, MintPreviews
    <3>. QED BY <3>1, <3>2
  <2>9. ASSUME NEW x \in Requests, ListShares(x) PROVE Good(r)'
    <3>1. CASE r = x
      <4>1. req'[r] = [pc |-> "mint", rows |-> shares]
        BY <1>0, <2>9, <3>1 DEF ListShares
      <4>. QED BY <4>1 DEF Good, Reads
    <3>2. CASE r # x
      BY <1>0, <2>1, <2>2, <2>9, <3>2 DEF ListShares
    <3>. QED BY <3>1, <3>2
  <2>10. CASE Tick
    BY <2>1, <2>10 DEF Tick, TypeOK, Times
  <2>11. CASE Restart
    BY <2>11 DEF Restart, Good, Reads
  <2>. QED BY <1>2, <2>3, <2>4, <2>5, <2>6, <2>7, <2>8, <2>9, <2>10, <2>11 DEF Next
<1>. QED BY <1>1, <1>2

\* Content is served only to a request whose token gave access at one moment
\* since the request began, for every interleaving of requests with changes of
\* the shares, the clock and restarts.
THEOREM ServedRequestsWereEntitled == Spec => []ServedWasEntitled
<1>1. Init => EntitledInv
  BY DEF Init, EntitledInv, Good, Reads
<1>2. TypeOK /\ TypeOK' /\ EntitledInv /\ [Next]_vars => EntitledInv'
  BY EntitledStep
<1>3. EntitledInv => ServedWasEntitled
  BY DEF EntitledInv, Good, ServedWasEntitled
<1>. QED BY <1>1, <1>2, <1>3, AccessTypeCorrect, PTL DEF Spec

-----------------------------------------------------------------------------
(***************************************************************************)
(* The life of a preview token                                             *)
(***************************************************************************)

\* What a token says of its own issue.
PreviewInv ==
  \A p \in previews :
    /\ p.at <= now
    /\ p.expires = (p.at \div Second) + TTL

LEMMA DivBounds ==
  ASSUME NEW n \in Nat, NEW d \in Nat \ {0}
  PROVE  /\ n \div d \in Nat
         /\ d * (n \div d) <= n
         /\ n < d * (n \div d) + d
  OBVIOUS

LEMMA TimesMonotone ==
  ASSUME NEW a \in Nat, NEW b \in Nat, NEW d \in Nat \ {0}, a <= b
  PROVE  d * a <= d * b
  OBVIOUS

LEMMA TimesDistributes ==
  ASSUME NEW a \in Nat, NEW b \in Nat, NEW d \in Nat
  PROVE  /\ d * (a + b + 1) = d * a + b * d + d
         /\ d * (a + b) = d * a + b * d
         /\ (b + 1) * d = b * d + d
  OBVIOUS

\* A time not after TTL seconds from another is at most TTL whole seconds
\* later, and TTL whole seconds later is before TTL + 1 seconds from it.
LEMMA WholeSeconds ==
  ASSUME NEW a \in Nat, NEW n \in Nat, NEW k \in Nat, NEW d \in Nat \ {0}
  PROVE  /\ n <= a + k * d => (a \div d) + k >= n \div d
         /\ (a \div d) + k >= n \div d => n < a + (k + 1) * d
<1>1. PICK q \in Nat : q = a \div d /\ d * q <= a /\ a < d * q + d
  BY DivBounds
<1>2. PICK m \in Nat : m = n \div d /\ d * m <= n /\ n < d * m + d
  BY DivBounds
<1>3. /\ d * (q + k + 1) = d * q + k * d + d
      /\ d * (q + k) = d * q + k * d
      /\ (k + 1) * d = k * d + d
  BY TimesDistributes
<1>4. PICK x \in Nat, y \in Nat, z \in Nat : x = d * q /\ y = d * m /\ z = k * d
  OBVIOUS
<1>5. ASSUME n <= a + k * d PROVE q + k >= m
  <2>1. SUFFICES ASSUME q + k + 1 <= m PROVE FALSE
    OBVIOUS
  <2>2. d * (q + k + 1) <= d * m
    BY <2>1, TimesMonotone
  <2>3. x + z + d <= y
    BY <1>3, <1>4, <2>2
  <2>4. y <= n /\ n <= a + z /\ a < x + d
    BY <1>1, <1>2, <1>4, <1>5
  <2>. QED BY <2>3, <2>4
<1>6. ASSUME q + k >= m PROVE n < a + (k + 1) * d
  <2>1. d * m <= d * (q + k)
    BY <1>6, TimesMonotone
  <2>2. y <= x + z
    BY <1>3, <1>4, <2>1
  <2>3. n < y + d /\ x <= a
    BY <1>1, <1>2, <1>4
  <2>4. n < a + (z + d)
    BY <2>2, <2>3
  <2>. QED BY <1>3, <1>4, <2>4
<1>. QED BY <1>1, <1>2, <1>5, <1>6

LEMMA PreviewStep == TypeOK /\ PreviewInv /\ [Next]_vars => PreviewInv'
<1> SUFFICES ASSUME TypeOK, PreviewInv, [Next]_vars PROVE PreviewInv'
  OBVIOUS
<1> USE AccessAssumption
<1>0. now \in Int /\ \A p \in previews : p.at \in Int
  BY DEF TypeOK, PreviewTokens, Times
<1>1. CASE UNCHANGED vars
  BY <1>1 DEF vars, PreviewInv
<1>2. CASE Next
  <2>1. ASSUME UNCHANGED <<now, previews>> PROVE PreviewInv'
    BY <2>1 DEF PreviewInv
  <2>2. ASSUME NEW s \in Shares, UpsertShare(s) \/ RevokeShare(s) PROVE PreviewInv'
    BY <2>1, <2>2 DEF UpsertShare, RevokeShare
  <2>3. ASSUME NEW r \in Requests, NEW tok \in Tokens,
               FindByHash(r, tok) \/ CheckPreview(r, tok)
        PROVE  PreviewInv'
    BY <2>1, <2>3 DEF FindByHash, CheckPreview
  <2>4. ASSUME NEW r \in Requests,
               FindById(r) \/ CheckShare(r) \/ ServeContent(r) \/ ListShares(r)
        PROVE  PreviewInv'
    BY <2>1, <2>4 DEF FindById, CheckShare, ServeContent, ListShares
  <2>5. ASSUME NEW r \in Requests, MintPreviews(r) PROVE PreviewInv'
    <3>1. now' = now
      BY <2>5 DEF MintPreviews
    <3>2. ASSUME NEW p \in previews' PROVE p.at <= now /\ p.expires = (p.at \div Second) + TTL
      <4>1. CASE p \in previews
        BY <4>1 DEF PreviewInv
      <4>2. CASE \E s \in Shares : p = NewPreview(s)
        <5>1. p.at = now /\ p.expires = Seconds + TTL
          BY <4>2 DEF NewPreview
        <5>. QED BY <1>0, <5>1 DEF Seconds
      <4>. QED BY <2>5, <3>2, <4>1, <4>2 DEF MintPreviews
    <3>. QED BY <3>1, <3>2 DEF PreviewInv
  <2>6. CASE Tick
    BY <1>0, <2>6 DEF Tick, PreviewInv
  <2>7. CASE Restart
    BY <2>1, <2>7 DEF Restart
  <2>. QED BY <1>2, <2>2, <2>3, <2>4, <2>5, <2>6, <2>7 DEF Next
<1>. QED BY <1>1, <1>2

LEMMA PreviewsLive == TypeOK /\ PreviewInv => PreviewLifetime
<1> SUFFICES ASSUME TypeOK, PreviewInv, NEW p \in previews
             PROVE  /\ p.epoch = epoch /\ now <= p.at + TTL * Second => PreviewValid(p)
                    /\ PreviewValid(p) => p.epoch = epoch /\ now < p.at + (TTL + 1) * Second
  BY DEF PreviewLifetime
<1>1. now \in Nat /\ p.at \in Nat /\ TTL \in Nat /\ Second \in Nat \ {0}
  BY AccessAssumption DEF TypeOK, PreviewTokens, Times
<1>2. p.expires = (p.at \div Second) + TTL
  BY DEF PreviewInv
<1>. QED BY <1>1, <1>2, WholeSeconds DEF PreviewValid, Seconds

\* For every length of second and of preview life: a preview is good for TTL
\* seconds after its issue, and is refused from TTL + 1 seconds on, or by
\* another process.
THEOREM PreviewLivesItsTime == Spec => []PreviewLifetime
<1>1. Init => PreviewInv
  BY DEF Init, PreviewInv
<1>2. TypeOK /\ PreviewInv /\ [Next]_vars => PreviewInv'
  BY PreviewStep
<1>. QED BY <1>1, <1>2, PreviewsLive, AccessTypeCorrect, PTL DEF Spec

=============================================================================
