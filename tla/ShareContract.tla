---------------------------- MODULE ShareContract ----------------------------
(***************************************************************************)
(* What a user is promised of the links the Hub issues: a link stands for  *)
(* one content from the moment it is issued, it stops only by a            *)
(* revocation, and a revoked link never works again.                       *)
(***************************************************************************)
CONSTANTS Toks, Contents, NoFile

VARIABLE link  \* the state of each token and the content it gives access to

Unissued == [state |-> "unissued", content |-> NoFile]
Revoked  == [state |-> "revoked", content |-> NoFile]
Live(c)  == [state |-> "live", content |-> c]

Init == link = [tok \in Toks |-> Unissued]

Issue(tok, c) ==
  /\ link[tok] = Unissued
  /\ link' = [link EXCEPT ![tok] = Live(c)]

Revoke(tok) ==
  /\ link[tok].state = "live"
  /\ link' = [link EXCEPT ![tok] = Revoked]

Next == \E tok \in Toks : Revoke(tok) \/ \E c \in Contents : Issue(tok, c)

Spec == Init /\ [][Next]_link

=============================================================================
