-------------------------- MODULE FilePicker_proofs ---------------------------
(***************************************************************************)
(* Proofs about module FilePicker, for every set of names, every limit on  *)
(* the entries and any number of changes of the workspace.                 *)
(***************************************************************************)
EXTENDS FilePicker, FiniteSetTheorems, TLAPS

(***************************************************************************)
(* One call at most is not aborted, and only while the picker is loading   *)
(* the directory it names.                                                 *)
(***************************************************************************)
Alive(s) == calls[s] # NoCall /\ ~calls[s].aborted

AliveInv ==
  \A s \in Slots : Alive(s) =>
    /\ picker.open /\ picker.loading
    /\ calls[s].dir = picker.dir
    /\ \A r \in Slots : Alive(r) => r = s

(***************************************************************************)
(* The host's walk: what is listed was there at some moment, a name that   *)
(* is neither listed nor left was none of a file or directory at some      *)
(* moment, and the walk stops early only when it has all it may have.      *)
(***************************************************************************)
Walked(c) ==
  /\ IsFiniteSet(c.entries) /\ Cardinality(c.entries) <= MaxEntries
  /\ \A e \in c.entries : e.kind \in c.been[e.name]
  /\ c.stage \in {"scan", "listed"} =>
       \A n \in Names : \/ n \in c.left
                        \/ \E e \in c.entries : e.name = n
                        \/ ~(c.been[n] \subseteq {"file", "directory"})
  /\ c.stage = "listed" /\ c.left # {} => Full(c)

Watched(c, t) == c.stage \in {"sent", "scan"} => \A n \in Names : KindAt(t, c.dir, n) \in c.been[n]

WalkInv == \A s \in Slots : Alive(s) => Walked(calls[s]) /\ Watched(calls[s], tree)

PickerInv == TypeOK /\ AliveInv /\ WalkInv /\ ListingIsTrue

-----------------------------------------------------------------------------
\* Types

LEMMA KindIsKind ==
  ASSUME NEW t \in [Dirs -> [Names -> Kinds]], NEW d \in Dirs, NEW n \in Names
  PROVE  KindAt(t, d, n) \in Kinds
BY DEF KindAt, Kinds

LEMMA SeenType ==
  ASSUME NEW t \in [Dirs -> [Names -> Kinds]], NEW c \in Call
  PROVE  Seen(c, t) \in [Names -> SUBSET Kinds]
<1>1. c.been \in [Names -> SUBSET Kinds] /\ c.dir \in Dirs
  BY DEF Call
<1>2. \A n \in Names : c.been[n] \cup {KindAt(t, c.dir, n)} \in SUBSET Kinds
  BY <1>1, KindIsKind
<1> QED BY <1>2 DEF Seen

LEMMA CallType ==
  ASSUME TypeOK, NEW s \in Slots, calls[s] # NoCall
  PROVE  /\ calls[s] \in Call
         /\ calls[s].dir \in Dirs /\ calls[s].left \subseteq Names /\ calls[s].entries \subseteq Entries
         /\ calls[s].been \in [Names -> SUBSET Kinds] /\ calls[s].aborted \in BOOLEAN
<1>1. calls[s] \in Call
  BY DEF TypeOK
<1> QED BY <1>1 DEF Call

LEMMA NothingType == Nothing \in [Names -> SUBSET Kinds]
BY DEF Nothing

LEMMA ClosedType ==
  Closed \in [open : BOOLEAN, dir : Dirs, listing : Listing \cup {NoListing},
              loading : BOOLEAN, error : BOOLEAN]
BY DEF Closed, Dirs, Top

LEMMA AbortAllType ==
  ASSUME TypeOK
  PROVE  AbortAll \in [Slots -> Call \cup {NoCall}]
<1>1. ASSUME NEW s \in Slots, calls[s] # NoCall
      PROVE  [calls[s] EXCEPT !.aborted = TRUE, !.been = Nothing] \in Call
  BY <1>1, CallType, NothingType DEF Call
<1> QED BY <1>1 DEF AbortAll

LEMMA LoadType ==
  ASSUME TypeOK, NEW d \in Dirs, Load(d)
  PROVE  calls' \in [Slots -> Call \cup {NoCall}]
<1>1. [n \in Names |-> {KindAt(tree, d, n)}] \in [Names -> SUBSET Kinds]
  BY KindIsKind DEF TypeOK
<1>2. [dir |-> d, stage |-> "sent", left |-> {}, entries |-> {}, aborted |-> FALSE,
       been |-> [n \in Names |-> {KindAt(tree, d, n)}]] \in Call
  BY <1>1 DEF Call
<1> QED BY <1>2, AbortAllType DEF Load

LEMMA InitTypeOK == Init => TypeOK
<1> SUFFICES ASSUME Init PROVE TypeOK
  OBVIOUS
<1>1. tree \in [Dirs -> [Names -> Kinds]]
  BY DEF Init, Kinds
<1>2. ASSUME NEW r \in Record, NEW cwd \in BOOLEAN
      PROVE  ProducedPaths({r}, cwd) \subseteq Dirs \X Names
  BY PickerAssumption DEF ProducedPaths, Relative, Record
<1>3. produced \subseteq Dirs \X Names
  BY <1>2 DEF Init
<1> QED BY <1>1, <1>3, NothingType, ClosedType, PickerAssumption DEF Init, TypeOK

LEMMA UpdateType ==
  ASSUME TypeOK, NEW s \in Slots, NEW c \in Call, Update(s, c)
  PROVE  TypeOK'
BY DEF TypeOK, Update

LEMMA NextTypeOK == TypeOK /\ [Next]_vars => TypeOK'
<1> SUFFICES ASSUME TypeOK, [Next]_vars PROVE TypeOK'
  OBVIOUS
<1>1. CASE WorkspaceChanges
  <2>1. tree' \in [Dirs -> [Names -> Kinds]]
    BY <1>1 DEF WorkspaceChanges, TypeOK
  <2>2. ASSUME NEW s \in Slots, calls[s] # NoCall
        PROVE  [calls[s] EXCEPT !.been = Seen(calls[s], tree')] \in Call
    <3>1. Seen(calls[s], tree') \in [Names -> SUBSET Kinds]
      BY <2>1, <2>2, SeenType, CallType
    <3> QED BY <3>1, <2>2, CallType DEF Call
  <2>3. calls' \in [Slots -> Call \cup {NoCall}]
    BY <1>1, <2>2, CallType DEF WorkspaceChanges
  <2>4. churn' \in 0..MaxChurn
    BY <1>1, PickerAssumption DEF WorkspaceChanges, TypeOK
  <2> QED BY <1>1, <2>1, <2>3, <2>4 DEF WorkspaceChanges, TypeOK
<1>2. CASE OpenPicker
  <2>1. calls' \in [Slots -> Call \cup {NoCall}]
    BY <1>2, LoadType DEF OpenPicker, Dirs
  <2>2. [Closed EXCEPT !.open = TRUE, !.loading = TRUE]
          \in [open : BOOLEAN, dir : Dirs, listing : Listing \cup {NoListing},
               loading : BOOLEAN, error : BOOLEAN]
    BY ClosedType
  <2> QED BY <1>2, <2>1, <2>2, NothingType DEF OpenPicker, TypeOK
<1>3. CASE ClosePicker
  BY <1>3, AbortAllType, NothingType, ClosedType DEF ClosePicker, TypeOK
<1>4. ASSUME NEW d \in Dirs, GoTo(d) PROVE TypeOK'
  <2>1. calls' \in [Slots -> Call \cup {NoCall}]
    BY <1>4, LoadType DEF GoTo
  <2> QED BY <1>4, <2>1, NothingType DEF GoTo, TypeOK
<1>5. ASSUME NEW s \in Slots, ReadNames(s) PROVE TypeOK'
  <2>1. calls[s] \in Call
    BY <1>5, CallType DEF ReadNames
  <2>2. [calls[s] EXCEPT !.stage = "scan",
           !.left = {n \in Names : KindAt(tree, calls[s].dir, n) # "absent"}] \in Call
    BY <2>1 DEF Call
  <2> QED BY <1>5, <2>2, UpdateType DEF ReadNames
<1>6. ASSUME NEW s \in Slots, LookAtNext(s) PROVE TypeOK'
  <2>1. calls[s] \in Call
    BY <1>6, CallType DEF LookAtNext, Scan
  <2>2. PICK n \in calls[s].left :
          Update(s, [calls[s] EXCEPT !.left = @ \ {n},
            !.entries = IF KindAt(tree, calls[s].dir, n) \in {"file", "directory"}
                        THEN @ \cup {[name |-> n, kind |-> KindAt(tree, calls[s].dir, n)]}
                        ELSE @])
    BY <1>6 DEF LookAtNext, Scan
  <2>3. n \in Names
    BY <2>1, <2>2 DEF Call
  <2>4. KindAt(tree, calls[s].dir, n) \in {"file", "directory"} =>
          [name |-> n, kind |-> KindAt(tree, calls[s].dir, n)] \in Entries
    BY <2>3 DEF Entries
  <2>5. [calls[s] EXCEPT !.left = @ \ {n},
            !.entries = IF KindAt(tree, calls[s].dir, n) \in {"file", "directory"}
                        THEN @ \cup {[name |-> n, kind |-> KindAt(tree, calls[s].dir, n)]}
                        ELSE @] \in Call
    BY <2>1, <2>4 DEF Call
  <2> QED BY <2>2, <2>5, UpdateType
<1>7. ASSUME NEW s \in Slots, Reply(s) PROVE TypeOK'
  <2>1. [calls[s] EXCEPT !.stage = "listed"] \in Call
    BY <1>7, CallType DEF Reply, Call
  <2> QED BY <1>7, <2>1, UpdateType DEF Reply
<1>8. ASSUME NEW s \in Slots, HostFails(s) PROVE TypeOK'
  <2>1. [calls[s] EXCEPT !.stage = "failed"] \in Call
    BY <1>8, CallType DEF HostFails, Call
  <2> QED BY <1>8, <2>1, UpdateType DEF HostFails
<1>9. ASSUME NEW s \in Slots, Land(s) PROVE TypeOK'
  <2>1. calls' \in [Slots -> Call \cup {NoCall}]
    BY <1>9 DEF Land, Landed, TypeOK
  <2>2. Listed(calls[s]) \in Listing
    BY <1>9, CallType DEF Land, Listed, Listing
  <2>3. calls[s].been \in [Names -> SUBSET Kinds]
    BY <1>9, CallType DEF Land
  <2>4. picker' \in [open : BOOLEAN, dir : Dirs, listing : Listing \cup {NoListing},
                     loading : BOOLEAN, error : BOOLEAN]
    BY <1>9, <2>2 DEF Land, TypeOK
  <2> QED BY <1>9, <2>1, <2>3, <2>4 DEF Land, Landed, TypeOK
<1>10. ASSUME NEW s \in Slots, LandError(s) PROVE TypeOK'
  BY <1>10 DEF LandError, Landed, TypeOK
<1>11. CASE UNCHANGED vars
  BY <1>11 DEF vars, TypeOK
<1> QED BY <1>1, <1>2, <1>3, <1>4, <1>5, <1>6, <1>7, <1>8, <1>9, <1>10, <1>11 DEF Next, Answers

\* Type correctness: every list, request and state of the picker is of its form,
\* whatever happens to the workspace.
THEOREM PickerTypeCorrect == Spec => []TypeOK
BY InitTypeOK, NextTypeOK, PTL DEF Spec

-----------------------------------------------------------------------------
\* What the steps of the host do to the invariant

LEMMA InitInv == Init => AliveInv /\ WalkInv /\ ListingIsTrue
BY DEF Init, AliveInv, WalkInv, Alive, ListingIsTrue, Closed

\* A picker whose list is untouched shows what it showed.
LEMMA ListingFrame ==
  ASSUME ListingIsTrue, UNCHANGED <<picker, been, produced>>
  PROVE  ListingIsTrue'
BY DEF ListingIsTrue, Shown

\* A call that goes on where it is asked to, or fails, stays the only one.
LEMMA UpdateAlive ==
  ASSUME AliveInv, NEW s \in Slots, NEW c, calls[s] # NoCall, calls \in [Slots -> Call \cup {NoCall}],
         c.dir = calls[s].dir, c.aborted = calls[s].aborted, Update(s, c)
  PROVE  AliveInv'
<1>1. \A r \in Slots : Alive(r)' => Alive(r) /\ calls'[r].dir = calls[r].dir
  BY DEF Update, Alive
<1>2. picker' = picker
  BY DEF Update
<1> QED BY <1>1, <1>2 DEF AliveInv

LEMMA UpdateInv ==
  ASSUME PickerInv, NEW s \in Slots, NEW c, calls[s] # NoCall,
         c.dir = calls[s].dir, c.aborted = calls[s].aborted, Update(s, c),
         Alive(s) => Walked(c) /\ Watched(c, tree)
  PROVE  AliveInv' /\ WalkInv' /\ ListingIsTrue'
<1>1. calls' = [calls EXCEPT ![s] = c] /\ tree' = tree /\ calls \in [Slots -> Call \cup {NoCall}]
  BY DEF Update, PickerInv, TypeOK
<1>2. ASSUME NEW r \in Slots, Alive(r)'
      PROVE  Walked(calls'[r]) /\ Watched(calls'[r], tree')
  <2>1. CASE r = s
    <3>1. Alive(s) /\ calls'[r] = c
      BY <1>1, <1>2, <2>1 DEF Alive
    <3> QED BY <3>1, <1>1
  <2>2. CASE r # s
    <3>1. Alive(r) /\ calls'[r] = calls[r]
      BY <1>1, <1>2, <2>2 DEF Alive
    <3> QED BY <3>1, <1>1 DEF PickerInv, WalkInv
  <2> QED BY <2>1, <2>2
<1>3. WalkInv'
  BY <1>2 DEF WalkInv, Walked, Watched, Full
<1>4. AliveInv'
  BY <1>1, UpdateAlive DEF PickerInv
<1>5. ListingIsTrue'
  BY ListingFrame DEF PickerInv, Update
<1> QED BY <1>3, <1>4, <1>5

LEMMA WalkOf ==
  ASSUME PickerInv, NEW s \in Slots, Alive(s)
  PROVE  Walked(calls[s]) /\ Watched(calls[s], tree)
BY DEF PickerInv, WalkInv

LEMMA ReadNamesInv ==
  ASSUME PickerInv, NEW s \in Slots, ReadNames(s)
  PROVE  AliveInv' /\ WalkInv' /\ ListingIsTrue'
<1> DEFINE c == [calls[s] EXCEPT !.stage = "scan",
                   !.left = {n \in Names : KindAt(tree, calls[s].dir, n) # "absent"}]
<1>1. calls[s] \in Call /\ calls[s].stage = "sent" /\ calls[s] # NoCall /\ Update(s, c)
  BY CallType DEF ReadNames, PickerInv
<1>2. /\ c.dir = calls[s].dir /\ c.aborted = calls[s].aborted /\ c.stage = "scan"
      /\ c.entries = calls[s].entries /\ c.been = calls[s].been
      /\ c.left = {n \in Names : KindAt(tree, calls[s].dir, n) # "absent"}
  BY <1>1 DEF Call
<1> HIDE DEF c
<1>3. ASSUME Alive(s) PROVE Walked(c) /\ Watched(c, tree)
  <2>1. \A n \in Names : KindAt(tree, c.dir, n) \in c.been[n]
    BY <1>1, <1>2, <1>3, WalkOf DEF Watched
  <2>2. \A n \in Names : n \in c.left \/ ~(c.been[n] \subseteq {"file", "directory"})
    BY <2>1, <1>2
  <2> QED BY <2>1, <2>2, <1>2, <1>3, WalkOf DEF Walked, Watched
<1> QED BY <1>1, <1>2, <1>3, UpdateInv

LEMMA LookAtNextInv ==
  ASSUME PickerInv, NEW s \in Slots, LookAtNext(s)
  PROVE  AliveInv' /\ WalkInv' /\ ListingIsTrue'
<1>1. calls[s] \in Call /\ calls[s].stage = "scan" /\ calls[s] # NoCall /\ ~Full(calls[s])
  BY CallType DEF LookAtNext, Scan, PickerInv
<1>2. PICK n \in calls[s].left :
        Update(s, [calls[s] EXCEPT !.left = @ \ {n},
          !.entries = IF KindAt(tree, calls[s].dir, n) \in {"file", "directory"}
                      THEN @ \cup {[name |-> n, kind |-> KindAt(tree, calls[s].dir, n)]}
                      ELSE @])
  BY DEF LookAtNext, Scan
<1> DEFINE kind == KindAt(tree, calls[s].dir, n)
           e == [name |-> n, kind |-> kind]
           c == [calls[s] EXCEPT !.left = @ \ {n},
                   !.entries = IF kind \in {"file", "directory"} THEN @ \cup {e} ELSE @]
<1>3. /\ c.dir = calls[s].dir /\ c.aborted = calls[s].aborted /\ c.stage = "scan"
      /\ c.entries = IF kind \in {"file", "directory"} THEN calls[s].entries \cup {e}
                     ELSE calls[s].entries
      /\ c.been = calls[s].been /\ c.left = calls[s].left \ {n}
  BY <1>1 DEF Call
<1>4. n \in Names /\ Update(s, c) /\ e.name = n /\ e.kind = kind
  BY <1>1, <1>2 DEF Call
<1> HIDE DEF c, e
<1>5. ASSUME Alive(s) PROVE Walked(c) /\ Watched(c, tree)
  <2>1. Walked(calls[s]) /\ kind \in c.been[n] /\ Watched(c, tree)
    BY <1>1, <1>3, <1>4, <1>5, WalkOf DEF Watched
  <2>2. IsFiniteSet(c.entries) /\ Cardinality(c.entries) <= MaxEntries
    <3>1. /\ IsFiniteSet(calls[s].entries) /\ Cardinality(calls[s].entries) \in Nat
          /\ Cardinality(calls[s].entries) < MaxEntries
      BY <1>1, <2>1, FS_CardinalityType, PickerAssumption DEF Walked, Full
    <3>2. /\ IsFiniteSet(calls[s].entries \cup {e})
          /\ \/ Cardinality(calls[s].entries \cup {e}) = Cardinality(calls[s].entries)
             \/ Cardinality(calls[s].entries \cup {e}) = Cardinality(calls[s].entries) + 1
      BY <3>1, FS_AddElement
    <3> QED BY <3>1, <3>2, <1>3, PickerAssumption
  <2>3. \A f \in c.entries : f.kind \in c.been[f.name]
    BY <1>3, <1>4, <2>1 DEF Walked
  <2>4. ASSUME NEW m \in Names
        PROVE  \/ m \in c.left
               \/ \E f \in c.entries : f.name = m
               \/ ~(c.been[m] \subseteq {"file", "directory"})
    <3>1. CASE m = n
      BY <3>1, <1>3, <1>4, <2>1
    <3>2. CASE m # n
      <4>1. \/ m \in calls[s].left
            \/ \E f \in calls[s].entries : f.name = m
            \/ ~(calls[s].been[m] \subseteq {"file", "directory"})
        BY <1>1, <2>1 DEF Walked
      <4>2. calls[s].entries \subseteq c.entries
        BY <1>3
      <4> QED BY <4>1, <4>2, <3>2, <1>3
    <3> QED BY <3>1, <3>2
  <2>5. c.stage # "listed"
    BY <1>3
  <2> QED BY <2>1, <2>2, <2>3, <2>4, <2>5 DEF Walked
<1> QED BY <1>1, <1>3, <1>4, <1>5, UpdateInv

LEMMA ReplyInv ==
  ASSUME PickerInv, NEW s \in Slots, Reply(s)
  PROVE  AliveInv' /\ WalkInv' /\ ListingIsTrue'
<1> DEFINE c == [calls[s] EXCEPT !.stage = "listed"]
<1>1. /\ calls[s] \in Call /\ calls[s] # NoCall /\ Update(s, c)
      /\ calls[s].stage = "scan" /\ (calls[s].left = {} \/ Full(calls[s]))
  BY CallType DEF Reply, PickerInv
<1>2. /\ c.dir = calls[s].dir /\ c.aborted = calls[s].aborted /\ c.stage = "listed"
      /\ c.entries = calls[s].entries /\ c.been = calls[s].been /\ c.left = calls[s].left
  BY <1>1 DEF Call
<1> HIDE DEF c
<1>3. ASSUME Alive(s) PROVE Walked(c) /\ Watched(c, tree)
  BY <1>1, <1>2, <1>3, WalkOf DEF Walked, Watched, Full
<1> QED BY <1>1, <1>2, <1>3, UpdateInv

LEMMA HostFailsInv ==
  ASSUME PickerInv, NEW s \in Slots, HostFails(s)
  PROVE  AliveInv' /\ WalkInv' /\ ListingIsTrue'
<1> DEFINE c == [calls[s] EXCEPT !.stage = "failed"]
<1>1. calls[s] \in Call /\ calls[s] # NoCall /\ Update(s, c)
  BY CallType DEF HostFails, PickerInv
<1>2. /\ c.dir = calls[s].dir /\ c.aborted = calls[s].aborted /\ c.stage = "failed"
      /\ c.entries = calls[s].entries /\ c.been = calls[s].been
  BY <1>1 DEF Call
<1> HIDE DEF c
<1>3. ASSUME Alive(s) PROVE Walked(c) /\ Watched(c, tree)
  BY <1>1, <1>2, <1>3, WalkOf DEF Walked, Watched
<1> QED BY <1>1, <1>2, <1>3, UpdateInv

-----------------------------------------------------------------------------
\* What the workspace and the user do to it

LEMMA WorkspaceChangesInv ==
  ASSUME PickerInv, WorkspaceChanges
  PROVE  AliveInv' /\ WalkInv' /\ ListingIsTrue'
<1> DEFINE Seeing(s) == calls[s].stage \in {"sent", "scan"} /\ ~calls[s].aborted
<1>1. \A s \in Slots : calls[s] # NoCall => calls[s] \in Call
  BY CallType DEF PickerInv
<1>2. \A s \in Slots : calls'[s] = IF calls[s] # NoCall /\ Seeing(s)
                                   THEN [calls[s] EXCEPT !.been = Seen(calls[s], tree')]
                                   ELSE calls[s]
  BY DEF WorkspaceChanges
<1>3. ASSUME NEW s \in Slots, Alive(s)'
      PROVE  /\ Alive(s) /\ calls'[s].dir = calls[s].dir /\ calls'[s].stage = calls[s].stage
             /\ calls'[s].entries = calls[s].entries /\ calls'[s].left = calls[s].left
             /\ calls'[s].been = IF Seeing(s) THEN Seen(calls[s], tree') ELSE calls[s].been
  <2>1. CASE calls[s] # NoCall /\ Seeing(s)
    BY <1>1, <1>2, <1>3, <2>1 DEF Alive, Call
  <2>2. CASE ~(calls[s] # NoCall /\ Seeing(s))
    BY <1>2, <1>3, <2>2 DEF Alive
  <2> QED BY <2>1, <2>2
<1>4. AliveInv'
  BY <1>3 DEF PickerInv, AliveInv, WorkspaceChanges
<1>5. ASSUME NEW s \in Slots, Alive(s)'
      PROVE  Walked(calls'[s]) /\ Watched(calls'[s], tree')
  <2>1. Alive(s) /\ Walked(calls[s]) /\ calls[s] \in Call
    BY <1>1, <1>3, <1>5, WalkOf DEF Alive
  <2>2. \A n \in Names : calls[s].been[n] \subseteq calls'[s].been[n]
    BY <1>3, <1>5 DEF Seen
  <2>3. Watched(calls'[s], tree')
    <3> SUFFICES ASSUME calls'[s].stage \in {"sent", "scan"}, NEW n \in Names
                 PROVE  KindAt(tree', calls'[s].dir, n) \in calls'[s].been[n]
      BY DEF Watched
    <3>1. Seeing(s)
      BY <1>3, <1>5, <2>1 DEF Alive
    <3> QED BY <3>1, <1>3, <1>5 DEF Seen
  <2>4. \A e \in calls'[s].entries : e.name \in Names
    BY <1>3, <1>5, <2>1 DEF Call, Entries
  <2>5. \A e \in calls'[s].entries : e.kind \in calls'[s].been[e.name]
    BY <1>3, <1>5, <2>1, <2>2, <2>4 DEF Walked
  <2> QED BY <1>3, <1>5, <2>1, <2>2, <2>3, <2>5 DEF Walked, Full
<1>6. WalkInv'
  BY <1>5 DEF WalkInv, Walked, Watched, Full
<1>7. ListingIsTrue'
  BY ListingFrame DEF PickerInv, WorkspaceChanges
<1> QED BY <1>4, <1>6, <1>7

\* The effect: the call that is made is the only one that is alive.
LEMMA LoadInv ==
  ASSUME PickerInv, NEW d \in Dirs, Load(d), UNCHANGED tree,
         picker'.open, picker'.loading, picker'.dir = d
  PROVE  AliveInv' /\ WalkInv' /\ ListingIsTrue'
<1> DEFINE c == [dir |-> d, stage |-> "sent", left |-> {}, entries |-> {}, aborted |-> FALSE,
                 been |-> [n \in Names |-> {KindAt(tree, d, n)}]]
<1>1. PICK s \in Slots : calls' = [AbortAll EXCEPT ![s] = c]
  BY DEF Load
<1>2. \A r \in Slots : calls'[r] = IF r = s THEN c ELSE AbortAll[r]
  BY <1>1 DEF AbortAll
<1>3. c.dir = d /\ c.stage = "sent" /\ c.entries = {} /\ c.been = [n \in Names |-> {KindAt(tree, d, n)}]
  OBVIOUS
<1> HIDE DEF c
<1>4. ASSUME NEW r \in Slots, Alive(r)'
      PROVE  r = s
  <2>1. SUFFICES ASSUME r # s PROVE FALSE
    OBVIOUS
  <2>2. calls'[r] = AbortAll[r] /\ calls'[r] # NoCall /\ ~calls'[r].aborted
    BY <1>2, <1>4, <2>1 DEF Alive
  <2>3. calls[r] # NoCall /\ calls[r] \in Call
        /\ calls'[r] = [calls[r] EXCEPT !.aborted = TRUE, !.been = Nothing]
    BY <2>2, CallType DEF AbortAll, PickerInv
  <2> QED BY <2>2, <2>3 DEF Call
<1>5. AliveInv'
  BY <1>2, <1>3, <1>4 DEF AliveInv
<1>6. IsFiniteSet({}) /\ Cardinality({}) <= MaxEntries
  BY FS_EmptySet, PickerAssumption
<1>7. Walked(c) /\ Watched(c, tree)
  BY <1>3, <1>6 DEF Walked, Watched
<1>8. \A r \in Slots : Alive(r)' => Walked(calls'[r]) /\ Watched(calls'[r], tree')
  BY <1>2, <1>4, <1>7
<1>9. WalkInv'
  BY <1>8 DEF WalkInv, Walked, Watched, Full
<1>10. ListingIsTrue'
  BY DEF ListingIsTrue
<1> QED BY <1>5, <1>9, <1>10

LEMMA OpenPickerInv ==
  ASSUME PickerInv, OpenPicker
  PROVE  AliveInv' /\ WalkInv' /\ ListingIsTrue'
BY LoadInv DEF OpenPicker, Closed, Dirs

LEMMA GoToInv ==
  ASSUME PickerInv, NEW d \in Dirs, GoTo(d)
  PROVE  AliveInv' /\ WalkInv' /\ ListingIsTrue'
<1>1. Load(d) /\ tree' = tree /\ picker' = [picker EXCEPT !.dir = d, !.loading = TRUE, !.error = FALSE]
  BY DEF GoTo
<1>2. picker'.open /\ picker'.loading /\ picker'.dir = d
  BY <1>1 DEF GoTo, PickerInv, TypeOK
<1> QED BY <1>1, <1>2, LoadInv

LEMMA ClosePickerInv ==
  ASSUME PickerInv, ClosePicker
  PROVE  AliveInv' /\ WalkInv' /\ ListingIsTrue'
<1>1. ASSUME NEW r \in Slots PROVE ~Alive(r)'
  <2>1. CASE calls[r] = NoCall
    BY <2>1 DEF ClosePicker, AbortAll, Alive
  <2>2. CASE calls[r] # NoCall
    <3>1. calls[r] \in Call /\ calls'[r] = [calls[r] EXCEPT !.aborted = TRUE, !.been = Nothing]
      BY <2>2, CallType DEF ClosePicker, AbortAll, PickerInv
    <3> QED BY <3>1 DEF Call, Alive
  <2> QED BY <2>1, <2>2
<1>2. ListingIsTrue'
  BY DEF ListingIsTrue, ClosePicker, Closed
<1> QED BY <1>1, <1>2 DEF AliveInv, WalkInv

-----------------------------------------------------------------------------
\* What a listing or an error that arrives does to it

\* When a call comes to its end the others stay as they are.
LEMMA LandedOthers ==
  ASSUME PickerInv, NEW s \in Slots, Landed(s)
  PROVE  /\ \A r \in Slots : Alive(r)' => r # s /\ Alive(r) /\ calls'[r] = calls[r]
         /\ WalkInv'
<1>1. calls' = [calls EXCEPT ![s] = NoCall] /\ tree' = tree /\ calls \in [Slots -> Call \cup {NoCall}]
  BY DEF Landed, PickerInv, TypeOK
<1>2. \A r \in Slots : Alive(r)' => r # s /\ Alive(r) /\ calls'[r] = calls[r]
  BY <1>1 DEF Alive
<1>3. \A r \in Slots : Alive(r)' => Walked(calls'[r]) /\ Watched(calls'[r], tree')
  BY <1>1, <1>2, WalkOf
<1> QED BY <1>2, <1>3 DEF WalkInv, Walked, Watched, Full

\* ... and the one that was alive leaves none.
LEMMA LastLanded ==
  ASSUME PickerInv, NEW s \in Slots, Landed(s), Alive(s)
  PROVE  AliveInv'
<1>1. \A r \in Slots : Alive(r) => r = s
  BY DEF PickerInv, AliveInv
<1> QED BY <1>1, LandedOthers DEF AliveInv

LEMMA AbortedLanded ==
  ASSUME PickerInv, NEW s \in Slots, Landed(s), UNCHANGED picker
  PROVE  AliveInv'
BY LandedOthers DEF PickerInv, AliveInv

LEMMA LandInv ==
  ASSUME PickerInv, NEW s \in Slots, Land(s)
  PROVE  AliveInv' /\ WalkInv' /\ ListingIsTrue'
<1>1. Landed(s) /\ calls[s] # NoCall /\ calls[s].stage = "listed" /\ calls[s] \in Call
  BY CallType DEF Land, PickerInv
<1>2. WalkInv'
  BY <1>1, LandedOthers
<1>3. CASE calls[s].aborted
  <2>1. UNCHANGED <<picker, been, produced>>
    BY <1>3 DEF Land, Landed
  <2> QED BY <1>1, <1>2, <2>1, AbortedLanded, ListingFrame DEF PickerInv
<1>4. CASE ~calls[s].aborted
  <2>1. Alive(s) /\ AliveInv' /\ calls[s].dir = picker.dir /\ Walked(calls[s])
    BY <1>1, <1>4, LastLanded, WalkOf DEF Alive, PickerInv, AliveInv
  <2>2. picker' = [picker EXCEPT !.listing = Listed(calls[s]), !.loading = FALSE]
        /\ been' = calls[s].been /\ produced' = produced
    BY <1>4 DEF Land, Landed
  <2>3. /\ picker'.dir = picker.dir
        /\ picker'.listing.dir = calls[s].dir
        /\ picker'.listing.entries = calls[s].entries
        /\ picker'.listing.truncated = (calls[s].left # {})
    BY <2>2 DEF Listed, PickerInv, TypeOK
  <2>4. Cardinality(calls[s].entries) \in Nat /\ Cardinality(calls[s].entries) <= MaxEntries
    BY <2>1, FS_CardinalityType DEF Walked
  <2>5. picker'.listing.truncated => Cardinality(picker'.listing.entries) = MaxEntries
    <3>1. calls[s].left # {} => Full(calls[s])
      BY <1>1, <2>1 DEF Walked
    <3>2. Full(calls[s]) => Cardinality(calls[s].entries) = MaxEntries
      BY <2>4, PickerAssumption DEF Full
    <3> QED BY <3>1, <3>2, <2>3
  <2>6. ASSUME NEW n \in Names, ~picker'.listing.truncated, been'[n] \subseteq {"file", "directory"}
        PROVE  n \in {e.name : e \in Shown'} \cup {m \in Names : <<picker'.dir, m>> \in produced'}
    <3>1. PICK e \in calls[s].entries : e.name = n
      BY <1>1, <2>1, <2>2, <2>3, <2>6 DEF Walked
    <3> QED BY <3>1, <2>3 DEF Shown
  <2>7. \A e \in picker'.listing.entries : e.kind \in been'[e.name]
    BY <2>1, <2>2, <2>3 DEF Walked
  <2>8. ListingIsTrue'
    BY <2>1, <2>3, <2>4, <2>5, <2>6, <2>7 DEF ListingIsTrue
  <2> QED BY <1>2, <2>1, <2>8
<1> QED BY <1>3, <1>4, <1>1 DEF Call

LEMMA LandErrorInv ==
  ASSUME PickerInv, NEW s \in Slots, LandError(s)
  PROVE  AliveInv' /\ WalkInv' /\ ListingIsTrue'
<1>1. Landed(s) /\ calls[s] # NoCall /\ UNCHANGED <<been, produced>>
  BY DEF LandError, Landed
<1>2. WalkInv'
  BY <1>1, LandedOthers
<1>3. CASE calls[s].aborted
  <2>1. UNCHANGED picker
    BY <1>3 DEF LandError
  <2> QED BY <1>1, <1>2, <2>1, AbortedLanded, ListingFrame DEF PickerInv
<1>4. CASE ~calls[s].aborted
  <2>1. AliveInv'
    BY <1>1, <1>4, LastLanded DEF Alive
  <2>2. picker' = [picker EXCEPT !.listing = NoListing, !.error = TRUE, !.loading = FALSE]
    BY <1>4 DEF LandError
  <2>3. picker'.error
    BY <2>2 DEF PickerInv, TypeOK
  <2> QED BY <1>2, <2>1, <2>3 DEF ListingIsTrue
<1> QED BY <1>3, <1>4

-----------------------------------------------------------------------------
LEMMA NextPickerInv == PickerInv /\ [Next]_vars => PickerInv'
<1> SUFFICES ASSUME PickerInv, [Next]_vars PROVE PickerInv'
  OBVIOUS
<1>1. TypeOK'
  BY NextTypeOK DEF PickerInv
<1>2. CASE WorkspaceChanges
  BY <1>1, <1>2, WorkspaceChangesInv DEF PickerInv
<1>3. CASE OpenPicker
  BY <1>1, <1>3, OpenPickerInv DEF PickerInv
<1>4. CASE ClosePicker
  BY <1>1, <1>4, ClosePickerInv DEF PickerInv
<1>5. ASSUME NEW d \in Dirs, GoTo(d) PROVE PickerInv'
  BY <1>1, <1>5, GoToInv DEF PickerInv
<1>6. ASSUME NEW s \in Slots, Answers(s) PROVE PickerInv'
  BY <1>1, <1>6, ReadNamesInv, LookAtNextInv, ReplyInv, HostFailsInv, LandInv, LandErrorInv
     DEF PickerInv, Answers
<1>7. CASE UNCHANGED vars
  <2>1. AliveInv' /\ WalkInv'
    BY <1>7 DEF vars, PickerInv, AliveInv, WalkInv, Alive, Walked, Watched, Full, KindAt
  <2> QED BY <1>1, <1>7, <2>1, ListingFrame DEF vars, PickerInv
<1> QED BY <1>2, <1>3, <1>4, <1>5, <1>6, <1>7 DEF Next

\* The inductive invariant: the picker and the one request it waits for agree, and
\* the host's walk accounts for every name of the directory.
THEOREM PickerInvariant == Spec => []PickerInv
<1>1. Init => PickerInv
  BY InitTypeOK, InitInv DEF PickerInv
<1> QED BY <1>1, NextPickerInv, PTL DEF Spec

\* A list that is shown is of the directory named, of things that were there, and
\* complete unless it says that it was cut off, for any directory and limit.
THEOREM ListingsAreTrue == Spec => []ListingIsTrue
<1>1. PickerInv => ListingIsTrue
  BY DEF PickerInv
<1> QED BY <1>1, PickerInvariant, PTL

-----------------------------------------------------------------------------
(***************************************************************************)
(* What ends the picker's loading: a call that is alive, and gets nearer   *)
(* to its end with each of its steps.                                      *)
(***************************************************************************)
LoadHasCall == picker.open /\ picker.loading => \E s \in Slots : Alive(s)

\* Steps that are left at most: names, reply and landing.
Distance(c) ==
  CASE c.stage = "sent"               -> Cardinality(Names) + 3
    [] c.stage = "scan"               -> Cardinality(c.left) + 2
    [] c.stage \in {"listed", "failed"} -> 1

GoesOn == \A s \in Slots : Answers(s) => calls'[s] = NoCall \/ Distance(calls'[s]) < Distance(calls[s])

LEMMA UpdateKeepsLoad ==
  ASSUME TypeOK, LoadHasCall, NEW s \in Slots, NEW c \in Call, c.aborted = calls[s].aborted,
         Update(s, c), calls[s] # NoCall
  PROVE  LoadHasCall'
<1>1. calls' = [calls EXCEPT ![s] = c] /\ picker' = picker /\ c # NoCall
  BY PickerAssumption DEF Update
<1>2. \A r \in Slots : Alive(r) => Alive(r)'
  BY <1>1 DEF Alive, TypeOK
<1> QED BY <1>1, <1>2 DEF LoadHasCall

LEMMA LoadsACall ==
  ASSUME TypeOK, NEW d \in Dirs, Load(d)
  PROVE  LoadHasCall'
<1> DEFINE c == [dir |-> d, stage |-> "sent", left |-> {}, entries |-> {}, aborted |-> FALSE,
                 been |-> [n \in Names |-> {KindAt(tree, d, n)}]]
<1>1. PICK s \in Slots : calls' = [AbortAll EXCEPT ![s] = c]
  BY DEF Load
<1>2. calls'[s] = c /\ ~c.aborted
  BY <1>1 DEF AbortAll
<1>3. c \in Call
  <2>1. [n \in Names |-> {KindAt(tree, d, n)}] \in [Names -> SUBSET Kinds]
    BY KindIsKind DEF TypeOK
  <2> QED BY <2>1 DEF Call
<1>4. c # NoCall
  BY <1>3, PickerAssumption
<1> HIDE DEF c
<1> QED BY <1>2, <1>4 DEF LoadHasCall, Alive

\* Each answer of the host leaves the call where it is, one step on.
LEMMA AnswerForms ==
  ASSUME TypeOK, NEW s \in Slots, ReadNames(s) \/ LookAtNext(s) \/ Reply(s) \/ HostFails(s)
  PROVE  \E c \in Call :
           /\ calls[s] # NoCall /\ Update(s, c) /\ c.aborted = calls[s].aborted
           /\ \/ calls[s].stage = "sent" /\ c.stage = "scan"
              \/ /\ calls[s].stage = "scan" /\ c.stage = "scan"
                 /\ \E n \in calls[s].left : c.left = calls[s].left \ {n}
              \/ calls[s].stage \in {"sent", "scan"} /\ c.stage \in {"listed", "failed"}
<1>1. calls[s] # NoCall /\ calls[s] \in Call
  BY CallType DEF ReadNames, LookAtNext, Scan, Reply, HostFails
<1>2. CASE ReadNames(s)
  <2> DEFINE c == [calls[s] EXCEPT !.stage = "scan",
                     !.left = {n \in Names : KindAt(tree, calls[s].dir, n) # "absent"}]
  <2>1. c \in Call /\ c.stage = "scan" /\ c.aborted = calls[s].aborted
    BY <1>1 DEF Call
  <2>2. Update(s, c) /\ calls[s].stage = "sent"
    BY <1>2 DEF ReadNames
  <2> QED BY <1>1, <2>1, <2>2
<1>3. CASE LookAtNext(s)
  <2>1. PICK n \in calls[s].left :
          Update(s, [calls[s] EXCEPT !.left = @ \ {n},
            !.entries = IF KindAt(tree, calls[s].dir, n) \in {"file", "directory"}
                        THEN @ \cup {[name |-> n, kind |-> KindAt(tree, calls[s].dir, n)]}
                        ELSE @])
    BY <1>3 DEF LookAtNext, Scan
  <2> DEFINE e == [name |-> n, kind |-> KindAt(tree, calls[s].dir, n)]
             c == [calls[s] EXCEPT !.left = @ \ {n},
                     !.entries = IF KindAt(tree, calls[s].dir, n) \in {"file", "directory"}
                                 THEN @ \cup {e} ELSE @]
  <2>2. KindAt(tree, calls[s].dir, n) \in {"file", "directory"} => e \in Entries
    BY <1>1, <2>1 DEF Entries, Call
  <2>3. c \in Call /\ c.stage = "scan" /\ c.aborted = calls[s].aborted /\ c.left = calls[s].left \ {n}
    BY <1>1, <1>3, <2>2 DEF Call, LookAtNext, Scan
  <2>4. Update(s, c) /\ calls[s].stage = "scan"
    BY <1>3, <2>1 DEF LookAtNext, Scan
  <2> QED BY <1>1, <2>3, <2>4
<1>4. CASE Reply(s)
  <2>1. [calls[s] EXCEPT !.stage = "listed"] \in Call
    BY <1>1 DEF Call
  <2> QED BY <1>1, <1>4, <2>1 DEF Reply, Call
<1>5. CASE HostFails(s)
  <2>1. [calls[s] EXCEPT !.stage = "failed"] \in Call
    BY <1>1 DEF Call
  <2> QED BY <1>1, <1>5, <2>1 DEF HostFails, Call
<1> QED BY <1>2, <1>3, <1>4, <1>5

LEMMA LandingForms ==
  ASSUME TypeOK, NEW s \in Slots, Land(s) \/ LandError(s)
  PROVE  /\ calls'[s] = NoCall /\ \A r \in Slots : r # s => calls'[r] = calls[r]
         /\ IF Alive(s) THEN ~picker'.loading ELSE picker' = picker
<1>1. calls' = [calls EXCEPT ![s] = NoCall] /\ calls[s] # NoCall
  BY DEF Land, LandError, Landed
<1>2. calls'[s] = NoCall /\ \A r \in Slots : r # s => calls'[r] = calls[r]
  BY <1>1 DEF TypeOK
<1>3. IF Alive(s) THEN ~picker'.loading ELSE picker' = picker
  BY <1>1 DEF Land, LandError, Alive, TypeOK
<1> QED BY <1>2, <1>3

LEMMA StepKeepsLoad == ASSUME TypeOK, LoadHasCall, [Next]_vars PROVE LoadHasCall'
<1>1. CASE WorkspaceChanges
  <2>1. ASSUME NEW s \in Slots, Alive(s) PROVE Alive(s)'
    <3>1. calls[s] \in Call /\ calls[s].aborted = FALSE
      BY <2>1, CallType DEF Alive
    <3>2. calls'[s] = calls[s] \/ calls'[s] = [calls[s] EXCEPT !.been = Seen(calls[s], tree')]
      BY <1>1 DEF WorkspaceChanges
    <3>3. tree' \in [Dirs -> [Names -> Kinds]]
      BY <1>1 DEF WorkspaceChanges, TypeOK
    <3>4. Seen(calls[s], tree') \in [Names -> SUBSET Kinds]
      BY <3>1, <3>3, SeenType
    <3>5. calls'[s] \in Call /\ ~calls'[s].aborted
      BY <3>1, <3>2, <3>4 DEF Call
    <3> QED BY <3>5, PickerAssumption DEF Alive
  <2> QED BY <1>1, <2>1 DEF WorkspaceChanges, LoadHasCall
<1>2. CASE OpenPicker
  BY <1>2, LoadsACall DEF OpenPicker, Dirs
<1>3. ASSUME NEW d \in Dirs, GoTo(d) PROVE LoadHasCall'
  BY <1>3, LoadsACall DEF GoTo
<1>4. CASE ClosePicker
  BY <1>4 DEF ClosePicker, Closed, LoadHasCall
<1>5. ASSUME NEW s \in Slots, ReadNames(s) \/ LookAtNext(s) \/ Reply(s) \/ HostFails(s)
      PROVE  LoadHasCall'
  BY <1>5, AnswerForms, UpdateKeepsLoad
<1>6. ASSUME NEW s \in Slots, Land(s) \/ LandError(s) PROVE LoadHasCall'
  BY <1>6, LandingForms DEF LoadHasCall, Alive
<1>7. CASE UNCHANGED vars
  BY <1>7 DEF vars, LoadHasCall, Alive
<1> QED BY <1>1, <1>2, <1>3, <1>4, <1>5, <1>6, <1>7 DEF Next, Answers

\* A picker that is loading has a call that is not aborted: whose answer, list or
\* error, it will take (the effect's load and its cleanup), wherever the user went.
THEOREM LoadingPickersWait == Spec => []LoadHasCall
<1>1. Init => LoadHasCall
  BY DEF Init, Closed, LoadHasCall
<1>2. TypeOK /\ LoadHasCall /\ [Next]_vars => LoadHasCall'
  BY StepKeepsLoad
<1> QED BY <1>1, <1>2, PickerTypeCorrect, PTL DEF Spec

\* Each step of a call brings it nearer to its end, however the workspace changes:
\* listWorkspaceFiles looks at each name it has read once, at most.
THEOREM CallsGoOn == Spec => [][GoesOn]_vars
<1>1. ASSUME TypeOK PROVE GoesOn
  <2> SUFFICES ASSUME NEW s \in Slots, Answers(s), calls'[s] # NoCall
               PROVE  Distance(calls'[s]) < Distance(calls[s])
    BY DEF GoesOn
  <2>1. ReadNames(s) \/ LookAtNext(s) \/ Reply(s) \/ HostFails(s)
    BY <1>1, LandingForms DEF Answers
  <2>2. PICK c \in Call :
          /\ calls[s] # NoCall /\ Update(s, c)
          /\ \/ calls[s].stage = "sent" /\ c.stage = "scan"
             \/ /\ calls[s].stage = "scan" /\ c.stage = "scan"
                /\ \E n \in calls[s].left : c.left = calls[s].left \ {n}
             \/ calls[s].stage \in {"sent", "scan"} /\ c.stage \in {"listed", "failed"}
    BY <1>1, <2>1, AnswerForms
  <2>3. calls'[s] = c /\ calls[s] \in Call
    BY <1>1, <2>2, CallType DEF Update, TypeOK
  <2>4. /\ c.left \subseteq Names /\ calls[s].left \subseteq Names
        /\ IsFiniteSet(c.left) /\ IsFiniteSet(calls[s].left)
        /\ Cardinality(Names) \in Nat /\ Cardinality(calls[s].left) \in Nat
        /\ Cardinality(c.left) \in Nat /\ Cardinality(c.left) <= Cardinality(Names)
    BY <2>3, FS_Subset, FS_CardinalityType, PickerAssumption DEF Call
  <2>5. CASE calls[s].stage = "sent" /\ c.stage = "scan"
    BY <2>3, <2>4, <2>5 DEF Distance
  <2>6. CASE /\ calls[s].stage = "scan" /\ c.stage = "scan"
             /\ \E n \in calls[s].left : c.left = calls[s].left \ {n}
    <3>1. Cardinality(c.left) = Cardinality(calls[s].left) - 1
      BY <2>4, <2>6, FS_RemoveElement
    <3> QED BY <2>3, <2>4, <2>6, <3>1 DEF Distance
  <2>7. CASE calls[s].stage \in {"sent", "scan"} /\ c.stage \in {"listed", "failed"}
    BY <2>3, <2>4, <2>7 DEF Distance
  <2> QED BY <2>2, <2>5, <2>6, <2>7
<1>2. TypeOK => [GoesOn]_vars
  BY <1>1
<1> QED BY <1>2, PickerTypeCorrect, PTL

=============================================================================
