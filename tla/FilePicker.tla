----------------------------- MODULE FilePicker ------------------------------
(***************************************************************************)
(* The picker of a file to share, and the host's listing of a workspace    *)
(* directory.  The host reads the names, then looks at one after the other *)
(* until it has enough entries, while files come and go; in the picker the *)
(* user goes on to another directory, or closes it, without waiting.       *)
(***************************************************************************)
EXTENDS Integers, FiniteSets

CONSTANTS
  Names,       \* the names in a directory, numbered in the order of localeCompare
  SubName,     \* the name that Sub has in Top, when it is there
  MaxEntries,  \* MAX_WORKSPACE_FILE_ENTRIES
  MaxChurn,    \* bound on the changes of the workspace
  NoCall, NoListing

VARIABLES
  tree,      \* what each name of each directory is
  produced,  \* the paths of the files produced up to the message
  picker,    \* WorkspaceFilePicker's state
  been,      \* history: what each name was while the listing shown was made
  calls,     \* requestWorkspaceFiles calls under way
  churn

vars == <<tree, produced, picker, been, calls, churn>>

\* One level of directories is enough to go down and up.
Top     == "top"
Sub     == "sub"
Dirs    == {Top, Sub}
Parent  == [d \in Dirs |-> Top]
Kinds   == {"file", "directory", "link", "absent"}
Entries == [name : Names, kind : {"file", "directory"}]
Listing == [dir : Dirs, entries : SUBSET Entries, truncated : BOOLEAN]
Slots   == {1, 2}  \* a bound: calls under way
Message == 1       \* the seq of the message whose share button is used

\* A path is relative, or absolute, in the session's directory or outside.
Record == [seq : {Message, Message + 1}, dir : Dirs \cup {"outside"}, name : {SubName},
           absolute : BOOLEAN]
Call   == [dir : Dirs, stage : {"sent", "scan", "listed", "failed"}, left : SUBSET Names,
           entries : SUBSET Entries, aborted : BOOLEAN, been : [Names -> SUBSET Kinds]]

ASSUME PickerAssumption ==
  /\ Names \subseteq Nat /\ IsFiniteSet(Names) /\ SubName \in Names
  /\ MaxEntries \in Nat \ {0} /\ MaxChurn \in Nat
  /\ NoCall \notin Call /\ NoListing \notin Listing

TypeOK ==
  /\ tree \in [Dirs -> [Names -> Kinds]]
  /\ produced \subseteq Dirs \X Names
  /\ picker \in [open : BOOLEAN, dir : Dirs, listing : Listing \cup {NoListing},
                 loading : BOOLEAN, error : BOOLEAN]
  /\ been \in [Names -> SUBSET Kinds]
  /\ calls \in [Slots -> Call \cup {NoCall}]
  /\ churn \in 0..MaxChurn

-----------------------------------------------------------------------------
\* The produced files

\* sessionRelativePath: an absolute path is of use if the session's directory is
\* known, and is above it.
Relative(r, cwd) == r.dir \in Dirs /\ (r.absolute => cwd)

\* producedPathsForMessage: what the turn's deliverables have up to the message.
ProducedPaths(deliverables, cwd) ==
  {<<r.dir, r.name>> : r \in {q \in deliverables : q.seq <= Message /\ Relative(q, cwd)}}

Nothing == [n \in Names |-> {}]
Closed == [open |-> FALSE, dir |-> Top, listing |-> NoListing, loading |-> FALSE, error |-> FALSE]

Init ==
  /\ \E kind \in {"file", "link"} :
       tree = [d \in Dirs |-> [n \in Names |->
                 IF d = Top THEN IF n = SubName THEN "directory" ELSE kind ELSE "file"]]
  /\ \E r \in Record, cwd \in BOOLEAN : produced = ProducedPaths({r}, cwd)
  /\ picker = Closed
  /\ been = Nothing
  /\ calls = [s \in Slots |-> NoCall]
  /\ churn = 0

-----------------------------------------------------------------------------
\* The workspace

\* lstat, in a directory that may have gone itself.
KindAt(t, d, n) == IF d = Sub /\ t[Top][SubName] # "directory" THEN "absent" ELSE t[d][n]

Seen(call, t) == [n \in Names |-> call.been[n] \cup {KindAt(t, call.dir, n)}]

WorkspaceChanges ==
  /\ churn < MaxChurn /\ churn' = churn + 1
  /\ \E d \in Dirs, n \in Names, kind \in Kinds :
       tree' = [tree EXCEPT ![d][n] = kind] /\ tree' # tree
  /\ calls' = [s \in Slots |-> IF calls[s] # NoCall /\ calls[s].stage \in {"sent", "scan"} /\ ~calls[s].aborted
                               THEN [calls[s] EXCEPT !.been = Seen(calls[s], tree')] ELSE calls[s]]
  /\ UNCHANGED <<produced, picker, been>>

-----------------------------------------------------------------------------
\* The host: listWorkspaceFiles

Update(s, call) ==
  /\ calls' = [calls EXCEPT ![s] = call]
  /\ UNCHANGED <<tree, produced, picker, been, churn>>

\* The directory is resolved, and its names are read.
ReadNames(s) ==
  /\ calls[s] # NoCall /\ calls[s].stage = "sent"
  /\ calls[s].dir = Top \/ tree[Top][SubName] = "directory"
  /\ Update(s, [calls[s] EXCEPT !.stage = "scan",
                                !.left = {n \in Names : KindAt(tree, calls[s].dir, n) # "absent"}])

Full(call) == Cardinality(call.entries) >= MaxEntries

\* Names that are gone by now are passed over, and all but these kinds.
Scan(s, kinds) ==
  /\ calls[s] # NoCall /\ calls[s].stage = "scan"
  /\ ~Full(calls[s])
  /\ \E n \in calls[s].left :
       LET kind == KindAt(tree, calls[s].dir, n) IN
       /\ \A m \in calls[s].left : n <= m
       /\ Update(s, [calls[s] EXCEPT !.left = @ \ {n},
                       !.entries = IF kind \in kinds THEN @ \cup {[name |-> n, kind |-> kind]}
                                   ELSE @])

\* Mutant: links are listed too.
LookAtAny(s) == Scan(s, {"file", "directory", "link"})

LookAtNext(s) == Scan(s, {"file", "directory"})

Reply(s) ==
  /\ calls[s] # NoCall /\ calls[s].stage = "scan"
  /\ calls[s].left = {} \/ Full(calls[s])
  /\ Update(s, [calls[s] EXCEPT !.stage = "listed"])

\* The session is unknown, the directory is none or cannot be read, the signal is
\* aborted, or the call breaks.
HostFails(s) ==
  /\ calls[s] # NoCall /\ calls[s].stage \in {"sent", "scan"}
  /\ Update(s, [calls[s] EXCEPT !.stage = "failed"])

-----------------------------------------------------------------------------
\* The picker

\* Produced files have a section of their own, and are left out below it.
Shown == {e \in picker.listing.entries : <<picker.dir, e.name>> \notin produced}

AbortAll == [s \in Slots |-> IF calls[s] = NoCall THEN NoCall
                             ELSE [calls[s] EXCEPT !.aborted = TRUE, !.been = Nothing]]

\* The effect: the call for the directory before is aborted, a new one is made.
Load(d) ==
  \E s \in Slots :
    /\ calls[s] = NoCall
    /\ calls' = [AbortAll EXCEPT ![s] =
         [dir |-> d, stage |-> "sent", left |-> {}, entries |-> {}, aborted |-> FALSE,
          been |-> [n \in Names |-> {KindAt(tree, d, n)}]]]

OpenPicker ==
  /\ ~picker.open
  /\ Load(Top)
  /\ picker' = [Closed EXCEPT !.open = TRUE, !.loading = TRUE]
  /\ been' = Nothing
  /\ UNCHANGED <<tree, produced, churn>>

\* A directory of the list is clicked, or the way up, which is there at once.
GoTo(d) ==
  /\ picker.open
  /\ \/ /\ d = Sub /\ picker.dir = Top /\ ~picker.loading /\ ~picker.error
        /\ [name |-> SubName, kind |-> "directory"] \in Shown
     \/ d = Parent[picker.dir] /\ d # picker.dir
  /\ Load(d)
  /\ picker' = [picker EXCEPT !.dir = d, !.loading = TRUE, !.error = FALSE]
  /\ been' = Nothing
  /\ UNCHANGED <<tree, produced, churn>>

\* Escape, the button, the backdrop, or a file is chosen to share.
ClosePicker ==
  /\ picker.open
  /\ picker' = Closed
  /\ calls' = AbortAll
  /\ been' = Nothing
  /\ UNCHANGED <<tree, produced, churn>>

Listed(call) == [dir |-> call.dir, entries |-> call.entries, truncated |-> call.left # {}]

Landed(s) ==
  /\ calls' = [calls EXCEPT ![s] = NoCall]
  /\ UNCHANGED <<tree, produced, churn>>

\* Mutant: a listing is taken whatever became of its request.
LandUnchecked(s) ==
  /\ calls[s] # NoCall /\ calls[s].stage = "listed"
  /\ picker' = [picker EXCEPT !.listing = Listed(calls[s]), !.loading = FALSE]
  /\ been' = calls[s].been
  /\ Landed(s)

\* The listing arrives; an aborted call changes nothing.
Land(s) ==
  /\ calls[s] # NoCall /\ calls[s].stage = "listed"
  /\ IF calls[s].aborted
     THEN UNCHANGED <<picker, been>>
     ELSE /\ picker' = [picker EXCEPT !.listing = Listed(calls[s]), !.loading = FALSE]
          /\ been' = calls[s].been
  /\ Landed(s)

\* Mutant: an error leaves the picker loading.
LandErrorLoading(s) ==
  /\ calls[s] # NoCall /\ calls[s].stage = "failed"
  /\ picker' = IF calls[s].aborted THEN picker
               ELSE [picker EXCEPT !.listing = NoListing, !.error = TRUE]
  /\ UNCHANGED been
  /\ Landed(s)

LandError(s) ==
  /\ calls[s] # NoCall /\ calls[s].stage = "failed"
  /\ picker' = IF calls[s].aborted THEN picker
               ELSE [picker EXCEPT !.listing = NoListing, !.error = TRUE, !.loading = FALSE]
  /\ UNCHANGED been
  /\ Landed(s)

-----------------------------------------------------------------------------
Answers(s) == ReadNames(s) \/ LookAtNext(s) \/ Reply(s) \/ HostFails(s) \/ Land(s) \/ LandError(s)

Next ==
  \/ WorkspaceChanges \/ OpenPicker \/ ClosePicker
  \/ \E d \in Dirs : GoTo(d)
  \/ \E s \in Slots : Answers(s)

Spec == Init /\ [][Next]_vars

\* The host goes on, and its calls come to an end.
FairSpec == Spec /\ \A s \in Slots : WF_vars(Answers(s))

-----------------------------------------------------------------------------
\* A list that is not being loaded is of the directory the picker names, of things
\* that were there while it was made, and of all that were there all the while,
\* unless the picker says that it was cut off; then it has all the entries it may
\* have.  What is not in the list below is among the produced files above it
\* (listWorkspaceFiles, the picker's effect).
ListingIsTrue ==
  picker.open /\ ~picker.loading /\ ~picker.error =>
    LET found == {e.name : e \in Shown} \cup {n \in Names : <<picker.dir, n>> \in produced} IN
    /\ picker.listing.dir = picker.dir
    /\ \A e \in picker.listing.entries : e.kind \in been[e.name]
    /\ Cardinality(picker.listing.entries) <= MaxEntries
    /\ picker.listing.truncated => Cardinality(picker.listing.entries) = MaxEntries
    /\ picker.listing.truncated \/ \A n \in Names : been[n] \subseteq {"file", "directory"} => n \in found

\* The picker does not load for ever, wherever the user goes.
ListingEnds == picker.open /\ picker.loading ~> ~(picker.open /\ picker.loading)

=============================================================================
