------------------------------ MODULE PanelNav -------------------------------
(***************************************************************************)
(* The share center's place in the DSH shell: the controller that says     *)
(* whether its panel is open, the marks by which the panels of several     *)
(* plugins agree which one is shown, and the sidebar row, which puts       *)
(* itself back whenever the shell renders its sidebar anew.  The shell and *)
(* the other plugins are what the code relies on them to be.  Mutation     *)
(* observers are called back some time after the changes they saw.         *)
(***************************************************************************)
EXTENDS Integers

CONSTANTS
  Hub,       \* this plugin's panel
  Peers,     \* the panels of other plugins
  Roots,     \* elements that may be the root of the sidebar
  None,      \* no element
  MaxChurn   \* bound on what happens outside the plugin: renders of the shell,
             \* marks of other panels, and what the module that extends this one
             \* counts with them

VARIABLES
  mounted,   \* the sidebar entry is not disposed of
  open,      \* the controller's snapshot
  marks,     \* the panels marked active at the document element
  silent,    \* history: a peer marked itself without the activation event
  dom,       \* the shell's sidebar: connected roots, roots with a New Session
             \* button, and the root sidebarRoot() finds
  entryIn,   \* the root the row is in
  root, placed,  \* the mount's variables
  observed,  \* the root rootObserver watches
  due,       \* the observers that are to be called back
  churn      \* how much happened outside the plugin

panels  == <<open, marks, silent>>
sidebar == <<entryIn, root, placed, observed, due>>
shell   == <<dom, churn>>
navVars == <<mounted, panels, sidebar, shell>>

ASSUME NavAssumption == Hub \notin Peers /\ None \notin Roots /\ MaxChurn \in Nat

NavTypeOK ==
  /\ {mounted, open, silent, placed} \subseteq BOOLEAN
  /\ marks \subseteq Peers \cup {Hub}
  /\ dom.up \subseteq Roots /\ dom.button \subseteq Roots /\ dom.found \in dom.up \cup {None}
  /\ {entryIn, root, observed} \subseteq Roots \cup {None}
  /\ due \subseteq {"wait", "root"}
  /\ churn \in 0..MaxChurn

NavInit ==
  /\ mounted = TRUE /\ open = FALSE /\ marks = {} /\ silent = FALSE
  /\ dom = [up |-> {}, button |-> {}, found |-> None]
  /\ entryIn = None /\ root = None /\ placed = FALSE /\ observed = None
  /\ due = {} /\ churn = 0

-----------------------------------------------------------------------------
\* The sidebar row

InBody == entryIn \in dom.up

\* placeEntry: into a root with a New Session button, unless it is there.  Both
\* observers see the row move.
PlaceEntry(r, rest) ==
  /\ root' = r
  /\ placed' = (r \in dom.button)
  /\ entryIn' = IF r \in dom.button THEN r ELSE entryIn
  /\ observed' = IF r \in dom.button THEN r ELSE IF r = root THEN observed ELSE None
  /\ due' = IF r \in dom.button /\ entryIn # r THEN rest \cup {"wait", "root"} ELSE rest

\* Mutant: the label is written whatever it reads.
TryPlaceRelabels(was, left) ==
  LET rest == IF InBody THEN left \cup {"wait"} ELSE left
      r    == IF root \in dom.up THEN root ELSE dom.found
  IN IF (was /\ root \in dom.up /\ InBody) \/ r = None
     THEN due' = rest /\ UNCHANGED <<entryIn, root, placed, observed>>
     ELSE PlaceEntry(r, rest)

\* Mutant: the root is remembered for good.
TryPlaceOnce(was, left) ==
  IF (was /\ InBody) \/ (root = None /\ dom.found = None)
  THEN due' = left /\ UNCHANGED <<entryIn, root, placed, observed>>
  ELSE PlaceEntry(IF root # None THEN root ELSE dom.found, left)

\* tryPlace: a root that is gone is forgotten, with its observer's records; a row
\* in place stays; otherwise it goes to the root known, or else the one found.
\* The label is written only if it changes, so that all being well nothing does.
TryPlace(was, left) ==
  LET known == root \in dom.up
      rest  == IF known \/ root = None THEN left ELSE left \ {"root"}
      r     == IF known THEN root ELSE dom.found
  IN CASE was /\ known /\ InBody ->
            /\ placed' = TRUE /\ due' = rest
            /\ UNCHANGED <<entryIn, root, observed>>
       [] ~(was /\ known /\ InBody) /\ r = None ->
            /\ root' = None /\ placed' = FALSE /\ observed' = None /\ due' = rest
            /\ UNCHANGED entryIn
       [] OTHER -> PlaceEntry(r, rest)

WaitCallback ==
  /\ "wait" \in due
  /\ TryPlace(placed, due \ {"wait"})
  /\ UNCHANGED <<mounted, panels, shell>>

RootCallback ==
  /\ "root" \in due
  /\ IF root \notin dom.up \/ entryIn # root
     THEN TryPlace(FALSE, due \ {"root"})
     ELSE due' = due \ {"root"} /\ UNCHANGED <<entryIn, root, placed, observed>>
  /\ UNCHANGED <<mounted, panels, shell>>

\* The shell renders its sidebar: roots come and go, with and without a button.
\* waitObserver sees all of the document, rootObserver its root's inside.
Rerender ==
  /\ mounted
  /\ churn < MaxChurn /\ churn' = churn + 1
  /\ \E up \in SUBSET Roots : \E button \in SUBSET up, found \in up \cup {None} :
       /\ found = None <=> up = {}
       /\ dom' = [up |-> up, button |-> button, found |-> found]
       /\ dom' # dom
       /\ due' = due \cup {"wait"}
            \cup (IF (observed \in button) # (observed \in dom.button) THEN {"root"} ELSE {})
  /\ UNCHANGED <<mounted, panels, entryIn, root, placed, observed>>

\* A render drops the row, which the shell knows nothing of.
ThrowOut ==
  /\ churn < MaxChurn /\ churn' = churn + 1
  /\ entryIn # None
  /\ entryIn' = None
  /\ due' = due \cup (IF InBody THEN {"wait"} ELSE {})
                \cup (IF observed = entryIn THEN {"root"} ELSE {})
  /\ UNCHANGED <<mounted, panels, dom, root, placed, observed>>

\* Mutant: the observers go on.
DisposeKeepsObservers ==
  /\ mounted /\ mounted' = FALSE
  /\ entryIn' = None
  /\ due' = due \cup {"wait"}
  /\ marks' = marks \ {Hub}
  /\ UNCHANGED <<open, silent, root, placed, observed, shell>>

\* The plugin is unloaded.
Dispose ==
  /\ mounted /\ mounted' = FALSE
  /\ entryIn' = None
  /\ due' = {} /\ observed' = None
  /\ marks' = marks \ {Hub}
  /\ UNCHANGED <<open, silent, root, placed, shell>>

-----------------------------------------------------------------------------
\* Which panel is active

\* Mutant: the other panels' marks stay.
SyncActiveAdds(isOpen) ==
  /\ open' = isOpen
  /\ IF isOpen
     THEN marks' = marks \cup {Hub} /\ silent' = FALSE
     ELSE marks' = marks \ {Hub} /\ UNCHANGED silent

\* setOpen tells its listeners: an open panel takes the others' marks away and
\* sends the activation event.
SyncActive(isOpen) ==
  /\ open' = isOpen
  /\ IF isOpen
     THEN marks' = {Hub} /\ silent' = FALSE
     ELSE marks' = marks \ {Hub} /\ UNCHANGED silent

\* The row can be clicked when it is in the document; an open panel reasserts.
ClickEntry ==
  /\ mounted /\ InBody
  /\ SyncActive(TRUE)
  /\ UNCHANGED <<mounted, sidebar, shell>>

\* Escape, or a click on another row of the sidebar.
Leave ==
  /\ mounted /\ open
  /\ SyncActive(FALSE)
  /\ UNCHANGED <<mounted, sidebar, shell>>

\* Another plugin's panel opens and sends the event, on which this one closes.
PeerOpens(p) ==
  /\ mounted
  /\ open' = FALSE /\ marks' = {p} /\ silent' = FALSE
  /\ UNCHANGED <<mounted, sidebar, shell>>

\* ... or only marks itself, or takes its mark away.
PeerMarks(p) ==
  /\ mounted
  /\ churn < MaxChurn /\ churn' = churn + 1
  /\ marks' = marks \cup {p} /\ silent' = TRUE
  /\ UNCHANGED <<mounted, open, sidebar, dom>>

PeerCloses(p) ==
  /\ mounted /\ p \in marks
  /\ marks' = marks \ {p}
  /\ UNCHANGED <<mounted, open, silent, sidebar, shell>>

-----------------------------------------------------------------------------
\* The panel's mark says whether the panel is open, and unless another plugin
\* breaks the convention one panel at most is marked, in whatever order rows are
\* clicked, panels opened and events sent (syncActive, onActivate, onContext).
OnePanelMarked ==
  mounted => /\ open <=> Hub \in marks
             /\ ~silent => \A p, q \in marks : p = q

\* Once the observers have been called back, a sidebar with a New Session button
\* has the row, however often it was rendered.  The exception is a root that the
\* mount holds on to without ever having found a button in it, while another one
\* is the sidebar now.  A plugin that is unloaded leaves neither row nor mark, and
\* nothing that was under way puts them back.
RowInPlace ==
  /\ /\ mounted /\ due = {}
     /\ dom.found \in dom.button
     /\ (root \in dom.up => root = dom.found)
     => InBody
  /\ ~mounted => entryIn = None /\ Hub \notin marks

\* The row is put in its place, and the observers come to rest each time: putting it
\* there is a change that they see, and must not go on for ever.
RowComesBack == [](RowInPlace /\ <>(due = {}))

=============================================================================
