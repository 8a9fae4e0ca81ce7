--------------------------- MODULE SchemaMigration ---------------------------
(***************************************************************************)
(* The migration that runs when the Hub starts, on whatever schema an      *)
(* earlier release or an interrupted start left.  SQLite migrates in one   *)
(* transaction.  MySQL commits every DDL statement by itself, along with   *)
(* the DML before it, following a plan made from the schema found at the   *)
(* start.  The process may die between any two statements.                 *)
(***************************************************************************)
EXTENDS Integers, Sequences

CONSTANTS
  Versions,    \* the artifact versions that have shares
  MaxShares,   \* bound on the shares found, numbered in the order they were made
  MaxCrashes,  \* bound on the deaths of the process
  NoTable      \* the table does not exist

VARIABLES
  backend,    \* "sqlite" or "mysql"
  versionOf,  \* the shares found at first, and the version each is of
  disk,       \* the committed database
  work,       \* the database as the open transaction sees it
  todo,       \* the statements left to execute
  pc,         \* the process: down, migrating, up, or it refused to start
  crashes

vars == <<backend, versionOf, disk, work, todo, pc, crashes>>

Artifacts == "dsh_artifacts"
Shares    == "dsh_shares"
TableSeq  == <<Artifacts, "dsh_artifact_versions", Shares, "dsh_uploads">>
Tables    == {TableSeq[i] : i \in 1..4}

\* What the migration tells apart: the table's name; whether id is the UUID or
\* a row number beside the business key; MySQL's foreign key of the former
\* layout; created_by, created_by_id and created_by_name beside it, these two
\* filled, and alone; and, where the table has them, the workspace columns, the
\* token column and one share per version.
Layout ==
  [name : {"legacy", "dsh"}, id : {"uuid", "row"}, fk : BOOLEAN,
   creator : {"one", "added", "filled", "two"},
   workspace : BOOLEAN, token : BOOLEAN, unique : BOOLEAN]

\* ordered: row numbers ascend in the order the shares were made.
Database ==
  [table : [Tables -> Layout \cup {NoTable}], shares : SUBSET (1..MaxShares),
   ordered : BOOLEAN]

Statement == [op : {"rename", "dropfk", "rekey", "addcols", "fill", "finish", "create",
                    "token", "dedupe", "unique", "raise",
                    "ids", "creators", "tables", "uniqueness"},
              on : Tables]

ASSUME MigrationAssumption ==
  MaxShares \in Nat /\ MaxCrashes \in Nat /\ NoTable \notin Layout

TypeOK ==
  /\ backend \in {"sqlite", "mysql"}
  /\ \E n \in 0..MaxShares : versionOf \in [1..n -> Versions]
  /\ disk \in Database /\ work \in Database
  /\ todo \in Seq(Statement)
  /\ pc \in {"down", "migrate", "up", "refused"}
  /\ crashes \in 0..MaxCrashes
  /\ pc # "migrate" => work = disk /\ todo = <<>>

-----------------------------------------------------------------------------
\* Schemas

\* The _CREATE_STATEMENTS of SQLite leave the unique index to its own step.
Fresh(t) ==
  [name |-> "dsh", id |-> "row", fk |-> FALSE, creator |-> "two",
   workspace |-> TRUE, token |-> TRUE, unique |-> t # Shares \/ backend = "mysql"]

Current == [t \in Tables |-> [Fresh(t) EXCEPT !.unique = TRUE]]

Present(d) == {t \in Tables : d.table[t] # NoTable}
Having(d, columns, values) == {t \in Present(d) : d.table[t][columns] \in values}

\* Mutant: a table that does not exist counts as old.
MixedIdsCountingAbsent(d) == Present(d) # Tables /\ Having(d, "id", {"row"}) # {}

\* Mutant: old and new creator columns are not looked for together.
NoMixedCreators(d) == FALSE

\* Tables with the old and with the new layout, side by side.
MixedIds(d)      == Having(d, "id", {"uuid"}) # {} /\ Having(d, "id", {"row"}) # {}
MixedCreators(d) == /\ Having(d, "creator", {"one", "added", "filled"}) # {}
                    /\ Having(d, "creator", {"added", "filled", "two"}) # {}

Created(d) == [d EXCEPT !.table =
                 [t \in Tables |-> IF d.table[t] = NoTable THEN Fresh(t) ELSE d.table[t]]]

Duplicates(S) == \E s, k \in S : s # k /\ versionOf[s] = versionOf[k]

\* Mutant: the first share of a version is the one that stays.
EarliestShares(S) == {s \in S : \A k \in S : versionOf[k] = versionOf[s] => s <= k}

LatestShares(S) == {s \in S : \A k \in S : versionOf[k] = versionOf[s] => k <= s}

\* Mutant: MySQL adds the unique key without the DELETE before it.
NotDeduplicated(d) == {d.shares}

\* The rows with the highest number; any of a version if the numbers do not say
\* when the shares were made.
Deduplicated(d) ==
  IF d.ordered
  THEN {LatestShares(d.shares)}
  ELSE {S \in SUBSET d.shares : ~Duplicates(S) /\
                                \A k \in d.shares : \E s \in S : versionOf[s] = versionOf[k]}

\* The schemas of the releases: the prefix came first, then the row numbers,
\* then the two creator columns, then the token.  The uploads are younger than
\* the other tables.
Init ==
  /\ backend \in {"sqlite", "mysql"}
  /\ \E n \in 0..MaxShares : versionOf \in [1..n -> Versions]
  /\ \E present \in {{}, Tables \ {"dsh_uploads"}, Tables} :
     \E old \in [name : {"legacy", "dsh"}, id : {"uuid", "row"}, creator : {"one", "two"},
                 workspace : BOOLEAN, token : BOOLEAN, unique : BOOLEAN] :
       /\ Shares \in present \/ versionOf = <<>>
       /\ old.id = "row" => old.name = "dsh"
       /\ old.creator = "two" => old.id = "row"
       /\ old.workspace \/ old.token => old.creator = "two"
       /\ disk = [table |-> [t \in Tables |->
                    IF t \notin present THEN NoTable
                    ELSE [name |-> old.name, id |-> old.id,
                          fk |-> backend = "mysql" /\ old.id = "uuid" /\ t # Artifacts,
                          creator |-> old.creator,
                          workspace |-> t # Artifacts \/ old.workspace,
                          token |-> t # Shares \/ old.token,
                          unique |-> t # Shares \/ old.unique]],
                  shares |-> DOMAIN versionOf,
                  ordered |-> TRUE]
       /\ old.unique => ~Duplicates(disk.shares)
  /\ work = disk
  /\ todo = <<>>
  /\ pc = "down"
  /\ crashes = 0

-----------------------------------------------------------------------------
\* The plan

Do(op, t)     == <<[op |-> op, on |-> t]>>
When(b, plan) == IF b THEN plan ELSE <<>>

\* p for each table, in the order of _BUSINESS_KEYS.
ForEach(p(_)) == p(TableSeq[1]) \o p(TableSeq[2]) \o p(TableSeq[3]) \o p(TableSeq[4])

SqlitePlan ==
  Do("rename", Artifacts) \o Do("ids", Artifacts) \o Do("creators", Artifacts)
    \o Do("tables", Artifacts) \o Do("token", Shares) \o Do("uniqueness", Shares)

\* _identity_migration_statements
IdentityPlan(d) ==
  LET old == Having(d, "id", {"uuid"})
      DropKey(t) == When(t \in old \ {Artifacts}, Do("dropfk", t))
      Rekey(t)   == When(t \in old, Do("rekey", t))
  IN  ForEach(DropKey) \o ForEach(Rekey)

\* _creator_workspace_migration_statements
CreatorPlan(d) ==
  LET old == Having(d, "creator", {"one"})
      Split(t) == When(t \in old \cup Having(d, "workspace", {FALSE}), Do("addcols", t))
                    \o When(t \in old, Do("fill", t) \o Do("finish", t))
  IN  IF MixedCreators(d) THEN Do("raise", Artifacts) ELSE ForEach(Split)

\* _ensure_schema: what it finds at the start decides all its statements.
MysqlPlan(d) ==
  LET Create(t) == Do("create", t)
  IN  When(Having(d, "name", {"legacy"}) # {}, Do("rename", Artifacts))
        \o IdentityPlan(d)
        \o CreatorPlan(d)
        \o ForEach(Create)
        \o When(Shares \in Having(d, "token", {FALSE}), Do("token", Shares))
        \o When(Shares \in Having(d, "unique", {FALSE}),
                Do("dedupe", Shares) \o Do("unique", Shares))

-----------------------------------------------------------------------------
\* The statements

\* One column change of one table.
Set(d, t, column, value) == [d EXCEPT !.table[t][column] = value]

Renamed(d) ==
  [d EXCEPT !.table = [t \in Tables |-> IF d.table[t] = NoTable THEN NoTable
                                        ELSE [d.table[t] EXCEPT !.name = "dsh"]]]

\* _migrate_business_ids and the creators' part of
\* _migrate_creator_and_workspace_metadata rebuild the old tables with the
\* statements of today, and copy the rows in the order they have.
Rebuilt(d, old) ==
  Created([d EXCEPT !.table = [t \in Tables |-> IF t \in old THEN NoTable ELSE d.table[t]]])

\* Whether a statement succeeds, on a database it was not planned for too.
Works(d, s) ==
  CASE s.op = "dropfk"   -> d.table[s.on].fk
    [] s.op = "rekey"    -> d.table[s.on].id = "uuid"
    [] s.op = "fill"     -> d.table[s.on].creator = "added"
    [] s.op = "finish"   -> d.table[s.on].creator = "filled"
    [] s.op = "unique"   -> ~Duplicates(d.shares)
    [] s.op = "ids"      -> ~MixedIds(d)
    [] s.op = "creators" -> ~MixedCreators(d)
    [] s.op = "raise"    -> FALSE
    [] OTHER -> TRUE

\* What it may leave.
Results(d, s) ==
  LET t == s.on
      AddCreators(e) == IF e.table[t].creator = "one" THEN Set(e, t, "creator", "added") ELSE e
  IN
  CASE s.op = "rename"   -> {Renamed(d)}
    [] s.op = "dropfk"   -> {Set(d, t, "fk", FALSE)}
    \* The new row numbers follow the primary key, which is the UUID.
    [] s.op = "rekey"    -> {[Set(d, t, "id", "row") EXCEPT !.ordered = @ /\ t # Shares]}
    [] s.op = "addcols"  -> {AddCreators(Set(d, t, "workspace", TRUE))}
    [] s.op = "fill"     -> {Set(d, t, "creator", "filled")}
    [] s.op = "finish"   -> {Set(d, t, "creator", "two")}
    [] s.op = "create"   -> {IF d.table[t] = NoTable THEN [d EXCEPT !.table[t] = Fresh(t)]
                                                     ELSE d}
    [] s.op = "token"    -> {Set(d, t, "token", TRUE)}
    [] s.op = "dedupe"   -> {[d EXCEPT !.shares = S] : S \in Deduplicated(d)}
    [] s.op = "unique"   -> {Set(d, t, "unique", TRUE)}
    [] s.op = "ids"      -> {LET old == Having(d, "id", {"uuid"})
                             IN  IF old = {} THEN d ELSE Rebuilt(d, old)}
    [] s.op = "creators" -> {LET old == Having(d, "creator", {"one", "added", "filled"})
                             IN  IF old # {} THEN Rebuilt(d, old)
                                 ELSE IF d.table[Artifacts] = NoTable THEN d
                                 ELSE Set(d, Artifacts, "workspace", TRUE)}
    [] s.op = "tables"   -> {Created(d)}
    [] s.op = "uniqueness" -> {Set([d EXCEPT !.shares = S], t, "unique", TRUE) :
                                 S \in Deduplicated(d)}

\* Mutant: SQLite's statements commit one by one.
CommitsAlways(s) == s.op \notin {"fill", "dedupe"}

\* DDL commits on MySQL, with the DML before it.
Commits(s) == backend = "mysql" /\ s.op \notin {"fill", "dedupe"}

-----------------------------------------------------------------------------
\* The process

Start ==
  /\ pc \in {"down", "refused"}
  /\ IF backend = "mysql" /\ MixedIds(disk)
     THEN pc' = "refused" /\ todo' = <<>>
     ELSE pc' = "migrate" /\ todo' = IF backend = "mysql" THEN MysqlPlan(disk) ELSE SqlitePlan
  /\ UNCHANGED <<backend, versionOf, disk, work, crashes>>

Execute ==
  /\ pc = "migrate" /\ todo # <<>>
  /\ Works(work, Head(todo))
  /\ work' \in Results(work, Head(todo))
  /\ disk' = IF Commits(Head(todo)) THEN work' ELSE disk
  /\ todo' = Tail(todo)
  /\ UNCHANGED <<backend, versionOf, pc, crashes>>

\* The statement, or a check before it, raises: the transaction is rolled back
\* and the start has failed.
Fail ==
  /\ pc = "migrate" /\ todo # <<>>
  /\ ~Works(work, Head(todo))
  /\ pc' = "refused"
  /\ work' = disk
  /\ todo' = <<>>
  /\ UNCHANGED <<backend, versionOf, disk, crashes>>

\* Mutant: the transaction is left open.
CommitForgotten ==
  /\ pc = "migrate" /\ todo = <<>>
  /\ pc' = "up"
  /\ UNCHANGED <<backend, versionOf, disk, work, todo, crashes>>

Commit ==
  /\ pc = "migrate" /\ todo = <<>>
  /\ disk' = work
  /\ pc' = "up"
  /\ UNCHANGED <<backend, versionOf, work, todo, crashes>>

Crash ==
  /\ pc \in {"migrate", "up"}
  /\ crashes < MaxCrashes
  /\ crashes' = crashes + 1
  /\ pc' = "down"
  /\ work' = disk
  /\ todo' = <<>>
  /\ UNCHANGED <<backend, versionOf, disk>>

Next == Start \/ Execute \/ Fail \/ Commit \/ Crash

Spec == Init /\ [][Next]_vars

\* The service is restarted whenever it ends, and its statements end.
FairSpec == Spec /\ WF_vars(Start) /\ WF_vars(Execute \/ Fail \/ Commit)

-----------------------------------------------------------------------------
\* The Hub serves on today's schema only, with one share per version, however
\* many starts it took to get there.
ServesCurrentSchema ==
  pc = "up" => disk.table = Current /\ ~Duplicates(disk.shares)

\* A version that had shares keeps one at all times, and the latest of them as
\* long as row numbers tell which that is.
VersionKeepsShare ==
  \A s \in DOMAIN versionOf :
    \E k \in disk.shares : versionOf[k] = versionOf[s] /\ (disk.ordered => k >= s)

\* A start that nothing interrupts succeeds on the schema of every release.
FirstStartSucceeds == crashes = 0 => pc # "refused"

\* With SQLite, what is on disk goes from what was found to today's schema in
\* one step, wherever the process dies.
Migrated(d) == [table |-> Current, shares |-> LatestShares(d.shares), ordered |-> TRUE]

SqliteIsAtomic == [][backend = "sqlite" => disk' = Migrated(disk)]_disk

\* With SQLite, the Hub comes up again after every crash.
SqliteComesUp == [](backend = "sqlite" => <>(pc = "up"))

\* docs/deployment.md:145: repository startup runs schema and data migrations
\* automatically.
StartSucceeds == pc # "refused"

=============================================================================
