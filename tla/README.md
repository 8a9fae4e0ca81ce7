# Formal model of DSH Artifact Hub

TLA+ modules, TLC configurations and TLAPS proofs for dsh-artifact-hub: what
happens to artifacts, versions, files and links when Session Files are shared,
shared again, uploaded by NAS, revoked, and when calls fail or processes die half
way; what a reader gets meanwhile; how the plugin host carries a share through
lost and late calls; what the share dialog, the share center, the file picker and
the public page show while answers come in any order; and how the databases of
earlier releases are migrated.

## 1. The system

A user of DeepSeek Harness shares a *Session File* (a session and a path in its
workspace). The share freezes a snapshot of the file as a *version* of an
*artifact* and hands out a link with a token. Parts:

| part | code | state | operations |
|---|---|---|---|
| application service | `hub/.../services/artifact_hub.py` | the operation lock (an `RLock`), the preview secret | `create_local_share`, `prepare_nas_share`, `commit_nas_share`, `revoke_share` (serialized by the lock); `resolve_share`, `read_share_content`, `list_created_shares` (not serialized) |
| repository | `hub/.../repositories/{sqlite,mysql}.py` | tables `dsh_artifacts`, `dsh_artifact_versions`, `dsh_shares`, `dsh_uploads` | one transaction per call; schema migration at start |
| storage | `hub/.../storage/filesystem.py` | one file per storage key | `copy_snapshot`, `inspect`, `open`, `discard` |
| HTTP API | `hub/src/api` | none | maps requests to service calls, exceptions to status codes |
| plugin host | `plugins/.../src/host` | none between requests | `createNasShare` (prepare, copy, commit), request client, workspace listing |
| plugin client | `plugins/.../src/client` | React state, panel controller | share dialog, lookup of an existing share, share center, sidebar entry |
| share page | `apps/share-web` | page state | loads a public share, with retry |
| deployment | `deploy/`, `scripts/` | none | systemd restarts the Hub on failure |

How they interact: the client asks the plugin host to share; in LOCAL mode the
host calls the Hub once, in NAS mode it asks the Hub for an upload (which
reserves a version number and a storage key), writes the file itself to that
key, and asks the Hub to commit. The Hub calls the repository and the storage.
The public page reads a share by its token.

What makes it hard, part by part, and what being correct means:

* **Service.** An operation is several calls, each committed alone; any may
  raise, and the process may die between two. Correct: artifacts are unique per
  creator and file, a version number is used once, a version's file holds what
  its checksum says, a link lasts until it is revoked and not longer, and a
  share can be revoked by the artifact's creator.
* **NAS protocol.** The host writes files outside the Hub's lock, and a prepared
  upload may be committed late, in any order, or never. Correct: what the host
  copied is still there at the commit, and no two writers have the same key.
* **Reads, expiry and preview tokens.** Not serialized by the lock, depend on a clock, and
  on a secret drawn at each start.
* **Migrations.** SQLite migrates in one transaction, MySQL statement by
  statement.
* **Plugin host.** A share is three calls and a copy in NAS mode, each of which may
  fail, be aborted or be answered late. Correct: what is answered is stored, nothing
  is published twice, no part of a file is ever under a storage key, and an aborted
  request ends.
* **Client.** Answers that arrive late or out of order must not overwrite newer
  state: the dialog's expiry, the share center's list, the picker's directory, the
  page's retry. The sidebar row lives in a document that the shell renders anew, and
  the panel shares the screen with those of other plugins.

`PROJECT.json` lists every component with its status, and every hazard at the
line where it bites.

## 2. Modules

| module | models | role |
|---|---|---|
| `HubStore` | repository and storage: tables as functions, one operator per query and per transaction, file copy and discard | state the service works on |
| `ArtifactHub` | the service, the host's copy, crashes | composes `HubStore` with the operations; the properties |
| `ShareContract` | what a link promises: issued for one content, revoked, never revived | abstract specification that `ArtifactHub` implements |
| `MCArtifactHub` | small instance for TLC, with its symmetry set | model checking |
| `ArtifactHub_proofs` | type correctness, identity of artifacts, reservation of versions; files and links; local versions differ from the latest one; stored files stay; the refinement of `ShareContract` | TLAPS |
| `ShareAccess` | reading by link and by preview token, expiry, the clock, restarts | the unserialized half of the service |
| `MCShareAccess` | small instance for TLC | model checking |
| `ShareAccess_proofs` | type correctness, entitlement, life of previews | TLAPS |
| `ShareDialog` | the plugin's share dialog with its two kinds of request and the Hub as they see it | the client |
| `MCShareDialog` | small instance for TLC, with its symmetry set | model checking |
| `SchemaMigration` | the migration at start, SQLite in one transaction, MySQL statement by statement, with crashes | the repository's other half |
| `MCSchemaMigration` | small instance for TLC | model checking |
| `SchemaMigration_proofs` | type correctness, today's schema, kept shares, SQLite's one step; the starts that succeed | TLAPS |
| `ShareDialog_proofs` | type correctness, live links, links as shown | TLAPS |
| `HostShare` | the plugin host serving share requests, LOCAL and NAS, with the Hub behind a network that loses and delays | the host |
| `MCHostShare` | small instance for TLC | model checking |
| `HostShare_proofs` | type correctness, answered shares, one version per request, files | TLAPS |
| `PanelNav` | the panel controller, the marks shared with other plugins, the sidebar row and its observers | used by the next |
| `ShareCenter` | the share center's list and cards, on top of `PanelNav` | composes list and panel |
| `MCShareCenter` | small instance for TLC | model checking |
| `ShareCenter_proofs` | type correctness, exclusive panels, the row's place, current previews | TLAPS |
| `ShareWeb` | the public page with its preview | the reader's side |
| `MCShareWeb` | small instance for TLC | model checking |
| `ShareWeb_proofs` | type correctness, true pages, one load at a time | TLAPS |
| `FilePicker` | the picker of a file and the host's listing of a directory | composes client and host |
| `MCFilePicker` | small instance for TLC | model checking |
| `FilePicker_proofs` | type correctness, true listings | TLAPS |

### How `ArtifactHub` corresponds to the code

*State.* `artifacts`, `versions`, `shares`, `uploads` are the tables, `files` the
storage root. A version row and its file are both named by artifact and number:
the schema has `UNIQUE(artifact_id, version)`, and the storage key is made of
creator, artifact, number and name, where the artifact fixes creator and name.
`lock` is `_operation_lock`; `op[t]` is the operation thread `t` is in, with the
locals of the Python frame: the step it is at (`pc`), the creator, the Session
File, whether the artifact is new, the snapshot's key, the version shared
(`row`), the bytes (checksum), the upload and the token. `nextArt`, `nextUpl` and
`nextTok` stand for random identifiers and tokens: a fresh one was never used.
`sent` is what the host copied for each upload, and so the checksum it sends.
`delivered` and `dead` are history: links returned to a user, tokens revoked.

*Actions.* One per call of the repository or the storage, since that is where
an operation can fail or die and what the store holds at that moment:

| operation | steps |
|---|---|
| `create_local_share` | `LocalBegin` (lookup, next version), `LocalCopy`, then `LocalReuse` (same checksum as the latest version: discard the snapshot, share that version) or `LocalPublish`; `InsertArtifact` (new artifacts only), `InsertVersion`, `UpsertShare`, `ReadBack` |
| `prepare_nas_share` | `PrepareBegin`, `InsertArtifact` (new artifacts only), `InsertUpload` |
| the host's copy | `HostCopy`, any time after the upload is prepared, outside the lock; `copyNasSnapshot` writes a temporary file and renames it |
| `commit_nas_share` | `CommitBegin` (creator, state, file and checksum checked), `InsertVersion`, `UpsertShare`, `ReadBack`, `InsertCommitted` |
| `revoke_share` | `RevokeShare` |

`Raise` is an exception at any point of an operation: the lock is released,
`create_local_share` discards the snapshot if it had been copied, and nothing
that was committed is undone. It is possible at every step when `Faults`
contains `"error"` (a busy database, a full disk, an expiry the repository call
refuses), and where a call refuses by itself (`Refused`) in any case. `Crash` is
the death of the process within an operation, followed by the restart: threads
and lock are gone, tables and files are as they were.

*Threads.* In the deployed server every handler is an `async def` that calls the
service directly (`hub/src/api/routers/shares.py:84-201`), in one `uvicorn` process
(`hub/src/api/main.py:108-112`), so one operation or read ends before the next begins.
What really interleaves with them is the clock, the host's copy, and the prepare, copy and
commit of one upload with other requests. The threads of `ArtifactHub` and the steps of
`ShareAccess` are those the class `ArtifactHub` itself provides for, with its `RLock` and with
reads outside it: more behaviours than the deployed ones, so what holds here
holds there. That two threads meet at the lock (`OneArtifactPerSource` without failures,
`LockIsReleased`), and that a share is revoked in the middle of a read, can happen to the
class only; crashes and failing calls between the steps, late commits and gaps in the
numbers happen in the deployed server.

*Left out.* Names, MIME types, titles, paths and times; visibility and
permission (one value each is accepted); path validation, which only decides
whether an operation starts. An explicit `artifact_id` is accepted only if it is
the creator's artifact of the same Session File, so it adds no behaviour. The
shares of rows from before tokens were stored are left out with the migrations.
The commit's checksum is optional in the API; the host always sends it, and so
does the model. An operation that is refused before its first write is a
stutter.

### How `ShareAccess` corresponds to the code

*State.* `shares` is `dsh_shares` of one creator, `now` the clock in ticks (`Second`
of them make a second: rows have microseconds, tokens whole seconds), `epoch` the
start of the process, which stands for `_preview_secret`. `req[r]` is a read or
list request with its local variables: the step it is at and the row or rows
it has read. `previews` is every preview token handed out. `entitled` is history:
whether the request's token gave access at some moment since it began.

*Actions.* `resolve_share` and `read_share_content` make one query for a link
(`FindByHash`), two steps for a preview (`CheckPreview`, `FindById`), then check the
row they hold against the clock (`CheckShare`) and read the file (`ServeContent`).
`list_created_shares` queries (`ListShares`) and then signs (`MintPreviews`). None of
them takes the operation lock, so `Tick`, `UpsertShare` (share or commit),
`RevokeShare` and `Restart` come between any two of them (in the deployed server only
`Tick` does, within one request; see *Threads* above). Serialized operations
change a share's row by one statement, so they are one step here; `ArtifactHub` has
their insides. `Init` includes a row left by an older schema, whose token is known
by its hash only.

*Assumed.* The clock does not go back; signatures are not forged and random
tokens do not collide. What a file holds is `ArtifactHub`'s matter.

### How `ShareDialog` corresponds to the code

*State.* `expiresAt`, `savedExpiresAt`, `state`, `url` and `existingUrl` are the
React state of `ShareDialog.tsx` (the rest of it is wording), `shown` whether it is
mounted, `list` the request for the list of shares, and `call` the share request
with the values its closure took. `hub` is one row for each version of the file.
`doubt`, `asked` and `left` are history: `left` is the link that the last step let
out of the dialog, and how. `doubt` says that the Hub may have served, since the
dialog learnt what is saved, a share whose answer the dialog does not have. A share
that succeeds ends it, unless a late one was served behind it (`"overtaken"`).

*Actions.* `AnswerList` is what the Hub answers with `matchCreatedShare` applied,
`LandList` the effect's handler, and both come at any time. `Submit`, `CopyOrOpen`,
`FollowAnchor`, `Edit`, `Open` and `Close` are what the user can do in the view that
is shown (`FormView`, `ExistingView`, `SuccessView`). A share request is `StartShare`,
`ServeShare` (the Hub, LOCAL or NAS) and `ShareSucceeds`, with `ShareFails` anywhere
between: the request or its answer is lost, or slow. All the dialog learns is that the
call broke (`ShareDialog.tsx:81`, `host/client.ts:155`); nothing withdraws the request. A
request given up before the Hub served it may therefore go into `late`, a count for
each expiry, and `ServeLate` serves it at any later time: before, between and after the
retry's steps, with the dialog closed or opened again. `Serve` is what either does at
the Hub. A request under way when the dialog is taken off the page (which `Close`
does not do) is one that fails, followed by `Close`.

*Simplified.* Expiry times are whole minutes, all the field can hold. `Serve` is one
change of the Hub, and a NAS upload's number is that of its commit, not of its
prepare. Nobody revokes a share while the dialog is open. A click on Copy calls
`copy` from the button and again from the form: React renders between the two, so
the second finds the button disabled while sharing, or repeats a copy, which changes
nothing.

### How `SchemaMigration` corresponds to the code

*State.* `disk` is the committed database and `work` what the open transaction sees:
for each table what the migration tells apart (its name, whether `id` is the UUID
or a row number, MySQL's foreign key, the creator columns, the workspace and
token columns, the unique key), and which shares are stored. `todo` is the list of
statements left, `pc` the process. `versionOf`, which does not change, has the
shares found at first.

*Actions.* `Start` inspects and makes the plan: MySQL's is a list of statements that
depends on what was found (`MysqlPlan`), SQLite's is its six steps, which look for
themselves (`SqlitePlan`). `Execute` runs a statement; on MySQL a DDL statement
commits, with any DML before it (`Commits`), though the code runs all of them in
`engine.begin()`. `Fail` is a statement or check that raises, `Commit` the end,
`Crash` a death anywhere. `Init` has the schemas of the releases, as the tests and
the migration's own branches tell them.

*Simplified.* The rows of the other tables are copied or altered in place and are
left out, as is the index that is dropped and added in the statement that drops
`created_by`. Both names of a table at once, which both stores refuse, cannot
come about: SQLite renames in its transaction and MySQL in one statement.
MySQL numbers the rows of an altered table by its primary key, the UUID, so the
numbers do not say which share is the latest (`ordered`).

### How `HostShare` corresponds to the code

*State.* `req[r]` is the frame of `handleShareRequest` and `createNasShare` for one
request: where it is, the reserved key, the checksum of what it has read, and its
`AbortSignal`. `call[r]` is its latest `fetch` to the Hub with what came of it, which
the host may not know yet or ever. `tmp` and `files` are the temporary files and the
storage root; `uploads` and `versions` the Hub's tables, as far as this file's version
numbers go. `source` and `root` say whether the Session File and the NAS can be
resolved now. `answer` is what the browser gets.

*Actions.* `Receive` is `handleShareRequest` up to the mode, `Resolve` the first lines
of `createNasShare`, `TakeAnswer`, `CallBreaks` and `WaitAborts` the three ways a wait for
the Hub ends (`post` in `client.ts`, the codes in `route.ts`), `OpenCopy`, `Stream`, `Rename`
and `Unlink` are `copyNasSnapshot`. `HubHandles` is one operation of the Hub: it may be
done and fail to answer, and it may be done long after the host stopped waiting.
`Abort`, `PathsChange` and `Crash` are the surroundings; after a crash the host may run
in the other mode.

*Simplified.* An operation of the Hub is one step, which its lock justifies
(`ArtifactHub` has the insides). All requests are for one Session File: requests for
different files touch each other nowhere. Lookups of lists and public shares by the
host pass the answer on; their part is in `ShareCenter` and `FilePicker`.

### How `PanelNav` and `ShareCenter` correspond to the code

*State.* `open` is the controller's snapshot, `marks` the attributes by which the
plugins agree which panel is shown. `root`, `placed`, `observed` are the variables of
`mountSidebarEntry`, `entryIn` where its row is, `dom` what the shell renders: the
roots in the document, those with a New Session button, and the one the selector
finds. `due` has the mutation observers that saw a change and have not been called
back. `history` has the creator's shares at each moment; `list`, `loading` and `error`
are the workspace's React state, with the list given by the moment it is of.
`calls` are the requests under way.

*Actions.* `WaitCallback` and `RootCallback` are the observers' callbacks, with
`tryPlace` and `placeEntry` in them; `ClickEntry`, `Leave`, `PeerOpens`, `PeerMarks`,
`PeerCloses` are the ways the marks change; `Dispose` unloads the plugin. `OpenPanel`,
`ClosePanel`, `Refresh`, `Land` are the workspace's effect and its button around `load`,
`HubLists` the answer of the host. `Cards`, `Rows` and `Preview` are the filter, the
collapsed card and the card's preview.

*Simplified.* An aborted call does nothing more, unless its answer was in already.
Observers see the list of children, not attributes. The search matches an artifact
or a version. The shell and the other plugins are external: they do what the code
relies on, and `PeerMarks` is one that breaks the convention.

### How `ShareWeb` corresponds to the code

*State.* `page` is App's state with an error by its code, `preview` that of
`ArtifactPreview`, `loads` the calls of `loadShare`, one slot for each place that makes
one. `link` is what the Hub says of the token at the moment. `basis` and `fetched` are
history: the link's states while the load behind the page, or the fetch of the text,
was under way.

*Actions.* `HubAnswers` is an answer or a failure of the call, `Land` is `loadShare` after
its await with `fetchPublicShare`'s and `normalizeErrorCode`'s reading of the answer
(`Outcome`), `LandAborted` StrictMode's first load, `Retry` and `Reload` what the user can
do, `PreviewLands` the end of the text's fetch. `Kind` is `previewKind`.

*Simplified.* A file is its two classes, by MIME type and by extension. Rendering is
left out. Media are loaded by the browser and have no state here.

### How `FilePicker` corresponds to the code

*State.* `tree` is the workspace, a directory with a subdirectory; `picker` the picker's
React state; `calls` its requests, each with the state of the host's walk (`left`,
`entries`). `produced` are the produced files above the list. `been` is history: what
each name was while the listing shown was made.

*Actions.* `ReadNames`, `LookAtNext` and `Reply` are `listWorkspaceFiles`, with
`WorkspaceChanges` between any two of its calls; `HostFails` is every error of the route
and the call. `OpenPicker`, `GoTo`, `ClosePicker` start and abort requests as the effect
does, `Land` and `LandError` are its end.

*Simplified.* One level of directories is enough to go down and up. Names are numbers
in the order the host sorts them in.

## 3. Runs

| run | question | bounds | states | expected |
|---|---|---|---|---|
| `hub_safety` | do two creators sharing one file in every way, with errors and crashes, keep the store consistent? | 2 creators, 1 file, 2 contents, 2 threads; 2 artifacts, versions, uploads, tokens | 747,698 | holds |
| `hub_contract` | without failing calls but with crashes, is a link good for the same bytes until revoked, and the lock always released? | 1 creator, 1 artifact, 2 threads, 3 versions, 2 uploads, 3 tokens | 145,323 | holds |
| `share_access` | is only served what could have been served to an uninterrupted request? | 1 share, 1 request, 2 link tokens, 2 starts, clock of 4 ticks, 2 ticks a second, previews of 1 second | 789,589 | holds |
| `share_dialog` | does the dialog hand out live links with the expiry it shows, whichever request is lost or served late? | 2 dates and none, 2 versions, 3 tokens, 1 late request for each expiry | 1,480,310 | holds |
| `schema_migration` | does the Hub come up on today's schema, with nothing lost? | 3 shares of 2 versions, 2 crashes | 17,999 | holds |
| `host_share` | does the host's protocol keep its word when calls are lost, late or aborted and the host crashes? | 2 requests, 2 contents, 2 versions | 300,464 | holds |
| `share_center` | are the list, the row and the panel right whatever happens around them? | 1 other panel, 2 sidebar roots, 1 artifact of 2 versions, 1 refresh, 3 outer events | 330,882 | holds |
| `share_web` | does the page tell the truth, and is there a way out of every failure? | 4 MIME classes, 3 extension classes, 3 changes, 3 faults | 158,404 | holds |
| `file_picker` | is the list that of the directory named, while files and the user move? | 3 names, lists of 2 entries, 1 change, 2 requests | 428,580 | holds |
| `hub_discard` | is a discarded file always unpublished? (`filesystem.py:86`) | 1 thread, errors | | violated |
| `dialog_edit` | does an edited expiry reach the Hub before the link leaves? (`ShareDialog.tsx:95`) | 2 versions | | violated |
| `schema_mysql` | does a start migrate what an interrupted start left? (`docs/deployment.md:145`) | 2 crashes | | violated |

What the properties say:

* `OneArtifactPerSource`: no creator has two artifacts for a Session File.
* `VersionReserved`: no two uploads have one key, and a version under a reserved
  key came from that upload.
* `VersionBytes`: a version's file is never other bytes than its checksum says;
  it may be missing only for a LOCAL version (that exception is the defect that
  `hub_discard` shows).
* `DeliveredLinkHolds`, `RevokedStaysDead`: a link returned to a user is live, for
  the content shared, until it is revoked, and never after.
* `ShareOwner`: a share belongs to the creator of its artifact, who alone can
  revoke it.
* `LocalNeverRepeatsLatest`: a local share never stores a copy of the latest
  version.
* `KeepsContract`: `ArtifactHub` implements `ShareContract` under the mapping that
  takes a token to the state and the bytes of the version that carries it.
* `ServedWasEntitled`: when content is served, the request's token gave access at
  one moment since the request began, whatever happened between its calls.
* `PreviewLifetime`: a preview is good for its whole life until a restart, and for
  less than one second more.
* `CopiedAsShown`: the link that Copy or Open lets out has, at the Hub, the expiry
  the dialog shows, unless the Hub has served a share that the dialog has no answer of
  since it learnt what is saved (the answer was lost, or the request given up and
  served late), or the list landed after a share was asked for. These are the only
  ways for the two to differ, and TLC finds each of them when `doubt` leaves it out.
* `LeftLinkIsLive`: a link that leaves the dialog is always live.
* `ServesCurrentSchema`: the Hub is up on today's schema only, with one share per
  version, whichever starts were interrupted before.
* `VersionKeepsShare`: no version loses its share, nor its latest one where row
  numbers say which that is.
* `FirstStartSucceeds`: an uninterrupted start succeeds on every release's schema.
* `SqliteIsAtomic`, `SqliteComesUp`: on SQLite the disk goes to today's schema in one
  step, and the Hub comes up after every crash.
* `LockIsReleased`: whoever holds the lock lets go of it.
* `AnsweredShareHolds`: a share the browser is told of exists; a NAS share is of
  exactly the bytes the host copied, and left no temporary file.
* `PublishesOnce`: a request publishes one version at most, and one that is answered
  as its own fault none, so that it can be made again.
* `NoPartialFile`, `PublishedFileStays`: what lies under a storage key is whole, and is
  not written again once its version is published.
* `AbortEnds`: an aborted request ends, whatever the Hub does.
* `OnePanelMarked`: one panel at most is marked, and this plugin's mark says whether
  its panel is open.
* `RowComesBack`: when the observers have been called back, the row is where it
  belongs, and they do come to rest, though placing the row calls them again.
* `PreviewsAreCurrent`: the previews the cards offer were live at some moment since
  the latest request, and no share that was live all the while is hidden by the
  filter or a collapsed card. Named exception: a refresh that outlived a closing.
* `LoadingEnds`, `ListingEnds`: no load of the share center or the picker lasts for ever.
* `PageIsTrue`: what the page says without offering a retry was so while it was asked,
  and a link called revoked or unknown does not work again.
* `OneLoadDecides`: when the page shows something, no load is left that could replace it.
* `AdviceHelps`: who retries, and reloads after a failed preview, comes to a verdict of
  the Hub.
* `ListingIsTrue`: the list is of the directory named, of things that were there while it
  was made, and of all that were there throughout, unless it says it was cut off.

*Why the bounds are enough.* Two creators of one Session File are what identity
and ownership can confuse; two uploads and a local share compete for numbers
with two versions already, and `hub_contract` adds a third version so that a gap
in the numbers, a late commit and a share after it all occur. Two contents are
what equal and unequal checksums need. Two threads compete for the lock, and a
third would wait like the second. Symmetry in creators, contents and threads is
used in safety runs only; none of them is singled out by the specification.
One reading request is enough because requests touch each other only through
`previews`, which any request may use. Four ticks at two a second hold the life of
a preview issued at either half of a second, the moment of its end, and one
after it. A share that gets a second token and a second start of the process
are what a token can outlive. With two versions the dialog starts from two shares, of
which the list may show the older one while a save goes to the newer, or from one and
makes the other; a third would be a row that neither the list nor a save looks at. Two
dates and no date are the expiry shown, one at the Hub that differs, and the empty field,
which is the only one singled out. One late request for each expiry lets several be
served, in any order.

Three shares of two versions give one version duplicates, and two crashes an
interrupted repair of an interrupted migration.

Two requests of the plugin host are what lost, late and retried calls need to compete
for numbers and files: the second is the retry of the first. Two roots of a sidebar
are the one the row is in and the one it should be in; three events outside the plugin
are a render, another one before the observers are called back, and a change of
the shares. Two versions, of which a collapsed card shows one, are what a preview can be
hidden behind. The page is asked about each kind of file its tests can confuse, and
three changes take a link through expiry, sharing again and revocation. Three names
in lists of two entries give a list that is cut off and one that would be but for a
name that went away.

Deadlock is not checked (`CHECK_DEADLOCK FALSE`) where the system may really stop: the
bounded identifiers run out, or the plugin is unloaded.

*Fairness.* `FairSpec` assumes weak fairness of `Step(t)`: a thread that is inside
an operation goes on, by the next call or by an exception. The operating system
schedules threads, and no call of an operation waits for anything but the
database and the file system. Nothing is assumed of users, the host or crashes.
`SchemaMigration`'s `FairSpec` assumes that the service is started again when it
ends (`Restart=on-failure`) and that its statements end; crashes are bounded.
`HostShare`'s assumes weak fairness of the host's own steps, each an `await` on the file
system or the handling of an answer or an abort; nothing is assumed of the Hub or
the network, so a request without a signal may wait for ever, as in the code.
`ShareCenter`'s assumes that observers are called back, which the DOM promises, and
that requests settle; `ShareWeb`'s and `FilePicker`'s that the browser and the host
end each call, by an answer or an error. Nothing is assumed of users, other plugins
or the shell; `AdviceHelps` has what the user does as its premise.

### Disagreements found

* `hub_discard`: `create_local_share` discards the snapshot on any exception,
  although the version row may be committed already (`artifact_hub.py:139`). The
  version then has no file, and since its checksum is still the latest one,
  sharing the same content again succeeds with a link that cannot be read.
  `VersionBytes` and its theorem leave out missing LOCAL files, so only `hub_discard`
  shows this; they do show that NAS versions are safe from it.
* `dialog_edit`: the first form's field stays enabled while a share is on its way
  (`ShareDialog.tsx:197`); what is entered then is shown nowhere in the success
  view, whose anchors (lines 138 and 142) let the link out as it is. Copy saves
  it first.
* `schema_mysql`: MySQL's migration is not restartable. A crash behind the first
  dropped foreign key, between two altered tables, or between the new creator
  columns of a table and the loss of its old one leaves a schema that every
  later start refuses (`mysql.py:176`, `mysql.py:254`). `ServesCurrentSchema` shows
  that it is refused and never served; SQLite has no such state.

Others are recorded here only:

* A commit is not the transaction that `docs/overview.md:850-859` describes. After a
  failure behind `create_version` the upload stays PREPARED and can never be
  committed, because its version number is taken by itself.
* `README.md:62` says that identical content reuses the version; a NAS commit never
  compares checksums. What a user sees of it: with NAS storage the "idempotent
  endpoint" of the plugin's `README.md:67` makes a new upload, so saving an expiry yields
  a new version with a new link, and the link already handed out keeps its old
  expiry.
* The sidebar row does not always heal itself: `mountSidebarEntry` holds on to a root
  that is still in the document, and if that one has no New Session button while a
  newer one has, the row stays out (`sidebar-entry.ts:161`). `RowInPlace` names the case.
* A refresh of the share center has no signal (`ArtifactHubWorkspace.tsx:151`). When the
  panel is closed and opened again meanwhile, its answer lands over the newer list.
* A card's latest version is that of the shares that pass the filter
  (`ArtifactHubWorkspace.tsx:188`), so filtering may call an older version the latest.
* Preview links in the list live ten minutes, the list as long as the panel is open.
* The public page's fetch has no timeout. `previewKind` looks extensions up in a plain
  object, so an extension such as `constructor` finds an inherited member; and a
  media preview that the Hub refuses shows the error's JSON in its frame.
* A directory named `..x` is listed but refused when opened, a name with a backslash is
  resolved to another path, and the picker's search filters only the entries listed,
  500 at most. While a directory loads, the hint that the old list was cut off stays.
* After MySQL has renumbered a share table of the oldest layout, its DELETE keeps
  the share with the greatest UUID of a version, where SQLite keeps the latest.
* `README.md:63` says that re-sharing replaces the link, while the code keeps a
  live token (`artifact_hub.py:475-477`, and `hub/README.md` agrees with the code).
* `shareLookup.ts:21` says that a file has at most one live share. Every version
  has its own; the tie-break that follows it, called defensive, is what picks.
* `ShareDialog.tsx:53` takes an empty field for one not edited: an expiry typed and
  cleared before the list arrives is restored from the list.
* The list may land after a share was made and then sets `savedExpiresAt` to the
  expiry before it. The same notion is wrong when an answer was lost, and when a
  request that the dialog gave up is served later: after a retry with another expiry it
  overwrites the retried one (`artifact_hub.py:481`; requests carry no order), and the
  dialog goes on showing the retry's. `CopiedAsShown` names these cases (`doubt`).

## 4. Proofs

The theorems hold for every value of the constants that satisfies
`StoreAssumption` and `HubAssumption` (the bounds are natural numbers, and the
model values for "no row", "no file", "idle" and "no thread" are no ordinary
values). TLC evaluates both assumptions in every run. There is no assumption on
`Faults`, except in two theorems that say so: all else is proved with errors and
crashes.

The invariant is built in five layers, each inductive relative to the former:

1. `TypeInv` = `TypeOK` and `OpShape`. `TypeOK` is not inductive alone: that a
   version is stored with the checksum of a file that exists depends on which
   thread holds the lock and how far its operation is. `OpShape` says so, and
   lemma `Running` (a running operation holds the lock, so all others are idle)
   is what every later step rests on.
2. `IdentityInv`: identifiers above `nextArt` and `nextUpl` are unused; the artifact
   of a running operation is either stored, as that of its creator and file, or
   it is new and no such artifact exists. Gives `OneArtifactPerSource`.
3. `ReservationInv`: the key of a share or preparation in progress is free of
   uploads, and of versions until it stores its own; a commit's key is its
   upload's. Gives `VersionReserved`.
4. `FilesInv`: what is about to be stored as a checksum is what the file holds.
   From layer 3, a local operation writes and discards files only under keys no
   upload has. Gives `SentFileIntact` and `VersionBytes`.
5. `LinksInv`: tokens are unique and below `nextTok`, a revoked row's token is in
   `dead`, and the row an answer is built from is live. Gives `DeliveredLinkHolds`,
   `RevokedStaysDead` and `ShareOwner`.

The last part of `ArtifactHub_proofs` adds to these:

* `FreshInv`: what a local share is about to store differs from the latest version.
  Gives `LocalNeverRepeatsLatest`.
* `NoDiscard`: under `"error" \notin Faults` an operation ends early only where a call
  refuses by itself, which no local share ever meets, so no snapshot is
  discarded behind its version. Gives `StoredVersionHasFile`. Crashes are allowed.
* `LinkView`: the state the refinement mapping gives a token, in terms of the one
  row that carries it. With it each step of the Hub is shown to be a step of
  `ShareContract` or a stutter: `HubKeepsContract`, under the same assumption.
  Without the assumption it is false, which is what `hub_discard` is about.

Each layer has a lemma per action (or per group of actions that leave it alone,
through a frame lemma), a lemma that `[Next]_vars` preserves it, and a theorem of
the specification.

`ShareAccess_proofs` has two invariants besides `TypeOK`, from `AccessAssumption`:

* `EntitledInv`: if the copy of the row a request holds passes the checks now, then
  its token gave access when that copy was read. A copy does not come to pass
  later, since time only goes on (`StillEntitled`). Gives `ServedWasEntitled`.
* `PreviewInv`: a preview's expiry is that of the second it was issued in, and it was
  issued in the past. With `WholeSeconds`, a fact about division, this gives
  `PreviewLifetime` for every length of second and life.

`ShareDialog_proofs` has one inductive invariant, `DialogInv`, from `DialogAssumption`:

* `ViewInv`: what is shown and what was asked for (no link in the success view is
  empty, the list lands once, before anything else sets `existingUrl`).
* `RowsInv`: a token is in one row, and the next one in none.
* `LiveInv`: every link the dialog has, or an answer under way carries (`Known`), is
  live. Gives `LeftLinkIsLive`.
* `SavedInv`: what is taken for a link's expiry (`Claimed`: `savedExpiresAt` without
  doubt, the list's without doubt as long as nothing was asked for, the one a share was
  served with as long as none was served behind it) is that of its row. Gives
  `CopiedAsShown`. `doubt` is needed: a lost answer, a late list and a late share each
  break a claim. `ServeLate` keeps `SavedInv` because it leaves nothing claimed without
  doubt (`Learnt`); `LiveInv` because a late share only keeps or makes live links.

`HostShare_proofs` has one inductive invariant, `HostInv`, from `HostAssumption` alone:
`TypeOK`, `NoPartialFile` and

* `PlaceInv`: where a request is, and what it has by then: the temporary file, the bytes
  read, the latest call.
* `AnswerInv`: what an answer to the browser says of the latest call.
* `LocalInv`, `PrepareInv`, `CommitInv`: what each kind of call knows. A prepared key is
  reserved for its request and unpublished; a commit's key has its file and, if a
  version, one of this request with this checksum.
* `VersionInv`: a version is of its request's latest call, which is done or broken.

Together they give `AnsweredShareHolds` and `PublishesOnce`, and with the step relation
`PublishedFileStays`. Late calls are why the invariant is about calls and not only
about requests: a commit may be done when its request has long ended.

`ShareWeb_proofs` proves `TypeOK`, `PageIsTrue` and `OneLoadDecides` from
`WebAssumption`, for every set of kinds of files and any number of changes and faults.
`WebInv` strengthens them by `LoadsInv` (one load at a time is alive, and only while
nothing is shown), `SeenInv` (a load that is alive has seen every state of the link
since it was sent, and an answer that calls the link dead means it still is) and
`TokenInv` (an address without a token has nothing to load).

`SchemaMigration_proofs` proves the safety properties of the migration for any number of
shares, versions and deaths, from `MigrationAssumption`. `ServesCurrentSchema` is not
inductive: while the plan is executed the schema is anything between two releases. What
is inductive is that *whatever a database lacks of today's schema, a statement still to
be executed supplies it*. For MySQL that is `Supplied`, along with `KeysFirst` (no
foreign key is dropped behind a new primary key, which would take the reason to drop
it away) and `FormInv` (what an interrupted start cannot leave: a foreign key without
the layout it belongs to, the unique key on duplicates). `PlanSupplies` shows it of the plan
made from any database of this form, so the proof covers every interruption;
`MysqlStep` shows that each statement that works hands the rest of the debt to those
behind it. For SQLite, `SqliteInv` says what the tables are like behind each of the six
steps. `KeepInv` with `Kept` says that a version keeps its latest share, through
`LatestExists`, a minimum argument by well-foundedness instead of induction.

Which starts succeed is an invariant of its own, `StartInv`, inductive along with the
former. With SQLite (`SqliteRuns`): until the step that looks for a mixture of layouts
is done, there is none, since the steps before it bring all tables to one layout or
leave all as they are; and what is committed is today's schema. So no start fails,
wherever the process died (`SqliteStartsSucceed`). With MySQL (`FirstRuns`) this is so of the
first start only, which `schema_mysql` shows by a counterexample for a later one.
`ServesCurrentSchema` could rest on *which* statements are left; here their order
matters. `Ready` says that each statement fits: it finds its table as it needs it, or
behind a statement of the plan that sees to it (the columns before they are filled, the
duplicates deleted before the unique key), and nothing that can be done only once is
planned twice. `ReadyConcat` gives it for a plan from that of its parts, `PlanReady` for
the plan made from any schema of a release (`Uniform`), and `Effects` and `ReadyStep` hand
it on from each statement to the rest. Gives `FirstStartSucceeds`.

`ShareCenter_proofs` has one inductive invariant, `CenterInv`, from `NavAssumption` and
`CenterAssumption`. Besides `TypeOK` and `OnePanelMarked`, which
need nothing else, it is made of

* `RowInv`: a row that is out of place has an observer to be called back that will see
  to it (`Settled` names the places that call for nothing). Neither callback leaves it
  to the other. Gives `RowInPlace`, the safety half of `RowComesBack`.
* `WaitInv`: unless a refresh outlived a closing, an open panel that is loading waits for
  its latest request and no other, and one that is not has that request's outcome.
* `LatestInv`: the answer to the latest request is of a moment not before it was sent.

`PreviewsAreCurrent` follows from the last two and from what a card shows: of the shares of
an artifact that are live, the greatest version (`Cards`, `Preview`), a maximum that exists
by well-foundedness. It holds for every filter, every expiry and any number of shares.

`FilePicker_proofs` has one inductive invariant, `PickerInv`, from `PickerAssumption`:

* `AliveInv`: one request at most is alive, for the directory the picker names, and only
  while it is loading. All others are aborted and land nowhere.
* `WalkInv`: the host's walk accounts for every name. One that is neither listed nor left
  was neither file nor directory at some moment of the walk, and the walk stops with names left
  only when the list is full.
* `ListingIsTrue`, which is what `WalkInv` says of the request whose answer is shown.

Every safety property that a passing run checks has a theorem. Only model-checked is
liveness: `LockIsReleased`, `SqliteComesUp`, `AbortEnds`, `RowComesBack`, `LoadingEnds`,
`AdviceHelps` and `ListingEnds`. Each rests on weak fairness, and so on where its steps are
ENABLED, which the prover does not reason about. What they rest on besides is proved, of
each of them:

| Liveness | Theorem | What it says |
| --- | --- | --- |
| `LockIsReleased` | `OperationsComeToAnEnd` | who holds the lock is in an operation, and each of its calls leads to a later one (`CallsLeft` falls) or lets go of the lock |
| `AbortEnds` | `AbortsGoOn` | an aborted request stays aborted, goes back nowhere, and each step of the host takes it nearer to its end (`Distance`) |
| `ListingEnds` | `LoadingPickersWait`, `CallsGoOn` | a picker that loads has a call that is alive, and each step of a call takes it nearer to its end |
| `LoadingEnds` | `LoadingPanelsWait` | a panel that loads has a request under way, whichever landed before |
| `AdviceHelps` | `LoadingPagesWait` | a page that loads has one load alive, and takes its answer |
| `SqliteComesUp` | `SqliteStartsSucceed` | no start fails, wherever the process died |
| `RowComesBack` | `RowStaysInPlace` | a row out of place has a callback due |

What is left to TLC is that the steps named are enabled there, and that fairness takes
them. The three runs that expect a violation are
counterexamples, and have nothing to prove.

## 5. Plan

In this order:

1. *(done)* `HubStore`, `ArtifactHub`, `ShareContract`, their runs and proofs.
2. *(done)* `ShareAccess`, its run and proofs.
3. *(done)* `ShareDialog`, its runs and proofs.
4. *(done)* `SchemaMigration` and its runs.
5. *(done)* `HostShare`, its run and proofs.
6. *(done)* `PanelNav` and `ShareCenter`, `ShareWeb`, `FilePicker` and their runs.
7. *(done)* Proofs for `ShareWeb` and `SchemaMigration`.
8. *(done)* Proofs for `ShareCenter`, `FilePicker` and the first start of `SchemaMigration`.
9. *(done)* What the liveness properties rest on, stated without ENABLED and proved.
10. Left: `HostShare` takes an operation of the Hub as one step, because it holds the lock
    from start to end; that `ArtifactHub` may be read so is argued and not shown.

### Not modelled

* *Configuration* is read once at start and checked there; afterwards nothing changes it.
  That a restarted host may run in the other mode is in `HostShare`.
* *Deployment and scripts* have no state of their own. What the service manager does
  on a failure is assumed by `SchemaMigration`'s fairness and by the crash actions.
* *Rendering* of previews, texts, icons and styles shows state and keeps none.
* *Hub HTTP API, plugin client API* (partly modelled): routing and validation of requests and
  responses map one value to one value or refuse it. A refusal is an outcome of the
  calls in the modules above; the fields themselves are left out.
* *Filesystem storage* (partly): path checks and MIME guesses decide whether an
  operation starts and what is displayed; the files are in `HubStore` and `HostShare`.
* *ArtifactFiles*, the row of files under a message, is modelled as far as it says which
  files were produced (`ProducedPaths`) and opens the dialog. Its rendering by type is not.
