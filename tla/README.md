# MagStacker, verified

TLA+ models of MagStacker, the TLC instances that check them, and TLAPS proofs about them.
MagStacker is a self-hosted inventory for firearms, magazines, ammunition and accessories: a
Next.js server over PostgreSQL and a directory of files, with owners who share items with
each other, a photo gallery and documents per firearm, a service history, range sessions, and
an encrypted backup that can be restored over a running instance.

The parts chosen for modelling are those in which two stores, two tables, two requests, or a
page and the server have to agree without a constraint that makes them: the restore and the
bundle it reads, the export, the gallery, the magazine-firearm links, mounted accessories,
service rules and what is due, bulk adds with their idempotency keys, and the state of the
browser's pages. Paths below are relative to the repository root (`src/...` is the server's
own `src/` directory, `app/...` its routes, server actions and pages).

## 1. Inventory

### The system's parts

| part | state | operations | modelled in |
|---|---|---|---|
| Restore (`src/backup/restore-service.ts`) | live tables, upload directory, snapshot schema, pre-restore directory, staging schema and directory | `restore`, `promote`, `beginBlobSwap`/`finishBlobSwap`/`undoBlobSwap`/`commitBlobSwap` | `Restore` |
| Maintenance envelope and boot recovery (`src/backup/maintenance.ts`, `instrumentation.ts`) | `restore_ops.maintenance_flag` (active, snapshot_schema), an advisory lock | `enterMaintenance`, `recordMaintenanceSnapshotSchema`, `exitMaintenance`, `assertWritesAllowed`, `recoverInterruptedRestore`, the two sweeps | `Restore` |
| Ordinary writers during a restore | rows and blobs | the upload of a photo or document; a transaction over two tables (range session with its children, bulk add) | `Restore`, partly |
| Bundle format, staging and cryptography (`src/backup/bundle.ts`, `crypto.ts`, `db-import.ts`) | a tar stream in encrypted chunks; what is staged so far | writing, framing, authenticated decryption, `stageBundle` | `BackupExport` (writing), `BundleStream` (reading) |
| Export (`src/backup/export-service.ts`) | none of its own | one snapshot of the rows, one listing of the blobs, the manifest, a stream | `BackupExport` |
| Backup routes and panels (`app/api/admin/backup`, `app/(admin)/backup`) | a request, its phase as the page assumes it | restore, forced restore, download | `BackupPage`; the cancelled download in `BackupExport`; origin check, password policy, audit row not modelled |
| Blob storage (`src/storage`) | files under the upload directory | `save`, `delete`, `read`, keys | `Gallery`, `Restore`, `BackupExport`: save and delete |
| Orphan sweep (`src/storage/orphan-sweep.ts`) | none of its own | list, read owned keys, delete | `Gallery` |
| Firearm photos (`src/domain/firearm-photos`) | `firearm_photo` rows with the gallery order and `is_primary`; blobs | `createPhotos`, `deletePhoto`, `setPrimary`, `reorderPhotos`, `setCaption` | `Gallery`; its panel in `ItemPanels` |
| Firearm documents (`src/domain/firearm-documents`) | `firearm_document` rows; blobs | `createDocuments`, `deleteDocument`, the viewer | `Gallery`; `ItemPanels`, `DocumentView` |
| Firearms (`src/domain/firearms`) | `firearm` rows | create, update, delete with cascades | deletion in `Gallery`, `Accessories`, `MagazineLinks`, `BackupExport`; the magazine-fed flag in `MagazineLinks` |
| Magazines and compatibility (`src/domain/magazines`, `src/domain/compatibility`) | `magazine`, `magazine_firearm`, prefix rows | create, update, delete, replacement of the visible links, next label | `MagazineLinks`, `BulkAdd` |
| Bulk add and idempotency (`src/domain/bulkadd`, `src/db/idempotency.ts`) | magazines in a numbered label sequence; `idempotency_key` rows | `bulkAddMagazines`, `withIdempotency`, pruning | `BulkAdd`, `OncePerKey`; its links also in `MagazineLinks` |
| Accessories (`src/domain/accessories`) | `accessory` rows with a mount and an installed date, inherited visibility | create, update, mount, unmount, delete | `Accessories`; its page in `ItemPage`. Compatible firearms and the domain side of attachments are not modelled |
| Range sessions (`src/domain/range-sessions`) | session rows and the accessories each records | create, update, delete, totals | `Accessories` (statements), `ServiceDue` (effect), `Restore` (shape of its write) |
| Service rules, events, due state (`src/domain/service-intervals`) | `service_rule`, `service_rule_default`, `service_event` rows tied by rule name | every call on rules, defaults and events; due state, lists, backlog | `ServiceHistory` (statements), `ServiceDue`, `ServiceOdometer` |
| Sharing (`src/auth/visibility.ts`, `authorize.ts`, `grants.ts`) | `grant` rows | share, revoke, visible ids, edit and create gates | `Accessories` in full; rows that come and go in `Gallery`, `MagazineLinks`, `ServiceDue`, `BulkAdd`; the dialog in `SharePanel` |
| Users, sessions, preferences | better-auth's tables, a rate limiter, the Magpul preference | disable an account, switch the preference | `UsersPage`, `SettingsPage`; the rest is delegated to libraries |
| Inventory log, ammo | append-only rows; single rows | insert, CRUD | their panel, form and list: `ItemPanels`, `ItemPage`, `ListView` |
| Lists and summaries (`app/(app)`, `components/ui/data-table`, `hooks`) | view state in the browser, filters, page, dialogs, the backlog checklist | every control of the lists | `ListView`, `BacklogPage` |
| Forms and panels of an item (`app/(app)/*/[id]`) | open form, draft, calls under way, the rows last shown | every button and answer | `ItemPanels`, `ItemPage`, `DocumentView`, `SharePanel` |
| Label rendering, CSV, logging, migrations | none, or rows already read | rendering | not modelled |

`PROJECT.json` lists the same parts with their files, under `components`.

### How they interact

- Every write action of the server first calls `assertWritesAllowed`, which reads the
  maintenance flag in a statement of its own, *before* the transaction of the write and
  without a lock. That is the only tie between ordinary requests and a restore.
- A restore holds a session-level advisory lock for its whole length, so restores exclude
  each other; it excludes neither ordinary writes nor an export.
- A photo or document is two things in two stores: blobs are saved **before** the row is
  inserted and deleted **after** it is deleted. Foreign keys cascade rows, never blobs.
- The orphan sweep, and an export, compare files with rows through reads at different instants.
- A bundle is decrypted by one half of a stream and read by another; the reader acts on chunks
  while the last are still to be authenticated.
- The rule "only a magazine-fed firearm is linked" spans `firearm` and `magazine_firearm`;
  a guard in each service reads the other's table, and row locks make them exclude each
  other.
- An event and an override know their rule by its name only; a rename has to take the rows of
  that name along, of one item or of all items of an owner and category.
- What is due is stored nowhere: lists, item pages and the backlog derive it from rules, events
  and sessions, each with queries of its own.
- A range session records what is mounted when it is written; mounts and owners change beside it.
- Grants are read at the start of a call, and for uploads again inside the transaction.
- A page keeps a copy of rows and drafts of the user; answers, refreshes and timers change it
  after the click that asked for them. Server actions of one page are answered in order, reads
  by `fetch` and timers are not.

### Where it is hard

Stops of the server between two steps of a restore that changes two stores; a recovery that
is itself interrupted; the undoing of a promote failing half way; a snapshot that is built
table by table while a transaction that passed the gate earlier commits; a check at the first
entry of a bundle used after its last; a bundle cut exactly between two chunks; READ COMMITTED
statements that see different instants of one call; quotas checked before minutes of image
work; locks taken by several calls in different orders; a `COMMIT` whose answer is lost; a
rename beside a new event; a retry of a create that was already done; a file deleted between
the `stat` that declared it and the `open` that packs it; a foreign key's action that trips a
check; day boundaries of what is due; answers that arrive after the dialog they belong to was
closed. `PROJECT.json` lists each such place, under `hazards`, at its line with the properties
aimed at it.

What makes each modelled part correct:

- **Restore**: whatever stops or fails, the instance ends with the old inventory or the
  bundle's, rows and blobs together; what the restore reports is what happened; writes are
  readmitted only onto rows that find their blobs, and are readmitted in the end.
- **Bundle**: only a whole, authentic bundle is staged, within the bounds it declares; the
  verdict names the cause; reading always ends.
- **Export**: the rows of a bundle can be inserted again, a blob missing from it has a cause, a
  finished bundle holds what its manifest declares, an export always ends.
- **Gallery**: rows find their blobs; blobs without a row have a known cause; the quota holds;
  there is one primary photo; a revoked editor leaves nothing; no call is stuck.
- **Links**: only a magazine-fed firearm is linked; a replacement touches exactly the links the
  caller could see; every call ends.
- **Accessories**: an accessory sits on its owner's firearm; an edit judges the date against
  the mount it commits on; a session counts for accessories of its firearm's owner only.
- **Service history**: names stay unique; a rename takes history and overrides along.
- **Due state**: the lists agree with the item pages; a due rule stays due until it is
  serviced or changed; what is hidden does not show through; the backlog can be cleared.
- **Bulk add**: an idempotency key takes effect once a window; a batch reuses no earlier label.
- **Pages**: what the user chose or typed is changed by himself or by the answer to what he
  asked; a dialog acts on the row it names; nothing on the screen is stale for good.

## 2. Modules

| module | what it is |
|---|---|
| `InventoryReplacement` | abstract promise of a restore: the inventory is replaced in one step, or not at all |
| `Restore` | the restore, the envelope, boot recovery, two kinds of racing request; implements `InventoryReplacement` |
| `RestoreProofs` | its two inductive invariants, type correctness, the promises of a restore and of its report, the refinement |
| `BundleStream` | a bundle on its way through decryption and the tar reader to the staging area |
| `BackupExport` | an export beside uploads, deletions and a restore's promotion |
| `BackupProofs` | proofs about both: sound rows, a whole bundle; what is decrypted, where the reader stands, what is staged |
| `Gallery` | photos and documents of one firearm, their blobs, the sweep |
| `GalleryProofs` | its inductive invariant: quota, primary, rows and their files |
| `MagazineLinks` | compatibility links under row locks |
| `MagazineLinksProofs` | the inductive invariants of the two locking guards and of a replacement |
| `Accessories` | accessories, mounts, grants and the sessions that record mounts |
| `AccessoriesProofs` | its inductive invariant: mounts, dates, recorded sessions |
| `ServiceHistory` | rules, defaults and events under their names, statement by statement |
| `ServiceOdometer` | abstract promise of due state: a meter per item and rule that runs and is set back |
| `ServiceDue` | what is due, derived three ways; implements `ServiceOdometer` |
| `ServiceProofs` | `ServiceHistory`: its inductive invariant, unique names, renames that carry through; `ServiceDue`: sums over the sessions, the lists, the backlog, the refinement |
| `OncePerKey` | abstract promise of an idempotency key: one effect, then its answer |
| `BulkAdd` | bulk adds and single adds with keys, labels, prefixes; implements `OncePerKey` |
| `BulkAddProofs` | its inductive invariant: windows, answers, labels; the refinement |
| `ListView`, `ItemPanels`, `ItemPage`, `DocumentView`, `SharePanel`, `BackupPage`, `UsersPage`, `BacklogPage`, `SettingsPage` | one page, panel or dialog of the browser each |
| `ClientPages` | any one of these on the screen |
| `ClientPagesProofs` | an inductive invariant per page, and with it everything the run checks of them |
| `MCRestore`, `MCBundleStream`, `MCBackupExport`, `MCGallery`, `MCMagazineLinks`, `MCAccessories`, `MCServiceHistory`, `MCServiceDue`, `MCBulkAdd`, `MCClientPages` | the instances for TLC, one `.cfg` per question |

Definitions whose comment begins with "Mutant" are faulty variants of the definition that
follows them. No specification uses them; they serve to see that a property notices the fault.

### Restore

One action is one SQL statement, one transaction, or one file-system call; between any two of
them the server may stop (`Crash`). `rpc` says where the restore or the boot is. A row is a
token: `Base` rows exist at first, run *r* of the restore brings the row *r*, each request
adds its own. The 21 tables fall into two groups, parents (`dbParent`) and children with a
foreign key to them (`dbChild`); a blob has the name of the child row that points at it.

| variables | code |
|---|---|
| `dbParent`, `dbChild` | schema `public` |
| `upload`, `asides[r]` | the upload directory; the sibling the old one is renamed to |
| `flagActive`, `flagSnap` | `restore_ops.maintenance_flag` |
| `snaps`, `snapParent`, `snapChild` | the `restore_snapshot_*` schemas and their rows |
| `staging` | staging schemas and directories |
| `rpc`, `run`, `force`, `hadExisting`, `outcome` | locals of `restore()`, the handle of the swap, its result |
| `wpc` | where each ordinary request is |
| `raced`, `tainted`, `preRows` | history, see below |

| actions | code |
|---|---|
| `StartRestore`, `ReadManifest`, `StageBundle` | advisory lock, manifest checks, staging up to authentication of the last chunk |
| `EnterMaintenance`, `SnapshotParents`, `SnapshotChildren`, `RecordSnapshot` | raising the flag, `CREATE TABLE ... AS TABLE`, recording the schema |
| `BeginBlobSwap`, `PromoteTransaction`, `FinishBlobSwap` | rename aside, wipe and copy in one transaction, rename in |
| `RollbackTransaction`, `UndoRemoveUpload`, `UndoRenameAside`, `DropSnapshotRolledBack` | undoing a failed promote |
| `DropSnapshot`, `CommitBlobSwap`, `ExitMaintenance`, `CleanupStaging` | the way out |
| `Crash`, `Boot`, `ReadFlag`, `RollbackDelete...`, `RollbackInsert...`, `RestoreBlobs...`, `DropRecoveredSnapshot`, `BootExitMaintenance`, `Sweep` | `recoverInterruptedRestore` from `instrumentation.ts` |
| `AllowUpload`, `SaveBlob`, `RecheckUpload`, `CommitUpload` | a photo or document upload and its two looks at the flag |
| `CheckCreate`, `CommitCreate` | a request that writes a parent and a child row in one transaction |

Simplifications, each a decision a reader may want to question:

- Errors before the manifest is read are one of `StageBundle`'s outcomes; a bundle's bytes,
  its version and its authenticity are outcomes too. The admin check is left out.
- A removal of a directory that fails part of the way counts as unchanged, and a failed
  `CREATE SCHEMA` as a schema that exists. Both are what the sweeps must cope with.
- The parent of the upload directory is writable and on the same file system, which the code
  says it relies on. (`docker-compose.yml:178-205` mounts a volume exactly at the upload
  directory under a read-only root file system; there the sibling directories cannot be made
  and a restore fails before anything is touched.)
- An upload that re-creates the upload directory between the two renames makes the second one
  fail (ENOTEMPTY). `FinishBlobSwap` has that outcome.
- The lost answer to a `COMMIT` of the wipe and copy is not a fault here yet.

History variables say what the properties leave out, and nothing else reads them: `raced`
holds the requests that were between their look at the flag and their commit when a restore
raised it; `tainted` becomes TRUE when a restore begins while the flag is up or a moved-aside
directory is left, that is, when it starts over what an earlier one left behind. Both
exemptions are where the code really breaks its own promise; section 3 describes the traces.

### Gallery

The calls of a session on one firearm, statement by statement under READ COMMITTED. `tx[s]`
overlays the committed rows with the call's uncommitted inserts, deletions and changes of the
primary; a statement waits for a row an open transaction has written (`WaitsFor`) and looks at
it again afterwards. The partial unique index on `is_primary` waits and refuses too
(`IndexWaits`, `IndexRefuses`). `Deadlock` is the database's detector: one call of a circle
of waits fails.

| variables | code |
|---|---|
| `firearmLive`, `rows`, `primary` | committed rows of `firearm`, `firearm_photo`, `firearm_document` |
| `blobs[i]` | the item's files: none, some or all (a photo has an original and two derivatives) |
| `old` | files older than `ORPHAN_MIN_AGE_MS` |
| `editors` | who may edit the firearm now |
| `pc`, `op`, `todo`, `keys`, `arg`, `seen`, `tx` | each call's place, locals and transaction |
| `sweep` | the orphan sweep between its reads |
| `cut`, `unsure`, `failed`, `overlap` | history |

| actions | code |
|---|---|
| `StartUpload`, `ValidateDocuments`, `CheckQuota`, `BeginSave`, `EndSave` | `createPhotos`, `createDocuments` before the transaction |
| `BeginUpload`, `LockFirearm`, `ReadExisting`, `InsertRows` | the transaction: authorisation again, `FOR UPDATE`, quota again, insert |
| `StartOnItem`, `DeleteRow`, `SelectNext`, `MakePrimary` | `deletePhoto`, `deleteDocument` |
| `StartOnItem`, `ScanPrimary`, `ClearPrimary`, `MakePrimary` | `setPrimary` |
| `StartReorder`, `MovePhoto` | `reorderPhotos`, one locked row at a time; `setCaption` as a list of one |
| `StartDeleteFirearm`, `CollectPhotos`, `CollectDocuments`, `Cascade` | `deleteFirearm` |
| `Commit`, `CommitUnanswered`, `TxFails`, `Deadlock`, `Reclaim` | the ends of a transaction and the deletion of blobs after it |
| `SweepList`, `SweepReadPhotos`, `SweepReadDocuments`, `SweepDelete` | `sweepOrphans` |
| `Revoke`, `Age`, `Stop` | a grant is taken back; an hour goes by; the server stops |

`Age` states what `orphan-sweep.ts` states as its reason: an hour is longer than any upload
and any sweep. The texts of captions and the gallery order are left out: which photo is next is open, and
a reorder matters only by the rows it locks. When the answer to a `COMMIT` is lost
(`CommitUnanswered`), the code takes the upload for failed and deletes its files, whether the
rows are there or not: the photos concerned are in `unsure`, and `RowsAreSound` asks for the
blobs of all other rows only. The lookup of an item and its authorisation are
one step, as are the lock and the cascade of `deleteFirearm`, which nothing comes between.

### MagazineLinks

Calls of the magazine, firearm and bulk-add services over several firearms and magazines.
PostgreSQL's row locks are three strengths that conflict as in its manual: `FOR UPDATE`
(`tx.upd`), the lock of an `UPDATE` (`tx.nokey`), and the `FOR KEY SHARE` a new link row takes
on its firearm (`tx.share`). Firearms are numbers, in the order of their ids, because the
guard locks them in that order.

| actions | code |
|---|---|
| `StartMagazine`, `LockMagazine`, `ReadVisible`, `LockFirearms`, `Unlink`, `InsertLinks` | `createMagazine`, `updateMagazine`, `bulkAddMagazines`; `assertAllMagazineFed`; the scoped replacement of `compatibility/relation.ts` |
| `StartFirearm`, `LockFirearm`, `ReadLinks`, `UpdateFirearm` | `updateFirearm` and `assertNoCompatibleMagazines` |
| `StartDeleteMagazine`, `Cascade` | the two deletions with their cascades |
| `Commit`, `TxFails`, `Share` | ends of a transaction; a grant appears or disappears |

`own` ranges over `Owners`, a set of assignments of firearms and magazines to the calls. The two
reads of `getVisibleIds` are one step, as are the load of the stored rows and their deletion,
and a `DELETE` with its cascades. Grants are edit grants. An `updateFirearm` that
does not say `isMagazineFed` sets it to TRUE, as the validator's default does. The implicit
row lock of an `UPDATE magazine` is covered by the `FOR UPDATE` the call already holds.

### Accessories

A call of a session is authorised in one step, then goes statement by statement; rows lock as
in `MagazineLinks`. The check that ties an installed date to a mount is evaluated where the
database evaluates it: on every write of the row, the foreign key's `SET NULL` included.

| variables | code |
|---|---|
| `live`, `acc`, `grants`, `range` | committed firearm, accessory, grant and range-session rows |
| `pc`, `call`, `was`, `tx`, `result` | place, arguments, the mount an `updateAccessory` has read, locks and uncommitted rows, how the call ended |

| actions | code |
|---|---|
| `AskAccessory`, `AskFirearm`, `AskGrant`, `Authorize` | arguments; `requireEdit`, `resolveCreateOwner`, inherited visibility of a mounted accessory |
| `LockRow`, `WriteAccessory`, `Refer`, `DeleteAccessory` | `createAccessory`, `updateAccessory`, `mountAccessory`, `deleteAccessory`; the foreign key's lock on the firearm |
| `WriteSession`, `Snapshot`, `Link`, `DeleteSession` | `createRangeSession` (and its update and deletion) with what is mounted |
| `DeleteFirearm`, `Unmount` | `deleteFirearm` and the `ON DELETE SET NULL` of its accessories |
| `WriteGrant`, `Commit` | `createGrant`, `revokeGrant`; the end of a call |

A created row takes an id nobody else has, held or asked for (`NewAccessory`, `NewSession`), as
a random uuid does.

### ServiceHistory

A default belongs to an owner's items of one category, a rule to an item; both are named, and
events name the rule they are of. A rename locks its row, looks for a sibling of the new name,
updates, then repoints the rows of the old name one by one, each an action.

| variables | code |
|---|---|
| `db` | committed rows of `service_rule_default`, `service_rule`, `service_event` |
| `pc`, `call`, `tx` | place; arguments and locals; locks and uncommitted writes |
| `call[s].seen` | history: the rows there when an update locked its row, less what others have deleted, filed elsewhere or left without a bearer since (`Taken`) |

| actions | code |
|---|---|
| `AskDefault`, `AskRule`, `AskEvent`, `Resolve` | the calls; lookup and authorisation |
| `LockRow`, `Siblings`, `Insert`, `Update` | `FOR UPDATE`, the search for the name, insert or update under the unique index |
| `PickRows`, `RepointRow`, `Repointed` | `UPDATE ... WHERE name = old` over rules, then events |
| `Find`, `DeleteRow`, `UpdateEvent` | deletion; correcting an event |
| `NextItem`, `ReadItemRules`, `LogEvents` | logging services of several items, all or nothing |
| `Commit` | the end of a call |

### ServiceDue and ServiceOdometer

One action is a call that commits, or the turn of a day. Due state is derived by operators
translated from the code: `ItemDueState` from the queries of an item page, `Collection` from
the batched ones (`BatchedDueData`, `BuildEntry`), `Backlog` from the collection.
`ServiceOdometer` says what a user thinks: each item and rule has a meter of days, sessions and
rounds that only runs on and is set back by a service. A meter has an age, too: the validator
takes dates up to `FUTURE_DATE_TOLERANCE_DAYS` ahead, and an item acquired tomorrow shows 0 days
today and tomorrow (`max(0, ...)` in `derive.ts`), so such a meter stands still until its age is
positive.

| variables | code |
|---|---|
| `day` | today |
| `grants`, `mounted`, `events`, `sessions`, `defaults`, `rules` | rows |
| `writes`, `late`, `marked` | a bound; history: an entry was made for another day or changed; who has just marked which rows of which backlog, and whether it worked |

| actions | code |
|---|---|
| `NextDay` | |
| `LogServiceEvent`, `MarkBacklog`, `ChangeEvent` | `logServiceEvent`, `logServiceEventsBulk` as the summary calls it, correcting and deleting an event |
| `CreateRangeSession`, `ChangeRangeSession`, `Mount`, `Share` | what totals and visibility depend on |
| `ConfigureItem`, `ConfigureDefault` | rules and defaults |

`MarkBacklog` takes any rows of the backlog, dated today, and refuses more than
`MAX_BULK_SERVICE_ITEMS` of them, as `events-service.ts:333` does. The page sends all ticked rows in
one call, so "Select all" of a larger backlog is refused and writes nothing; `BacklogCanBeCleared`
says that this is the only refusal, and that any smaller choice goes through. `BacklogPage` has a
refusal of any call, which leaves the ticks.

### BulkAdd and OncePerKey

| variables | code |
|---|---|
| `clock` | `now()`, in units of the idempotency window |
| `mags`, `prefixes`, `keys` | magazine labels, `magazine_label_prefix` and `idempotency_key` rows |
| `pc`, `call`, `tx` | place, arguments, locks and uncommitted rows |
| `runs`, `answers`, `used` | history: how often each key took effect, what its calls were answered, and the prefixes committed adds were sent with |
| `calls`, `crashes` | bounds |

| actions | code |
|---|---|
| `AskAdd`, `AskPrune`, `Claim`, `Replay`, `Prune` | `withIdempotency`: insert or lock the key's row, answer from it, or prune expired rows |
| `ResolveCreateOwner`, `NextLabelStart`, `InsertMagazines`, `RecordPrefix` | the batch: whose it is, its first number, its rows, its prefix |
| `LockFirearm`, `LinkBatch` | the links of the batch and the foreign key's lock |
| `Commit`, `Abort`, `Crash`, `Tick` | ends of a call, the stop of the server, time |

The label of a magazine and the prefix sent with it are two things (`prefix`, `sent`): a label may
be typed by hand and come without a prefix, and then none is recorded (`AfterLink`), nor is one for a
batch with a blank prefix, whose labels are empty. Who may create on whose behalf is `CreateFor`.
`createMagazine` allows it as `bulkAddMagazines` does; the form of a single magazine does not ask for
it (`app/(app)/magazines/actions.ts:20-31`), so those calls are what the domain function accepts.
The model has one firearm to link to; the order of several is `MagazineLinks`'s.

`Abort` is the database's choice of one call in a circle of two waits. In `OncePerKey` an answer
from the stored row is a stutter: the effect and its answer are there since the run.

### BackupExport

The tables are two, a parent and a child; a blob has the name of its document and is 2 bytes
long, of which a write under way has put down 1.

| variables | code |
|---|---|
| `firearms`, `documents`, `created`, `upload`, `call` | rows, firearms that are or were, upload directory, where each upload or deletion is |
| `promote` | the passing promotion of a restore |
| `exp`, `read`, `snap`, `got`, `listed`, `names`, `size`, `file`, `packed` | the export: place, snapshot, tables read, directory entries and their sizes, the open file, bytes packed |
| `disturbed`, `raced` | history: files that came or went between the two readings; uploads across a swap |

| actions | code |
|---|---|
| `StartExport`, `SelectTable`, `ListDirectory`, `StatBlob`, `Compose` | `exportBundle`: the repeatable-read snapshot beside the listing, then the manifest |
| `OpenBlob`, `PackBlob`, `Finalize`, `Cancel` | the packing of the stream, its end or the download's |
| `CreateFirearm`, `DeleteFirearm`, `BeginSave`, `EndSave`, `InsertRow`, `DeleteRow`, `DeleteBlob` | requests beside it |
| `BeginBlobSwap`, `PromoteTransaction`, `FinishBlobSwap` | the promotion, as in `Restore` |

### BundleStream

Byte counts are scaled to cells: a tar header, a cell of content, a tag and each half of the
stream's header are one cell, a chunk is three. Decryption and the reader are two processes
with the plaintext between them. What libsodium does is external: a chunk opens if it is whole,
unaltered, in its place and under the right key.

| variables | code |
|---|---|
| `bundle`, `wire`, `aborts`, `password`, `occupied` | what was exported, what arrives of it, whether the upload breaks off, the right password or not, whether the instance has rows |
| `arrived`, `opened`, `pulls`, `plain`, `verified`, `failure` | the decrypting half; `failure` is what it threw: about the header, a chunk, or the derivation of the key |
| `taken`, `entry`, `left`, `count`, `imported`, `stagedBlobs`, `verdict` | the tar reader and what is staged |

| actions | code |
|---|---|
| `Deliver`, `Flush`, `Abort` | `transform` with pieces of any size, `flush`, a broken upload |
| `BeginManifest`, `ReadManifest`, `BeginRows`, `ReadRows`, `BeginBlob`, `ReadBlob`, `ReadEnd` | `stageBundle`, entry by entry |
| `Finish`, `Fail` | the verdict |

The first half of the header holds the magic bytes, the version, the salt and the costs of the key
derivation, the second starts the stream. An altered first half (`PreambleAltered`) may be refused by
`readHeader`, derive another key, under which nothing opens, or make the derivation itself throw,
when the costs fall below libsodium's minimum; `restore` passes the last on as an unexpected failure.
Errors of the environment (a full disk, the database, no memory for the derivation) are left to
`Restore`, where staging may fail for any reason.

Its verdicts are those `Restore`'s `StageBundle` and `ReadManifest` choose among.

### The pages of the browser

Common to them: a click is handled by what the last render showed, and a button's `disabled` is
the only guard there is. A render's effects run with that render; what they write is rendered
later. A page's server actions and refreshes are answered in order, each some time after it was
done; pending flags end with the answer. Each is bounded in clicks and changes by others.

| module | variables | actions |
|---|---|---|
| `ListView`: the list of magazines, firearms, accessories or ammo | `list`, `items`, `props` (the server's rows, those of the page), `view` (query, kind, inventory filter, columns, page size, grouping), `seen`, `shown` (as last rendered), `store` (browser storage), `box`, `timer`, `index`, `form`, `submitted`, `target`, `deleting`, `refreshing`, `clicks`, `others`, `overwrote` | `Mount`, `Render`, `Refreshed`, `CommitQuery` (the debounce timer), `Created`, `Deleted`, `Other`, `Sort`, `ToggleColumn`, `SetPageSize`, `PickGrouping`, `PickKind`, `PickInventory`, `Turn`, `Type`, `OpenForm`, `CancelForm`, `Submit`, `RequestDelete`, `CancelDelete`, `ConfirmDelete`, `Shared`, `Reopen` |
| `ItemPanels`: photos, documents, rules, history, sessions, log, attachments, service defaults | `panel`, `server`, `listed`, `ui`, `queue`, `reply`, `newest` (`activeRequestRef`), `saved`, `good`, `made`, `counts` | `PanelOpen`, `PanelCancel`, `PanelSubmit`, `PanelQuick`, `PanelUpload`, `PanelAskDelete`, `PanelKeep`, `PanelConfirm`, `PanelRetry`, `Serve`, `Answer`, `PanelOther` |
| `ItemPage`: the form of an item, an accessory's mount control, its deletion | `formKind`, `detail`, `magpulMode`, `itemRow`, `page`, `editing`, `values`, `messages`, `answered`, `labelEdited`, `asking`, `itemCalls`, `control`, `mine`, `crossed`, `acts`, `itemOthers` | `EditItem`, `CancelItem`, `TypeField`, `TypeDate`, `PickHost`, `PickMode`, `TypePrefix`, `TypeLabel`, `SubmitItem`, `MountOn`, `AskRemove`, `KeepItem`, `RemoveItem`, `ItemAnswer`, `ItemOther` |
| `DocumentView`: the viewer of documents | `stored`, `viewTarget`, `viewState`, `effect`, `fetches`, `live`, `views` | `OpenView`, `CloseView`, `RunEffect`, `Fetched`, `ImageFails`, `DocumentGone`, `LeavePage` |
| `SharePanel`: the sharing dialog | `granted`, `open`, `state`, `granteeId`, `error`, `confirming`, `confirmOpen`, `revoking`, `shareQueue`, `opens`, `shares` | `OpenShare`, `Done`, `Pick`, `onShare`, `AskRevoke`, `KeepGrant`, `Escape`, `onRevoke`, `Replied` |
| `BackupPage`: the restore and export panels | `empty`, `visit`, `here`, `chosen`, `phase`, `timer4`, `outcome`, `dialog`, `phrase`, `typed`, `requests`, `sent`, `leaving`, `status`, `ready`, `exports` | `FillRestore`, `SubmitRestore`, `AssumeApplying`, `OpenForce`, `TypePhrase`, `ConfirmForce`, `CancelForce`, `RestoreAnswered`, `Redirect`, `Prepare`, `SubmitExport`, `AssumeStarted`, `LeaveBackup`, `OpenBackup` |
| `UsersPage`: disabling and enabling accounts | `banned`, `rowsShown`, `toggles`, `wanted`, `clicked` | `Toggle`, `Toggled` |
| `BacklogPage`: the checklist of due services | `due`, `backlog`, `selected`, `refused`, `markCalls`, `meant`, `checks`, `dueChanges` | `toggleRow`, `toggleAll`, `MarkServiced`, `MarkAnswered`, `BacklogShown`, `DueChanges` |
| `SettingsPage`: the Magpul switch | `preference`, `initial`, `switch`, `saving`, `settingError`, `elsewhere`, `switches` | `SwitchOver`, `Saved`, `OtherTab`, `OpenSettings` |

The forms of `ItemPage` differ where their handlers do: an emptied number is refused in the forms of
magazines and ammo and saved as "none" in an accessory's (its cost), a firearm's form has required
fields instead, and taking the mount back from a new accessory drops the date it hides. In
`BackupPage` the form wants a file and a password, the forced restore only the file: a password
emptied behind the dialog goes out, and is answered as a bad request.

`ClientPages` puts one of them on the screen. They share no state but the server's, which each
models as what it may answer, so pages are not multiplied with each other.

## 3. Runs

| run | instance | properties | what it shows |
|---|---|---|---|
| `restore_faults` | 1 base row, 1 upload, 1 parent-and-child request, 2 restores, 1 stop, every fault but `flagRead` | `AlwaysRecoverable`, `OpenMeansBacked`, `OutcomeIsTrue`, `StuckKeepsSnapshot`, `AllOrNothing` | at every instant a stop leaves rows and blobs that belong together; each report is true; `Restore` implements `InventoryReplacement` |
| `restore_liveness` | 1 upload, 2 restores, 2 stops, faults of the envelope, the promote and the clean-up | `FlagComesDown` | the flag comes down, or waits for a boot with a snapshot to go back to; a boot reopens the instance |
| `gallery` | 2 calls, an orphan sweep, a revocation, a stop, every fault; 2 stored photos, quota 3 | `GalleryIsSound`, `RowsAreSound`, `CallsNeverStick` | quota and primary hold at the last free place; rows keep their blobs; blobs without rows are explained; no call is stuck |
| `links_guards` | 2 firearms, 3 magazines, 2 calls, two ownership assignments | `OnlyMagazineFedLinked`, `ReplacementIsExact`, `CallsEnd` | the two guards keep the rule; hidden links survive a replacement; the lock order has no circle |
| `service_rules` | 3 items on 2 shelves, 3 names; a rename beside any call | `TablesAreSound`, `RenamesCarryThrough`, `CallsEnd` | names stay unique, history and overrides follow, the row locks form no circle |
| `accessories` | 3 firearms of 2 owners, 2 accessories, 2 sessions, grants | `MountsAreSound`, `RoundsStayWithTheOwner`, `DateFitsTheMount`, `CallsEnd` | mounts, edits, deletions, grants and recorded sessions of an owner beside those of a grantee |
| `bulk_add` | 3 calls with 1 key and 1 prefix or none, by one user for himself, for another who lets him and for one who does not, 1 crash, 2 windows | `RowsAreSound`, `RunsOncePerKey`, `LabelsContinue`, `CallsEnd` | a double submit or a late retry takes effect once a window: `BulkAdd` implements `OncePerKey`; no earlier label is reused; the prefixes remembered are those sent |
| `service_due` | 2 firearms, one of them acquired tomorrow, 1 accessory, 2 users, 2 rule names, any 3 writes, 2 days, marks of at most 2 rows | `ListsAreSound`, `BacklogCanBeCleared`, `ShownChangesForAReason`, `CountsLikeMeters` | three derivations agree; `ServiceDue` implements `ServiceOdometer` |
| `backup_export` | 2 firearms, 3 documents, a promotion | `ExportIsSound`, `BundleIsWhole`, `ExportEnds` | the bundle of an instance in use |
| `bundle_stream` | 6 bundles (good, misdeclared, of another version), cut at any cell, altered, aborted, wrong password; pieces of up to 5 cells | `StagingIsSound`, `TheVerdictNamesTheCause`, `StagingEnds` | only a whole authentic bundle is staged; the operator is told the cause |
| `client_pages` | each page with 2 to 3 rows, bounded clicks | `ListIsSound`, `PanelsAreTrue`, `ItemPageIsTrue`, `DialogsAreTrue`, `AdminPagesAreTrue`, `ViewStands`, `AnswersTakeOnlyTheirOwn` | answers, timers and renders in every order |
| `accessories_delete` | an accessory with an installed date, mounted | `DeletionUnmounts` | ends in a counterexample: deleting the firearm fails on the check that ties the date to the mount, where the schema's comment says it unmounts; `PROJECT.json` quotes both sides |

Some properties are conjunctions of named parts, so that one exploration answers them together:

| property | parts |
|---|---|
| `FlagComesDown` | `WritesResume`, `BootReopens` |
| `GalleryIsSound` | `QuotaHolds`, `AtMostOnePrimary`, `PrimaryKept` |
| `Gallery!RowsAreSound` | `TypeOK`, `RowsHaveBlobs`, `RevokedUploadLeavesNothing`, `OrphansAreExplained` |
| `BulkAdd!RowsAreSound` | `TypeOK`, `PrefixesAreRemembered` |
| `MountsAreSound` | `TypeOK`, `HostsAreTheOwners`, `EditsNeverTripTheCheck` |
| `TablesAreSound`, `RenamesCarryThrough` | `TypeOK`, `NamesAreUnique`; `HistoryFollowsRenames`, `OverridesFollowDefault` |
| `ListsAreSound`, `ShownChangesForAReason` | `TypeOK`, `CollectionAgrees`; `DueStays`, `NoLeak` |
| `ExportIsSound` | `TypeOK`, `BundleRowsImport`, `MissingBlobHasACause` |
| `StagingIsSound` | `StreamTypeOK`, `OnlyTheWholeBundleIsStaged`, `OnlyAuthenticPlaintext`, `StagingStaysBounded` |
| `ListIsSound`, `ViewStands` | `BoxIsTheQuery`, `NothingIsOutOfReach`; `ArrangementStands`, `NoSnapBack` |
| `PanelsAreTrue` | `QuietPanelIsCurrent`, `OneRowPerOpening`, `ErrorIsOfTheLastCall` |
| `ItemPageIsTrue` | `MessagesAreOfTheLastSubmit`, `LabelFollowsThePrefix`, `SentIsMeant`, `HiddenDateIsForgotten`, `DateIsOfItsMount`, `PageIsCurrent` |
| `DialogsAreTrue` | `ViewShowsItsTarget`, `EscapeClosesOneLayer`, `ChecksAreTheUsers`, `SwitchIsTrue` |
| `AdminPagesAreTrue` | `ForceIsTypedAnew`, `PanelsTellTheTruth`, `LastClickWins` |
| `AnswersTakeOnlyTheirOwn` | `CaptionDraftStands`, `RefusalIsShown` |

Every property of a passing run has, under `mutants`, small faults in the code's model that make
the same run fail; a conjunction has one for most of its parts. A table missing from the
snapshot, uploads that do not wait for the firearm's lock before they count, a guard that looks
without its lock, a rename that forgets the overrides, a key claimed without a lock, an answer
that is not checked against the latest request, and so on.

### Disagreements without a run

Where the code does not do what a comment or document of it says, the model follows the code
and the properties leave the case out by a history variable or by the choice of calls. The
cases met while modelling, on the server:

- *Emptiness.* The emptiness of the instance is decided at the bundle's first entry
  (`src/backup/restore-service.ts:374`) and used when the last is staged; a write in between is
  wiped by a restore that was not forced, although the comments at 31-39 and 552-560 say that
  the window is closed.
- *Torn snapshot.* A transaction that looked at the flag before it went up may commit between
  two tables of the snapshot (`restore-service.ts:611`); the snapshot then holds a child row
  and no parent, and a rollback from it fails on the foreign key (`raced`).
- *Leftover directory.* A stop between the drop of the snapshot and the removal of the
  moved-aside directory leaves that directory; a second restore stops before its own rename, and
  its recovery takes the old directory for its own (`maintenance.ts:466`; `tainted`).
- *Second restore over a stuck flag.* After a failed undo the flag waits with its snapshot for a
  boot. A second restore resets the recorded snapshot (`maintenance.ts:192`), fails, clears the
  flag, and the half-undone state is served (`tainted`).
- *Unreadable flag.* When the flag cannot be read at boot it counts as down: it is cleared and
  the snapshot swept (`maintenance.ts:645`; the fault `flagRead`).
- *No primary.* A primary photo is deleted while an upload that still saw it commits: photos and
  no primary, until the next upload or `setPrimary` (`firearm-photos/service.ts:335`; `overlap`).
- *Bulk add and magazine-fed firearms.* Bulk add has neither the guard nor its lock
  (`bulkadd/service.ts:145`) and links a firearm that takes no magazines, against
  `CONCEPTS.md:52`. `MagazineLinks` models it; the run leaves it out, and the theorem
  excludes it by name (`NoBulkAdd`).
- *Event after a rename.* `events-service.ts:203-213` says it closes the window between the
  check of a rule name and the insert; a rename that commits in between still strands the event
  under the dead name. `HistoryFollowsRenames` speaks of the rows a rename could see (`seen`).
- *Overlapping batches.* Two batches that read the next label before either has committed get the
  same labels (`bulkadd/service.ts:94`); the schema has no unique index on them, and
  `LabelsContinue` speaks of magazines that were there when the batch was asked for.
- *Damaged header.* `crypto.ts:432-434` says that a tampered bundle ends in `DecryptionAuthError`, or
  `InvalidHeaderError` for its header, and 245-250 reject a wrong `alg` lest a generic error escape.
  The costs of the key derivation are bounded from above only (239): below libsodium's minimum
  `deriveKey` throws a plain error (144, 463), which `restore-service.ts:260-269` rethrows as an
  unexpected failure. `Deliver` has this outcome, and `TheVerdictNamesTheCause` exempts it
  (`PreambleAltered`).
- *Event between two renames.* An item's rule is renamed from *n* while a default of the same
  name-to-be is renamed to *n* and brings an event there; the default is then deleted. The
  first rename repointed before the event came, the default that bore it is gone, and the event
  stays under *n*. It takes three calls, so no run meets it; the proof of
  `RenamesAlwaysCarryThrough` did. The property leaves out events whose bearer was deleted
  meanwhile (`Taken`).
- *Order of a bulk add's locks.* The links of a bulk add lock its firearms in the client's order, the
  guard of a single magazine in that of their ids (`magazines/compatibility.ts:103`). No run has both
  over two firearms, so `CallsEnd` does not speak of that circle.
- *Export.* `export-service.ts:139-141` says the bundle is kept consistent when writes land
  during the export. Rows and directory are read side by side, so a row may come without its
  blob; `MissingBlobHasACause` says when (`disturbed`, `raced`).
- *Answer of a commit lost.* A photo upload whose `COMMIT` is carried out but not answered deletes the
  files of its rows (`firearm-photos/service.ts:280`; `unsure`).
- *Idempotency key.* The form makes a new key for every submission (`magazine-form.tsx:252`), so
  a user who submits again after a lost answer adds the batch again; `RunsOncePerKey` is about
  one key.
- *Audit.* The restore route says that every attempt that reaches the admin gate is recorded;
  the refusals for origin and malformed requests are not (`app/api/admin/backup/restore/route.ts:47-48`).

In the pages:

- A click between a timer's or an answer's write and its render builds the next view from what
  was rendered, and so undoes that write (`overwrote`); the firearms view's comment says a type
  reset "can't silently snap back" (`firearms-view.tsx:351-361`). In the same list the answer of a
  created firearm may write back an older arrangement (`firearms-view.tsx:371-383`).
- A panel closes whichever form is open when another mutation of it answers: unsent input is
  lost. A caption typed on while it is being saved is dropped with the answer.
- A service history's Delete is enabled again while its call is pending, and the answer of a
  deletion closes the dialog even if it was opened for another row since.
- The sessions panel has no guard against answers to older loads, which the log panel has
  (`range-session-history.tsx:63-74`); with calls answered in order it needs none.
- The sharing dialog keeps its error banner after a later success (`share-control.tsx:76-94`),
  and vanishes when its row is filtered out of the list.
- After a successful restore the panel is idle while the user is being signed out, so a second
  one can be submitted; choosing another file does not clear the refusal that offers to force.
- The label of a magazine is not prefilled again when the mode changes. An accessory form opened
  while a mount is pending keeps the earlier date and may save it over the new mount's
  (`accessory-form.tsx:155-160`; `crossed`).
- The backlog checklist does not forget ticks of rows that left the list: the count and "Select
  all" include them, although only rows on the screen are sent. Ticks made while a call is
  pending are dropped by its success, and a row just marked can be marked again before the
  refresh (`service-backlog-control.tsx:65-107`).
- The Magpul switch is rolled back to the opposite of what was clicked, which is wrong after
  another tab's write or a lost answer (`elsewhere`).

### Bounds, and why they are enough

- *Two restores* (`MaxRestores`): what one restore leaves behind matters only to the next.
  *One or two stops* (`MaxCrashes`): a recovery that is interrupted and started over needs two,
  which the liveness run has; the theorems hold for any number.
- *One base row and one request of a kind*: rows of a table group behave alike in every
  statement, so one row that must survive, one brought by each run, and those that race tell
  the cases apart.
- *Two calls at a time* (`Gallery`, `MagazineLinks`, `Accessories`, `ServiceHistory`,
  `BulkAdd`): each property is about a pair of calls and a common row. Circles of three waits are
  out of the instances' reach. `BulkAdd` runs three calls after or beside each other
  (`MaxCalls`), since a late retry follows the two that race.
- *Quota 3 with two stored photos*: the last free place is wanted by two uploads, and a stored
  photo is left for one call to promote what the other deletes or moves.
- *Two firearms, three magazines, one link*: the order of locks needs two firearms, a
  replacement a visible and a hidden link, a creation a magazine that is not there at first.
- *Three firearms, two owners* (`Accessories`): a mount, a remount of the same owner, and one
  across owners. *Three items on two shelves* (`ServiceHistory`): a rename of a default meets an
  item that overrides it, one that inherits it, and one of another owner with the same name.
- *Marks of at most 2 rows* (`ServiceDue`): `MAX_BULK_SERVICE_ITEMS` is 200 in the code; with 2 a
  backlog of three rows is over the limit, one of two at it.
- *Window 1, clock 2* (`BulkAdd`): a retry inside the window, at its edge and after it.
- *Three writes, two days* (`ServiceDue`, `MaxWrites`, `MaxDay`, dates up to a day ahead): a use, a
  service and a change of either, in every order, before and after midnight.
- *Three documents* (`BackupExport`): one of a firearm that is kept, one of a created one, one
  that the promotion brings.
- *Chunks of 3 cells, pieces of up to 5* (`BundleStream`): a piece may hold less than a chunk,
  exactly one, or more; bundles end within a chunk and on its edge, where the final chunk is
  empty.
- *Pages*: `MaxClicks` 3 and `MaxOthers` 1 (lists), `MaxPosts` 3, `MaxOpenings` 2 and
  `MaxOutside` 1 (panels), `MaxActs` 5 and `MaxItemOthers` 1 (forms), `MaxViews` 3, `MaxShares` 5,
  `MaxRequests` 3 and `MaxVisits` 2 (backup), `MaxToggles` 4, `MaxChecks` 5 and `MaxDueChanges` 2,
  `MaxSwitches` 4. A hazard here is a click, an answer that belongs to an earlier one, and a click
  in between; each of these leaves room for one more.

`client_pages` uses the symmetry of the panels' rows: they are interchangeable model values and
its properties are about safety. No other run uses symmetry. The runs say `CHECK_DEADLOCK FALSE`
because their calls are finite and the rest is bounded: when all are over the system really may
stop. That no call is stuck is what `CallsEnd`, `CallsNeverStick`, `FlagComesDown`,
`ExportEnds` and `StagingEnds` are for.

### Fairness, and what justifies it

- `Restore`: weak fairness of `Restoring`, because `promote` and its `finally` blocks run to
  the end once begun, and of `Recovering`, because `docker-compose.yml:168` says
  `restart: unless-stopped` and `instrumentation.ts` runs the recovery before the server
  answers. Nothing is assumed of ordinary requests or of the start of a restore. Stops are
  bounded, which is the usual "eventually it stays up". In the liveness run the undo, the
  boot-time rollback and the clearing of the flag do not fail: where they fail for ever, the
  flag stays up by design.
- `MagazineLinks`, `ServiceHistory`, `Accessories`, `BulkAdd`: weak fairness of each call's own
  steps. The event loop drives a call and the database grants a lock that is free. Neither a
  failure nor, but for `BulkAdd` (`Abort`), the detection of deadlocks is counted on: `CallsEnd`
  says that there is no circle to break, which is what `compatibility.ts` says it orders its
  locks for. A single add locks its firearm before it
  records the prefix, a batch after it: a circle that the database breaks.
- `BackupExport`: weak fairness of the export's steps, which the stream drives while the download
  reads or is cancelled. `BundleStream`: of both halves; either waits only for the other.
- `Gallery` has no fairness: `CallsNeverStick` says instead that whenever a call is under way
  some call can proceed, the database's detector included.
- The pages state none: a user may stop at any time.

## 4. Proofs

| theorem | statement | assuming |
|---|---|---|
| `RestoreProofs!TypeCorrect` | `Spec => []TypeOK` | |
| `RestoreProofs!StuckRestoreKeepsSnapshot` | `Spec => []StuckKeepsSnapshot` | |
| `RestoreProofs!Invariant` | `Spec => []IInv` | `"flagRead" \notin Faults` |
| `RestoreProofs!RestoreIsRecoverable` | `Spec => []AlwaysRecoverable` | the same |
| `RestoreProofs!OpenIsBacked` | `Spec => []OpenMeansBacked` | the same |
| `RestoreProofs!PromiseInvariant` | `Spec => []PromiseInv` | the same |
| `RestoreProofs!OutcomeIsAlwaysTrue` | `Spec => []OutcomeIsTrue` | the same |
| `RestoreProofs!AlwaysAllOrNothing` | `Spec => AllOrNothing`, the refinement of `InventoryReplacement` | the same |
| `GalleryProofs!GalleryInvariant` | `Spec => []IInv` | |
| `GalleryProofs!GalleryIsAlwaysSound` | `Spec => []GalleryIsSound` | |
| `GalleryProofs!RowsAreAlwaysSound` | `Spec => []RowsAreSound` | |
| `MagazineLinksProofs!GuardsInvariant` | `Spec => []IInv` | no call is a bulk add |
| `MagazineLinksProofs!OnlyMagazineFed` | `Spec => []OnlyMagazineFedLinked` | no call is a bulk add |
| `MagazineLinksProofs!ExactInvariant` | `Spec => []ExactInv` | |
| `MagazineLinksProofs!ReplacementIsAlwaysExact` | `Spec => ReplacementIsExact` | |
| `AccessoriesProofs!MountsInvariant` | `Spec => []IInv` | |
| `AccessoriesProofs!MountsAreAlwaysSound` | `Spec => []MountsAreSound` | |
| `AccessoriesProofs!RoundsAreTheOwners` | `Spec => []RoundsStayWithTheOwner` | |
| `AccessoriesProofs!DatesFitTheMounts` | `Spec => DateFitsTheMount` | |
| `ServiceProofs!ServiceInvariant` | `HistorySpec => []IInv` | |
| `ServiceProofs!TablesAreAlwaysSound` | `HistorySpec => []TablesAreSound` | |
| `ServiceProofs!RenamesAlwaysCarryThrough` | `HistorySpec => RenamesCarryThrough` | |
| `BulkAddProofs!BulkAddInvariant` | `Spec => []IInv` | |
| `BulkAddProofs!RowsAreAlwaysSound` | `Spec => []RowsAreSound` | |
| `BulkAddProofs!RunsAlwaysOncePerKey` | `Spec => RunsOncePerKey`, the refinement of `OncePerKey` | |
| `BulkAddProofs!LabelsAlwaysContinue` | `Spec => LabelsContinue` | |
| `ServiceProofs!TableInvariant` | `Spec => []TableInv` | |
| `ServiceProofs!ListsAreAlwaysSound` | `Spec => []ListsAreSound` | |
| `ServiceProofs!BacklogCanAlwaysBeCleared` | `Spec => []BacklogCanBeCleared` | |
| `ServiceProofs!ShownAlwaysChangesForAReason` | `Spec => ShownChangesForAReason` | |
| `ServiceProofs!DueStateAlwaysCountsLikeMeters` | `Spec => CountsLikeMeters`, the refinement of `ServiceOdometer` | |
| `BackupProofs!ExportInvariant` | `Spec => []IInv` | |
| `BackupProofs!ExportIsAlwaysSound` | `Spec => []ExportIsSound` | |
| `BackupProofs!WholeInvariant` | `Spec => []WholeInv` | |
| `BackupProofs!BundleIsAlwaysWhole` | `Spec => []BundleIsWhole` | |
| `BackupProofs!StreamInvariant` | `StreamSpec => []StreamInv` | |
| `BackupProofs!StagingIsAlwaysSound` | `StreamSpec => []StagingIsSound` | |
| `BackupProofs!TheVerdictAlwaysNamesTheCause` | `StreamSpec => []TheVerdictNamesTheCause` | |
| `ClientPagesProofs!PagesInvariant` | `Spec => []PagesInv` | |
| `ClientPagesProofs!ListIsAlwaysSound` | `Spec => []ListIsSound` | |
| `ClientPagesProofs!ViewAlwaysStands` | `Spec => ViewStands` | |
| `ClientPagesProofs!PanelsAreAlwaysTrue` | `Spec => []PanelsAreTrue` | |
| `ClientPagesProofs!ItemPageIsAlwaysTrue` | `Spec => []ItemPageIsTrue` | |
| `ClientPagesProofs!DialogsAreAlwaysTrue` | `Spec => []DialogsAreTrue` | |
| `ClientPagesProofs!AdminPagesAreAlwaysTrue` | `Spec => []AdminPagesAreTrue` | |
| `ClientPagesProofs!AnswersAlwaysTakeOnlyTheirOwn` | `Spec => AnswersTakeOnlyTheirOwn` | |

They hold for every value of the constants: any set of rows and requests, any number of calls,
clicks, restores and stops, any faults, quotas, windows and thresholds. Beside what the table says they
rest on the named assumption of each module (`RestoreAssumption`, `GalleryAssumption`,
`LinksAssumption`, `AccessoriesAssumption`, `ServiceAssumption`, `BulkAddAssumption`,
`ServiceDueAssumption`, `ExportAssumption`, `StreamAssumption`; of the pages
`ListViewAssumption`, `ItemPanelsAssumption`, `ItemPageAssumption`, `DocumentViewAssumption`,
`SharePanelAssumption`, `BackupPageAssumption`): names do not collide, bounds are numbers,
constant functions have their types, the viewer's items are finitely many, what a restore brings
refers only to itself, and a list's entry in the browser's storage is one this page once wrote:
fields may be missing, but those that are there are fields of a view (`parseViewState` fills up
the missing ones and takes the others as they are). TLC evaluates them on the instances.

In each module the proof that a step preserves the invariant has one lemma per action, or per
group of actions that change the same rows. The invariants are those of calls that run
statement by statement: what a call has read, written and locked at each place (`PlaceInv` and
its like), that locks exclude (`Exclusive`, `LockInv`, `LocksInv`, `HeldInv`, `KeysHeldOnce`),
and what that makes true of the rows when it commits.

**The restore.** `AlwaysRecoverable` is not inductive: it says what the next boot would bring
back, and says nothing of where in its twenty steps the restore is. `Restore!IInv` adds, per
place,

- `RequestInv`: a request that is not done has a row nowhere; one that no restore overtook
  still has its blob and sees the flag down;
- `FlagInv`: where the flag is up, where a snapshot is recorded and which one, and that a
  restore that gave up undoing still names its own;
- `AsidesInv` (until a restore begins over leftovers): which moved-aside directory can exist,
  namely none before the rename and at most the recorded run's after it; this is what makes
  "the newest directory" the right one;
- `NeedsInv` (the same): which blobs the live rows still need, against those of the snapshot
  and of the upload directory.

The assumption about `flagRead` is real: when the flag cannot be read at boot,
`recoverInterruptedRestore` treats it as not set, clears it and sweeps the snapshot, so that a
half-promoted instance would be served. The action is modelled; the runs and the theorems that
say so above exclude the fault.

What a restore reports, and that it is all or nothing, needs more than that the rows find their
blobs. `PromiseInv`, inductive beside `IInv`, says which rows can be anywhere at all (`FreshInv`:
a row appears when it is written and not before), what the tables have in common with the
snapshot or with the bundle at each place of a restore, its undoing and the recovery (`SameInv`,
but for the rows of requests the restore overtook), and where the rows the restore found are
(`TruthInv`). In the refinement the abstract inventory is the tables, or the recorded snapshot
while one would be rolled back to; `SameInv` shows that this value changes at one step only, the
drop of the snapshot or the fall of the flag that names it, and that every other step stutters.

**The gallery.** The quota, the primary and the files each have an argument. The lock on the
firearm excludes (`LockInv`), so the rows an upload counted are those of its commit. The partial
index lets one open transaction set a primary (`IndexInv`); that photos have one needs that a
move of it ran alone, which is what `overlap` records (`PrimaryInv`). Files come before their
row and leave after it (`UploadInv`, `RemovalInv`); until its commit nobody else has to do with
an upload's files (`Unborn`), and a sweep's readings account for every row of an old file
(`SweepInv`). `OrphanInv` counts the files some call still owes a row or a deletion.

**The links.** `OnlyMagazineFedLinked` relates two tables that two kinds of call change.
`MagazineLinks!IInv` says that each guard looks while it holds the firearm's `FOR UPDATE`
lock and keeps it until the commit (`LinkInv`, `FlagInv`), that this lock is exclusive
(`Exclusive`), and where in a call locks and uncommitted links can exist at all (`PlaceInv`,
`FreshInv`). Of an uncommitted link and an uncommitted flag on one firearm, one holder of
the lock would have to be the other. Bulk add is excluded because it takes no lock.

That a replacement is exact rests on another lock, the magazine's, and holds beside bulk adds:
`ExactInv` says that an update has its magazine's row from before it looks until it commits
(`LockedInv`), that whoever else links works on a magazine of its own (`OwnMagazineInv`), so
that what it deletes is still every link to the firearms it saw (`ReplaceInv`).

**The accessories.** An uncommitted row is locked, nobody has changed what it was made from, and
the firearm it names is locked, still to be looked up, or the one it was on (`RowInv`); a
deleted firearm has had every mount taken off under its lock (`DeleteInv`). An edit keeps its row
locked from the read of the mount to the commit, so the mount it judges the date by is the
row's (`EditInv`). What a recorded session found mounted it holds or is about to look up, and it
cannot be another row by then, because ids are not reused (`RoundsInv`, `BirthInv`).

**Rules and events.** `AloneInv` makes a name unique among what is committed and what any call
has written, which is the unique index. For a rename, `RulesFollow` and `EventsFollow` say that
every row it could see under the old name is in its hands, or has come to that name since, with
a bearer that is going to take it along when it is renamed in turn (`KeptBy`). This part was not
inductive as it was first stated, for a reason: see "Event between two renames" in section 3.

**Bulk adds.** A running call is past the windows of all earlier runs of its key (`ClaimInv`),
because the key's row is held by one call at a time (`KeysHeldOnce`) and outlives the window of
its run (`RunsAreKept`); it is also what makes the stored answer that of the latest run. The
labels of a batch start above those that were there and those earlier runs of the key made
(`LabelInv`). That there is a first free number is itself proved, from the labels in use having a
highest one at any time. The prefixes remembered are those sent: a call that finds its prefix
already recorded found it committed, because it waited for whoever was inserting it (`CallInv`). For
the refinement, only the commit of a call with a key is a step of `OncePerKey`.

**Due state.** Totals are sums over the sessions, defined by a fold over a finite set, which the
provers cannot unfold for every set. `ServiceProofs` counts instead: a sum is the value of a
function built up along the cardinality of the set, and exists, is a number, changes by the row
that is removed, grows with its set and agrees for functions that agree (`SumsExist` to
`SumsAgree`). On these rests everything else: the batched queries agree with the page's because
they sum the same rows (`ListsAgree`); a due rule stays due because sums only grow while its last
service and configuration stay; a session steps every meter by the same amount or not at all. The
invariants are `TableInv`, which types the rows and keeps mounts within one owner, and
`OnTimeInv`, which says that nothing is of a day to come while every entry is made on its day. That
a mark of any rows of the backlog fails for its size only needs that whoever is shown a due rule may
log its service, and that a rule that is due is an effective one of its item. The refinement failed
at first for an item acquired tomorrow: `ServiceOdometer` let its days run at once. The code is right
and the abstraction was not; it now has the meter's age, and the instance has such an item.

**The export.** `ExportIsSound` speaks of the finished bundle; what makes it true happened at the
two readings, long before. `BackupExport!IInv` adds

- `InstanceInv`: a row has its parent, and an upload that no swap overtook has its file whenever
  the instance serves requests;
- `ReadInv`: what was read of the tables is one snapshot, in which no row lacks its parent;
- `CauseInv`: between the readings every file a row of the snapshot needs is there, or known to
  have come or gone; after them, every such file is among the names to be packed.

That `BundleRowsImport` follows needs the repeatable-read transaction (`Seen`); with reads that
each see the present it fails. `WholeInv` adds the sizes: only directory entries have one, a blob
is packed with the one declared, and a document in the snapshot was written to the end before
any size was taken, so `BundleIsWhole` follows although uploads run.

**The staging.** The two halves have an invariant each, for any bundle, any size of a chunk and
any damage on the way. `CipherInv`: what was decrypted is the beginning of the sealed plaintext,
`pulls` chunks of it; the wire up to there is as it was sealed; of what has arrived, less than a
chunk waits. It was not inductive until it said that before the header has arrived nothing is
decrypted. It also says that the derivation of the key fails on an altered header only, which is
the one way left for damage to end in some other error. `CursorInv`: the reader stands at a cell
of the entry it names, `left` cells before its end. `StagedInv`: what is staged are the contents
of the entries before, and of the present one as far as it was read. That only the whole bundle is
staged needs both: the end of the tar stream lies in the last chunk, and this one opens only if
the wire is intact to its end. Tar and encrypted stream are folds over sequences of any length;
what lies at which place of them is proved by counting up from the first entry (`CountingUp`, from
the well-foundedness of `<`, since the library's induction takes an operator).

**The pages.** A step of the screen is a step of one page and a stutter of the others
(`EachPageSteps`), so `PagesInv` is a conjunction of nine invariants, each stated at the end of
its page's module and proved by itself. What they add to the properties is what is under way:

- `ListInv`: the search timer runs only where everything is rendered (`BoxInv`), so what it builds
  on is the view itself; a type that the list no longer offers is never in a view that is still to
  be rendered (`KindInv`), so that the effect which drops it sees it vanish; the page of the table
  is one there is (`PageInv`), and has a first row by the arithmetic of `PageHasRows`.
- `PanelInv`: a reload is in the queue, with the number of the newest request where the panel
  counts them, whenever the panel lacks the user's last write (`CurrentInv`); an opening has one
  create under way, or none once it has made its row (`CreatesInv`); errors of the log and the
  attachments are tied to what was asked last (`LogInv`, `AttachmentsInv`). What an answer makes
  of the panel is computed once, for all eight (`AnsweredMakes`).
- `ItemInv`: the dates in the form and in each call fit the mounts the item has had (`MountsInv`);
  a refresh follows each write (`SeenInv`); that a hidden date is dropped is inductive as it stands.
- `ShareInv`: while a revocation is to be confirmed only it can be under way. `ViewInv`: each fetch
  is of a run of the effect of its own, and a URL lives until that run is cleaned up. `BackupInv`:
  a request belongs to a visit, and the panel to the request of its own. `ClicksInv`: the last call
  for an account is what its last click wanted. `ChecksInv`: a refresh and a mark at most are
  under way, and meanwhile only the user ticks. `SwitchInv`: the switch is ahead of what is stored
  only by the call under way.

`Answered` tests for a refusal before it looks at the kind of call, as the handlers do: stated as
one more alternative of the same choice, two of them held for a refused call, and what it made
of the panel could not be derived.

`ArrangementStands` and `NoSnapBack` follow step by step: a render changes nothing of the view but
a type that has just vanished (`StaleIsReset`, `ShowsTheView`); any other writer of the view is a
click, the timer, or the answer named in the property.

**Only model-checked.**

- Liveness (`FlagComesDown`, `CallsEnd`, `ExportEnds`, `StagingEnds`) and `CallsNeverStick`,
  which is stated with `ENABLED`: out of the provers' reach.
- `DeletionUnmounts` is the one property a run refutes.

## 5. What is not modelled, and why

- Key derivation, the password policy, the origin check and the audit row: libraries, parsing,
  one insert.
- Signing in, roles, sessions, rate limits: delegated to better-auth and
  rate-limiter-flexible.
- Compatible firearms of accessories, the domain side of attachments: link rows replaced and
  single rows written as in `MagazineLinks` and `ItemPanels`, without a guard across tables.
- Deletion and recategorising of items in `ServiceHistory`, and its thresholds; ordinals and
  descriptive columns of magazines; the gallery's order and captions on the server.
- Ammo, the inventory log, creating a firearm, on the server: single-row writes; the gate they
  pass is in `Restore`.
- Label rendering, CSV cells, summary counts, read-only pages, styling, focus, navigation, the
  health probe, logging, migrations: functions of rows already read, or no state a property is
  about.
- Resolution of storage keys and reading of blobs: no state.
- React, Next.js and the table library are assumptions as stated in section 2, and the lists they
  manage are modelled from how the pages use them.
- PostgreSQL itself is an assumption: READ COMMITTED, repeatable read for the export, row locks
  and their conflicts, the deadlock detector, atomic transactions, DDL that commits statement by
  statement.

## 6. Plan

Done, in this order: `Restore` with its abstraction; `Gallery`; `MagazineLinks`; `ServiceHistory`;
`BulkAdd` over `OncePerKey`; `Accessories`; `ServiceDue` over `ServiceOdometer`; `BackupExport`;
`BundleStream`; the pages. Every safety and action property the runs check is proved too, but for
`CallsNeverStick`.

Next, most important first:

1. `OnlyMagazineFedLinked` with bulk adds: the weakest exemption under which it holds.
2. `Restore`: the lost answer to the `COMMIT` of the wipe and copy; a restore whose bundle is one
   that `BackupExport` can produce.
3. `Accessories`: compatible firearms, attachments and the visibility they inherit.
4. `ServiceHistory`: items that change their category or are deleted beside a rename.

## 7. Running it

    tlc -workers 2 -config MCRestore_faults.cfg MCRestore
    tlapm RestoreProofs.tla

Each run takes at most a few minutes, each proof module from nothing at most a quarter of an hour.
