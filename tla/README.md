# A TLA+ model of go-tus-backend

go-tus-backend is a file gateway. Browsers upload files through the TUS
protocol, download and stream them, delete and restore them, keep versions,
create, rename and share buckets. The gateway keeps almost no state of its own:
objects live in an S3 store (MinIO), and records of buckets, shares, versions
and trashed buckets live in a second service, go-shares, behind an HTTP API. Its
handlers are sequences of calls to these two, without locks and without
transactions. What is hard to get right, and hard to test, is what becomes of
the sequence when a call in the middle fails, when the process crashes, or when
another request does its own sequence on the same file or bucket. That is what
these modules are about.

Paths below are relative to `src/internal/uploader/`, unless they start with
`cmd/`.

## 1. Inventory

| Component | Source | State | Operations | What makes it correct |
|---|---|---|---|---|
| File trash | `server.go:607-834` | the objects `key`, `key.info`, `__trash__/key`, `__trash__/key.info` | delete, restore, expiry by a lifecycle rule | no data is lost; a file is in one place, sidecar included |
| File versions | `fileversion.go`, `sharesclient.go:620-779` | objects under `__versions__/`, version records in go-shares | archive (with eviction), restore, delete a version | as above; records match objects; the cap is kept; the right version is evicted |
| Bucket handlers | `bucket.go` | buckets and their objects, registry, trash records | create, trash, restore, rename | renames lose nothing; a trash record concerns the bucket it was made for |
| Purge consumer | `purge.go`, `cmd/server/main.go:92-119` | the event it is working on | process one event | purges only what the owner condemned, and in the end all of it |
| Shares and access checks | `shares.go`, `sharesclient.go`, `claims.go`, `server.go:69-97` | a cache with a time to live | check, share, unshare, invalidate | revocations take effect, at once or after a known time |
| Streaming | `stream.go` | none between requests | one request with a Range header | the bytes that RFC 9110 says |
| Upload handlers | `server.go:225-290` | `sync.Map` of TUS handlers, a goroutine for each bucket | find or create a handler; forward completed uploads | one goroutine per bucket, the one that is waited for; uploads do not block |
| Downloads, listings, metadata cache | `server.go:467-605, 849-905` | hashes in Redis | read through, invalidate | nothing of a file that is gone |
| Shared links | `sharedlinks.go`, `sharedownload.go`, `sharefile.go` | link records in go-shares, URLs in the hands of clients | create, list, revoke, download | expiry, revocation, no link to a deleted file |
| Account erasure | `account.go` | what the user owns, in Keycloak, Vault, S3 and go-shares | erase, in a fixed order | nothing left that can be read or that nobody can erase any more |
| Provisioning | `provision.go`, `keycloak.go`, `vault.go` | home bucket, its key, grant, registry | provision a user | can be repeated; what was reported done is done |
| Content events | `content_producer.go`, `server.go:264-288, 668-683` | messages in Kafka | emit | the index has what is there, and forgets what is not |
| Audit events, authentication, CORS, start-up, routing | `audit.go`, `auth.go`, `cors.go`, `cmd/server/main.go` | none | | |

How they interact:

* Every handler of a file or bucket first asks the access check, which asks
  go-shares through the cache. Trashing or restoring a bucket, and unsharing it,
  drop the bucket's cache entries.
* A trashed bucket stays in the store. The ticker of go-shares finds its record
  past due and publishes an event; the purge consumer deletes objects, bucket,
  shares and record.
* The trash of *files* is a prefix in the bucket, which a lifecycle rule that is
  set when the bucket is created expires.
* An account is spread over Keycloak (the user, the list of allowed buckets),
  Vault (the key), S3 (buckets and data) and go-shares (who owns which bucket,
  shares); the user's JWT holds a copy of the list of buckets that is older.
  Provisioning writes into all of these, erasure takes out of all of these.
* An uploaded or deleted file leaves traces: its metadata in Redis, events on a
  topic from which another service builds the search index, the links it is
  shared by. Most are made and removed by goroutines, after the answer.
* File versions tie two stores together: an object per version in the bucket, a
  record per version in go-shares, the file's name from the sidecar in between.

What is hard: copy-copy-delete moves that stop half-way (all file handlers);
deletes, restores and archives of one file that overlap; best-effort calls whose
errors are ignored; a file that goes by two names, the key of its object and tusd's
ID of the upload; names that are used again, by another bucket, while shares,
trash records or purge events of the earlier one are still around; listings that
return one page; events delivered at most once; answers cached while they become
wrong; an erasure that goes on over errors and deletes the list of what it had to
delete; goroutines that clean up after the answer, in any order; lists that are
read, extended and written back. `PROJECT.json` lists these hazards at their
lines, with the properties that cover each.

## 2. Modules

**Files of one bucket**

| Module | Models |
|---|---|
| `FileStore` | objects, version records, requests in their slots; CopyObject, DeleteObjects and the record calls; uploads and the expiry of the trash |
| `FileTrash` | `DeleteFileHandler`, `RestoreFileHandler` |
| `FileVersions` | `ArchiveFileVersionHandler`, `RestoreFileVersionHandler`, `DeleteFileVersionHandler` |
| `FileCustody` | abstract: where a file is, and the moves its owner can expect |
| `FileLifecycle` | the handlers together, the properties, the inductive invariants, the mapping to `FileCustody` |
| `FileLifecycleProofs` | theorems: types, and that no data is lost |
| `FileCustodyProofs` | theorem: the handlers implement `FileCustody` |
| `FileSerialProofs` | theorems: places, records, cap and eviction, for requests one after the other, of names without a failed call |
| `MCFileLifecycle` | instances for TLC |

An object is a triple of place (`active`, `trash`, `versions`), key and part
(`data`, `info`), so that `<<"trash", k, "info">>` is `__trash__/k.info`. A
request is a record in a slot: its kind, its program counter and the local
variables of the handler that it still needs. Each S3 or go-shares call is one
action, and so is one `DeleteObjects`, which takes the file and its sidecar
together. Checked errors end the request (`Abort`, which is also the crash of
the process, the loss of the client, and the timeout); unchecked errors are a
second disjunct of the call's own action, named by the entry of `Faulty` that
permits it. The variable `faults` is history: the file names of the calls that
have failed, which lets a property speak of the names that are `Spared`. Content
is not modelled: an object key is unique to an upload, so that a
key *is* its data. The size that a version record carries is left out.

**Buckets**

| Module | Models |
|---|---|
| `BucketStore` | buckets, objects by key, registry, trash records, shares, purge events; the calls of `SharesClient` |
| `BucketHandlers` | create, trash, hard delete, restore, rename, share, unshare, folders; uploads, for the races with those |
| `BucketPurge` | ticker and event topic (external), `ProcessPurgeEvent` |
| `BucketCustody` | abstract: what the owner of a bucket is promised, from its creation to its end |
| `BucketLifecycle` | these together, fairness, the properties, the inductive invariants, the mapping to `BucketCustody` |
| `BucketLifecycleProofs` | theorems: types, renames that lose nothing and their order, what the purge may rely on, and that handlers and purge implement `BucketCustody` |
| `MCBucketLifecycle` | instances for TLC |

A name can be used by several buckets one after the other; `gen` counts them,
and a share remembers the one it was made for: 0 if there was none, as sharing
asks who owns the name, by the claims of a JWT, and not whether a bucket has it
(`SharedGen`). The variables `condemned`,
`uploaded` and `purged` are history. `ListObjectsV2` answers with any page of
`PageSize` keys (1000 in S3), as the code never asks for a second page.
`HasShares` says whether go-shares is configured: without it there is no
trash, and a bucket that is deleted is gone. `Folders` are the keys that mark
folders; they are stored with no look at the trash. Two
questions about go-shares, whose source is elsewhere, are parameters in `Uses`:
whether it restores a bucket that is past its retention time (`lateRestore`)
and whether clients trash what is in the trash already (`trashAgain`).

**Access and streaming**

| Module | Models |
|---|---|
| `ShareAccess` | `canAccessBucket`, `CanAccess`, `IsBucketDeleted`, `InvalidateCache`, the changes in go-shares, time |
| `FileStream` | `StreamFileHandler`, `serveFullStream`, `parseByteRange`, a player that fetches piece by piece |
| `ShareAccessProofs`, `FileStreamProofs` | theorems: every safety property of the two |
| `MCShareAccess`, `MCFileStream` | instances for TLC |

`ShareAccess` has discrete time. A call to go-shares takes up to `Timeout` (3 s
in the code); what the gateway does between calls takes none: the bounds in the
properties are those of a gateway that is not itself stalled. Go-shares answers
at one instant of the call, and the answer is stored at a later one, which is
where it may be overtaken. `InvalidateCache` walks over a `sync.Map`, so every
entry is a step. One bucket is enough, as keys of the cache begin with the
bucket's name; that a bucket whose name is a prefix of another one's drops the
other's entries as well is harmless and left out.

`FileStream` has int64 as the numbers up to `MaxInt`, and the forms of Range
headers as records: the three forms of a range of bytes, and those that the code
rejects one and all, which are another unit (or "bytes" in other letters), several
ranges, and what is malformed. A number beyond `MaxInt`, or -1 for what is no
number, does not parse. Each of the two calls to the store may fail (500).

**Accounts**

| Module | Models |
|---|---|
| `AccountStore` | Keycloak, Vault, S3 and go-shares, as far as they hold what belongs to a user; JWTs; uploads; trash and purge as one step each |
| `Provisioning` | `ProvisionUserHandler` with `provisionSSEKey` and `GrantBucket`; `CreateBucketHandler` |
| `AccountErasure` | `DeleteAccountHandler` with `hardDeleteBucket` and the calls to Vault, go-shares and Keycloak |
| `Accounts` | these together, the properties, the inductive invariant |
| `AccountsProofs` | theorems: every property but `RetryFinds`, which does not hold |
| `MCAccounts` | instances for TLC |

The abstraction keeps, of an item of data, its bucket, its owner, the key it is
encrypted with, and whether it was stored in calm: into a bucket its owner had
been told was ready, with no request on the owner's account under way. Without
the last, the properties would have to speak of races the handler cannot win (an
upload between the deletion of the objects and that of the bucket). A bucket's
default key is what the store uses; with the key gone from Vault, it neither
reads nor writes what is encrypted with it. Every request after the first of an
account may bear a JWT of before (`token`, `Refresh`), also after the account is
erased. `acked` is what requests have reported as done. Other buckets are
created by administrators, for themselves, as in the code. Home buckets of
different users may have one name (`sanitizeUsername` maps `a.b` and `a_b` to
the same): the properties speak of buckets that are one user's, `OwnHome` by
name, `Alone` by what requests have reported. Renames are left out (see section 6), as
are the declaration of the attribute in the realm and the token of Keycloak's
administrator, which every grant asks for anew.

**What a file leaves elsewhere**

| Module | Models |
|---|---|
| `TraceStore` | the state: cache, handlers and their goroutines, topic, index, links, URLs; Redis and Kafka calls; crash and restart |
| `Uploads` | `GetTusHandlerForBucket`, the announcement of a completed upload, the goroutine that forwards it |
| `SharedLinks` | `ShareFileHandler`, `handleShareDownload`, `DeleteSharedLinkHandler`, the removal of links with the file |
| `FileTraces` | deletion, archiving, restoration, `fetchMetadata`, the consumer of content events; all together, fairness, the properties, the inductive invariant |
| `FileTracesProofs` | theorems: every safety property |
| `MCFileTraces` | instances for TLC |

There is one bucket. A TUS handler is named by the slot of the request that made
it, so that two first requests make two handlers and `LoadOrStore` keeps one.
tusd's channel has no buffer: the request that completes an upload waits in
`TusNotify` until the goroutine of *its* handler takes the announcement. The
goroutines of a deletion are `jobs`. Messages are a set, delivered in any order,
as the producer spreads them over partitions by load and the topic orders
nothing between partitions.

A file has two names, and which one a piece of code uses decides whether it finds
what another has left. `ObjectKey(k)` is what routes, listings, links, the cache and
delete events use. `UploadID(k)` is what the goroutine that forwards completed
uploads uses, for the index event and for the entry it drops from the cache: with
the S3 store it is the object key and the ID of the multipart upload, joined by "+".
An object key is never used again.

`file` says where a file is: `active`, in the `trash`, or a `version`. Archiving
it, and restoring it from either place, are a `Move` each, as the handlers touch
none of its traces; their copies are in `FileTrash` and `FileVersions`. A deletion
is step by step. `fetchMetadata` reads the sidecar, which tusd writes when an upload
starts, so that a file that is not yet there can be cached.

A password is right or wrong. Time only passes while there is a link; `Wait` is
how long a download by link may take, of which more in section 4. History
variables mark the entries and links that met one of the races the properties
except, `late` and `raced`; `told` is what the consumer was told to delete.

## 3. Runs

| Run | Instance | Checks |
|---|---|---|
| `MCFiles` | 2 uploads of one name and 1 of another, 2 slots whose requests for one name come one after the other, cap 1, 1 failing call, at most 3 version records | `SingleHome`, `VersionsMatch`, `EvictsAnother`, `DataKept`, `VersionCap`, `SerialInv`, `CustodySpec` |
| `MCFilesOverlap` | 2 uploads of one name, 2 slots that overlap as `SafePairs` allows, 1 failing call, 2 records | `LifecycleInv`, `CustodySpec` |
| `MCBucketsPurge` | 2 names used twice, 1 key, 1 sharee, 2 slots, 1 failing call or crash, but for those after the deletion of the bucket | `NoInheritedShares`, `TrashMeansTrashed`, `PurgeSpares`, `PurgeInv`, `BucketCustodySpec` |
| `MCBucketsRename` | without go-shares: 3 names, an upload and a folder, 2 slots, 1 failing call | `ObjectsKept`, `RenamesOrdered` |
| `MCBucketsLive` | 1 name, an upload and a folder, pages of 1 key, all uses, 1 failing call | `PurgeCompletes` under fairness |
| `MCShares` | owner and sharee, 2 slots, time to live 1, time limit 1, clock up to 4, 3 changes, 1 failing call | `ShareFresh`, `TrashFresh`, `DeniedFresh`, `RevokedUnraced`, `AccessInv` |
| `MCStream` | every form of header, sizes 0 to 4, numbers -1 to 7 with int64 ending at 6, the store failing at either call | `AnswerExact`, `AnswerInv`, `PlaysThrough` under fairness |
| `MCAccounts` | 2 users, a home bucket and another one that both may create, each name used three times, 1 item of data, 4 requests in 2 slots, 1 failing call | `ErasedUnreadable`, `ErasedGone`, `EraseSpares`, `RegistryCurrent`, `GrantHeld`, `AccountsInv` |
| `MCTraces` | 1 file, 1 link, 3 requests in 2 slots, 1 failing call or crash, links that end with the tick they are made in, other times 1, clock up to 2 | `AnnounceHeard`, `LinksFollow`, `UrlBounded`, `IndexComplete`, `DeletionsTold`, `CacheFollows`, `TracesInv`; `Answered`, `Indexed` under fairness |

Deadlock is not checked: clients may stop, and the bounded instances do when
all uploads, generations or ticks are used up.

`SerialInv`, `LifecycleInv`, `PurgeInv`, `AccessInv`, `AnswerInv`, `AccountsInv`
and `TracesInv` are the inductive invariants of the proofs of section 5, and each
has the module's `TypeOK` as its first part. A run that checks one shows that it is
true, and of what; the proof that it is inductive is for any size. `PurgeSpares`
and `EraseSpares` are action properties, of each step; `CustodySpec` and
`BucketCustodySpec` are refinements of an abstract specification.

Why the bounds suffice. Two keys of one name are what eviction and the restore
of a version need: the one that is archived and the one it displaces. With a cap
of 1 every second archive evicts. A third upload has another name: what fails for
one of the two names while somebody works on the other must make no difference to
that one. Every kind of handler is a straight line of calls, so one failure reaches
every place where a request can be stopped. A name that is used twice (`MaxGen` 2) is what is
needed for a bucket to inherit something; three names let two renames collide or
form a chain. A page of 1 with 2 keys makes every listing incomplete. With
all times 1, a clock that runs to 4 is one more than the longest age that
`TrashFresh` allows: an entry is stored late, expires, and is looked up again;
three changes are a revocation, its reversal and another revocation. The
ranges have each boundary, one less and one more: the first and the last byte,
the size, the largest int64. Four requests on accounts are a provisioning that
fails, its repetition, and an erasure with something beside it; the second user,
with no home bucket, is there to take the name of a bucket of the first. A name
that is used three times lets a request of its first user end when it is a third
bucket's; with two, properties hold that the code does not have (section 5). Three
requests on a file are an upload that runs beside another request and a
deletion after it, or a link, a download and a deletion. Files do not meet each
other in the traces except in the one goroutine of the bucket, where the upload of
one waits behind that of the other; the instance has one file, and that the
goroutine is there whoever waits, `AnnounceHeard`, is proved for any number. A clock
up to 2 sees a link made, expire, and its last URL expire.

What the bounds leave out. In `MCBucketsRename` each name is used once, as
`ObjectsKept` itself asks (`Once`): with two generations and two opposite renames
that overlap, the page one of them listed may be deleted from the *next* bucket of
that name, and an object is lost. `MCAccounts` has one user with a home bucket; two
that share one are left to the proofs.
`MCFiles` and `MCFilesOverlap` have no two archives of one name at the same
time: both would evict the same oldest version and leave one too many.
`MCBucketsPurge` publishes one event at a time (`MaxEvents` 1), for a ticker
slower than the consumer: an event that is published twice would purge the next
bucket of the name.
It also has a go-shares that restores no bucket past its retention time, and
clients that do not trash what is in the trash: `Uses` with `lateRestore`
violates `PurgeSpares`, with `trashAgain` `TrashMeansTrashed`.

### Where the code does less than it says

Three runs, each with one property, end in a violation; `PROJECT.json` quotes the
lines.

* `MCFilesDeleteRestore` (`DataKept`): a file is being restored, its copy is
  active again, a delete moves that onto the trash copy, and the restore goes
  on to delete the trash copy (`server.go:822`).
* `MCBucketsRenamePages` (`RenameEmpties`): one page is moved, the deletion of
  the old bucket fails, and the files are in two buckets (`bucket.go:485`).
* `MCAccountsRetry` (`RetryFinds`): one bucket cannot be emptied; the erasure
  goes on, deletes the registry entries and the user, and nothing names the
  bucket any more (`account.go:61-84`).

Limits that appear as conditions of properties that hold, or as parameters that
the passing runs do not use:

* Files. Restoring a version first archives the active file; the errors of those
  copies are ignored, and the active file is deleted (`fileversion.go:287-306`):
  with `archCopy` in `Faulty`, `DataKept` is violated. Evictions are not made up
  for when a call fails, so that the cap holds only of names for which none has
  (`Settled` in `VersionCap`, `Spared` in `EvictsAnother`). It is not a matter of one version too many: a
  record that could not be dropped (`fileversion.go:137`) names a version that is
  gone; to restore that one archives the active file first, evicts nothing, and
  then fails, so that versions pile up with every attempt.
* Buckets. A rename leaves the shares of the old name in force for whoever creates
  the next bucket of that name (`bucket.go:520`), without any failure: with `rename`
  in `Uses` `NoInheritedShares` is violated, and `TrashMeansTrashed` as well, as a
  rename asks who owns the bucket and not whether it is in the trash. A name that no
  bucket has can be shared by whom the claims of a JWT let own it
  (`shares.go:28-110`), after a purge for example, and the next bucket of that name
  starts with that share: the exception in `NoInheritedShares`. Nothing is lost in
  a rename while names are used once (`ObjectsKept`). A failed deletion of shares
  or of the trash record is only logged, and a crash before them leaves both, so
  `MCBucketsPurge` does not include these failures.
* Access. The trash check fails open (`TrashFresh`); an answer that go-shares gave
  before a share was revoked may be stored after the revocation has dropped the
  entry (`sharesclient.go:79`), the condition of `RevokedUnraced`. The other
  condition is a second change of the same fact while the first is dropping
  entries: a bucket is trashed, restored and trashed again.
* Streaming. Where RFC 9110 has a Range header ignored, or lets it be, and the whole
  file sent, the code answers 416: to a unit other than bytes, to "bytes" in other
  letters, to several ranges. A suffix of an empty file is answered with 206 and the
  range from 0 to -1, and a number beyond an int64 is an error even as the end of a
  range or the length of a suffix. These are the exceptions of `AnswerExact`
  (`Misread`), which says of them that no byte is sent.
* Accounts. One failure in the provisioning and another in the erasure leave data
  that can be read (`faults <= 1` in `ErasedUnreadable`): a home bucket that
  exists is not encrypted by the repetition. A creation registers its bucket last:
  when another user has deleted and created it by then, the registry names the one
  who has nothing (`Alone`). Users whose names are sanitized to the same home
  bucket share it, key and erasure included (`OwnHome`). The errors of
  `RegisterBucket` are ignored (`RegistryCurrent`), and a failed grant ends the
  provisioning before it (`provision.go:100-105`, where the comment has the
  registration independent). An erased user's JWT stays valid until it expires,
  and what is stored with it is erased by nobody. An erasure goes by a list of buckets
  that is old by the time it deletes them; it takes what is another user's in a home
  bucket that the two share, and in a bucket whose name was used before (`gen > 1`
  in `EraseSpares`): the list, or a registration that failed, is of the earlier one.
* Traces. What a completed upload drops from the cache is a name under which nothing
  is cached (`server.go:272`). A deleted file stays in the index for
  good, without any failure (`EventInv`): the upload was announced as tusd's ID
  (`server.go:278`), the deletion is as the object key (`server.go:675`). That is also
  why a restored file, which gets no event, is in the index (`IndexComplete`): under
  one name for both it would be missing, or the order of the events would matter,
  which the topic does not keep. Archiving a file drops nothing
  (`fileversion.go:97`): its metadata stays in the cache up to 24 hours and its
  links stay; `CacheFollows` and `LinksFollow` speak of files in the trash.
  Metadata read before a deletion may be cached after it (`CacheFollows`, `late`), a
  link made after the links were removed (`LinksFollow`, `raced`). A signed URL
  survives its link by its own time to live and the duration of the download
  (`UrlBounded`).

## 4. Fairness

Safety needs none. `MCBucketsLive` assumes that the ticker of go-shares goes on
publishing records that are past due (weak fairness of `PublishPurge`: a ticker
does just that), that the consumer goroutine continues an event it has begun
(weak fairness of its steps: they are calls that return), and that every bucket's
event is read in the end (strong fairness of `PurgeReceive`, which is enabled
only between events: a topic is read in order, so no event waits for ever).
Nothing is assumed of clients. `PurgeCompletes` allows the owner to restore the
bucket, and failures are bounded by `MaxFaults`: under failures without end no
purge completes.

`MCStream` assumes that the handler continues (`WF(Handle)`), and that a player
that has begun goes on fetching and receiving. `PlaysThrough` speaks of
behaviours in which the file stays in place and the store does not fail.

`MCTraces` assumes that requests go on, that the goroutine of the bucket's handler
and those of deletions are scheduled, and that the consumer of the topic keeps up
(weak fairness of each): the Go scheduler starves no goroutine, calls to Redis
return, and kafka-go's `WriteMessages` gives up after a bounded number of
attempts. That a call of a goroutine fails or the process crashes is an
exception in `Indexed` (`faults > 0`), as nothing repeats the event. `Answered`
has no such exception: a crash answers by closing the connection.
`Wait`, the time a download by link takes at most, is an assumption about what is
in front of the gateway: the gateway's server sets no limit on how long a client
may take to send the password, while the expiry is checked before.

## 5. What is proved

TLAPS checks the theorems below for every value of the constants: any sets of
files, buckets, users and requests, any durations, sizes and bounds, with no
assumption but those that the modules state with `ASSUME` (that bounds are
natural numbers, that two roles are different) and those of the third column.
Every safety property that a passing run checks is the statement of a theorem.

| Module | Theorems | Under |
|---|---|---|
| `FileLifecycleProofs` | `TypeCorrect` | |
| | `LifecycleInvariant`, `NothingLost` (`DataKept`) | `SafeUse` |
| `FileCustodyProofs` | `CustodyImplemented` (`CustodySpec`) | `SafeUse` |
| `FileSerialProofs` | `SerialInvariant`, `OneHome` (`SingleHome`), `RecordsMatch` (`VersionsMatch`), `CapHolds` (`VersionCap`), `OlderEvicted` (`EvictsAnother`) | `SafeUse`, `SerialUse` |
| `BucketLifecycleProofs` | `BucketsInvariant`, `TypeCorrect`, `NothingDropped` (`ObjectsKept`) | |
| | `OrderHolds` (`RenamesOrdered`) | `IsFiniteSet(Buckets)` |
| | `PurgeInvariant`, `RecordsEnd` (`TrashMeansTrashed`), `OnlyTrashPurged` (`PurgeSpares`), `CustodyImplemented` (`BucketCustodySpec`) | `PurgeUse` |
| | `SharesEnd` (`NoInheritedShares`) | `SharesUse` |
| `AccountsProofs` | `AccountsInvariant`, `TypeCorrect`, `GrantsHeld` (`GrantHeld`), `RegistryNames` (`RegistryCurrent`), `NothingLeft` (`ErasedGone`), `NothingReadable` (`ErasedUnreadable`), `ErasureSpares` (`EraseSpares`) | |
| `ShareAccessProofs` | `AccessInvariant`, `TypeCorrect`, `SharesFresh` (`ShareFresh`), `TrashedSoonShut` (`TrashFresh`), `DenialsFresh` (`DeniedFresh`), `RevocationHolds` (`RevokedUnraced`) | |
| `FileStreamProofs` | `RangesExact`, `AnswerInvariant`, `TypeCorrect`, `AnswersExact` (`AnswerExact`) | |
| `FileTracesProofs` | `TracesInvariant`, `TypeCorrect`, `AnnouncementsHeard` (`AnnounceHeard`), `LinksRemoved` (`LinksFollow`), `UrlsExpire` (`UrlBounded`), `IndexCompletes` (`IndexComplete`), `DeletionsAnnounced` (`DeletionsTold`), `CacheCatchesUp` (`CacheFollows`) | |

The assumptions are about the use of the gateway, and each of them is needed:

* `SafeUse`: requests on one name overlap only in the pairs of `SafePairs`, and
  the unchecked copy (`archCopy`) does not fail. `MCFilesDeleteRestore` has a pair
  outside `SafePairs`; `MCFiles` with `archCopy` in `Faulty` loses data as well.
* `SerialUse`: requests on one name do not overlap (requests on different names
  do). Two archives that do leave one version too many.
* `IsFiniteSet(Buckets)` is there for a number of ranks to exist.
* `PurgeUse`: go-shares is there; clients do no more than trash and, in time,
  restore; one event is on its way at a time; a purge that has deleted its bucket
  goes on to remove the trash record, without a crash. Every other call may fail,
  and requests may end anywhere. `SharesUse` asks in addition that the purge
  deletes the shares. With any one of these given up, TLC shows a bucket that is
  taken for trashed, purged or shared by mistake (section 3).

All of them hold of the instances of the passing runs, which also check the
invariants. The
proofs have one lemma per handler or group of steps, and in it one step for each
part of the invariant that the action can disturb.

**Files: nothing is lost.** `DataKept` alone is not inductive. A request that is
about to delete an object keeps no data of its own: whether the deletion is
harmless depends on the copy it made some calls ago still being there. `CopyInv`
says so for each kind of request and each program counter; for it to survive the
steps of *other* requests, these have to be of kinds that do not remove that very
copy, which is `OverlapInv`; and to know that a request only touches keys of the
name it was admitted for, versions found through records included, it takes
`NamesInv`.

**Files: custody.** The refinement is proved from `LifecycleInv`. Each step of a
handler is first reduced to what it does to the data of one file: a copy appears
(`CopyMade`) or is taken (`CopyTaken`). What that does to the place the file
counts as being in is then a matter of a few cases (`CustodyMoves`): a copy is
taken from the active place only if another one is there, which `CopyInv` says.

**Files: places, records and cap.** `SerialInv` says how far each handler has come:
`ArchiveStage` and the others give, for each program counter, where data and
sidecar of the files in hand are and which records they have; all files that no
request has in hand are `Tidy`. A handler that is interrupted leaves its stage as
it is, so this is said of the names that are `Spared`. That a failure harms no
*other* name has to be proved, and needs what holds whatever has failed: every
step concerns the keys and records of one name (`Apart`, one lemma for each
handler), which for the record that a request drops is not in the step itself.
The request only knows an id: `HeldInv` says that a record with the id a request
holds is of the request's own name, and that the id is one already given, so that
no record made later will have it.
Then a step either fails, or concerns a name that is not spared, and leaves the
other names alone (`HurtFrame`), or it is `Calm`, and takes its stage to the next. The cap counts: `CapInv` allows one record more than the cap exactly while an
archive has added its own and not dropped the oldest, or a restore has archived the
active file and not dropped the record of what it restores.

**Buckets: renames.** An object is copied by one request and deleted by the same,
later, while other renames move on what it copied. Where is it safe? While every
name is used once, a rename goes from a bucket to one that is *created later*, so
that there is an order of the buckets (`Later(rank)`) that all renames follow, and
what a rename is about to delete is in some bucket further up. When a rename makes
a bucket, the order is changed: the new bucket is put above all others. With names
used twice there is no such order, which is how an object gets lost. The order
does not grow with the number of renames: as the buckets that count are those whose
names have been used, ranks can be taken from 0 to the number of these
(`RanksInv`), and `RenamesOrdered` asks for no more than there are names. A new
bucket is the first of its name, so it brings the rank it needs.

**Buckets: purge.** `PurgeInv` says of whom each trace in go-shares is: a trash
record is of a bucket that is there and condemned, or the purge is past deleting
it; an event is of a record past due; the running purge holds no other event of
its bucket; under `SharesUse`, a share is of the present bucket, or about to be
deleted, or was made for no bucket. `PurgeSpares`
is an action property: from this invariant, a step that deletes objects is one of
the purge and its bucket is condemned.

**Buckets: custody.** `BucketCustody` is what the owner may count on: content is
deleted only after the retention time in the trash has passed without a restore,
and a bucket ends only when it is empty. Under the mapping (`Life`) the trash
record of go-shares is the life of the bucket, with one exception: from the
deletion of the bucket on, until the purge has removed the record, the record
says nothing of a bucket of that name that is made meanwhile, which is live. The
proof takes each action to the one abstract step that it is, or to none; it needs
`PurgeInv` to know that what the purge works on is due, and that no request takes
the record of an earlier bucket for that of the present one.

**Accounts.** An erasure deletes what it found when it began, so `Doomed` follows
a bucket through the erasure: not begun, in the list, or the one in hand. `StoredInv`
uses it for `ErasedGone`. For `ErasedUnreadable` a single failure may have hit any
step of the provisioning or the erasure: `SealedInv` says that a home bucket is
encrypted, about to be, or that the failure has been spent and the bucket is
registered; `HomeInv` that what is in it will be deleted or is under a key that no
request can make again (`Keying`) and that the erasure deletes (`Shredded`).

`ErasureSpares` is about the opposite mistake, that an erasure takes too much. It
deletes by name, from a list made of the registry and the user's JWT.
`ClaimsInv` gathers by which ways a user can come to have a name in that list
(`Claims`: a registration, a grant, a JWT, a bucket set up, data, a request under
way): a home bucket has claims of those users only whose home it is, and a name
that has been used once has the claims of one user at most.

**Access.** An answer is as old as the question (`Known(fact, value, asked)`), so a
cache entry is as old as its expiry minus `MaxAge`, and a decision as old as what
it was made from; `CheckInv` takes the age of the first look-up through the second.
For `RevokedUnraced`, `Shut` says of a fact that has been taken away for good that
neither the cache nor any answer on its way says otherwise; `OwnerInv` makes it
true entry by entry while the cache is dropped, `SureInv` keeps it for the checks
that began afterwards.

**Streaming.** `RangesExact` compares `parseByteRange` with the set of bytes a
header names, save the headers that are `Misread`, one lemma for each form of
header, as arithmetic on numbers of any size; `AnswerInv` then says that what is fetched and answered is what was parsed.

**Traces.** `EventInv` accounts for the index event of an upload: in the topic, in
the goroutine, or in the request that waits for it (`Unindexed`); what is indexed
stays so, because no delete event has a name of an upload, which is in the types of
the events. `DeletionsTold` accounts for the event of a deletion in the same way
(`Undeleted`). `LinkInv` has the clock: a download that is under way began before
its link's end, and at most `Wait` ago. `WorkInv` says that every upload runs in the
handler that was stored, whoever made it, so the goroutine that reads exists.

What the proofs found. Attempts that failed pointed at properties that had held
only for the size of the runs; the properties were then made what is true of the
code, and the bounds large enough to see the difference.

* `RegistryCurrent` and `ErasedGone` used to except nobody but the users of one
  home bucket. With a name used a third time, a creation registers the bucket of
  the user who has it now under the name of the one who had the first
  (`bucket.go:415`); hence `Alone`, and `MaxGen` 3.
* `ObjectsKept` used to be said of all renames, and held as the run uses no name
  twice. Two renames in opposite directions lose objects; hence `Once`.
* `RevokedUnraced` was violated by three changes of one fact, with two it held.
* `VersionCap` was violated by a failed removal of a record, with four files and a
  cap of two; with two files and a cap of one there are too few to see it. The
  property now asks that nothing has failed for that name.
* That a failure for one name harms no other was not provable from the stages alone:
  nothing in them kept the record that a request is about to drop from being one of
  another name, once the request's own name was given up. Hence `HeldInv`.
* The type of the player's headers in `FileStream` left out pieces that end
  beyond the largest number of the instance.

What is only model-checked: liveness (`PurgeCompletes`, `PlaysThrough`, `Answered`,
`Indexed`), as the prover handles neither fairness nor `ENABLED`; and the three runs
that end in a violation, which are counterexamples.

## 6. Not modelled

* Listings of buckets, files, trash, versions and links: they read, and what
  they answer is stale at once, as with any listing.
* The read/write permission of a share, which the gateway passes on and never
  evaluates. Audit events, which are emitted and never read here.
* Authentication and CORS, stateless filters whose result (`Claims`) the models
  take as given; configuration, and the dispatch of paths to handlers.
* What tusd does with the chunks of an upload before it is complete, and the
  chunks of a player's connection after the answer's headers.
* Renames in `Accounts`: a renamed bucket is registered under no name, so that
  an erasure finds it only through a JWT that lists it, which none does. That is
  a limit of the code which the list of hazards records; with renames in the
  model, `ErasedGone` would say no more than that.
* The count of downloads of a link, kept by go-shares.
* If-Range headers, which the handler does not look at.

What could be asked beyond this is less of `PurgeUse`: of buckets whose name is not
used again, where a record that stays behind does no harm, and of names that no
rename touches. Two events of one bucket at a time are not among these: the second
one purges the next bucket of the name.

## 7. Mutants

Operators named `X_Something`, with a comment that begins with "Mutant", stand
before the definition `X` they are variants of, each with a plausible mistake:
an error that is not checked, a reset or a guard that is forgotten, a bound that
is off by one. `PROJECT.json` pairs each property of each passing run with one
that violates it.
