# Models of WeChatIngest

WeChatIngest copies what arrives in a phone's WeChat into a store on a NAS. A
tweak loaded into WeChat captures messages and uploads them over SFTP; Python
programs on the NAS take the uploads in, keep one index and one log per chat,
and a web console shows them. This directory holds TLA+ modules for the parts
where order, failure and concurrency decide whether a message survives, the TLC
configurations that check them on small instances, and proofs of the properties
that matter most.

Run the checks from this directory: `tlc -config InboxOneRunner.cfg
MCInboxConsumer` for a run, `tlapm InboxConsumer_proofs.tla` for the proofs.
`PROJECT.json` lists the runs, the source lines each definition stands for, the
hazards, the mutants and the theorems.

## The system

| Part | Source | State | Operations |
|---|---|---|---|
| Capture hooks | `tweak/hooks/MessageHooks.m` | set of seen keys (cleared at 500), table of pending media | hook of AddMsg and its variants, retry timer, download notification |
| Media extraction | `tweak/hooks/MediaExtract.m` | none | find the bytes of a picture, voice, video or file |
| Upload queue | `tweak/hooks/SftpInboxClient.m`, `Libssh2SftpChannel.m` | serial queue in memory, one SSH channel, desired endpoint, pending counter, local queue directory | enqueue event / json / file / names / status / debug log, put with retries, reconnect, fetch server status |
| Network path | `tweak/hooks/NetworkPath.m` | last seen and stable interfaces, forced-WAN flag | 2-second tick, LAN failure mark |
| Selection and reply policy | `tweak/hooks/MessageHooks.m`, `OpenClawReply.m`, `SendGate.m`, `policy/*.py` | whitelists and exclude lists | decide whether a chat is recorded, whether a message may be answered |
| Statistics, status, debug log | `UploadStats.m`, `StatusSync.m`, `DebugLog.m` | counters per day, active chats, last 2500 lines | record, trim, upload |
| Inbox consumer | `store/consumer.py`, `store/media.py` | `inbox/`, `.processing/`, the failed directory, SQLite index, JSONL log per chat, media folders | claim, parse, put back, reject, copy, upsert, append, unlink; wipe, names and history commands |
| Chat folders | `store/consumer.py` | the chats map file, one directory per chat | place a chat, rename, merge, apply names, wipe |
| Backup import | `store/import_ais_dump.py` | the whole store; rows not yet committed | wipe, import chat by chat, write the map |
| Type mapping | `store/history_map.py`, `store/media.py` | none | type, text and sender of a history row, name and folder of its body |
| Readers and batch tools | `store/readable.py`, `cli.py`, `digest_daily.py`, `transcribe.py`, `wxgf.py`, `backfill.py`, `sftp_inbox.py` | files derived from the log | refresh, query, convert |
| Console | `console/app.py`, `console/static/index.html` | sessions, login failures, settings file, status file, caches; in the browser the open chat and the messages shown | log in, page through messages, convert media, save settings |
| Deployment | `deploy/*` | none | a `--watch` daemon, a path-triggered oneshot, a cron line |

How they interact. The hooks run on WeChat's threads and hand an event to the
upload queue, which is serial and lives in memory only. The queue writes
`inbox/<uuid>.<ext>` and then `inbox/<uuid>.json` in place over SFTP, so a
reader can see a file half written. Consumers on the NAS poll the inbox; nothing
keeps two consumer processes from running at once (the daemon, the oneshot and
cron are installed together, and `_PERSIST_LOCK` is a lock between threads of one
process). The only hand-shake between phone and store is the file system: names,
`rename(2)`, and a file's mtime. The console and the batch tools read what the
consumer writes while it writes.

What makes it hard: in-place writes that break off and are retried on the same
path, claims by rename that other processes can see, crashes between the steps of
one event (copy, commit, append, unlink), the same message uploaded twice (first
without its picture, later with it) and consumed in the order of random uuids,
a map file that several processes read, change and write back whole, timers and
notifications on several threads over one table of pending media, and a network
route that changes under a queue of puts.

What makes each part correct:

- Inbox consumer: an event the phone managed to put is never lost; nothing is
  unlinked before it is indexed; the log says the states of the row in order and
  once; the inbox drains.
- Chat folders: no line of a chat's log disappears when its folder is renamed or
  merged; lines of one chat stay together; a human name is not lost again.
- Upload queue: every queued item ends sent or kept; the put never goes to a
  stale endpoint once the route has changed and settled.
- Capture: a message is enqueued at most once without its media and at most once
  with it, and an item whose media is found is sent with it.
- Console: paging through a chat's log shows every message once; at the login
  form a password cannot be tried much more often than the throttle says; what is written to a
  temporary file and renamed is whole for every reader.
- Backup import: an import that ends has stored the whole backup, whatever
  earlier imports were killed at, except files for which it takes another chat's; two chats
  never share a folder.
- Type mapping: whichever route a message takes first, live, history or backup, its
  row says the same, except where a backup makes a file of it or has lost its content.
- Reply policy: the copies in Python and Objective-C agree; no reply outside the
  recorded groups, never to oneself.

## Modules

| Module | Subject | Run | Proofs |
|---|---|---|---|
| `InboxConsumer`, `EventLedger` | the hand-over of a message from the phone's put to the unlink; what the store promises about it | `InboxOneRunner`, `InboxTwoRunners`, `InboxFirstPut`, `InboxCrashGap` | `InboxConsumer_proofs` |
| `ChatFolders` | folder resolution, name sheets, wipe | `FoldersOneRunner`, `FoldersOneOwner` | `ChatFolders_proofs` |
| `SftpClient` | the serial queue, route changes, forced WAN, reconnects | `SftpRoutes` | `SftpClient_proofs` |
| `MediaCapture` | the hooks' de-duplication and pending media | `MediaHandover` | `MediaCapture_proofs` |
| `ConsolePages` | the console's pages over a growing log | `ConsolePages` | `ConsolePages_proofs` |
| `ConsoleServer` | logins, settings, status, previews and voices between the server's threads | `ConsoleServer` | `ConsoleServer_proofs` |
| `DumpImport` | the import of a backup beside the consumer | `DumpImport` | `DumpImport_proofs` |
| `MessageRoutes` | what the routes make of one message; selection and reply policy | `MessageRoutes` | `MessageRoutes_proofs` |

Each `MC...` module holds the values that its configurations give the constants.
The modules meet at their edges: `MediaCapture` ends where it hands an event to the
queue, `SftpClient` where a put is tried, `InboxConsumer` starts with the put's first
byte and ends with the unlink. It takes the chat's folder as given; `ChatFolders` says
which one it is and `ConsolePages` reads the log that stands in it. `DumpImport` writes
the same logs, rows, folders and map as the consumer and composes with it, one event a
step. `MessageRoutes` follows a single message through all of them and asks what it
says rather than whether it survives.

`EventLedger` is the abstract specification of the store: a message has a row, which is
inserted once and upgraded once at most, and each of its states is published once and in order.
`InboxConsumer` instantiates it (`Ledger == INSTANCE EventLedger WITH ...`: the row is
the row, what is published is the JSONL log) and implements it with one runner:
`LedgerSpec` is a property of `InboxOneRunner` and, for every value of the constants,
the theorem `ImplementsLedger`.

## InboxConsumer

One module for both sides of the hand-over, because every interesting behaviour
is an interleaving of the two. A file is an upload named by its uuid; `Msg` says
which message it carries. Of bytes the model keeps only none / partial / complete,
and of time only whether an mtime is 15 seconds old.

| State | Code |
|---|---|
| `upload`, `try`, `handle` | where `enqueueEvent`'s block is with the upload, the attempt counter of `putWithRetry`, the file the SFTP server has open (it moves with a rename, and writes into a file that lost its name are lost) |
| `json[f]`, `media[f]` | the json in `inbox/`, `.processing/` and the failed directory; the body, which never leaves `inbox/` |
| `body`, `row`, `log` | the copy in the chat's media folder, the SQLite row, the JSONL lines |
| `pc`, `cur`, `todoIn`, `todoProc`, `found`, `prev` | a consumer process: its place in `consume_inbox` / `consume_one` / `_persist_event` and the locals it carries between steps |

Every file system call and every database statement of a consumer that another
process could get between is an action. `SELECT` and `INSERT` are two actions
because Python's sqlite3 opens the transaction at the `INSERT`. `Fault` ends a
pass at any step: it is a crash, and also an `OSError` or `sqlite3.Error` that
leaves `consume_one` and is logged by `watch_inbox`. Three errors are steps of their own, since
they do not go away or leave something behind:

- `ReadFails`: an `OSError` of the read itself moves a claim to the failed directory,
  whatever it holds (582-584); `unread` remembers it.
- `Unstorable`: a `ts` beyond 64 bits raises `OverflowError` in the `INSERT` (368), which
  ends this pass and every later one at the same claim.
- `ReadNames`: a pass begins with the name sheets. `PutSheet` is the phone's put of
  `names.json`, which at any moment may end inside a UTF-8 character (`cutSheet`); reading that
  raises `UnicodeDecodeError`, which line 794 does not name, so no upload is looked
  at until the phone has put the sheet again. What a sheet does to the folders is in `ChatFolders`.

Operators called `Slip...` are deliberate errors next to the definition they
would replace (an append without a condition, a claim of a crashed pass left
alone). No specification uses them; each shows that some property would notice.

### What the runs show

| Run | Shows |
|---|---|
| `InboxOneRunner` | one consumer, two crashes, a text upload and the picture upload of the same message in either order: the log follows the row (`LogFollowsRow`), the row names a body that was copied (`IndexBacked`), a body is unlinked only when its copy has all of it (`UnlinkedOnlyCopied`), and the store implements `EventLedger` (`LedgerSpec`); a fair consumer empties `inbox/` and `.processing/`, however the puts of uploads broke off (`Drains`) |
| `InboxTwoRunners` | two consumer processes, retries, a crash and a stalling phone on one upload: `TypeOK`, an event put at the first attempt is never lost (`FirstPutKept`), nothing is unlinked before its row exists (`UnlinkedOnlyIndexed`) |
| `InboxFirstPut` | a fair consumer indexes every valid event put at the first attempt, provided the writer is never silent for 15 seconds (`FirstPutIndexed`), and the inbox drains (`Drains`); beside it a picture over the size cap, a json that is not valid, an event that SQLite refuses, a name sheet cut and put again, and a crash or a failed read |
| `InboxCrashGap` | violated: `consumer.py:15-19` says a re-run is safe and nothing is unlinked until the append succeeded. A crash between commit and append leaves a row, and the re-run appends nothing |

`FirstPutKept` is about uploads that were put at the first attempt. Without that
condition TLC refutes it: the put-back that keeps a young bad parse from being lost
(`consumer.py:570-572`) renames the old half json over the whole one that the phone's
retry wrote to the same path meanwhile.

Bounds. One upload is enough for claims, put-backs and rejections, because
uploads do not share files; two uploads of one message are what the row and the
log need (a message gets at most a first upload and one upgrade). Two attempts
show a retry; two runners show every race a third would repeat; two faults let a
crash hit the recovery from a crash. Two name sheets: one that is cut, and the next that replaces it.

Fairness. `Drains` and `FirstPutIndexed` assume weak fairness of every runner's
pass: `watch_inbox` loops for ever and systemd and cron restart it. They also
assume strong fairness of `RejectStale`: a json that nobody writes does grow
older than 15 seconds, so it cannot be put back for ever. Where the
writer never stalls (`MayStall` is false), a put that has begun comes to an end, whole or broken off; that
the phone puts anything, tries again or ever sends another name sheet is not assumed.

What the two do not promise is in their statements. A sheet that stays cut inside a
character stops everything (the first disjunct of both). An event that SQLite refuses keeps its
claim, and claims that stand behind it, in `.processing/` for ever (`Stuck`); `inbox/` is still emptied, since a
pass takes the paths there before those in `.processing/`. And a valid event is not indexed if its json could not be read
at the moment it was claimed (`unread`): nothing leaves the failed directory but a wipe.

### What is proved

`InboxConsumer_proofs`, for any files, messages, runners and bounds:

- `TypeCorrect`: `TypeOK` is inductive.
- `FirstPutNeverLost`: `FirstPutKept`. It is not inductive. `KeepInv` adds, per upload, that a
  json the phone has not opened is nowhere, that an open handle points at a file
  that is there, that after at most one attempt a json has at most one name (so a
  rename has nothing to overwrite), and that such a json can lose its last name
  while it is open only if its message is indexed; and, per runner (`DoneIndexed`), that
  the message it works on is indexed from `append` on.
- `UnlinkAfterIndex`: `UnlinkedOnlyIndexed`, from `DoneIndexed`
  and `KeepInv`.
- `RowsBacked`: `IndexBacked`, from `BodyInv`: a runner that has found a body beside the
  json works on an upload that has one, and from `copy` on its copy is there.

And, under `OneRunner` (there is one consumer process):

- `LogSound`: `LogFollowsRow`, from `LogInv`: what `SELECT` returned is still the row
  when `INSERT` runs, and at `append` the log lacks exactly the state that the runner
  is about to append.
- `BodiesCopied`: `UnlinkedOnlyCopied`. With one consumer nothing but the phone writes a
  body once its copy has begun, and the phone writes bodies before it writes the json.
- `ImplementsLedger`: `Spec => LedgerSpec`. `Upsert` maps to `Insert`, `Upgrade` or a
  stutter, `AppendLog` to `Publish` or a stutter, everything else to a stutter. With
  two runners it is false: `.processing/` is listed by every process and a rename of a claim
  onto itself succeeds, so both may read one upload and append its line (`consumer.py:16-17` says otherwise).

Only model-checked: the two liveness properties, which need fairness.

## ChatFolders

Where a chat's log stands. Jobs (events, name sheets, wipe commands) wait in the
inbox; a runner takes one, works through the file system calls of its handler and
returns; after a crash the job waits again. How a job is claimed is
`InboxConsumer`'s subject. Groups, dms and official accounts have parent directories of
their own, and one parent is modelled, with the one thing that crosses: the old folder of
an official account may stand with the dms (`DmsFolder`, `consumer.py:248-249`). `NameFolder` stands for
`_sanitize_folder_name`: names may collide after it.

| State | Code |
|---|---|
| `map` | the chats map file; `Blank` while it is truncated, missing or does not parse |
| `dir`, `lines[F]`, `bodies[F]` | the chat directories, the JSONL logs and the media folders in each |
| `first[F]` | which of the lines are only in the log of the first layout (`events.jsonl`), the others being in `消息.jsonl` |
| `path[e]` | the folder part of `media_path` in the index row; a rename of the folder leaves it as it was |
| `snap[r]`, `folder[r]`, `old[r]` | the map as the handler loaded and changed it, the folder it settled on, the folder it has merged into that one |

| Actions | Code |
|---|---|
| `TakeEvent`, `UpgradeFolder`, `KeepFolder`, `PlaceAnew`, `DropOld` | `resolve_chat_dir` 196-278: rename to the name just learnt, keep, or take over what stands under the bare id (append one of the old folder's logs, then `rmtree` with both) |
| `OpenMap`, `WriteMap` | `_save_chats_map`: `write_text` truncates and then writes |
| `Write` | the end of `_persist_event`: body, row and line |
| `TakeSheet`, `RenameChat`, `NamesApplied` | `apply_name_map`, for sheets that are not cut |
| `TakeWipe`, `WipeDirs`, `WipeIndex`, `WipeMap` | `wipe_imported` |
| `Fault` | a crash, or an error that ends the pass |

A test for a directory and the rename that follows it are one action: the window
between two such system calls is not modelled, the window between reading the map
and writing it back is. The migration of the old media folder is not modelled; media
that arrive late through `hist-media` are in `MessageRoutes`.

| Run | Shows |
|---|---|
| `FoldersOneRunner` | one consumer, two crashes, two chats of one name and one that is renamed, logs of the first layout (one with the dms), a name sheet, a wipe: `TypeOK`; no line is lost except by a wipe, or with the first layout's log in a folder that a merge removes while it has a log in use too (`LinesKept`); where nothing crashed, the log of a chat whose names are its own stays in one folder (`LinesTogether`), and that folder never goes back to the bare id (`NeverDowngrade`) |
| `FoldersOneOwner` | violated: two chats of one name, one consumer, no crash. The second gets a folder of its own with a suffix (`consumer.py:240-245`); at its next message `consumer.py:233` sees that a directory of the wanted name exists and moves the chat there, into the first one's log |

Two more statements are refuted by TLC on the same instances and are not runs: with a
second consumer, whose map is older, a folder goes back to the bare id (`consumer.py:216`
says "never downgrade"), and the lines written meanwhile stay in the other folder; and a
merge keeps the log but deletes the old directory with the media in it, which
`DEPLOY-FNOS.md:326` says are in the chat's four folders.

`LinesTogether` and `NeverDowngrade` are for chats whose names are their own (`OwnNames`), for the
reason that `FoldersOneOwner` shows: no folder that one of its names or its bare id can give the
chat is one that another chat can be given, by a name, by its id or by a suffix.

Bounds. Two chats share a name and a third has two names in turn: a collision, a
rename and a chat that is neither; one event per way an event can come (old
layout, no name, each name). `oldA` and `bareA` give one folder both logs, and the namesake
takes the folder it would be renamed to, so that the merge which loses a line happens. Two crashes let the second hit the repair of the first. Jobs are finite and
the inbox runs empty, so the runs do not check for deadlock.

Proved in `ChatFolders_proofs` for any chats, names and sanitization:
`FoldersTypeCorrect` (`TypeOK`), and `NoLineLost` (`LinesKept`) under `OneRunner`,
which holds where only `wechat-ingest.service` is installed. `MergeInv` is the
invariant: a directory that is not there has no lines, and a runner about to remove
the old folder has all its lines in the target but those that only the log it did not
append has (`Left`): they are the one loss, since line 254 appends `消息.jsonl` or, without it,
`events.jsonl`, and 268 removes both. With two runners it fails: another
process may append to the old folder in between.

Under the same hypothesis, `LogInOneFolder` (`LinesTogether`) and `NameNeverLost` (`NeverDowngrade`).
Neither property says anything of the moments at which it could go wrong, so `TidyInv` says where a
chat is at every step (`Home`): in the map, or, while the runner has a copy of the map in hand that
it has yet to write, in that copy; and until it is placed, under its bare id. For a chat
whose names are its own, that is the only one of its folders which exists, and all its lines are there;
for any other chat, that its entry in the map is a folder of its own names, its id or a suffix, which is
why it can never be moved onto the first one's. Such a chat is never merged either: the folder it
would be merged from does not exist. A crash ends all this, since the map on the disk may then be
older than the folders or empty, and the properties ask nothing after one.

## SftpClient

The other half of the phone's side: not the bytes of one put, which
`InboxConsumer` has, but which route a put takes and what is done when it fails.
A job is a block on the serial queue; `Puts[j]` is how many files it puts. A
capture (`captureDesiredEndpoint`) asks the settings for the host, asks them again
for the port, and stores both, three steps in which the route may change; callers,
the observer of network changes and the queue itself all capture.

| State | Code |
|---|---|
| `seen`, `net`, `force` | `gSeenWifi`/`gSeenCell`, `gWifi`/`gCell`, `gForceWan` |
| `notices`, `mpc` | notifications on their way to the observer in `Tweak.m`, and its place |
| `desired` | `_desiredHost`, `_desiredPort`; each is the route it belongs to |
| `cap[t]`, `host[t]`, `port[t]` | a thread in `captureDesiredEndpoint` and its locals |
| `queue`, `pending`, `stage[j]` | the serial queue, `_pending`, what became of a job |
| `wpc`, `cur`, `nth`, `try`, `chan` | the block that runs: `putWithRetry`'s step, attempt and channel; "hung" in a call that never returns |
| `link`, `home` | what `getifaddrs` would say, and whether the LAN host answers |
| `old`, `late`, `calm` | history: a capture that straddled a change, one that was stored, a job nothing disturbed |

| Actions | Code |
|---|---|
| `TickSees`, `TickSettles` | `NetworkPath.m` `tick`: something differs; the same for 1.6 seconds |
| `Post`, `ReadHost`, `ReadPort`, `Store`, `Enqueue` | a caller: `sharedClientWithDefaults`, then an `enqueue...` |
| `Observe`, `ApplyEndpoint`, `TakeReconnect` | the observer captures twice and dispatches a reconnect |
| `TakeJob`, `Connect`, `PutOk`, `PutFails` | a block and `putWithRetry` / `putFileWithRetry` |
| `MarkLANFailed`, `Fallback` | the first failure on the LAN: mark, capture, reconnect |
| `ReadStatus` | `fetchServerStatusWithCompletion` |
| `Hang` | a put, or a read of the status, whose answer is lost for good |

`reconnectOnQueue` is part of the action that calls it. Automatic switching is on
and settings are not edited. A put to a host of one route with the port of the
other fails: it is nobody's server.

`SftpRoutes` checks, over one event with a picture, one streamed file and one status
read, any first state of the network and one change at any step:

- `EndpointFollows`: once every notice is observed, the desired endpoint is that of
  the route in use. One exception remains and is in the property: the last
  thread to store had read the host before the change. Nothing but the next capture
  repairs that.
- `PendingCounts`: the backlog on the display is the number of counted jobs queued
  or being worked on.
- `KeptOnlyDisturbed`: with both hosts configured, an event ends in the local queue
  directory, which nothing empties, only if the phone is offline or something disturbed the
  upload: the fallback does its work. With a WAN host alone it is false: on Wi-Fi the route is
  the LAN's, whose host is empty, so there is no channel, and `putWithRetry` returns before its
  fallback (`SftpInboxClient.m:374-378`); everything stays on the phone until it leaves the Wi-Fi.
- `BacklogClears`: however puts fail, the queue runs empty, unless a call on the SSH session
  never returns; that is the only way in which it can stand still.

Bounds. Two attempts: the first goes through the fallback, the second is the last.
One change of the network is enough for every capture to straddle it; two changes
pair what each does alone. A second event would wait in the queue behind the first.
All threads together are five: three callers, the observer and the queue.

Fairness. `BacklogClears` assumes weak fairness of the queue's own steps: Grand Central Dispatch
runs the blocks of a serial queue. It does not assume that a put ends. The code limits a connection
attempt to 15 seconds, but the session is blocking and has no timeout, and the socket neither a receive
timeout nor a keepalive (`Libssh2SftpChannel.m:145-146`), so a put whose answer is lost with the
old network waits for ever: `Hang` may happen at any put, and nothing ends it. Nothing is assumed of callers,
the observer or the network.

`SftpClient_proofs`, for any jobs, attempts and networks: `SftpTypeCorrect` and
`BacklogCounts`, from `JobInv` (what is in the queue is queued, stands in it once,
and is not the job being worked on - without it a job could be counted off twice);
`RouteFollowed` (`EndpointFollows`), from `FollowInv`: a capture that no change
straddled holds what the route in use says; and `KeptWhenOffline` (`KeptOnlyDisturbed`), from
`CalmInv`: while nothing disturbs a job, every put is on the whole endpoint of the route in use, and
a second try, except of a streamed file, is on the WAN. So a last try that fails has found the WAN
dead, for which it takes that there is more than one attempt (`maxAttempts` is 3) and that an event
is not streamed. Only model-checked: `BacklogClears` (fairness).

## MediaCapture

From WeChat's callbacks to the queue. The hooks run on WeChat's threads; the chains
of `TryPendingMedia` timers on a concurrent queue; two locks (`seen`, `pending`)
make the test-and-sets atomic, and everything else interleaves. An item is one
`StartMedia`, and chain i is the timer chain started with item i; since it looks up
the table each time, it may end working on a later item of its message.

| State | Code |
|---|---|
| `seen` | `WeChatIngestSeenKeys` |
| `msg[t]` | a hook between `MarkSeen` and its decision |
| `pending[m]`, `item[i]` | `WeChatIngestPendingMedia`: the item of a message; "fresh" (`sent` NO), "bare" (`sent`), "body" (`sent` and `has_media`) |
| `at[i]`, `try[i]`, `got[i]` | chain i: its next step, `attempt`, what it extracted |
| `body[m]` | what extraction finds on the disk |
| `handed` | what chains passed to `enqueueEvent` |
| `marks`, `ousted[m]`, `claim`, `of` | history and indices: `ousted[m]` is how often another message emptied the full table with m in it |

| Actions | Code |
|---|---|
| `MarkSeen`, `DropOrReady`, `StartMedia` | `HandleMessageWrapImpl`: after the table of seen messages come the settings, whose outcome is a choice |
| `LookUp`, `Extract` | `TryPendingMedia` |
| `FinishMedia`, `EnqueueReady` | `FinishMedia`: the test-and-set under the lock, the handover after it |
| `Download`, `Kill` | WeChat brings the body; iOS ends the app |

`HandlePendingWrap` is not modelled: nothing calls it. Neither is history mode,
whose caller is no longer linked.

`MediaHandover` checks: an item is handed over once without and once with a body
(`OncePerItem`); a chain gives its body up only when another has it (`BodyReaches`);
a message is new again only after a restart, or after another message found the table
full and put it out (`SeenOnce`); every waiting item goes out unless replaced or the app is killed
(`EveryItemHanded`).

Bounds. A table of two and three messages: the third empties it, and the first can
be captured again while its chain runs. Two items are what it takes for two
chains to meet. One retry and the last attempt; a second retry repeats the first.

Fairness. `EveryItemHanded` assumes weak fairness of each chain: timers fire and the
concurrent queue runs their blocks while the app runs. Nothing is assumed of the
hooks or of WeChat's downloads.

`MediaCapture_proofs`, for any messages, threads, table size and attempts:
`MediaTypeCorrect`; `HandedOncePerItem`, from `ClaimInv` (a chain past the lock has
marked its item, and no other chain and no earlier handover did so in the same way);
`FoundBodyReaches`, from `ReachInv` (whose item is marked as sent with a body has a
chain that handed it over or is past the lock); and `NewOncePerTable` (`SeenOnce`), from
`SeenInv`: a message that is not in the table was put out of it, by a restart or an emptying, as
often as it was new. Only model-checked: `EveryItemHanded` (fairness).

## ConsolePages

The page of the browser and the threads of the HTTP server. The server keeps no
index: for every request it takes the size of a log, reads a tail, and reads a
longer tail while it has too few messages. The consumer appends meanwhile. The
browser's three functions `openChat`, `loadOlder` and `refreshChats` each await
an answer and then write the same variables, in the order of the answers.

| State | Code |
|---|---|
| `len[c]` | the JSONL log of a chat, a prefix of the constant `Lines[c]`; `Ends[c][i]` are its bytes up to the end of line i |
| `call[k]` | one request: its place in `_read_events`, chat, cursor, `size`, `chunk`, and the answer (`page`, `more`) |
| `current`, `shown`, `top`, `hasMore`, `loadingOlder`, `pinLatest`, `lastKey` | the globals of `index.html`; `top` is `shown[0]`, the cursor of the next older page |

| Actions | Code |
|---|---|
| `Append1` | the consumer's append |
| `Stat`, `StatTail`, `ReadTail` | `_read_events`: the size, `_tail_text`'s own size, the read and the decision to read more |
| `OpenChat`, `OpenDone` | `openChat` before and after its `await` |
| `LoadOlder`, `OlderDone` | `loadOlder` |
| `Poll`, `PollDone` | `refreshChats`, every 20 seconds |
| `Fail` | a request that fails |
| `Scroll` | the scroll handler's `pinLatest` |

A message is its sort key `(ts, msg_id)`, as a number; a line that is not above
the lines before it came late. `MsgId` is the `msg_id` in the key, which WeChat numbers anew in
every chat, so two chats share them; by it alone the page tells whether a poll brought something
new (`index.html:690`) and which messages it shows already (642, 699). Tails are cut by
bytes, of lines of any length, and the
first line of a tail that does not start at the head of the log is dropped, as
in the code. Bodies of messages are left out, chats are not renamed, and the
answer of `/api/chats` only delays the poll.

`ConsolePages` checks:

- `NothingSkipped`: a page with an older one behind it leaves a message out only
  when two messages older than it were written after it. Pages are cut by key
  from a tail that is in the order of arrival; the one message that is read
  beyond the page is what makes up for one late line.
- `EndIsEnd`: a page that says it is the last holds everything before its cursor,
  but for the lines that begin in as many bytes at the head of the log as were appended
  during the request: many short ones, when one long line came.
- `LatestShown`: while a chat stays open, its newest message is shown in the end,
  wherever the user scrolled and whatever answers for other chats come late. One exception is in
  the property: an answer for another chat that came late may have shown a message with the same `msg_id`. Then
  the poll takes the newest message for one that is shown already, until another one comes.

That the poll never washes away the pages that were scrolled up (`DEVELOPMENT.md:341`) is
not among them: back at the bottom it does, which TLC shows in a few steps.

Bounds. A page of two, a first tail of three bytes and a longest of eight, over logs
of up to eight bytes in six lines, the last as long as three of the others: a tail grows twice, and the long line
pushes short ones out of it. The newest messages of the two chats share a `msg_id`. Two late messages are one more than a page
tolerates. Two requests under way show every order of two answers; two clicks
change the chat once, so that a late answer is one for another chat. A log grows
by one line and one request fails.

Fairness. `LatestShown` assumes that the server's threads and the browser's
promises go on and that `setInterval` fires again. Nothing is assumed of the
user or the consumer.

`ConsolePages_proofs`, for any logs, sizes and number of requests, from
`ConstAssumption` alone: `PagesTypeCorrect`, `EndReached` (`EndIsEnd`) and
`PagesContiguous` (`NothingSkipped`). `PagesInv` adds to `TypeOK` where a request is in
the server: the log has not shrunk since its size was taken, and a tail that
did not seek was the whole log at that moment. The two facts about an
answer hold at the step that makes it, and stay, because an answer does not
change and lines once written do not either. Only model-checked: `LatestShown`.

## ConsoleServer

What the console's threads share besides the logs: `ThreadingHTTPServer` starts a thread
for a request, and one more thread writes the status every 20 seconds. A lock protects
the failed logins for one look or one append; files have none. A password comes with the
login form, or with any request by HTTP Basic authentication.

| State | Code |
|---|---|
| `fails` | `_login_fails` of one address: the failures of the last ten minutes |
| `pc[t]`, `file[t]`, `upd[t]`, `got[t]`, `fd[t]` | a thread: its next step, the file it replaces, the change it is to save, the settings it merged, and the name under which the file it has open now lives |
| `disk[f]` | `console.json`, `server.json` and a preview, each under its own name and under its one temporary name |
| `silk`, `pcm`, `wav`, `heard[t]`, `joined` | the three files of a voice message; what was read of the `.pcm`; the threads that decode beside each other |
| `spoilt` | history: a decoder failed over a `.pcm` with something in it, a write of the wav broke off |
| `want`, `raced` | history: the settings after the saves so far; what two threads have worked on at once |

| Actions | Code |
|---|---|
| `RefuseLogin`, `BeginLogin`, `Verify`, `NoteFail`, `Expire` | `login_allowed`, `credentials_ok`, `note_login_fail` |
| `BeginBasic`, `EndBasic` | `_session_user` with an `Authorization` header: `credentials_ok` and nothing else |
| `BeginSave`, `BeginStatus`, `BeginPreview` | `save_settings`, `write_status` (also after a save), the preview of a picture in WeChat's format |
| `OpenFile`, `WriteFile`, `ReplaceFile`, `ReplaceFails` | `write_text` to the temporary name, and `replace` |
| `BeginVoice` to `UnlinkPcm` | `transcode_silk`, with the decoder that writes a part, fails before or after it, ends, or is killed after 20 seconds, and the write of the wav that breaks off |
| `Restart` | the container starts again: threads and failures are gone, files stay |

A file is open, empty, written and closed in these steps; that the bytes of one file
arrive in one `write` is an abstraction, and a write over another thread's bytes leaves
either text or a mixture. A behaviour mixes one kind of request (`Mixes`), because logins,
saves, previews and voices share no state; the status thread runs in all of them, and a
save writes the status as well.

`ConsoleServer` checks, over two request threads:

- `FormBounded`: at the login form, failures and attempts under way together stay below the limit plus the
  number of threads. The limit itself is not kept: requests in parallel all look before one counts. And it is a
  bound on the form alone: a password in an `Authorization` header (`app.py:1042-1044`) is checked on every
  request, however many failures there were, and a wrong one is not counted.
- `FilesWhole`: a file that no two threads worked on at once is whole for every reader
  at every moment. With two writers it need not be: both use the one temporary name.
- `SettingsKept`: as long as no two saves overlapped, what is on the disk is what was
  saved, whatever a restart cut off.
- `VoiceWhole`: a voice is kept short only in three ways: two requests decoded it at once; a
  decoder failed, and since its exit code is not looked at, the part it had written, or what an earlier run left,
  was taken for the voice; or the write of the wav broke off after the header. A decoder that is killed after its
  20 seconds, and a restart at any other step, do not do it.
- `LockoutEnds`: an address that was shut out is let in again, also if it keeps trying.
- `StatusSettles`: when nobody asks any more, `server.json` becomes whole and stays so,
  whatever the races and restarts before left lying about.

Bounds. Two request threads and the status thread: a third writer repeats what two do to
one temporary name. A limit of two failures, since only the distance to it matters. Two
settings and three changes (one set, another set and cleared) show a lost update. One restart.

Fairness. A thread that has begun goes on (every call in it has a timeout or is local), the
status loop begins again and again, and failures grow old. No request has to come.

`ConsoleServer_proofs`, for any threads, settings, changes and limits: `ServerTypeCorrect`,
`LoginsBounded`, `FilesAreWhole`, `SavesAreKept` and `VoicesAreWhole`. `ServerInv` says where
a writer is: of a file that was not raced at most one thread is at work, its temporary
name holds what that thread's step says, and a thread that saves holds the settings merged with
its change. For logins the invariant is the property and that the status thread
does not log in. Only model-checked: the two liveness properties.

## DumpImport

The import of a phone's backup, which `DEPLOY-FNOS.md` has the operator run once, with the
consumer stopped; he may run it again. Reading the backup yields constants: the tables in
their order, the messages of a chat, which of them have a file, and the names.

| State | Code |
|---|---|
| `dir`, `lines`, `body`, `row`, `map` | the store: directories, logs, media files, rows, the chats map file |
| `on`, `up[m]` | the consumer runs; where the phone's uploads are |
| `pc`, `wipe`, `pos`, `chats`, `mapping`, `todo`, `copying` | `import_dump`: its step, `--no-wipe`, the table, `stats["chats"]`, the folders chosen, the media to place, the one being copied |
| `txn` | rows upserted and not committed |
| `finished`, `cut`, `taken` | history: how the last import ended, which copies a crash cut short, for which messages this import found another chat's file |

| Actions | Code |
|---|---|
| `Put`, `Claim`, `Store`, `Switch` | the phone, the consumer (`_persist_event` with `resolve_chat_dir`), and the operator |
| `WipeDirs`, `WipeIndex`, `WipeMap`, `WipeInbox` | `wipe_store` |
| `LoadContacts`, `NoContacts` | the contacts, whose absence ends the import after the wipe |
| `SkipChat`, `BeginChat`, `Keep`, `Place`, `BeginCopy`, `EndCopy`, `OpenLog`, `WriteLog`, `Insert`, `Commit`, `LastCommit` | one chat |
| `OpenMap`, `WriteMap` | `_save_chats_map` at the end |
| `Crash` | a kill or an error at any step: what was not committed is rolled back |

`DumpImport` checks, over up to three imports and two crashes with the consumer between them:

- `FoldersDistinct`: two chats of one import never share a folder, also when the suffix
  that separates two namesakes makes the name of a third.
- `DumpStored`: after an import that ended, every message of the backup has its row, its
  line and its file, whatever crashed before, and keeps them through the uploads that follow. Two
  exceptions, both because `place_media` takes a file of that name that is there for the file: a copy that
  was cut short and not wiped since may be short; and after an import without a wipe a file may be missing whose
  name, in most cases `MesLocalID` and suffix, is that of another chat's file, which an earlier import left in a folder that
  the consumer since renamed to this chat's name.
- `RowsLogged`: after an import that wiped the store, index and logs hold the same messages.
  Without the wipe they need not: the log is opened for writing, and the lines of live messages are gone while their rows stay.

Bounds. Five chats: two with one name, one with the name that the suffix makes, one
without a name, one empty; files of three chats, two of one name (`1.jpg`). One message in the backup and uploaded, two only
uploaded. A commit after a long chat, after three chats, and at the end. Three imports let a killed one be followed
by one without and one with the wipe. The run ends when imports and uploads do, and starts and
stops of the consumer keep it from deadlock. No fairness is assumed.

`DumpImport_proofs`, for any backup, names, uploads, imports and crashes: `DumpTypeCorrect`,
`FoldersStayDistinct`, `BackupStored` and `IndexMatchesLogs`. They rest on three assumptions on the
constants. Chats are finitely many and the numbers behind a suffixed name do not run out before the chats do
(`chat_folder_name` counts on without a bound; a pigeonhole argument, `FreeNumber`, then finds the
free one). And `IdAssumption`, about the data: nobody is called by the bare id of another chat, and no
id is a name with a suffix; ids are given by WeChat, names by people. Without it an
upload could merge the folder of one chat into that of another.

`IInv` adds to the four properties: what the import's own variables hold at each step (`RunInv`);
that a chosen folder exists and is not the bare id of another chat, and is the chat's own bare
id only if the backup has no other name for it (`NameInv`) - the uploads' merge moves only folders of
bare ids, so that what an import has placed is moved at most to its own chat's folder; what is stored of the tables that
are done and of the one under way (`DoneInv`), after the end (`EndInv`), and during a wiping import
(`WipedInv`). `PartInv` is the subtle one: a copy that a crash cut short may stay in an earlier folder of its
chat after a later import has placed the file whole in another. It says that then the whole one is where nothing
moves it, or that imports of this chat never return to the folder of the short one, so that
`place_media`, which keeps whatever file is there, is deceived by nothing but the last crash and the file of another chat (`taken`).

## MessageRoutes

One message and what the system says about it. It may come live from the hook, in a
history pack of the phone, or in a backup, in any order and repeatedly, and each route maps it by
code of its own: `MapType` in Objective-C, `map_msg_type` twice with different callers. Then the
store keeps a row and up to two lines and the console shows one of them.

| State | Code |
|---|---|
| `msg`, `cfg` | the message (type number, marks in its content, how the file name its title gives ends, sort of chat, sender, body) and the phone's settings |
| `row`, `log`, `hist` | its row (with the suffix of the stored file), its lines, the uploads to `hist-media` |
| `origin`, `loose` | history: the route that made the row; `media_path` was set by `attach_loose_hist_media` |

| Operators and actions | Code |
|---|---|
| `map_msg_type`, `HistoryEvent`, `DumpEvent` | `history_map.py`, `build_event` of `import_ais_dump.py` |
| `MapType`, `LiveEvent` | `MessageHooks.m` |
| `media_folder`, `media_text`, `CopyBody`, `Noted`, `Stored`, `Upsert`, `Persist` | `media.py`, `_persist_event` |
| `Live`, `PutHistMedia`, `History`, `Attach`, `Wipe`, `Restore` | the routes |
| `decide_ingest`, `Reply`, `canSendReply`, `ShouldSkipChat`, `PhoneTakes`, `PhoneReplies` | `ingest_policy.py`, `reply_routing.py`, `send_gate.py` and `SendGate.m`, `MessageHooks.m`, `OpenClawReply.m` |
| `Picked`, `Classify`, `Polished`, `Shown` | the console: which line, and what it is shown as |

`MessageRoutes` checks:

- `RoutesAgree`: the row has the type that the content says, whichever route is first. Three
  exceptions: a message that merely quotes the marks of a file (the hook takes it for one), an app or system message
  whose content a backup without the dictionary has lost, and a message of any type that a backup
  stores as a file because its title, or its body, ends as a document (`AsDocument`). And the row knows what oneself
  sent; only a history pack that is first can have it the wrong way round.
- `TextFits`: the text of a row belongs to the type that the content says (`Own`), also where a backup made a file
  of a card: a body or a red packet has its placeholder, a title or a name, and nothing has the placeholder of another type.
- `BareIsNoted`: a media row from the phone without a body has a reason.
- `ShownAsStored`: the console shows the body that the row has and plays voices and films, never `[raw]`.
- `TwinsAgree`: the phone records nothing that the Python policy would not, and leaves out of it only what came while
  the hook was switched off, the system's chats, and official accounts unless they are asked for; no reply leaves the recorded
  groups; both copies of the reply decision agree where both know the settings.

The exceptions in these properties are the disagreements that the model shows; each is a
state that the run reaches:

- `history_map.py:104` takes `Des = 0` for received, `import_ais_dump.py:400` and `DEVELOPMENT.md:357` for oneself.
- `reply_routing.py:19` says that it stays in lockstep with `OpenClawReply.m`, which has no exclude list, no
  "record all" and no command after white space; and `canSendReply` blocks every reply
  while both whitelists are empty, also where all groups are recorded.
- The backup tests the name of the file it stores, which is the title where there is one, for messages of
  every type (`import_ais_dump.py:634-647`): a link card whose title ends in `.pdf` is a file by the backup, with
  the xml for its text, and a card by the hook and by a history pack.
- `ingest_policy.py` knows neither `WeChatIngestShouldSkipChat` (`MessageHooks.m:467-483`) nor the hook's switch: with
  all private chats recorded it would take the file helper's, and with official accounts switched off theirs.
- `attach_loose_hist_media` (`consumer.py:762`) sets `media_path` alone: the note that the body is missing
  stays, and the console, which reads the log, does not show the body.
- A raw message with an `.amr` or `.video` body is shown as a file (`app.py:793`).
- `media.py:17` says that a video over 50 MB is not copied; the code's limit is 2 GiB. The model has one limit.

Bounds. Every type number with the marks that matter to it, in groups and private chats, from oneself and
others, with every suffix where it decides and titles that end as a document, a voice or nothing known; and a text
message of every sort, from people, officials and the system's chats, under all settings.
Routes are not bounded: a row has finitely many states. There is no deadlock, since a wipe is always possible.

`MessageRoutes_proofs`, for any messages and settings of these kinds, proves all five properties and the type
invariant: `RoutesTypeCorrect`, `RoutesAgreeAlways`, `TextFitsAlways`, `BareIsNotedAlways`,
`ShownAsStoredAlways` and `TwinsAgreeAlways`. The heart is the lemma `HookAgrees`: although the hook asks for a
red packet before a file and `history_map.py` for a file before a red packet, the hook's second look
for a file makes them agree. `IInv` adds to the properties: which line has the row's body, and that a
body's folder is the one of its line's type (`LineInv`).

## Proofs and their reach

Each theorem is of the form `Spec => []Property` or `Spec => [][Action]_vars` (or that the
detailed specification implements the abstract one) and rests on the named assumptions of its module
alone; TLC evaluates them in every run. Where `TypeOK` is a
theorem, most runs do not check it again. Every invariant and every action property that a passing run
checks is also a theorem, and so is the refinement of `EventLedger`. What stays with TLC is liveness, since the
prover has no rules for fairness and `ENABLED`: `Drains`, `FirstPutIndexed`, `BacklogClears`,
`EveryItemHanded`, `LatestShown`, `LockoutEnds` and `StatusSettles`. The properties of the two runs that
end in a violation are false, and there is nothing to prove of them.

Some theorems have a hypothesis besides the assumptions on the constants: one consumer process (`OneRunner`,
`Runners = {...}`). Deployments in which the daemon, the oneshot and cron run together do not meet it, and
the module's section says what then goes wrong.

## Not modelled

- The migration of the old media layout (`migrate_media_layout`), which the watch loop runs once at its
  start and every single pass (`consume_inbox`) at its own: it rewrites whole logs, and what another process appends in between is lost. No property is about it.
- How a history pack is claimed (`consume_history_jsonl`): its rows are in `MessageRoutes`, but nothing uploads packs any more.
- The phone's settings while they are edited, a restart of the app in `SftpClient`, statistics (`UploadStats.m`) and status, screens, contacts,
  and media extraction, which is reflection over private classes of WeChat: their outcomes are inputs.
- Readers and batch tools, which derive files from the store, and the legacy SFTP client. Two things seen on the way:
  `backfill.py` and `sftp_inbox.py` write to `inbox/`, while the consumer prefers the directory
  of the new layout where it exists; and the folders that `readable.py` moves (official
  accounts found among private chats, the owner's own chat) keep their old place in the map and in `media_path`.
- The console's sessions, contact list, debug log page and rendering.
- Vendored libraries and build output, which are not part of this program.
