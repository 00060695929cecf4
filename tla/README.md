# Verification of the home system

TLA+ models of the plugin host (`core`), of `sample_plugin`, of the chat
service `family_chat` and of its chat page, checked with TLC, and theorems
about them proved with TLAPS. Paths below are relative to the repository's root; `fc/` stands for
`plugins/family_chat/src/`.

## The system

| Part | State | Operations | Talks to |
|---|---|---|---|
| Socket tasks, `fc/api.rs` `handle_socket` | one tokio task per WebSocket: position, receiver of the broadcast channel | subscribe, connect, forward events, join, typing, leave, disconnect | presence, `ws_members`, channel, client |
| Presence, `fc/presence.rs` | `counts`: connections per user | `connect`, `disconnect` with a debounce, `snapshot` | called by the socket tasks |
| Live members, `AppState::ws_members` | users per room whose sockets get its events | insert at join, clean-up at the end of a task | socket tasks, `post_message` |
| Event channel | ring of 100 events, one cursor per receiver | send, receive, lag | all handlers, all socket tasks |
| Accounts, `fc/auth.rs`, `fc/api.rs` | configuration in memory behind an async lock, `auth.json` | load, bootstrap, create and update user | file system |
| Rooms and messages, `fc/rooms.rs`, `fc/messages.rs`, `fc/db.rs` | SQLite tables in memory | create room, open direct room, post, edit, delete; list page by page, search | event channel |
| Read pointers, `fc/reads.rs` | table `read_pointers` | set pointer, count unread | `post_message`, joins, pointer updates |
| Limits, `fc/auth.rs`, `fc/typing.rs`, `fc/api.rs` | login attempts, upload bucket, last typing time | test and count | handlers |
| Files, `fc/files.rs`, `fc/housekeeping.rs` | content-addressed directory, map of metadata | upload, download, clean-up (never started) | file system |
| Bridge, `fc/core_bridge.rs` | position in the handshake, HTTP server | init, start, serve HTTP, read to the end | plugin host |
| Plugin host, `core/src/plugin_host.rs`, `ipc.rs`, `services/timer.rs` | per plugin: process, two pipes, reader task, pending calls, timers | handshake, reader task, `call`, ticks | the plugin |
| `sample_plugin` | position in its script | init, start, subscribe, set timer, log ticks, answer pings | plugin host |
| Web client, `plugins/family_chat/webui` | message list, socket with retry | send, receive, load history | HTTP and WebSocket of `family_chat` |
| Configuration, `fc/config.rs` | four sources of settings | resolve | bridge, `family_chat` by itself |
| Start of the core, `core/src/main.rs`, `plugin_host.rs` `discover`, `start_all` | plugins found, the one being started | discover, start one after the other, end | every plugin |
| Other commands, storage, log, embedding | none that changes concurrently | I/O | |

What is hard in them: socket tasks on several threads that share counters and
a table of members without a common lock, with a timer between decrement and
removal; a lossy channel; saves that overlap, fail, are dropped with their
request or are cut off by a crash; SQL statements without transactions whose
requests interleave and fail half-way; a page that fills one list from
answers, events and histories that race; two processes that talk over bounded
pipes, where a reader that writes may wait for ever, answers come late or
twice and the other end may die; a start that takes the plugins in any order
and reads their lines without a timeout; files that are written in place while
they are served; clocks at the boundary of a window; cursors that are deleted.

What makes the parts correct:

* presence: the counter is the number of connections; nobody is listed, or
  left advertised as online, without a reason that will go away;
* rooms: an event reaches only users with access, and live members are users
  with a live socket;
* accounts: ids and names stay unique, the file never contradicts the memory,
  one configuration is in force, what was reported as done is saved;
* messages: a key makes one message, replies keep their message, direct rooms
  stay private, events tell what the table holds;
* chat page: what it is handed is shown, and once; no temporary entry stays
  behind;
* plugins: an answer reaches its call, a call that was heard returns, the two
  processes never wait for each other; the start returns, and no process
  outlives the core;
* files: what is listed is on the disk and whole, a download is the bytes that
  were asked for;
* limits: no window lets too many pass, nobody is refused without reason;
* counts and pages: what is new is unread, what was told is true, every
  message is on one page.

## Modules

### OnlineUsers and RealtimeHub

`OnlineUsers` is what presence promises: sockets attach and detach, a user is
listed from the first socket on, is taken off the list only while none is
attached, and in the end.

`RealtimeHub` is the code: one action per piece of `handle_socket` between two
points where the task releases a lock or awaits. `task[s]` is the position of
a task, `hears[s]` the branches `select!` still listens to in this iteration.

| Action | Code |
|---|---|
| `Connect`, `AnnounceOnline` | `fc/api.rs` 1089-1095, `Presence::connect` |
| `RecvEvent`, `RecvLagged` | 1098-1116: membership is looked up by user, a lagging receiver disables the branch |
| `RecvJoin`, `RecvTyping`, `RecvOther` | 1117-1178 |
| `RecvClose`, `RecvDropped` | 1175; an error or the end of the stream disables the branch; 1179 |
| `Leave` | 1182-1188: out of every room, whatever other sockets the user has |
| `Detach`, `Expire`, `AnnounceOffline` | `Presence::disconnect`, 1189-1193 |
| `RoomBroadcast` | the `event_tx.send` of the HTTP handlers |
| `ClientEnds` | the client sends Close or vanishes |

The channel is a queue per receiver of at most `Capacity` events and a flag
that says some were lost, all a receiver can tell of the ring. Writing a frame
to a socket is taken to complete. `Access` is constant: a membership is never
taken away in the code, so a join that is allowed stays allowed. `joined`,
`frame` and `announced` are histories.

### AuthStore

Memory, file and requests of the account handlers. `Change` is the part under
the lock, `OpenFile` and `WriteFile` are the two steps of `tokio::fs::write`
(truncate, then write from the start: a longer text of another writer leaves
its tail, so the result may be torn), `SaveFails` an I/O error, `HangUp` a
client that is gone: the handler is dropped, the write it started is finished,
or fails, on the blocking thread (`OrphanWrite`). `Crash` and `Load` restart the
process. A write that fails, or that a crash interrupts, may have written any
part of its text over what is there (`CutShort`). A file that cannot be parsed,
or is there and cannot be read, counts as missing (lines 87-91): `FirstRun`.
`mishaps` records which of these a start met. A start that fails (the section's
file cannot be written) is a crash while bootstrapping. The file system keeps
what it was given: writes lost with the power are not modelled. `version`
numbers the changes made to the memory and is not in the file. A secret stands
for everything a bootstrap draws at random. The file's length is kept up to
what decides whether a tail is left.

### PluginHost, SamplePlugin, AnyPlugin

`PluginHost` is the core's side of one plugin: `SendHello`, `AcceptInit` and
`AcceptStart` are `start_plugin` when all goes well (`Startup` has the rest);
`ReadRequest`, `WriteReply`, `ReadResponse`, `ReadEvent` and `ReaderStops` are
the reader task, which answers a request before it reads on; `Register` and
`WriteCall` are `PluginManager::call`; `Tick` is a timer. The pipes hold `PipeSize`
envelopes, and who writes to a full one waits. Two modules extend it:
`SamplePlugin` with the script of `sample_plugin`, `AnyPlugin` with a plugin
that reads, writes and dies as it likes.

### Startup and ChatConfig

`Startup` is `homecore run` from the discovery of the plugins to their end,
with several plugins at once.

| Action | Code |
|---|---|
| `Discover`, `SafeMode` | `core/src/main.rs`, `PluginManager::discover`: any set of directories; one `plugin.toml` that cannot be parsed is an error |
| `Spawn`, `WriteHello`, `ExpectInit`, `ExpectStart` | `start_all` and `start_plugin`, a line at a time, the plugins in any order (a hash map) |
| `AllStarted`, `Kill` | the wait for Ctrl+C, and the end of the core wherever it is |
| `Load`, `SendInit`, `SendStart`, `EnterLoop`, `Drop`, `EndOfInput` | `core_bridge.rs` `run_stdio` and the way to it from `fc/main.rs`; the same lines of `sample_plugin` |
| `Serve`, `Standalone` | `run_http_server`, with its error ignored as a plugin and fatal by itself |

A plugin is of one of six kinds: `family_chat`, `sample_plugin`, one whose file
is unreadable, one without a program, one that says nothing, one that says
something else. A line is its kind; the pipes are taken to hold the few lines
of a handshake. The branch for `plugin.stop` is no action: nothing in the core
sends that request.

`ChatConfig` is `Config::load` for the port and the address, an operator over
the four sources, composed with `Startup`: `Load` chooses a member of
`Sources`, and a configuration that is rejected ends the process before its
first line.

### ChatStore

The tables `rooms`, `room_members` and `messages`, and the handlers that
change them, one action per statement that changes a table: connections of the
pool run statements of several requests in any order. Constraints of `db.rs`
(unique slugs, unique keys per author, the foreign key of replies) make
statements fail; `WriteFails` is SQLite's refusal of a write to a table another
connection of the shared cache is reading. `told`, `handed`, `raced` and
`unreported` are histories. Mentions, read pointers and the search index are
statements that may fail but have no content (`KeepBooks`); `Unread` has the
read pointers. An empty text and
a refused access change nothing and are not steps.

### ChatView

One tab of one user: the page of `Chat.tsx`, its socket (`ws.ts`), and of the
server what decides which messages reach it.

| Action | Code |
|---|---|
| `Enter` | `Chat.tsx` 24-77: clean-up and new run of the effect when the room changes; `messages`, fetches and posts outlive it |
| `Open`, `Drop` | `ws.ts` 38-65: the queue is flushed when the socket opens, a broken one is opened again |
| `Receive` | `ws.ts` 46-55, `Chat.tsx` 27-40: `WithEvent` |
| `Send`, `Answer`, `SendFails` | `Chat.tsx` 79-101: temporary entry, `WithAnswer`, removal |
| `ReadHistory`, `TakeHistory`, `LoseHistory` | `fc/api.rs` `list_messages`; `Chat.tsx` 57-69: `WithHistory` |
| `Store`, `Announce`, `StopShort` | `post_message` up to the row, its event, or a failure between the two |
| `ReadJoin`, `Forward`, `ReadOldJoin`, `Leave` | `handle_socket` for the socket in use and for former ones |

`about` gives each message its room, text and sender once and for all; those
this tab does not send come from others or from other tabs of the user.
A temporary id, `tmp-` and the millisecond, is taken to be different for each
post; rooms have fewer messages than a page of the history (50); the channel
does not overflow (`RealtimeHub` has that). A page that is left for the
settings or the search is a new instance when it comes back, and not modelled;
nor is the effect's other trigger, another account signing in.
`missed` and `early` are histories. The page's filters are `Kept` of
`Selection`, what a list keeps in its order; so is the `retain` of `Limits`.

### FileStore

Uploads and one download. A content is its own id, as in the code, where the
name of a file is its SHA-256; a thumbnail is another content, perhaps that of
another file.

| Action | Code |
|---|---|
| `BeginUpload`, `OpenForWrite`, `WriteContent`, `OpenFails`, `WriteStopsShort` | `upload_file` and `save_file`: `tokio::fs::write` empties the file, then fills it |
| `SaveThumb`, `ListFile` | the thumbnail after the file, the entry of `AppState.files` after both; a thumbnail that cannot be saved is dropped |
| `HangUp` | the handler is dropped; a write the blocking thread has goes on |
| `Restart` | `AppState.files` is lost, the directory is not |
| `BeginDownload`, `StatFile`, `StatPanics`, `ReadByte`, `EndStream` | `download_file`: listed, size, range, bytes; `parse_range` with its `size - 1` modulo `Word` |

Thumbnails are never downloadable (only `id` is looked up), and
`housekeeping.rs`, which would delete files, is started by nothing.

### Limits

`CheckUpload`, `CheckLogin` and `Typing` are `check_upload_limit`,
`LoginRateLimiter::check` and `TypingTracker::typing`; each holds a lock
from the clock to the count, so each is one action. `granted` and `refused`
are histories. A restart, which forgets all three, is not modelled.

### Unread

One room whose users have all joined it: `Post`, `InsertRow`, `PointAuthor`,
`ReadPointer`, `CountRows`, `SendCount` are `post_message` from the stamp to
the last member that is told; `Mark`, `MovePointer`, `SendZero` are
`update_read_pointer`; `DeleteRow` is a deletion, which tells nobody. The
handlers do not await between these statements, so a client that hangs up
stops none of them; other threads run in between. `news`, `ahead`, `informed`,
`untold` and `overtaken` are histories, and so is `stale` in a request: its
count, or the pointer it has set, has been changed by another since.

### Paging

`list_messages` for a client that goes from page to page: `FirstPage`,
`ResolveCursor` (the look-up of the cursor's second, a statement of its own),
`ReadPage`, while `Insert`, `Remove` and `NextSecond` go on. The order of ids
is the order of random UUIDs, so `Insert` may pick any id; the second is taken
before the row is inserted, so it may pick any that has been. `steady`,
`skipped` and `spoiled` are histories.

### Modules for TLC

`MCRealtimeHub`, `MCChatStore`, `MCChatView`, `MCServices` and `MCPluginHost`
give the constants values. In three of them a variable `part`, chosen at the
start, says which of several instances a behaviour belongs to: `MCServices`
runs `FileStore`, each limiter of `Limits`, `Unread` and `Paging`, which share
no state; `MCPluginHost` runs `AnyPlugin` and `Startup`; `MCChatStore` runs
messages of one author and rooms of three users.

## Runs

| Run | Instance | Shows |
|---|---|---|
| `hub_tabs` | two sockets of one user, an open room and another user's own, capacity 1, fairness | `TypeOK`, `CountIsSockets`, `ZeroIsDebouncing`, `NoPhantomOnline`, `NoGhostMembers`, `RoomConfidentiality`; `ClosedUserGoesOffline`; `PromiseKept` and `PromiseKeptFairly`: the hub implements `OnlineUsers`, with its liveness |
| `hub_join_registers_membership` | as `hub_tabs` | violated: a second tab that closes takes the first one out of its rooms |
| `hub_disconnected_user_goes_offline` | as `hub_tabs`, fairness | violated: a socket that vanishes without Close may keep its user online for ever |
| `auth_overlap` | two requests, three names, two changes, three configurations, two crashes | `TypeOK`, `UniqueAccounts`, `FileIsThePast`, `OneConfiguration`, `AckedIsSaved` |
| `auth_lost_update` | two requests, no crash | violated: overlapping saves lose a change reported as done |
| `auth_bootstrap_again` | one request, the bootstrap section, one crash | violated: a crash during a save leaves a torn `auth.json`, and the next start bootstraps again |
| `sample_live` | two calls, pipes of four envelopes, fairness | `HeardCallsReturn`, `TicksAreLogged`, no deadlock |
| `core_host` | `AnyPlugin`: two calls, pipes of two envelopes; `Startup`: `family_chat`, `sample_plugin` and one plugin of every other kind, 31 settings, fairness | `TypeOK`, `PendingIsInFlight`, `OwnAnswer`; `FollowsPrecedence`, `StartReturns`, `EveryPluginEnds` |
| `chat_store` | two requests; one author, two texts, one key, two messages; three users, one message, a public room that takes a direct room's slug | `TypeOK`, `OncePerKey`, `RepliesAreAnchored`, `EventsTellTheTable`, `PrivateDms` |
| `chat_handed_rooms` | as `chat_store`, without keys | violated: a half-made direct room is handed out |
| `chat_view` | two rooms, two messages whose rooms, texts and senders are chosen at the start, two changes of room, broken connections or failures | `TypeOK`, `TempsAreUnderWay`, `SentIsShown`, `NoDoubles`, `NothingElseIsMissed` |
| `services` | files: two contents of two bytes, two requests, three uploads, one restart, five Range headers; limits: two keys, bursts of two, windows of three and two, a clock of six; unread: two users, two requests, two posts, two marks, two seconds; paging: four messages, three seconds, pages of two | `TypeOK`, `ListedIsWhole`, `ServedIsWhole`, `SlidingLimits`, `UploadLimit`, `NewsIsUnread`, `ToldIsTrue`, `PagesAreComplete` |

What the properties say is written above each of them in its module.

### Why the bounds are enough

Two sockets of one user reach every combination of connect, leave, debounce
and announcement that involves two tasks; the invariants of `hub_tabs` are
also proved for any number. Capacity 1 makes the channel overflow at once;
more only makes lag rarer. Two requests with two changes reach every order of
two saves, and two crashes a crash after a restart. `PipeSize` 2 fills the
pipes of `AnyPlugin` at once; `sample_live` takes 4 so that the pipes may hold
two calls, a tick and a reply. Two messages allow a message and its reply; one
author is enough there because a request about another's message changes
nothing. In its other part, rooms, `chat_store` drops the histories and texts
from the state (`VIEW`): no step reads the ones, no property of rooms the others.

In `chat_view` the page enters a room and one more thing goes wrong or changes
at any moment: another room, a broken connection, a failed request. Two
messages are every pair of the tab's own and others', in one room or two, of
one text or two: each rule of the list compares one message with one entry.
Its `VIEW` leaves out what the histories say of messages already shown.

`core_host` starts three plugins in every order, of which one misbehaves in
any of four ways, and the others may crash: what the start of one does to
another depends on what comes before and after it. The settings (`MCSources`)
hold every source present and absent, a port that is fine, too small and no
port at all.

In `services`, two bytes tell a file that is empty, cut short and whole, and
`Word` 8 is above every sum of two of them; a third upload finds files of the
first two. A window of three and a clock of six hold two windows and their
boundary; the two keys show that none is charged to another. Two seconds are
before and after a pointer, and a message of its own second; a third post or
mark meets nothing two do not. Pages of two with four messages are two full
pages, three seconds a page that ends inside one. Every bound of `services`
is a constant of the theorems below.

`MaxTicks` is 1: ticks are a second apart, and a plugin that is a whole pipe
of ticks behind has stopped. With as many ticks as the pipe holds, the host's
reader (writing a reply) and the plugin (writing a request) do wait for each
other; the code has no protection against it.

### Deadlock and fairness

`core_host`, `auth_overlap`, `auth_lost_update`, `auth_bootstrap_again`,
`chat_view` and `services` switch the deadlock check off: a core whose plugins are gone or
that a plugin keeps waiting, a server out of bounds of changes and crashes, a
page whose messages are all sent and shown, and services whose clocks and
requests are used up have nothing left to do.

Fairness is weak and per task: tokio runs a task that can go on, a mutex of
tokio is handed out in the order it was asked for, `select!` picks at random
among ready branches, so an event or a Close frame is taken in the end. Nothing
is assumed of clients, of HTTP requests or of frames a client may send. The
plugin of `sample_live` is assumed to run. In `Startup` the core is fair while
it starts, and each plugin is run by the operating system; nobody has to start
the core, kill it, crash or open a port. `mute` plugins stay mute: that
`start_all` then waits for ever is part of `StartReturns`.

### Histories in properties

`OneConfiguration`, `AckedIsSaved` and `EventsTellTheTable` hold except for
mishaps that the histories `mishaps`, `raced` and `unreported` record: a start
that finds the file torn or cannot read it, a bootstrap dropped as it wrote, a
change made during another's save; two requests about one message at once, a request that failed
after its first statement. Each says that nothing else can break the promise;
that these can is the code's behaviour (see the findings in `PROJECT.json` and
below). The others are of the same kind:

| Property | Holds but for | History |
|---|---|---|
| `NoDoubles`, `NothingElseIsMissed` | messages a history brought beside their temporary entry; those no source handed to the page | `early`, `missed` |
| `ListedIsWhole` | files whose last write failed half-way | `cutShort` |
| `ServedIsWhole` | downloads of a file that was not whole, or was emptied meanwhile | `clean` of the download |
| `NewsIsUnread` | users who set their pointer to a second to come | `news` (what is new), `ahead` |
| `ToldIsTrue` | users whose count was last changed by a step that tells nobody; the order of two events about one user | `informed` (the present count was told), `untold`, `overtaken` |
| `PagesAreComplete` | cursors that are seconds, for the rest of that second; cursors that were deleted | `steady` (what was there all the time), `skipped`, `spoiled` |
| `StartReturns` | a plugin that says nothing; one that failed has a reason | `crashed` |

`granted` and `refused` are what the two limits are about, and break nothing.

## Proofs

Every invariant that a passing run checks is proved for any value of the
constants that the assumptions named in the modules allow, and so is
`PromiseKept`. Where an invariant is not inductive by
itself, a conjunction that is stands before it in the module:

`RealtimeHubProofs`, for any finite set of sockets, any users, rooms, owners,
accesses and capacity (`HubAssumption`). `HubInv` is the conjunction of the
invariants of `hub_tabs`. None but `TypeOK` and `RoomConfidentiality` is
inductive alone: that an entry at zero is in a debounce, and that an unlisted
user is being announced offline, need the counter to be the number of attached
sockets, or a task could announce a user online who is not listed.
`HubKeepsPromise`: `Spec => PromiseKept`, every step is a step of `OnlineUsers`
or leaves it alone; `CountIsSockets` is what makes a `GoOffline` legal.

`AuthStoreProofs`, for any requests, names and bounds (`AuthAssumption`).
`UniqueAccounts` speaks of all copies (memory, file, clones), which makes it
inductive: whatever a restart or a reply puts in memory was unique before.
`TypeOK` holds more than types: a bootstrap that has the lock saves, and there
is no configuration yet; it follows from `LockIsHeld` below. The three properties about what is kept need `AuthInv`: a bootstrap's secret is
nowhere else while it holds the lock (`LockIsHeld`), each copy with the secret
in memory is a past of the memory (`CopiesArePast`), without mishaps no copy is
older than what was reported (`NothingIsOlder`) and every one is in force
(`CopiesAreInForce`).

`CoreHostProofs`, for any callers, pipes and ticks. `TypeOK` says that
`start_plugin` and the reader task never read the pipe at once. `HostInv` adds to the
three invariants that ids in the pipes are of calls that were written
(`IdsAreMade`): a response can come for no call that has failed, or is about
to write. `PrecedenceHolds` compares the nested defaults of `Config::load` with
the first setting given, for any sets of settings; no state is involved.

`ChatStoreProofs`, for any requests, users, keys, texts and rooms. `StoreInv`
adds what a request has established between two statements (`WorkIsSound`):
`PrivateDms` rests on a direct room being asked for by one of its users. For
`EventsTellTheTable`, `EventsInv` says of each message that was not raced what
its one request knows of the row it will speak of (`Promised`).

`SelectionProofs`, for any sequence and set: what `Kept` keeps lies at places
that go up and leave out none (`KeptInOrder`), is what matches (`KeptRange`),
once where the sequence has it once (`KeptOnce`), and is the end of the
sequence where all that follows a match matches (`KeptSuffix`). `ChatView` and
`Limits` filter with `Kept`. It stands for `SelectSeq`, which the library
defines by recursion and nothing can be proved of; it counts places instead,
and `KeptIsSelectSeq`, evaluated with `chat_view`, compares the two on all
sequences of up to four messages.

`ChatViewProofs`, for any rooms, messages and texts and any number of changes of
room and failures. `ViewInv` is the conjunction of the run's invariants and of three that
they need of each other. `ComesFromTable`: whatever is on its way to the page
(an event on the wire, a queued one, a history) was stored before, once, and a
history holds messages of its own room only; without it an event could show a
message that is not stored, or a history one that nothing else accounts for.
`UnderWayIsListed`: a post that waits has its temporary entry or its message in
the list, so that `SentIsShown` survives the answer, which replaces the one by
the other. `JoinsARoom`: only a page in a room has a join on its way. The rules
of the list (`WithEvent`, `WithAnswer`, `WithHistory`, the removal of a post
that failed) have a lemma each that says what they add, keep and drop; the
invariants are proved of those facts and not of the rules.

`ServicesProofs` has `FileStore` and `Limits`. Files: for any contents,
thumbnails, sizes, uploads and ranges that include the request without one.
`FilesInv` adds what an upload has saved by the line it has reached
(`UploadIsSound`); for downloads, `Streams` relates what was sent, the position
and what is left to the bytes that are wanted. `FilesTypesHold` needs that a
range that is satisfied lies in the file as it is at that moment
(`RangeIsInFile`), whatever `size - 1` has become, and that metadata are kept
once per id (`ListedOnce`).

Limits: `UploadLimit` for any keys, burst and refill. `BucketIsSound`
splits the times a key passed at the last filling of its bucket; behind it are
at most a burst of the bucket before, and further back a whole refill.
`SlidingLimits` for any windows and numbers of attempts. `AttemptsAreLast`: the
queue of a key holds the last times it passed, and those it has forgotten are a
window old; this holds because the queue goes up, so that what `retain` keeps
is its end (`KeptSuffix`). A full queue is then a full window, and a place in
it one that has become free.

`ServicesImplementParts`: `MCSpec` implies the specification of each of the four
services, a step of one being a step or a stutter of every other; what is
proved of one is thereby proved of what `services` checks (`ServicesTypesHold`).

`ReadingProofs` has `Unread` and `Paging`. Unread, for any users, requests and
seconds: `NewsIsUnread` speaks of
pointers; its invariant speaks of those that are about to be written as well
(`Later`), which is why stamping before writing is enough. `ToldIsTrue` rests
on `TellInv`: a request that is not stale knows the right count (`Fresh`), and
every user outside `untold` was told the present one, by the last event but for
one that was overtaken (`Knows`), or is about to be told it by a request
(`WillTell`). `UnreadTypesHold` bounds the counts
by the number of posts, for which every row must have an id of its own
(`IdsAreOwn`) that a request under way has taken.

Paging, for any messages, seconds and page size: `PagesInv` says that
the client was sent what is not before its cursor and nothing that is
(`SentUpTo`), whatever the table is at that moment. That a full page has a last
message and that a short one is the rest of the room comes from the order's
being well-founded on finite sets.

Left to TLC are the temporal properties under fairness, for TLAPS has no rule
for liveness nor for ENABLED: `ClosedUserGoesOffline`, `PromiseKeptFairly`,
`HeardCallsReturn`, `TicksAreLogged`, `StartReturns` and `EveryPluginEnds`;
and `KeptIsSelectSeq`, an equation with a recursive definition. No module that
is proved about uses a recursive operator.

## What the code does that its documents do not say

The five runs that end in a violation are described under `findings` in
`PROJECT.json`. Seen while modelling, without a run of their own:

* `fc/presence.rs` 27 speaks of a transition "after debounce", but a debounce
  is not started again by a reconnect: a user whose socket closes shortly
  before another one's debounce ends is taken off the list early.
* `README.md` says `sample_plugin` is "replying to `sample.ping` requests"; a
  ping read in the place of a response is never answered (`HeardCallsReturn`
  says it is the only kind).
* An `auth.json` that is whole but cannot be read at start-up is taken for a
  first run, too, and written over.
* `plugins/family_chat/README.md` 21 says that the command line comes before the
  environment and 32-33 that `BIND` overrides the host: `fc/config.rs` 165 binds
  the whole of `BIND`, and the port of `--port` is checked and not used
  (`FollowsPrecedence` speaks of a server without `BIND`).
* A retry with an idempotency key whose message exists ends with 500:
  `fc/messages.rs` 32 selects six columns, line 76 reads a seventh.
* A reply to a post, an edit or a delete may be a 500 although the table has
  changed, and then no event is sent.
* A history that arrives between a post and its event shows the message beside
  its temporary entry, and the event then makes that entry a second copy;
  `e2e_agent_realtime.spec.tsx` 183 expects one. So may two posts of one text.
* A socket that reconnects does not join its room (`ws.ts` 43 finds an empty
  queue) and the history is not fetched again: the page stays silent until the
  room is changed.
* The task of the socket of the room just left may end after the new join and
  take the user out of the new room; what is sent between the reading of the
  history and the join is missed as well.
* `Chat.tsx` never clears its list: after a change of room the entries of the
  old room stay, above the new ones.
* `start_all` stops at the first plugin that fails, in the order of a hash map:
  which of the others run differs from start to start. A plugin that says
  nothing keeps it waiting, for there is no timeout.
* A plugin whose port is taken answers the core as if it served; by itself
  `family_chat` ends.
* A second upload of a content empties a file that is listed, and downloads of
  it under way end early, under a header that lets clients keep the answer for
  ever. When that second write fails, the file stays cut short
  and listed.
* `parse_range` computes `size - 1` of an empty file: a panic of the handler
  with overflow checks, and without them a range that is not satisfied.
* The upload limit lets twice its burst pass around the moment its bucket is
  filled, for it is filled at once.
* `update_read_pointer` tells 0 unread whatever second it is given; a deletion
  tells nobody, and an author is not told what the pointer of the own post
  makes of the count. A message of the pointer's own second is read, even if
  it was posted after.
* A second as a cursor passes over the other messages of that second; a cursor
  whose message was deleted starts again from the newest.

## Not modelled

* `search_messages` and the index it reads: it changes nothing, and what it
  finds is SQLite's full-text search.
* Sessions: the signing and verification of tokens and the comparison of
  passwords are functions without state; a token is not revoked by anything.
* `housekeeping.rs`: no code starts it.
* Of the configuration, logging (resolved like the port), the data directory
  and the upload size (one source each); of the command line, the commands
  that print.
* Log, event and storage services of the core: a plugin cannot reach the last
  two, and the first formats a line.
* HTTP routing, types, embedded files, and of the web client the login,
  settings and search pages, the room list, the typing indicator and the
  status of the socket: they show state that is modelled elsewhere, or none.

What could be added to what there is: larger rooms and more tabs in `ChatView`
and its theorems; a typing indicator that goes out; two rooms in `Unread`.
