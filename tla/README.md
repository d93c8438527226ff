# A TLA+ verification of mautrix-simplex

mautrix-simplex bridges SimpleX to Matrix. It talks to a `simplex-chat` process over a WebSocket and
is a *network connector* of the mautrix bridgev2 framework. The repository also holds a second, small
bridge from webhooks to Matrix. There are no tests in the repository; what is hard in it is concurrency
and loss, and that is what this project models.

- [The system](#the-system)
- [Modules](#modules)
- [Runs](#runs)
- [Fairness](#fairness)
- [Proofs](#proofs)
- [Findings](#findings)
- [What is not modelled](#what-is-not-modelled)
- [Plan](#plan)

Check a module with `tlc -config X.cfg M`, its proofs with `tlapm MProofs.tla`.

## The system

| Part | Source | State it keeps | Operations |
|---|---|---|---|
| WebSocket client | `pkg/simplexclient/client.go` | the counter of correlation IDs, the map `pending` from ID to a one-slot channel (mutex), `eventsCh` (64 slots) | `sendCmd`, `sendCmdRetryOnce`, `sendOneShotCmd`, `sendRaw`, `readLoop`, `Close` |
| Commands | `pkg/simplexclient/commands.go`, `types.go` | none | one function per simplex-chat command, over `sendCmd` |
| Connection lifecycle | `pkg/connector/client.go`, `connector.go` | `s.Client`, `s.cancelFn` (no lock), the login's bridge state and metadata | `LoadUserLogin`, `Connect`, `tryConnect`, `eventLoop`, `Disconnect`, `LogoutRemote` |
| SimpleX to Matrix | `pkg/connector/handlesimplex.go` | `ChatsSynced` in the login's metadata; queues remote events to portals | a handler per event type, `syncChats`, conversion of items, upload of files |
| Matrix to SimpleX | `pkg/connector/handlematrix.go` | temporary files, the framework's list of IDs to ignore | `HandleMatrixMessage`, `HandleMatrixEdit`, reactions, redactions |
| Backfill | `pkg/connector/backfill.go` | none; the anchor and `hasMore` tie one batch to the next | `FetchMessages` |
| Chat and user info | `pkg/connector/chatinfo.go` | none; several commands are read one after the other and applied later | `GetChatInfo`, `GetUserInfo` and their conversions |
| Login | `pkg/connector/login.go` | a login process, a managed `simplex-chat` with its port, the stored logins | the WebSocket flow and the managed flow |
| Identifiers | `pkg/simplexid` | none | `Make...ID` and `Parse...ID` |
| Webhook bridge | `pkg/webhook` | the slot of the active login, the map of room names (a mutex each) | the HTTP handler, `LoadUserLogin`, `WebhookLogin.Start`, `LogoutRemote`, `GetChatInfo` |
| Formatting, capabilities, config, `cmd`, `nix` | the rest | none | conversions, tables, start-up, packaging |

**How they interact.** Handlers of Matrix events, `syncChats`, `GetChatInfo` and the handlers of SimpleX events
call commands. A command registers a channel in `pending`, writes to the socket and blocks. The read loop,
one goroutine per connection, takes frames off the socket, gives those with a known correlation ID to
their channel and puts the rest into `eventsCh`, dropping them when it is full. The event loop of the
connector takes events from there and runs their handlers; some of these issue commands themselves,
so that the event loop waits for the read loop while the read loop goes on filling the channel. When
the socket fails, the read loop closes all pending channels and then `eventsCh`; the event loop sees
that once it has drained it, and starts a new `tryConnect`. Each connection starts a `syncChats`, which
resyncs all chats next to the event loop. Handlers turn SimpleX events into remote
events that the framework queues to portals, which handle one at a time, know messages by ID,
ask for the chat's info, and create and backfill rooms. A backfill goes on in a room that is already in use.

**What is hard.** Goroutines that meet at `pending`, its channels and `s.Client`; a connection that
breaks between any two steps; a command that may or may not have been executed; events that are
dropped; files that become ready later than their message; chats, lists and batches that are read at one time and
applied at another; a login that is disconnected while
something dials; a process that outlives or does not outlive its login; arithmetic on a retry counter without a
bound. `PROJECT.json` lists each hazard with its line and the properties that watch it.

**What correct means, by component.**

- *Client*: an answer reaches the call that asked; every call returns; the read loop never blocks, nor
  panics on a channel; a command is repeated only by `sendCmdRetryOnce`, only after a loss.
- *Lifecycle*: one connection and one event loop at a time; a loss is noticed and repaired; nothing
  lives on after a logout; nobody dereferences a nil client while reconnecting; waits stay in range.
- *Matrix to SimpleX*: each message gets a status; its echo is not posted again; no temporary file or
  ignored ID stays behind; the user's reactions are the same on both sides, whichever they are made on.
- *SimpleX to Matrix*: each item is posted once, with its file, and the room ends up with the
  last version of everything that was not lost; the room shows no reaction that its sender does not have.
- *Backfill*: no item is left out at the boundary of two batches, none comes twice, it ends, and what it inserts is
  not older than what the room had.
- *Chat info*: rooms end up with the members the group has, each under one name; contacts have rooms; ghosts have
  the last profile.
- *Login*: a login that fails leaves no process behind and always ends; a login is connected to its owner's own profile.
- *Webhook*: a room has its own name; the slot holds the login that exists.

## Modules

| Module | Models | Mapped to | Proofs |
|---|---|---|---|
| `CommandExchange` | what the client promises: abstract specification | the commands as their callers see them | |
| `WsClient` | the client, the read loop, the event loop's waiting, the socket | `client.go` of simplexclient, `eventLoop` | `WsClientProofs` |
| `Lifecycle` | connect, retry, reconnect, disconnect, sync | `client.go` of connector, `syncChats`, the check of `s.Client` in `HandleMatrixMessage` | `LifecycleProofs` |
| `MessageSend` | a Matrix message, its file, its echo | `handlematrix.go`; uses `CommandExchange` for the commands | `HandleMatrixProofs` |
| `Timeline` | what a reader of a room is promised: abstract specification | the messages of a room as `handlesimplex.go` and `backfill.go` make them | |
| `Inbound` | items, edits, deletions, files, the first backfill of a new room | `handlesimplex.go`, `backfill.go` | `InboundProofs` |
| `Backfill` | a history in batches, in a room in use | `backfill.go`, `GetChat` of `commands.go` | `BackfillProofs` |
| `Reactions` | reactions to a message, in both directions | `handlematrix.go`, `handleChatItemReaction` | `HandleMatrixProofs` |
| `ChatSync` | rooms and ghosts that follow contacts and groups | `chatinfo.go`, `handlesimplex.go`, `ids.go` | `ChatSyncProofs` |
| `Login` | both login flows, the managed process, stored logins | `login.go`, `LoadUserLogin`, `Connect` | `LoginProofs` |
| `Webhook` | the webhook bridge | `pkg/webhook` | `WebhookProofs` |
| `MC...` | instances for TLC | | |

`WsClient` implements `CommandExchange` under the refinement mapping next to its properties (`Status`,
`ExecutedFor`, `Exchange`), and `MessageSend` is built on an instance of `CommandExchange`: what it concludes
about messages therefore holds of the real client. `Inbound` implements `Timeline` under the mapping at its end (`Message`,
`Shows`, `Reading`). `Inbound`, `Reactions` and `ChatSync` rely on another result of
`WsClient`, `ReconnectsAfterTheDust`: events of an old connection are handled before a new one is made, so that one
sequence of events is enough. `Inbound` and `Backfill` share `FetchMessages`: `Inbound` has the whole path of a file and one batch,
`Backfill` has any number of batches and no files.

Each module puts the seeded bugs used to test its properties ("Mutant: ...") next to the definition
they change. They take no part in any specification.

### WsClient

State: the fields of `Client` (`corrID`, `pending`, `eventsCh` as the number `queued` of its events,
since nothing here depends on their contents, and `eventsClosed`); per call its place (`pc`), its ID,
its channel (`box` and membership in `shut`) and what it returned; the read loop (`rl`, `hand`: the answer it holds between
`Unlock` and the send); the event loop (`el`); the socket and the server.

Actions follow the critical sections. `Register` is the section before the write; `RouteAnswer` is the
lookup and delete, `Deliver` the send on the channel after the unlock; `ReadError` is the section that
closes the channels, `CloseEvents` the close of `eventsCh` after it. `GiveUp` separates `sendCmd` from
`sendCmdRetryOnce`. `Dial` to `ShotFails` are `sendOneShotCmd`, which draws an ID of the same counter.
The calls of `LoopCalls` are the ones the event loop makes from inside a handler.
A frame without a usable body or of the wrong type is one with `good = FALSE`. The server may send
events with no ID or with the ID of any command it has executed, the case the comment in `readLoop` calls
spurious; it invents no ID.

`LenientWrites` states what is assumed of the WebSocket library. It documents that an error in any
method closes the connection, so that a call that registers after the read loop has cleaned up fails
to write (`FALSE`). `NoOrphanWaiter` rests on it, and its theorem says so.

### CommandExchange

Calls are issued, executed and answered or failed. `Execute` allows a second execution only for a
retried call after a loss; `Fail` needs a loss or an answer that is no use.

### Lifecycle

`s.Client` and `s.cancelFn` are read and written without a lock, so every read and write is a step.
The goroutine that dials connection *k*, runs its event loop and hands over to *k* + 1 is a *thread*:
`at[k]`. Contexts are nested as in the code: that of connection *k* is derived from that of *k* - 1, and the
first from the background context, so before the first `Arm` nothing can be cancelled. `RetryIn` computes
`2 << retryCount` in an `IntBits`-wide integer. `syncChats` uses whichever client `s.Client` is at each
step. `calm` records that `Disconnect` found an event loop running.

### MessageSend

The stages of `HandleMatrixMessage` and what it leaves: the temporary file, the ID registered with
`AddPendingToIgnore`, the row the framework records. An item is a message together with the request
that created it, so that a retry executed twice makes two items. `Serial` says that the framework
handles the events of a portal one at a time, which is its default; `EchoIsIgnored` rests on it (with an
event handled before the registration, the echo would be posted).

`MessageSend` and `Reactions` are two parts of `handlematrix.go` and share a module of proofs, which extends both; the
specification of `MessageSend` is therefore called `SendSpec` (`SendInit`, `SendNext`, `SendTypeOK`) and its
connection `connected`.

### Inbound

The server's items have versions, deletions and files; `Emit` loses an event when there is no connection
or `eventsCh` is full. Each handler takes one event and queues what the code queues. `Convert` is the
case analysis of `convertChatItemToMatrix`, with the upload's failures. The portal creates its
room (for a message or a resync), fetches and inserts the backfill before it handles anything, and knows messages by
ID. The fetch and the insertion are two steps: the server and the event loop go on in between.

### Timeline

The life of a message in a room, without events, queues, files or tables: none, posted with a version the item
has had, replaced, removed for good. A room begins with what there is of the chat, where deleted items have no content.
A message that was posted live never goes back to an older version (an edit of `handlesimplex.go:355` does not say which one
it follows, so this rests on the order of queues alone); one that came with the history may, since the events
queued during the fetch are handled after the insertion. For the same reason a tombstone from the history can show the
content of an edit until the removal that is queued behind it.

### Backfill

Items are numbered as they are created. `GetChat` returns the last `Count` of a range, among them such deleted items as the
server has only marked. The framework's task (`task`) creates the room with a first batch, then fetches batches below the
oldest message of the room (`Before(Min(db))`) as long as `more` was `len(items) >= Count`. Fetch and insertion are
two steps. In a room in use events are handled between the two as well, since the framework runs its backfill task
next to the portal's event loop; `FetchMessages` leaves `AggressiveDeduplication` unset, so the insertion does not
look which messages are there. `overtaken` (an event of the item was handled while the batch was on
its way), `lost` (an event of it was lost) and `jumped` (an older item became the anchor first) record the cases the
properties leave out, each of which does break them.

### Reactions

SimpleX has a set of reactions per user and item; the framework has one row per sender and message, because the
bridge leaves `EmojiID` empty, and the room shows what it shows. The module keeps all three. The user's own
reactions are made on either side. On Matrix they are in the room before the bridge hears of them; each handler's command is one
step, which answers, is refused or fails (executed or not). On SimpleX they become events like everybody's:
`Sender` resolves an event as `handleChatItemReaction` does, by its contact or member, else by its direction, else to the
login's own user, so that they meet the row of what was done on Matrix, under a key that may have another form.
`shown[me]` has the keys of the user's reactions, whether the user's own account or a ghost shows them.
`simplexSupportedEmojis` is a constant. An event that has a direction without the contact or member it needs ("unknown" in
`makeEventSenderFromDir`) does not occur in the model.

History variables record what the properties have to tell apart: `lost`, `early` (a reaction that came before its message
was posted), `plural` (a second beside a first), `failed` (a command without an answer), `crossed` (the user acted on one side
while an act on the other was on its way) and `refused`, the keys whose removal simplex-chat refused, until the user adds them again or simplex-chat tells of the user.
`MyReactionsArrive` does not leave the last out: it says that SimpleX keeps exactly these beside what the room shows.

### ChatSync

The server has contacts, the members of one group with their status, and profiles in versions. Joins, leaves, renames,
new contacts and contact requests become events or are lost. The `k`-th connection runs a `syncChats` of its own
(`sync[k]`): it reads `ChatsSynced` at the start, lists contacts, then groups, queues a resync to each portal and marks the
login as synced. A portal takes a resync and reads the chat, for a group its members in a further step, and applies
the result in another. The user IDs of contacts, members and the login's own user are built as in `ids.go`, from three
independent series, and may coincide. A restart keeps rooms, ghosts and the metadata. `missed` and `behind`
record what was lost, or overtaken, since a portal was last fetched.

### Login

Per user: the process with its port, the stage of `SubmitUserInput`, its context and its failed dials; and the logins
the framework stores under the ID of the active user of each database, with a client each. The managed flow finds a free port, starts the process
under the *request's* context, and dials `MaxDials` times in a row; the context may end at any time after. A port that is
free when found may be taken when used. `Save` replaces a login of somebody else with the same ID. A restart of the bridge kills any of the processes and
reconnects every stored login, and starts none.

### Webhook

Requests interleave at the slot of the login and the map of room names. Whether logins and logouts of
different users may overlap is a constant. `NewLogin` replaces the login another user holds
(`DeleteOnConflict`) and has `LoadUserLogin` fill the slot.

## Runs

Type invariants are proved rather than run.

| Run | Shows |
|---|---|
| `ws` (`Ws.cfg`) | on a file send that may be retried and a command issued by the event loop: answers go to their own call, channels are safe, nobody is orphaned, the map does not leak, a reconnect starts clean; every call and every handler returns, a loss is noticed; the refinement of `CommandExchange` with its fairness |
| `life` (`Life.cfg`) | one connection, loop on its own connection, who can panic, what a logout leaves, waits of 2 to 150 seconds until the shift overflows; threads end after a logout, a loss is repaired |
| `send` (`Send.cfg`) | no duplicate by an echo, nothing left behind; every message gets a status |
| `inbound` (`Inbound.cfg`) | posted once, with its file, the room catches up; a file that is there gets shown, unless a backfill posted the message without it; the refinement of `Timeline` |
| `backfill` (`Backfill.cfg`) | no gaps, nothing twice, nothing stale, over batches in a room in use; the backfill ends |
| `react` (`React.cfg`) | the room shows no reaction that is not on SimpleX; single reactions arrive; the user's own are the same on both sides, whichever they were made on, but for refused removals: finding 4 |
| `sync` (`Sync.cfg`) | the group's room follows its title and members, contacts have rooms, ghosts keep up |
| `login` (`Login.cfg`) | no process outlives a failed login, everybody is connected to their own profile; every login comes to an end, every stored login whose server listens connects |
| `hook` (`Hook.cfg`) | room names, the login's slot for logins one at a time |
| `sync_profiles` (`SyncProfiles.cfg`) | violation: finding 1 |
| `login_managed` (`LoginManaged.cfg`) | violation: finding 2 |
| `hook_slot` (`HookSlot.cfg`) | violation: finding 3 |

**Bounds, and why they are enough.**

- `WsClient`: two calls, one that retries and one of the event loop. Calls interact only through the
  counter, the map and the read loop, two at a time; the theorems cover any number. `EventCap = 1` makes
  a full channel the usual case. `MaxUnsolicited = 3` lets one event be handled while another fills the channel and a third is dropped or
  reuses an ID.
- `Lifecycle`: two connections, so one reconnect; the last one is not lost. Thread *k* interacts with
  *k* + 1 only. `MaxRetries = 1` gives a first and a repeated dial; the counter saturates there.
  `BackoffInRange` looks at every wait from the present counter on, and the run takes a 10-bit integer, so
  that the overflow of the shift is seven dials away; nothing but the width differs from 64.
- `MessageSend`: a text and an image, two requests per command, as many as there can be.
- `Inbound`: a text and a photo, two versions, two slots in the channel: an edit or a deletion on either
  side of the file, of the fetch and of the insertion. A batch holds the whole chat. Items share the channel only. A
  second edit, which is what could be confused with the first, needs three versions, too many for both items: the theorems cover
  any number, and the run passes with `Items = {photo}`, `MaxVersion = 3` and `EventCap = 3`.
- `Backfill`: four items in batches of two, so two full batches and the empty one after them; two edits, deletions or
  losses of the connection; two events waiting. The theorems cover any history and any size of batches.
- `Reactions`: a contact and the user, two emoji (one in two forms) and a key that SimpleX does not have; five
  acts of the users (`MaxActs`), two events waiting at each place. Five are enough for the user to react on one side, take it back on the
  other and begin again. Senders share the queues only; the theorems cover any number of acts and users.
- `ChatSync`: one person, who may be contact and member and whose contact ID may be the login's own; one slot in
  `eventsCh`, so that events are lost while connected; two changes, two connections and any number of restarts. People share the group's
  list only, and each is in it or not by their own status. `sync_profiles` needs one change.
- `Login`: two users, each managed or not, whose databases may count to the same ID; two ports, so that they may get the same or
  different ones; two dials; one restart of the bridge. Users log in when they have no login, which no code asks of them (`MayLogIn`).
  `login_managed` needs one user.
- `Webhook`: two requests for a room under different names, one for another, two users.

Deadlock is not checked: in each model everybody may be done, and the environment may stop.

## Fairness

- `WsClient`: goroutines that can take a step take it in the end (the Go scheduler); a broken socket
  makes a read fail in the end (TCP reports it); a command sent on a connection that stays up is executed and answered
  (a property of simplex-chat; the client has no timeout, so a server that accepts commands and never
  answers would make its callers wait); a one-shot connection answers or fails, by itself or because the
  caller's context ends. Nothing obliges anyone to issue a command, to send an event or to lose a connection.
- `Lifecycle`: threads run; a dial that is tried again and again succeeds in the end (strong fairness),
  without which no reconnect can be promised, and a `select` that finds the context cancelled again and again
  takes that case. The server may be unreachable any number of times before.
- `MessageSend`: that of `CommandExchange`, and handlers that run.
- `Inbound`: the event loop and the portals run. Servers, users and connections are free.
- `Backfill`: the framework goes on with its task, when it can; that the connection stays up in the end is a hypothesis of the property
  (`<>[]up`), not of the specification.
- `Login`: handlers run, processes that were started listen or die, those who run simplex-chat themselves start it
  again, clients dial again. No process has to stay alive, no context to last.
- `Reactions`, `ChatSync` and `Webhook` have invariants only.

## Proofs

Theorems of the form `Spec => []P` and two refinements, for every value of the constants that the module's
named assumption admits.

| Module | Theorems |
|---|---|
| `WsClientProofs` | `TypeCorrect`, `InductiveInvariant`, `AnswersAreOwn` (`OwnAnswer`), `ChannelsAreSafe` (`ChannelDiscipline`), `MapDoesNotLeak` (`NoStaleEntry`), `NobodyIsOrphaned` (`NoOrphanWaiter`, assuming `~LenientWrites`), `ResendsFollowLoss` (`ResentOnlyAfterLoss`), `ReconnectsClean` (`ReconnectsAfterTheDust`, assuming `~LenientWrites`), `ClientKeepsPromise` (`Spec` implies `CommandExchange`'s `Spec`) |
| `LifecycleProofs` | `TypeCorrect`, `OneAtATime` (`OneConnection`), `NoPanicByReconnect` (`PanicsOnlyOnLogout`), `ConnectedHasWatcher` (`ConnectedIsWatched`), `LogoutLeavesNothing` (`LogoutIsFinal`), `WaitsAreInRange` (`BackoffInRange`) |
| `HandleMatrixProofs`, about `MessageSend` | `SendTypeCorrect`, `NoFileIsLeft` (`NoTempFileLeak`), `EchoesAreIgnored` (`EchoIsIgnored`), `RegisteredDoNotPileUp` (`RegisteredIsTransient`, assuming `Serial`) |
| `HandleMatrixProofs`, about `Reactions` | `TypeCorrect`, `NoPhantoms` (`NoPhantomReactions`), `ReactionsGetThere` (`ReactionsArrive`), `MineGetThere` (`MyReactionsArrive`) |
| `InboundProofs` | `TypeCorrect`, `NothingTwice` (`PostedOnce`), `FilesBelong` (`NoHalfMessages`), `RoomGetsThere` (`RoomCatchesUp`), `RoomIsTimeline` (`Spec` implies `Timeline`'s `Spec`) |
| `BackfillProofs` | `TypeCorrect`, `NothingLeftOut` (`NoGaps`), `NothingTwice` (`PostedOnce`), `RoomIsCurrent` (`NothingStale`) |
| `ChatSyncProofs` | `TypeCorrect`, `ContactsGetRooms` (`ContactsHaveRooms`), `GhostsFollow` (`GhostsKeepUp`), `RoomFollows` (`RoomFollowsGroup`) |
| `LoginProofs` | `TypeCorrect`, `NoProcessStrays` (`NoStrayProcess`), `ProfilesAreOwn` (`OwnProfile`) |
| `WebhookProofs` | `TypeCorrect`, `RoomsAreNamed` (`RoomNamedByItsRequest`), `SlotFollowsLogin` (`SlotIsActiveLoginSerial`) |

Hardly any of the properties is inductive by itself. What was added, and why it holds:

**WsClient.** `Inductive` is a conjunction of parts, each with lemmas for the initial state, the steps of calls and all other steps:

- `IdsUnique`: an ID drawn from the counter belongs to one call. Drawing is an atomic `Add`; this is what
  keeps the rest apart.
- `Provenance`: a frame that bears the ID of a call is about that call, wherever it is: in flight, on the
  socket, in the hand of the read loop or in a channel. New IDs are larger than any in use, so drawing one
  breaks nothing. With `IdsUnique` it gives `OwnAnswer`.
- `Channels`: a channel in the map is empty, open and not in the read loop's hand; the read loop holds
  one answer, and none once it has left its loop; nothing is closed while the connection is up.
- `Requests`: a call has one request per kind of connection, and a one-shot request only after a loss.
- `Waiters`: a call between its registration and its return is in the map, in the hand, has something
  in its channel or a closed one; and, without lenient writes, one that waits in the map has a live read loop.

`ClientKeepsPromise` goes through the steps under `Inductive`: registering is `Issue`, the server's execution is `Execute` (a second
one only after a loss: `Requests`), returning is `Answer` or `Fail`, all else stutters.
`Answer` needs that the command was executed: `Founded`, carried along, says that no frame bears the ID of a command that was not. Since IDs are unbounded here,
the theorem takes `Nat` for the `Attempts`; the run takes the IDs its instance can draw.

**Lifecycle.** `Relay` (the threads form a chain: those before the last have handed over, those after it have not begun),
`Sockets` (only the last thread's connection can be open), `ClientIsLast` (`s.Client` is the last connection made),
`LoopsOnItsOwn` (each loop listens to the connection its thread made), `ClientStays` (whoever found a client finds it again; only `Disconnect` makes it nil), `Armed` (`s.cancelFn`
is that of the running event loop) and `Idle` (nobody but `Disconnect` cancels). For `LogoutIsFinal` there is `Final` on top: from a
`Disconnect` that found an event loop on, that loop's context is cancelled and no later thread has a connection.
`BackoffInRange` is about powers of two, and the provers know no induction over numbers: `PowerOfTwo` takes 2^n for the number of
subsets of `1 .. n`, a theorem of the library, from which `PowersGrow`, `PowersDouble` and `ShiftIsExact` (the shift
is exact, modulo the integer's width, until it reaches the sign bit) follow.

**MessageSend.** `TempFiles` says at which stages there is a temporary file. For the echo, `Provenance` (an item exists only once its handler
has sent it), `Unknown` (nothing of a message is recorded or posted before its handler returns), `Registered` (a registered ID is that of an executed
request and about to be recorded) and `Sent` (what was sent is recorded and was not posted).

**Inbound.** `Pipeline` describes everything between server and portal (the portal's queue, then `eventsCh`) as one
sequence of sound events, in which the removal of an item is the last about it and a file, once ready, stays so; `Settled`
says that nothing follows an item that was posted and removed, and nothing without its file one that was posted with it;
`Existed` and `Rooms` say what there is before an item or a room exists.

`RoomCatchesUp` needs to know where the last version of each item is: `CatchingUp` says of an item no event of which was lost that
whatever carries its content, in `eventsCh`, in the portal's queue, in a batch on its way or in the room, has its last version
or is followed by the edit to it; that a message which is due and not in the room is on its way; and that a deleted item is
cleared or its removal on its way. It holds although edits of an item that is not in the room are thrown away, since the message
that follows is read later than they were.

For `Timeline`, the pipeline's versions are added to `Precedes` (what comes later about an item is not older) and
to `Sound` (nothing is newer than the item), for which the server's versions only grow; `Telling` says that nothing on its way is
older than what a live message shows, that a message in the room was posted, and that what was fetched has been there. Then a
step of the server is `Write` or `Delete`, `Insert` is `Open`, the portal's steps are `Post`, `Replace`, `Remove` or, when the
table says so, stutters; `NoneOf` of `Settled` is what keeps a removed message from a second `Post`.

**Backfill.** `ToCome` is the heart: while the task goes on, an item that was there when it began is in the room, in the batch on its way, or
older than all that was fetched, with more to come; it uses a lemma on what `GetChat` returns (the last `Count` of a
range, so nothing between two of them is left out). `Once` says of an item posted already that no batch on its way has it
unless it was overtaken; `UpToDate` that the last event waiting for an item, or the batch if it has none, or else the room, has its
present version; `Sound` and `Fresh` bound what events may say.

**Reactions.** `Told(u)`: the last event of a user still on its way (in the portal's queue, then in `eventsCh`) says what the user has on
SimpleX. `Follows(u)`: for a contact this holds unless one of its events was lost, and when none is on its way, the room says it.
`OneRow` and `Senders` say what rows exist, `Single` what a contact that never had two at a time can have.
For the login's user, `Mirrored` says what holds unless one of the excluded cases (`Spoiled`) occurred. In `InStep` one side at a time has the
word: while an act of Matrix is queued, nothing from SimpleX is on its way. When nothing from SimpleX is, SimpleX has the normalised
form of the user's row, and otherwise what was said last; a supported key is in the room exactly if the last thing the queue says of
it is a reaction, or nothing is said and the row has it and was not refused its removal (`Kept`). The removal of an emoji that SimpleX has is never refused.

**ChatSync.** `Typed` adds to the type that events about contacts name people, so that their handlers touch the portals and ghosts of people only.
Each property then has an invariant of its own, none of which a sync, a restart or the event loop can break:

- `RoomsInv`: while connected, each contact has a room, a resync or an announcement on its way, or a sync that has not listed
  the contacts yet; what a restart takes away, the next connection's sync makes good, since `ChatsSynced` changes the members it
  brings, not the chats it lists. `Creates` says that resyncs queued to contacts create rooms.
- `GhostsInv`: the last update of a profile still on its way has the present version, or else the ghost and every
  profile that was read and not yet shown have it (`Following`, for those not `behind`); nothing is known of somebody who is no contact
  (`Strangers`), so that a new one starts clean; and nothing on its way is newer than its owner (`Dated`).
- `RoomInv`: either the group will be fetched again, members included (`Refetched`: an event of the group, or a full resync, is on its
  way), or what the portal is about to apply, and otherwise the room, has the title (`TitleKept`) and every member by one
  name (`MembersKept`). A resync without members leaves those of the room alone, so the two cases differ.

`GroupAssumption` says that no person is the identifier of a group's portal.

**Login.** Where a login is in its stages determines whether it has a port and a live process; a client connected to a login's port
talks to whoever was given this port, so unless two were, to the owner.

**Webhook.** A name in the map was put there by a request for its key and is there before a room is created from it;
with logins one at a time, the slot differs from the active login only in the middle of the one login or logout that runs.

Only model-checked: the liveness properties (`EveryCallReturns`, `LossNoticed`, `LogoutEndsThreads`, `LossIsRepaired`,
`EveryMessageGetsStatus`, `FilesArrive`, `EveryLoginReturns`, `LoginsConnect`, `BackfillEnds`) and the fairness part of the first
refinement (`ImplementsFairExchange`), since the prover has no rules for liveness under fairness nor for ENABLED. Every invariant of
a passing run is a theorem. There are no ENABLED and no recursive operators in the theorems.

## Findings

Four statements of the repository that the code does not keep. Each of the first three has a run that TLC finds violated; the
fourth is what `MyReactionsArrive` of the run `react` says, and its theorem proves, about refused removals:

1. `client.go:93`: contacts and groups are synced on every connect "to keep avatars/profiles up to date". Once
   `ChatsSynced` is set, `handlesimplex.go:627` takes the members, and with them the profiles, out of what a sync applies: a
   profile that changed while the bridge was away stays old (`sync_profiles`).
2. `README.md:81` and `login.go:221`: the bridge spawns and manages a `simplex-chat` process, its lifecycle handled during
   `Connect()`. `login.go:222` is all there is: the process ends with the request that
   started it, or dies, and `Connect` dials its port for ever (`login_managed`).
3. `webhook/connector.go:153`: `getLogin` returns the active login. Two users who activate the bridge
   at the same time can leave the replaced login in the slot, at `webhook/client.go:135` (`hook_slot`).
4. `handlematrix.go:276`: `HandleMatrixReactionRemove` removes a reaction from SimpleX. It sends the key as Matrix has it
   (`handlematrix.go:289`), where `HandleMatrixReaction` sent the normalised emoji. For a variant form simplex-chat refuses it: the
   reaction is gone from the room and stays on SimpleX (`react`; without `refused` in it, TLC finds `MyReactionsArrive` violated).

**Further divergences**, of a text and the code next to it; they have no run of their own, because the models show
them in what the properties leave out:

- `dbmeta.go:41`: `ChatsSynced` says that contacts and groups were enumerated. It is set also when
  neither could be listed (`MarkSynced` of `ChatSync`, where `missed` keeps count), and from then on member lists are left
  out of every sync.
- `handlematrix.go:180`: the temporary file is removed after simplex-chat has processed it. It is removed as soon as the
  call returns, also on a lost connection, while the command may still be executed (`MessageSend`).
- `handlesimplex.go:159`: `rcvFileComplete` re-triggers the handler of a skipped item. When that event is
  lost, nothing does (`lost` in `Inbound`). When a backfill has posted the item meanwhile, the handler runs and queues the message, but
  under an ID the portal knows: the file never gets into the room (`backfilled` in `FilesArrive`; without it TLC finds the property
  violated).
- `handlesimplex.go:225`: without an upload a notice is sent. A backfilled file message is posted bare
  (`NoHalfMessages` allows a backfill to).
- The README's option `simplex_binary` is not what `login.go:173` starts.

Not contradicted by any text, but worth knowing, and visible in how the properties are conditioned:
a `Disconnect` before the first connection is made cancels nothing, and the login comes back to life (`calm` in
`LogoutIsFinal`); after 62 failed dials `2 << retryCount` is negative and then zero, and the bridge dials without a
pause (`BackoffInRange`); `s.Client` is used after a check that `Disconnect` can invalidate
(`PanicsOnlyOnLogout`); a second reaction of one user replaces the first on Matrix only (`plural` in `Reactions`);
a reaction to a message that is not posted yet is not repeated (`early`), and a user who reacts on SimpleX and on Matrix at once can end up with
different reactions on the two sides (`crossed`);
what is sent while the bridge is disconnected is never fetched (`lost` in `Inbound`); a batch that was read before an event was
handled brings back what the event had replaced or removed (`overtaken` in `Backfill`), and a late file hides the
history between it and the next message (`jumped`); a profile that was read before an update is applied after it (`behind` in `ChatSync`), and a contact
whose ID is the login's own is taken for the login's user (`Apart`); two logins can be given one port and then talk to the
same profile (`Shared` in `Login`).

## What is not modelled

- The text of commands and answers, formatting, thumbnails, link previews, capabilities, configuration, the parsers of
  identifiers, the templates of webhooks: data no property depends on.
- `HandleMatrixEdit` and `HandleMatrixMessageRemove`: one command each, whose error is returned to the framework; they keep nothing. Typing and read
  receipts do nothing.
- Topics, power levels and avatars of `chatinfo.go`.
- The framework, the WebSocket library and simplex-chat are external: modelled only as far as the code uses them. What is assumed of the
  framework: a portal handles its events one at a time, the events of Matrix in a portal likewise (`Serial`), a backfill task runs next to them, does not deduplicate
  unless asked to, and asks for batches of at least one.
- `cmd`, `nix`, `docker-compose.yaml`: start-up, a manual tool (`cmd/observe`) and packaging.

## Plan

Done, in this order: `CommandExchange`, `WsClient` and its proofs, `Lifecycle`, `MessageSend`, `Inbound`, `Webhook`,
`Reactions`; then `ChatSync`, `Login` and `Backfill`, the refinement's proof, and the proofs of `Lifecycle`, `MessageSend`, `Inbound`,
`Webhook`, `Login`, `Reactions` and `Backfill`; then the proofs of `RoomCatchesUp`, `MyReactionsArrive`, `BackoffInRange` and of all of
`ChatSync`, and `Timeline` with the proof that `Inbound` implements it.

To do:

1. Edits and redactions of messages from Matrix, crossing with edits and deletions on SimpleX; reactions to items
   that wait for their file, in a composition of `Reactions` with `Inbound`.
2. A composition of `Lifecycle` with `CommandExchange`, so that a reconnect meets calls in flight.
3. The parsers of identifiers as inverses of their makers.
4. An abstract specification of a backfill in a room in use, of which that of a new room (`Timeline`'s `Open`) is the first step.
