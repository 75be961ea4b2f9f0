# Verification of the Wesnoth add-on server and its clients

The repository is a Battle for Wesnoth 1.8 tree with a new add-on server: a
Django application that replaces the C++ campaign server, a command-line client
for it, and a game whose add-on dialogs talk to it over HTTP. This directory
holds TLA+ models of that system, TLC configurations that check them, and
proofs checked by TLAPS. Line numbers are those of `src/`.

| module | what it is | of |
|---|---|---|
| `AddonServer` | the request handlers, step by step | `server/addons/views.py`, `models.py` |
| `AddonCatalog` | the atomic catalogue the server should be | the list and download, as clients see them |
| `AddonServerProofs` | type correctness; downloads return the right add-on; one process keeps the table in order and implements `AddonCatalog` | |
| `CampaignServer` | campaignd: lists and files in place, signals, restarts | `campaign_server.cpp` |
| `CampaignServerProofs` | no twins, no script unseen, no damage to others, for any kills | |
| `GameAddons` | downloading, updating, uninstalling in the game | `addon_management.cpp` |
| `GameAddonsProofs` | what the game tells of installed add-ons is so; versions compare as they should | |
| `MCInPlace` | campaignd and the game's add-ons, as parts of one instance | |
| `AsyncTransfer` | threads, progress objects and dialogs of the game | `addon_client.cpp`, `network_progress.cpp`, `addon_management.cpp` |
| `AsyncTransferProofs` | type correctness; callers get their own responses; what threads use is kept | |
| `NetworkPool` | connections and the workers that serve them | `network.cpp`, `network_worker.cpp` |
| `Link` | what a connection promises: the link `NetworkPool` should be | |
| `AsyncOperation` | operations in threads: connecting | `thread.cpp`, `thread.hpp`, `network.cpp` |
| `ConnectionProofs` | connections are left exactly to callers who are told; sockets are used once, messages leave in order; `Link` is implemented | |
| `MCGameThreads` | the three with threads, as parts of one instance | |
| `GameServer` | lobby, games, sides and turns of the multiplayer server | `server/server.cpp`, `server/game.cpp`, `server/room_manager.cpp` |
| `Lobby` | where users are: the atomic lobby `GameServer` should be | |
| `GameServerProofs` | everyone is in one place; sides are played; `Lobby` is implemented | |
| `Lists`, `ListsProofs` | erasing from lists, and what it keeps; induction over lists | `std::remove` in `server/game.cpp`, `remove_buffers` |
| `ScriptManager` | the command-line client over `AddonCatalog` | `wesnoth_addon_manager.py`, `campaignserver_client.py` |
| `ScriptManagerProofs` | commands change only what they selected, and claim no more; updates end where the server is; files survive packing | |
| `AddonCodec` | the escaping of files, game's and Python's | `addon_checks.cpp`, `campaignserver_client.py` |
| `VersionOrder` | version numbers, and the process that compares them | `version.cpp` |
| `MC*` | instances for TLC | |

## Inventory

### Add-on server — `server/addons/views.py`, `models.py`, `admin.py`

*State.* An SQLite database (`settings.py:12`): one `Addon` row per add-on with
its name, version, counters and the names of two files; a many-to-many table of
authors; `Author` and `Rating` rows. Beside it the files
`MEDIA_ROOT/addons/*.wml` and `*.tar.bz2`, which no transaction covers.

*Operations.* `index`/`addonList`, `details`, `getFile`, `rate`, `publish`,
`remove`, and what the admin site registers.

*Interaction.* HTTP requests from the script, the game and browsers. A download
is two requests: `getFile` counts it and redirects to the file.

*What is hard.* `publish` is a dozen durable effects in a row: both old files
are deleted and the row saved before anything new exists, authors are cleared
and added one by one, and an exception (a missing icon, a bad file name, two
authors of one name) or a kill can fall between any two. Keys of removed
add-ons are used again. A key in a URL is an id or a name.

*Correct when* what the list announces is what a download returns; a download
never returns another add-on; every add-on can still be maintained by someone;
ratings stay with the add-on they were given to; only authors replace an
add-on; new content always comes under a new revision.

### Script client — `script/wesnoth_addon_manager.py`, `wesnoth/campaignserver_client.py`

*State.* The add-on directories under a campaigns directory, each with an
`_info.cfg` that records the version and the server's upload counter.
*Operations.* list, download, update, status, upload, remove.
*What is hard.* It decides from a list it fetched earlier, by id, and compares
revisions as strings. *Correct when* an update converges to what the server
has, never replaces another add-on, and an interrupted one is repaired.

### Asynchronous transfers — `game/src/addon_client.cpp`, `network_progress_data.hpp`, `gui/dialogs/network_progress.cpp`

*State.* One curl handle, one thread, one response buffer, and a progress object
on the stack of the function that shows the dialog. *Operations.* start, poll,
abort, close, wait, take the response. *What is hard.* The dialog's timer, the
user and the thread race. *Correct when* a finished transfer's response belongs
to the request that asked for it, an abort ends the transfer, and no thread uses
a progress object that is gone.

### Add-on management in the game — `game/src/addon_management.cpp`, `addon_checks.cpp`, `version.cpp`

*State.* The user's `data/add-ons` directories with `_info.cfg` and `_server.pbl`
files, and a version cache. *Operations.* install, update, remove, publish,
dependency checks. *What is hard.* The server names add-ons by title, the game
by directory; the old add-on is removed before the new one is unpacked.
*Correct when* updates terminate, nothing but the add-on being replaced is
deleted, and the version compared is the version installed.

### Campaign server — `game/src/campaign_server/campaign_server.cpp`

The daemon the Django server replaces. *State.* A configuration in memory,
written to disk now and then, and one data file per campaign. *Operations.*
list, download, upload, delete, change passphrase. *What is hard.* It is
stopped by signals that exit at once, and the data file and the configuration
are separate files. *Correct when* what was not in hand survives,
no two spellings of a name coexist, and no script reaches players that the
administrator has not seen.

### Connections and their threads — `game/src/network.cpp`, `network_worker.cpp`

Under campaignd, the multiplayer server and the game. *State.* Open sockets,
queues of messages and receives, a state per socket, worker threads.
*Operations.* accept, send, receive, disconnect, poll for errors, shut down. *What
is hard.* Workers pick sockets while the main thread closes them; errors are
counted; the pool grows and shrinks. *Correct when* nobody uses a socket twice or
after it is gone, messages keep their order, errors close, shutdown ends.

### Operations in threads — `game/src/thread.cpp`, `thread.hpp`

*State.* The operation, its flags under a mutex, and the list that keeps it alive.
*What is hard.* Cancelling while the thread goes on. *Correct when* a connection
exists exactly if its caller was told so.

### Multiplayer server — `game/src/server`

*State.* Who is logged in, the lobby, and each game's host, players, observers,
sides, turn and bans. *Operations.* What users send, and the loss of a connection.
*What is hard.* Hosts send sides by name from what they knew; three places decide
when a game ends; hosts and sides change hands when somebody goes. *Correct when*
everyone is in one place, and sides belong to players of the game.

### Not modelled

The game engine, its GUI, AI, editor and map generators, the WML parsers and
data, forum authentication, server pages and settings. They are older than the
add-on server, keep no state it depends on, and are most of the repository's
lines: rules of a board game with a hundred attributes to a unit, drawing, and
parsing, where the state is data and little of it is control. The models take
from them the keys that close a window and the reload of the configuration
after the add-on dialogs. Parts of modelled components that are left out are
named with the component.

## The add-on server

`AddonServer` has a variable per table (`rows`, `authors`, `people`, `ratings`)
and per kind of file (`wmls`, `tars`), and the local variables of the request
that each worker serves (`job`). `job[w].obj` is the in-memory `Addon`; `rows`
changes only when the code saves it, and always as a whole row.

`publish` is fourteen steps, `PublishBegin` to `PublishFinish`, one for each
effect that survives a crash, in the order of `views.py:223-295`. `FileStep`
chooses between the two deletions, each of which removes a file and then saves
the row (`FieldFile.delete`). `RemoveBegin` to `RemoveCommit` is `remove`: Django
deletes inside a transaction and unlinks the files before the commit, so a kill
may leave rows without files; `CanWrite` is the write lock it holds.
`DownloadBegin`/`DownloadCount` is `getFile`, `RateBegin`/`RateSave` is `rate`.
`Fail` ends a request with an exception at the points of `Raises`; `Kill` ends
all. A request that a check refuses changes nothing and has no step.

The version stands for the content: two contents published under one version
are the same to the model. The icon is only a place where an exception can
come from. Passwords are checked by `authenticate`, so a request carries a
login that passed.

`AddonCatalog` is what a client may rely on: `Create`, `Republish` with a new
revision, `Delete`, and `Degrade` for a request that failed half-way, which may
use up a revision and take the download away but never serves other content.
`CatalogSpec` is the refinement. The server is a dozen steps where the catalogue
has one, so the mapping is a history variable: `view` is the catalogue that the
rows and files make, taken when no request is in progress.

Runs (one worker: `server/run` starts one single-threaded process):

- `server_requests` (173,856 states): one title, both routes, an owner, another
  user, and a name without account as authors, exceptions anywhere. `Maintainable`,
  `ArchiveAgrees` and `PublishedIsServed` hold.
- `server_crashes` (953,934): the same with kills, an unnoticed failure of tar
  and authors added by the admin site. `ListedVersionIsServed` and the refinement
  hold. `Maintainable` and `ArchiveAgrees` do not hold here and are not claimed:
  nothing undoes a clear of the authors that a kill cuts off, nor the tar.
- `server_keys` (812,273): two titles coming and going under two keys.
  `ServesItsOwn`, `RatingsOfThisAddon`, `UpdaterIsAuthor` and `CountersKept` hold.
- `server_file_names` (violation of `ServesItsOwn`): 'A B' published by the form
  and 'A_B' by a client share one file.

*Bounds.* Two titles and two keys are what a reused key or a shared file needs;
three uploads let a second publish repair or worsen what a first left; file-name
suffixes up to 2 are as many as those uploads can claim; one download and
one rating are enough to be lost or misattributed. Versions are symmetric.

## Transfers of the game

`AsyncTransfer` has the main thread (`main`), a thread for each call (`thread`),
the progress object of each call (`prog`), the buffer of each `addon_client`
(`buffer`) and what the caller took from it (`taken`). `Ask` is a function that
starts a transfer and shows the dialog; `Offers` and `After` are the dialogs of
`download_addons` and `addons_update_dlg` between transfers, with the call of
`download_addons` to itself. `Launch` is `async_wrap`, which joins the previous
thread. `PollProgress`, `PressAbort` and `PressClose` are the dialog; the rest
follows the functions line by line. A thread is `async_entry`: `SetRunning`,
`ClearBuffer`, then `Perform` (curl) or `ProgressCallback` (abort),
`StoreResponse`, `ClearRunning`.

`Settings` says which situations a run looks at. With `prompt`, a new thread has
set `running` before the first poll 100 ms later; without, it may be as late as
it likes. `acts` says what the user presses.

In `game_threads` (below) it has four transfers, with prompt threads and the
abort button, or with late threads and Escape. `ResponseIsAsked`, `NothingDangles`
and the liveness `AbortEnds` hold. Escape in the dialog of a running transfer
fails the assertion that follows (`addon_management.cpp:1002`), and the model stops
at `crashed`: no sentence of the repository denies it, so no run is made of it.

*What `prompt` hides.* A thread that has not set `running` when the first poll
comes has its dialog closed as if it were done. Callers then join it, so
`ResponseIsAsked` holds all the same (that is the second setting, and the
theorem), but the dialog is gone and nothing can abort the transfer. With both
an early close and an abort, a thread can outlive its progress object, so
`NothingDangles` is claimed of the two settings of the run and not of all.

*Fairness* (`FairSpec`). The timer fires and the main thread runs
(`WF(Main)`), and the system schedules each thread (`WF(Thread(k))`);
`Thread(k)` includes the progress callback, which curl calls about once a second
while a transfer lasts. There is no fairness for the user nor for `Perform`:
`AbortEnds` says that an abort ends the transfer of a server that never answers.
Deadlock is not checked: the model stops after `MaxCalls` transfers, and at a
failed assertion.

## The script

`ScriptManager` is one command at a time over a catalogue that others change by
the actions of `AddonCatalog`. `Begin` to `Exit` is the life of a command; `cmd`
holds its local variables. A download is `GetCampaign` (the redirect),
`FetchFile`, `RemoveOld`, `MakeDir`, `UnpackDir` and `WriteInfo`; `Interrupt` ends the
command between any two. `Wanted` is the decision of both `--download` and
`--update`, with revisions compared as text (`TextGreater`).

- `client_tools` (393,650 states, with the algorithms below): two add-ons, two
  revisions, others publishing while a command runs and removing between commands.
  `UpdateConverges`, `InfoNotAhead` and `ActsOnNamed` hold.
- `script_revisions` (violation of `UpdateConverges`): the tenth upload.

`ServerActs` says what the server may do beyond that. With `"remove"`, removals
during a command, `ActsOnNamed` fails: a key used again after the list was fetched
names another add-on. With `"again"`, a removed
title published again starts at revision 1, and `UpdateConverges` fails too, since
an equal or lower revision passes for up to date (`wesnoth_addon_manager.py:371`).
`hung` is a download whose background thread died: `get` then waits for ever. The user's
`Interrupt` is the way out, and no property says that commands end.

## Algorithms

`AddonCodec` has both encoders and decoders on sequences of bytes, and
`VersionOrder` has the parser and the comparison, with the recursion counter
`level` that lives as long as the process.

- `client_tools`, two parts of it: every text of up to four of eight bytes (the four
  that are escaped, their successors and others) as initial states, and every
  pair of six versions under four operators, in any sequence until the
  counter, here bounded by 12, runs out. `TextSurvives`: encoders agree, decoders
  invert both, no byte the parsers act on is left. `RightUntilExhausted`: comparisons
  agree with the order stated directly (`Above`). Four bytes reach an escape at the
  start, at the end and two in a row. Texts take no steps that change anything.
- `version_counter` (violation of `ComparisonsAreRight`): with the real bound, 256,
  comparisons are wrong after 256 components were looked at.

## Files in place

`CampaignServer` is campaignd (`campaign_server.cpp`). `cfg` is the list in memory,
`saved` the list on disk, `files` the add-ons' data; the last two may be `Torn`, a
file that was opened for writing and not written. A request is handled between two
reads, so it is a step as far as memory goes, and then the steps of its writes:
`OwnerUpload` and `MasterUpload` lead to `OpenData`, `WriteData`, `OpenConfig` and
`WriteConfig`, `Delete` to `Unlink`, and `Kill`, a signal, may fall between any two and
ends the daemon as `exit_sighup` does. `Start` reads what is there and converts old
files (`Convert`, `Rename`, `Converted`). `Validate` is the administrator's
`validate_scripts`. `hurt`, `answered` and `validated` are history.

`GameAddons` is `manage_addons` and what it calls. A directory is reduced to the
version of `_main.cfg`, of the rest and of what `_info.cfg` says (`Place`); `dlg` holds
the local variables of the dialogs; `cache` is `version_info_cache`. `Layouts` says how
an add-on was laid out by who published it, which decides where its files and its
`_info.cfg` go (`Target`, `InfoTarget`). `RemoveOld` may fail in part, `UnpackFails`
may end an installation after any of its files.

The two share nothing. `MCInPlace` puts them into one instance, of which a
behaviour runs one part: campaignd with two spellings of a name, campaignd with two
names, or the game.

- `in_place` (1,507,813 states): `CsTypeOK`, `NoTwins`, `DamageConfined` and
  `ScriptsWereValidated` of campaignd, `InfoIsReal`, `OffersOutdated` and
  `SuccessInstalls` of the game hold. *Bounds.* One kill reaches
  every point of every write, and what a second one could add, a list that is read
  again, is in the initial states; two passphrases are an owner and another
  author; of three contents two have scripts. One file that fails, and two
  versions: an update over an installed add-on, after a failure.
- `game_layout` (violation of `SuccessInstalls`): an add-on published by the game.

`DamageConfined` excepts what was in hand, and that may be everything: each save
empties `server.cfg` before it is written, and a signal between loses the list of
all add-ons (`campaign_server.cpp:636`, `:95`).

## Connections and threads

`NetworkPool`: what is done under the mutex of the shard is one action, and the wait
of a worker for its socket is not under it. `threads[w]` is where a worker is in
`process_queue` and `job[w]` its locals; `PickMsg`, `PickReceive`, `Rest` and `Exit` are the
search at `network_worker.cpp:671-728`, `CheckLock`, `Write`, `Receive` and `Push` what
follows, `Report` is `check_socket_result`. `DetectError`, `TakeReceived` and
`DisconnectQueued` are what the main thread does when it polls; `Shutdown` to `JoinAll`
are the destructors. `CloseConnection` is the end of a connection at shutdown.

`AsyncOperation`: `Execute` starts a thread and waits; what the caller does between two
waits is one action, as it holds the mutex. `CopyPointer` is the first line of the
thread, which reads the caller's frame: if that is gone, the model stops (`wild`),
since nothing can be said of what follows. `OpenSocket` and `AddConnection` are
`connect_operation`.

`Link` is what a user of the pool may count on, one connection at a time: what it
sends leaves in turn, one message that came in waits for it, and closing ends both.
`LinkSpec` is the refinement: `PlaceOf` is read off `open` and `closed`, a message has left when
it is `delivered`, and what came in is what `received` has of that connection. Locks,
workers, failures and interruptions are steps that the link does not see.

- `game_threads` (76,290 states): transfers, pool and connecting, one at a time,
  since they share nothing. Two workers and two connections, pools as the
  game's (one thread) and as a daemon's (one, and as many as it takes), two messages
  each. `SocketsHeldOnce`, `MessagesInOrder`, `OneReceive`, `LinkSpec`,
  `LinkedAreHandedOver`, `ThreadsHaveTheirOperation`, and the liveness `FixedPoolSends`, `ShutdownEnds`,
  `ErrorsClose` and `ExecuteEnds`. A second worker is what a race for a socket needs;
  a second connection what an order between queues needs. Three operations: one
  that runs on after it was cancelled, while the next ones begin.
- `network_disconnect` (violation of `DisconnectCloses`): `check_socket_result` writes
  over the mark that a disconnection left.

*Fairness.* Threads are scheduled and operations on sockets end, as each wait in
`send_buffer` and `receive_buf` has a timeout; the main thread polls, as `network.hpp`
asks of it. A thread that starts needs the operation's mutex, which is free for
up to 20 ms in each turn of the caller's loop: strong fairness for it.
`FixedPoolSends` is not claimed of a pool that grows: there, a thread that comes back
while enough others wait exits without looking at the queues
(`network_worker.cpp:681-683`), and if the notification for a message met only such
threads, the message waits for the next one.

## The multiplayer server

A message is handled to its end, so each handler is one action of `GameServer`.
`players` is `players_`, `lobby` the members of that room, `games` a record for each
game: its host (`owner`), players and observers, sides with the connection each
belongs to, the empty sides (`nulls`), the scenario (`level`), the turn and bans.
`UpdateSideData`, `StartGame`, `EndTurn`, `AddPlayer`, `RemovePlayer` and `TransferSide` are
the methods of `game`; the actions are what `server.cpp` makes of the messages, with
what they call. `Scenarios` is what a host may send: his dialog names users as he knew
them, so names of users that are gone, or of none who came, arrive at any time.

`Lobby` says where users may be, and that a game exists as long as somebody is in it.
`LobbySpec` is the refinement, under `Where`.

- `game_server` (29,249 states): three users, the second of whom may come back on a
  new connection, the third a moderator; two games, of which one at a time has
  its scenario; two sides, each for a user, for whoever comes, reserved, empty or the
  host's, with or without observers. `InOnePlace`, `SidesArePlayed` and `LobbySpec` hold.
  Three users are a host, a player and an observer, with a host to take over; two
  games are what somebody in two would need. Games are symmetric.

`server.cpp:1892` works around "problems of players not getting properly removed from
a game". `InOnePlace` says that these handlers do not cause them: a connection in the
lobby is in no game. What they do leave is in `lost`: `kick_member` and `ban_user` do not
look at what `remove_player` says (`game.cpp:656`). A host who watches can put out the
last player; the game stays, and its sides belong to a connection that has left it.
If that user joins again, he is an observer who owns sides. `SidesArePlayed` excepts
such a game until a scenario assigns the sides anew. A watching host's departure
ends a game without players; that of another observer does not, but his connection's
loss does (`server.cpp:2157`, `:813`).

Left out: chat and muting, rooms beside the lobby, passwords of games, registered
users, computer-controlled sides and droiding, replays, commands of
administrators, metrics, and what is sent to whom.

## Proofs

`AddonServerProofs`, from the assumptions on constants in `AddonServer`, for any
titles, users, keys and faults, the first two for any number of workers:

- `TypeCorrect`: `Spec => []TypeOK`. The type invariant alone is not inductive: a
  request's locals are read at points where they must have been set. `LocalsOK`,
  a part of `TypeOK`, says which locals are set at which step (the row exists while
  a file is deleted, the key is known once the row was saved, authors are left
  to link). One lemma per action, or per group of actions of one shape.
- `ServesItsOwnAlways`: assuming `FilesNamedApart` (no two titles share a file
  name when the form is used), `Spec => []ServesItsOwn`. The inductive form is
  `OwnFiles`: a file carries the title it is named after, and rows and the
  copies held by requests refer only to files of their own title. It is
  needed because a request may save a row read long before. This is the only
  safety property claimed of several workers: runs with two are too large for TLC.

The others assume `OneAtATime` (at most one worker), since `server/run` starts one
single-threaded process; with two, a row read early and saved late undoes what
came between.

- `UpdaterIsAuthorAlways`, `RatingsOfThisAddonAlways`, `PublishedIsServedAlways` and
  `CountersKeptAlways`. Their invariant is `Alone`: names are unique, and of the request in
  progress `Current` (the row under its key is still the one it read, with counters no
  higher than its copy's; a new title is still new), `Granted` (the sender is an
  author, or still on the list of those to be linked) and `Filed` (the row has no wml
  from the deletion of the old one to the save, and the new one is as sent).
- `ListedVersionIsServedAlways`, assuming `FilesNamedApart` too: between the new file and
  the save that announces it, the row refers to no file, so nothing false is listed.
- `ImplementsCatalog`, under the same assumptions: `Spec => CatalogSpec`. The invariant
  `AllSeen` compares the catalogue as it was when the request began (`view`) with what
  the rows and files make of it now: other add-ons are shown the same
  (`OthersKept`, which needs that files carry their titles), and its own has
  at most the next revision and the old version or none, until the row is saved. So
  whether a request ends, raises or is killed, what is then seen is one step
  of the catalogue (`EndSeen`) or none. `NoneAssumption` keeps `None` apart from rows,
  files and entries, which TLC's model values are by nature.
- `MaintainableAlways`, assuming besides one worker that nobody kills it or gives a
  name a second `Author` on the admin site: a kill between the clearing of the authors
  and the first link leaves an add-on to nobody, and so does a name that
  `Author.objects.get` finds twice. Every other failure is allowed. The invariant is
  `NamesOnce` (no name has two authors, and one is created only where there was none) and
  `Manned` (a row without authors is that of a publish that still links them).
- `ArchiveAgreesAlways`, assuming one worker that is not killed and a `tar` that does not
  fail: the server does not look at its exit status. `Archived` says that a row with a
  file has the archive of its version (`Packed`), except while publish or remove take
  the old files from it, and that a row and the copy in hand refer to no other archive
  than their own. It needs no `FilesNamedApart`: archives are named after titles.

`AsyncTransferProofs`, from `TransferAssumption`:

- `TransferTypeCorrect`: `Spec => []TypeOK`. Beside the shape that the next theorem needs,
  `Clients` says that only a list that came back leads to the menu.
- `ResponseIsAskedAlways`: `Spec => []ResponseIsAsked`, for any number of transfers
  and all settings. The invariant `IInv` adds that calls are numbered in order
  and share the client of an earlier list (`Numbered`), that of a client's calls
  only the last can have a running thread (`LastOnly`, from the join in
  `async_wrap`), that callers wait only for threads that were started (`Started`),
  and that a thread that has stored its answer left it in the buffer if no
  later one was started (`Answers`). When `get_async_response` has joined, the last
  three give the property. Each lemma is about one kind of step.
- `NothingDanglesAlways`: `Spec => []NothingDangles`, assuming `Careful`: where the user
  may abort, he closes no dialog and threads start before the first poll. The
  settings of the run satisfy it; without it the property is false (see *What
  `prompt` hides*). The invariant `Sound` says that a thread that is not over is that
  of the call in hand, which keeps what it uses, and that while the user may abort
  such a thread has its dialog shown.

`CampaignServerProofs`, from `CsAssumption` and `CsFileAssumption`, for any names,
contents and numbers of kills and downloads:

- `CsTypeCorrect`: `CsSpec => []CsTypeOK`, with what a request in hand holds at each
  point of its writes.
- `NoTwinsAlways`: `CsSpec => []NoTwins`. An upload looks for an entry of the same
  lower case (`Same`) and renames it; since memory has no twins and the disk gets
  what memory has, neither comes to have any, torn files included.
- `ScriptsWereValidatedAlways`: `CsSpec => []ScriptsWereValidated`. Inductive with what
  is in hand: the data that is about to be written has only scripts that were let in.
- `DamageConfinedAlways`: `CsSpec => []DamageConfined`. `JobShape` says which names and data
  a request holds at each point of its writes; `Confined` that add-ons neither hurt
  nor in hand are `Intact` in memory, in the saved list and on disk, that a torn list
  is the one being saved or has hurt every name, and what will be intact once the
  request in hand is done (`InHand`). The conversion of old files at the start is
  not excepted: it rewrites a file with what it read from it.

`ConnectionProofs`, from `OpAssumption`, for any number of operations:

- `OpTypeCorrect`, `LinkedAreHandedOverAlways` and `ThreadsHaveTheirOperationAlways`, the
  last two for `LinkedAreHandedOver` and `ThreadsHaveTheirOperation`. The invariant
  `OpIInv` says that operations are executed in order (`InOrder`), that a caller who
  still has the mutex was not notified (`NotYet`), what a thread leaves when it is
  over (`ThreadLeaves`), what the caller was told (`CallerTold`), and that the list has
  every operation whose thread is not over (`AllKept`). `KeptKeeps` shows that dropping
  the oldest finished operations preserves it; it takes the first that is
  not finished from the well-foundedness of the numbers (`LeastOf`).

and from `NetAssumption`, for any number of connections, messages and workers, and any
limits of the pool:

- `NetTypeCorrect`: `NetSpec => []NetTypeOK`, with what a worker holds at each point.
- `SocketsHeldOnceAlways`: `NetSpec => []SocketsHeldOnce`. `NetHeld` extends it to every
  worker that has a connection, also before it polls and after it reports, and says
  that only open connections are polled. A worker takes a message of a connection that is
  `ready`, and the state changes with the mutex held, so there is one of each.
- `OneReceiveAlways`: `NetSpec => []OneReceive`. `NetOne` is the same sum with
  `Polled`, `Handed` and the like as numbers, and inductive with `NetHeld`; its lemmas say
  what each step takes from one of the four places and puts into another.
- `MessagesInOrderAlways`: `NetSpec => []MessagesInOrder`. `NetOrder` says of each connection
  that has not failed that what is left in the queue follows what was `Written`, one
  number after the other, that a worker that writes has the next one in hand, and
  that outside a worker's hands everything written was delivered. Workers take
  the first message of a *ready* connection from anywhere in the queue: `RemovedAt` of
  `ListsProofs` says that this takes the first of that connection's.
- `ImplementsLink`: `NetSpec => LinkSpec`. It takes all of the above, and two facts more:
  the message in a worker's hands is the one after the last delivered (`NextUp`, so none
  is left out where sending failed), and only what is or was open waits to be disconnected
  (`Asked`). `OneReceive` is why a message that comes in finds the box empty (`PushLinks`),
  and `SocketsHeldOnce` why one that leaves or is taken is of an open connection
  (`WriteLinks`, `TakeLinks`). One lemma for each step that the link sees.

`GameAddonsProofs`, from `GaAssumption`, for any add-ons, versions and faults:

- `GaTypeCorrect`: `GaSpec => []GaTypeOK`.
- `InfoIsRealAlways`, `OffersOutdatedAlways` and `SuccessInstallsAlways`, assuming
  `LaidOut`: add-ons are in directories of their names, published by campaignd's users
  or with the script. What the game itself publishes is excluded, since there
  `SuccessInstalls` is false (run `game_layout`). The invariant `GaIInv` adds that neither
  a list, nor what is in hand, nor an `_info.cfg` is ahead of the server
  (`NotAhead`), that files are unpacked over nothing unless removing failed (`Cleared`),
  that the chosen add-ons that are no longer left to do are installed (`Progress`), and
  that the cache knows what is installed unless a refresh is due (`CacheFresh`).

and from `VersionAssumption`, for versions of any number of components:

- `RightUntilExhaustedAlways`: `VersionSpec => []RightUntilExhausted`. The recursion of
  `recursive_order` ends where `Ends` first holds (`FirstEnd`): at the end of the
  components, at the first two that differ, or when the counter has run out.
  `OrderedEnds` says so of the recursive function; a least position where it did not
  would contradict its definition. While the counter lasts, that is the
  comparison of padded components that `Above` states directly (`AboveIs`).

`ScriptManagerProofs`, from `ScriptAssumption`, for any add-ons, ids and revisions:

- `ScriptTypeCorrect`: `Spec => []TypeOK`, with what a command holds at each step.
- `InfoNotAheadAlways` and `ActsOnNamedAlways`, an invariant and an action property,
  assuming `StartApart` (titles are unique on the server at first) and `KeptWhileUsed`
  (nobody else removes add-ons while a command runs). The second is needed:
  SQLite gives the key of a removed row to the next one, and then a command acts on
  another add-on than it listed. The invariant `IInv` adds `Selected`: each entry that
  is still to be handled names the add-on it was listed as, in the listed
  revision or a later one, and what was downloaded is no older than its entry.
- `UpdateConvergesAlways`: `Spec => []UpdateConverges`, under these and three more
  assumptions. `OneDigit`: revisions have one digit, as they compare as text (run
  `script_revisions` is the counterexample with two). `NoneAgain`: a title that went is not
  published again, from revision 1. `NamedAlike`: add-ons were published from
  directories of their names, where an update looks for them. The invariant adds
  `Genuine` (a directory holds what was downloaded for it once, and the server
  has the same or later: `NotNewer`) and `Converging` (while the server stays as it
  was, every selected add-on is done, in hand or still to do).

and from `CodecAssumption`, for files of any bytes and any length:

- `TextSurvivesAlways`: `CodecSpec => []TextSurvives`. Each encoder, replacement and decoder
  is shown to do with a longer file what it did with the file and then with the
  byte that was added: `EncodeAppend`, `PutBoth`, `StateAppend` for the library's decoder, which
  reads from the front, and `FromEncoded` for the game's, which is defined from the back.
  Each of the four replacements of `put_file` leaves alone what those before it put there
  (`ReplacedPair`), which holds in this order and not in others.

`GameServerProofs`, from `GsAssumption`, for any connections, names, games and scenarios
of at most nine sides, all of which a host may send at any time:

- `GsTypeCorrect`: `GsSpec => []GsTypeOK`.
- `InOnePlaceAlways`: `GsSpec => []InOnePlace`. The invariant `GsIInv` adds that a game
  lists its users once and its host among them (`Listed`), that a turn is that of a
  side (`Timed`), and that whoever is logged in is in the lobby or in exactly one game
  (`Placed`). A lemma for each method of `game` says what it keeps and who
  is a member afterwards; a lemma for each message says where it leaves users.
- `SidesArePlayedAlways`: `GsSpec => []SidesArePlayed`. `Played`, a part of `GsIInv`, adds that
  a started game has a side that is not empty: then the next one that `end_turn`
  looks for exists (`EndTurnPlays`). In a scenario of empty sides only, every turn is
  that of an empty side. The host's dialog does not start such a game
  (`can_start_game`, `multiplayer_connect.cpp:1686`), and `Playable` has that guard; the server
  does not look.
- `ImplementsLobby`: `GsSpec => LobbySpec`. Under `GsIInv`, `Where` is read off who is a
  member where, so each message is a step of `Lobby` or none.

`ListsProofs` is what four of these rest on. `ListInduction` and `FrontInduction` are
induction over lists of any length, with a set of lists in the place of a predicate
(the library's theorems take an operator, which the provers cannot instantiate): a set that
has the empty list, and each list with one more entry, has all. The first rests on the least
length it could fail for. With them, `Those`, which erases from a list, returns
exactly the chosen entries in order and distributes over `\o`, and `FlattenSeq` of a list
of lists is what one expects (`FlattenAppend`, `SpreadBoth`). As that one is a recursive
function inside a `LET`, a lemma first shows that such a function exists and is the one
that was chosen.

Only model-checked: liveness, which the prover has no rules for under fairness
(`AbortEnds`, `FixedPoolSends`, `ShutdownEnds`, `ErrorsClose`, `ExecuteEnds`), and what the
five runs refute. The type invariants of the parts of composed instances are theorems
(`TransferTypeCorrect`, `NetTypeCorrect`, `OpTypeCorrect`, `GaTypeCorrect`); the runs of these
check only what says more.

## Disagreements found

Five runs are expected to fail, each on one sentence of the code or its tests;
`PROJECT.json` quotes them.

| run | what |
|---|---|
| `server_file_names` | 'A B' from the form and 'A_B' from a client share a file |
| `script_revisions` | the tenth upload is not downloaded over the ninth |
| `version_counter` | after 256 components no version is above another |
| `network_disconnect` | a socket given up while in use is not closed |
| `game_layout` | what the game published is installed one directory too deep |

Met while modelling, and not made runs, as nothing in the repository says otherwise
or it lies outside what is modelled:

- an add-on published by the script is installed without `_info.cfg`, as that is added
  beside the data node (`addon_management.cpp:675`), and is not offered for update;
- `addon_management.cpp:523` asks about missing dependencies with the answers swapped;
  downloading an add-on overwrites one's own work in that directory;
- a title that is a number is read as an id (`models.py:34`); tar's exit status is not
  looked at (`views.py:250`);
- after an error in a message, campaignd disconnects whatever `sock` was
  (`campaign_server.cpp:742`); `send_file` queues a name, and the file may be replaced
  before a worker opens it (`:468`);
- when the socket set is full, a closed connection stays listed (`network.cpp:761`);
- curl options stick to their handle: a transfer after a publish on the same one
  would be sent as that publish (`addon_client.cpp:108`); the dialogs make none.

## Plan

Done: everything in the table. What is left, in this order:

1. Proofs: every safety property that a run checks is a theorem. What could still be
   weakened is what the theorems assume: one worker for most of `AddonServer`.
2. Titles that read as ids (`AsId`) in the runs of `AddonServer`: rating by name is what
   `server/addons/tests.py:35-43` tests.
3. campaignd and the pool together: a file that is replaced while a worker sends it.
4. Rooms, muting and computer-controlled sides of the multiplayer server.
