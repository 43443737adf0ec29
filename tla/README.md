# Formal models of the Snapmaker U1 extended firmware

The repository builds an extended firmware image for the Snapmaker U1 printer:
overlays add programs, Klipper and Moonraker extensions, boot scripts and web
pages to the stock root file system. Paths below are relative to `src/overlays/`,
those starting with `38-…`, `13-…` and so on to `src/overlays/firmware-extended/`.

This directory holds TLA+ models of its core logic, TLC configurations, and
TLAPS proofs: **SpoolLink**, the largest concurrent component written for this
firmware, which links RFID cards on filament spools to records of a Spoolman
server; the camera agent's **timelapses**; the **firmware configuration** server
and the file it edits; the installer of optional apps, **extended-pkg**; the
supervisor **fake-service**; and the **NDEF reader** of filament cards.

## 1. Inventory

### SpoolLink: cards and spools (`38-feature-spoollink/…/components/spoollink.py`)

| | |
|---|---|
| State | `_tag_api_supported`, `_channel_event_times`, the cache directory (one JSON file per card); in Spoolman the links, in one of two stores: the `card_uids` text field or native tags; in Klipper `filament_detect` (card and event time per channel) and `print_task_config` |
| Operations | `_resolve_spool` (fired by a card event, or by `SET_SPOOL_ID` with a spool), `_unlink_card` (`SET_SPOOL_ID SPOOL_ID=0`), `_handle_status_update`, `_handle_klippy_disconnect`, version check |
| Interaction | asyncio coroutines in Moonraker's loop, interleaved at every REST request and at every retry's sleep; remote methods called from Klipper macros; `spoollink/set` called on Klipper |
| Hard | what was read before an await is used after it; requests fail before or after Spoolman carried them out; two calls for one card or one spool overlap; the cache outlives both |
| Correct when | a link changes only for a call that names its card; an assigned card is on the named spool and on no other; a cleared card stays cleared; the channel shows the spool of the card it holds; every call ends |

### SpoolLink: active spool (same file)

State: `_toolhead_extruder`, `_ptc_spool_ids`, `_active_spool_id`, pending sync
tasks, Moonraker's own active spool and its `spoolman:active_spool_set` events.
Each change of the toolhead, of the spool ids or of the active spool fires a sync
task that runs later. Hard: the component's own writes come back as events, and
Klipper may disconnect or Moonraker restart with tasks pending. Correct when the
active spool ends up being the mounted toolhead's and the echo dies out.

### SpoolLink: tag store migration (`spoollink_migrate.py`, the `spoolman_tag_store` setting)

State: both stores in Spoolman, `tag_store` in `extended2.cfg`, the script's
listing and position. With Moonraker stopped the script moves every link, one
request at a time, and the setting is written if it exits with 0. Hard: failed
requests, lost answers, kills, reruns in either direction, users assigning cards
between two runs. Correct when no card loses its last link, one store is empty
after a run that reports nothing left in place, and every card is on its spool.

### Timelapses of the camera agent (`mods/paxx12/60-camera-ai-mpp/…/fake-camera-agent.py`)

State: one directory per timelapse with frames and a state file, the link
`current`, `timelapse.json`. The MQTT thread starts, photographs, stops and
deletes; each stopped timelapse is finished by a thread of its own that runs
ffmpeg; at start a sweep thread finishes or deletes what an earlier run left.
Hard: no common lock, kills between any two writes and between the emptying of a file
and its writing, ffmpeg that hangs. Correct when the active timelapse is left alone, the index lists what exists, finished
videos are kept, and what was stopped is shown in the end.

### Configuration server and editor (`02-firmware-config`)

State of `firmware-config.py`: one thread per request; the upload at a fixed path
with a file lock. State of `extended-config.py`: the lines of `extended2.cfg`. A
setting runs a script of `extended-config.py` calls, each a process that reads the
file and rewrites it in place; an upload is received and given to the installer, a
process that unpacks it in a directory all installers share.
Hard: threads and scripts overlap, clients leave while the installer goes on, power
fails between emptying and writing. Correct when the file stays readable and shows
what was last set, the installer gets the whole of its own upload, and no upload is
left or waits for ever.

### extended-pkg (`01-system-utils/…/extended-pkg`)

State: version directories, the link `latest`, an older layout's directory, the
archive and the staging directory, the virtual environment that OctoEverywhere's hook
fills beside the versions. Operations: `download`, `upgrade`, `clean`.
Hard: steps fail, power is lost, two calls share the temporary directory, a new
firmware pins another version. Correct when what counts as installed is whole, a
failed upgrade leaves what was there, and success means what it says.

### fake-service (`60-app-camera/apps/fake-service/main.c`, `S99v4l2-mpp-usb`)

State: `received_signal`, `child_pid`, the child; of the init script the device and
the settings of the camera, without which it starts nothing. Hard: a signal between any
two instructions, in the supervisor and in a child that has just been forked. Correct
when a signal reaches the program, no child is left behind, a failed program is
started again, a start that is wanted leaves a supervisor up and a stop none.

### NDEF reader (`13-patch-rfid/…/filament_protocol_ndef.py`)

Sequential: it walks the blocks and records of a card's memory that may be cut
short or damaged. Correct when it stays inside the memory, finds the records
before the damage and returns.

### Others

| Component | State and operations | Hard behaviour | Correct when | Here |
|---|---|---|---|---|
| RFID detection, print task config (`13-patch-rfid`) | per channel card info and event time, applied filament; read, `filament_detect/set`, clear | reader and REST writers interleave | an event time never goes back; official data is cleared with its card | `Scan` of `SpoolLink` |
| AFC-lite (`31-feature-afc-lite`) | lanes and their virtual tool map; `SET_MAP`, `SET_SPOOL_ID` | swaps of a map | the map stays a permutation | planned |
| multiACE `common.sh` | bind mounts, config link, marker | failure half way | all stock or all replaced | planned |
| `S49extended-config` | recovery flags, config directory, backups | power loss between flags | recovery happens once and wholly | planned |
| Purifier patch (`41-feature-generic-purifier`) | fan speed, delayed turn-off, power pin | timers against commands | power is on while a fan runs | if the patch shows enough |
| Chamber heater tools, firmware-imposter, rockit-export, limits helper, app packaging, stock patches, build scripts | one-shot tools, I/O, packaging | | | not modelled |

`PROJECT.json` lists every component with its status, and the hazards with the
line where they bite and the properties that would catch them. The components
share little: SpoolLink's three modules meet in Spoolman and in `tag_store`;
`FirmwareConfig` runs on `ExtendedConfig`; the rest are separate programs.

## 2. Modules

| Module | Contents |
|---|---|
| `CardLinks` | what SpoolLink promises about links: they change one at a time, for a call that names the card |
| `SpoolLink` | `_resolve_spool`, `_unlink_card`, card events, `SET_SPOOL_ID`; properties; the mapping to `CardLinks` |
| `ActiveSpool` | the active spool sync |
| `TagMigration` | the migration script and its setting |
| `Timelapse` | instances, their threads, the sweep and kills |
| `ExtendedConfig` | the edits of `extended-config.py` and what its `get` reads, as operators on sequences of lines |
| `FirmwareConfig` | request threads: setting scripts over `ExtendedConfig`, uploads with their installers, power cuts |
| `ExtendedPkg` | download, upgrade and clean, step by step, with the hook |
| `FakeService` | supervisor, child and init script |
| `FilamentNdef` | the NDEF walk, one turn of a loop at a time |
| `…Proofs` | the theorems of section 4 |
| `MC…` | small instances for TLC, with symmetry where it is sound |

### How SpoolLink's state and actions correspond to the code

A coroutine is a record `task[t]`: `pc` names the await it is suspended in
(`check` for `GET /info`, `getById`, `findByCard`, `unbind`, `bind`, `moveTag` and
`bindAgain` for the three requests of `_spoolman_link_tag`, `push` for
`spoollink/set`) or the local code it is about to run (`erase`, `decide`, `save`,
`done`). Local code of a real coroutine runs without interruption; letting others
in before it only adds behaviours, and each of these labels touches the cache or
the history alone. `byId`, `byCard` and `todo` are the answers a coroutine holds
on to, as snapshots of id and cards, and are the reason calls can go wrong.

Each request is two actions: the one that succeeds, with Spoolman's part in it,
and the one that fails (`…Fails`), in which Spoolman may have carried it out.
`RetryOr` is `_retry`: the attempt is made again until the attempts are used up.
`LinkTagConflict`, `MoveTag` and `LinkTagRefused` are the 409 branches of
`_spoolman_link_tag`; a retry starts the whole of it again.

Spoolman, Klipper's reader and the user are the environment. `Native` selects the
store. `Stored` are the spools Spoolman has and `Listed` those its searches
return, so that an archived spool is one in `Stored \ Listed`. An old server holds
no tags, refuses to link one and finds no card.

`asked`, `clearing` and `cleared` are history variables, as is the card in `ptc`:
`print_task_config` itself stores the spool alone. No action reads them.

### ActiveSpool

`extruder`, `spoolIds`, `active` are the component's fields, `syncs` counts the
fired tasks (they carry no argument: all are alike), `events` is the queue of
`spoolman:active_spool_set` not yet delivered, `toolhead` and `ptcIds` are Klipper's
truth. A status update carries both objects as Klipper has them at that moment.
The extruder's name is its channel.

### TagMigration

`pc` follows the script: `version`, `list`, then per spool `link` and `patch` (to
native) or `patch` and `unlink` (to card_uids). Spools and cards come in any
order. `fieldAt` and `tagsAt` are the listing. A failing request leaves its card
(`LinkTagFails`, `UnlinkTagFails`) or ends the script (`Abort`), as the `try`
blocks have it; `Crash` ends it anywhere. `Assign` is a user's `SET_SPOOL_ID` in the
selected store while no migration runs.

### Timelapse

`dirs`, `files`, `state`, `current`, `index` are the disk; `job[w]` is where a thread
is: the agent (`mkdir`, `ready`, `link`, `activate`, `photo`, `count`), a deletion (`rm`,
`rmdir`), an index rewrite (`read`, `truncate`, `dump`: the three steps between which
other threads run), a generator (`gen`, `generating`, `finish`, `finished`), the sweep
(`valid`, `unlink`, `list`, `visit`). Every write of a state file is two steps,
`EmptyState` and `WriteState`, as is the rewrite of `indexNext` at each photo (`PhotoFrame`
empties it, `PhotoCount` writes it; `"frames"` is an `indexNext` with a number in it):
`open(…, "w")` truncates, and a kill between the two leaves the file empty. The sweep
takes an empty state for neither kind of unfinished timelapse, a generator an empty
count for no frames. `seen` is the copy of the index a thread holds, `valid` and `todo`
the sweep's. `Kill` ends the process anywhere and `Boot` starts it. `Early` lets requests
be served before the sweep has its listing. History: `hurt` marks an index write that
was cut short or that overwrote another thread's (the model stops serving requests
there), `shot` the timelapses with a counted frame, `cut` those of which a kill left the
state or the count empty.

### FirmwareConfig and ExtendedConfig

`req[r]` is a request's thread. A setting goes round `edit`, `truncate`, `write` once
per command of its `Script` (translated from the YAML files), each command being
`Edit`; an edit that has nothing to write skips the last two. `ReadLines` sees no
lines while another process has the file truncated. An upload goes `unlink`, `open`,
`flock`, `receive`, `close`, `start`, `run`, `remove`. `path` names the file at
`upload_path` by the thread that created it, as an unlinked file lives on while it is
open; `body` holds two halves. `inst[r]` is the installer of the request, the script of
`30_upgrade.yaml`: `look`, `unzip`, `move`, `size`, `scrap`, `small`, `install`, `installed`. The
request ends (`StreamEnds`, then `Remove`) when the installer is over, at the stop token,
or at a line that does not reach its client; the installer goes on until it prints the
next line (`Prints`). `tmp` is the directory in which all installers unpack. `dirty`,
`metered`, `crowd`, `left` and `expect` are history.

### ExtendedPkg

`proc[p].pc` names the next command of the script: `check`; `wipe` and `wipeRest`
(the removal of a version, interruptible); `fresh`, `fetch`, `verify`, `extract`,
`unpack`, `hook`, `pip`, `binaries` for staging; `remove`, `removeRest`, `move`, `link`, `tidy`. `InstallDir`
and `Installed` are what `check` finds. A step that the shell tests may go to `fail`
instead, and `Cut` may end every process at any label. `venv` is the virtual environment
of OctoEverywhere's hook, which lies beside the version directories and which the
installed version runs in: complete for a version, a part of something, or none. `Hook`
and `Pip` change it, `clean` and a failed download remove it. `proc[p].had` is what a call
found and `piped` that its hook has begun; both are history.
`def` is the package's definition, one of three kinds in the instance.

### FakeService

`pc` is the supervisor's place between two uses of what the handler shares with it
(`test`, `fork`, `assign`, `read`, `wait`, `reset`, `judge`, `sleep`). A signal is the
handler's effect there: it sets `received` and, with `childPid`, signals the child. A
forked child still has its parent's handlers. `script` is the init script; `restart`
is its stop, one second, and its start. `device` and `setting` are what the script looks
at: it reads the settings when it is called (`enabled`), and `start` returns at once
(`StartNot`) without them; both may change between calls. `wanted` is the history of what
a finished command was to leave.

### FilamentNdef

`phase` is the loop that runs: the search for the capability container, the blocks,
the records of a message, the choice of a record. Offsets are into the whole memory,
where the code has one for the message; `StaysInside` is what makes the two agree.

## 3. What the runs show

| Run | Bounds | Shows |
|---|---|---|
| `native` | 2 coroutines, 2 cards, 2 spools, 2 calls, 1 scan, no faults | `TypeOK`, `OnlyAskedFor`, `ImplementsCardLinks` under every interleaving |
| `native_faults` | 1 coroutine at a time, 2 faults, 1 retry, server may be old | `ClearedStaysCleared`, `AssignedCardIsBound` |
| `card_uids` | as above, the other store | `CacheAgrees`, `ImplementsCardLinks` |
| `liveness` | 2 coroutines fighting for 1 card, 1 fault, 1 retry | `CallsEnd` |
| `lost_update` | 2 coroutines, 2 unlinked cards, 2 spools, 2 assignments (`Assigning`); must fail | `BystandersKept`: see below |
| `active_spool` | 2 channels, 2 spools, 3 changes, 1 restart, 1 fault | `TypeOK`, `BeliefAgrees`, `SettledInSync`, `Converges` |
| `tag_migration` | 2 spools, 2 cards, 2 runs, 2 faults, 1 assignment, `GET /info` may answer an error | `TypeOK`, `NoLinkLost`, `EveryCardOnItsSpool` |
| `timelapse` | 2 timelapses, 1 kill, 1 deletion | `TypeOK`, `ActiveKept`, `CatalogueTrue`, `NothingStranded`, `FinishedKept`, `StoppedIsShown` |
| `firmware_config` | 2 threads, 3 changes of 7 options or 2 uploads, 1 power cut, 3 starting files (1 for uploads) | `FileReads`, `SettingsHold`, `InstallsOwn`, `UploadRemoved`, `UploadsEnd` |
| `extended_pkg` | 2 callers, 2 versions, 3 kinds of package, 3 calls, 1 power cut, 1 new firmware | `TypeOK`, `InstalledIsWhole`, `FailedKeepsOld`, `Delivers` |
| `fake_service` | 4 calls of the init script, the device and the setting may come and go | `TypeOK`, `NoOrphan`, `HandedOn`, `UpAsAsked`, `StopsWhenTold`, `FailedIsRestarted` |
| `ndef` | 10 cards, each whole, cut at every byte, with each of 7 wrong bytes at every place, and written over part of another | `StaysInside`, `FindsWhatIsThere`, `TakesTheFirst`, `Returns` |

Why the bounds are enough. Every race of SpoolLink is between two coroutines, over
one card and two spools or over two cards on one spool, so two of each meet them
all. One retry has both a failed attempt that is repeated and one that is not; the
code's three repeat the same step. Two faults fail a request and its retry, or
requests of two calls. For the sync, three changes allow a user's choice between a
tool change and its sync, and one restart both a disconnect with tasks pending and
a lost memory. For the migration, two runs give a failed one and its rerun, in
either direction, and the assignment falls between them.

Two timelapses have the active one beside one that is generated, deleted or swept,
and three threads at the index; a kill may fall in any of them and the sweep follows
it. Three changes set an option, another one and the first again; changes and uploads
share no state and are explored apart, and no other setting is changed after the metrics
one, of which the properties ask nothing more. Two uploads overlap in every way, before
the file is opened and while the first one's installer runs on. Three calls of extended-pkg are an overlap and one alone on its
remains, or an install, a cut and a repair. Four calls of the init script are a start,
a stop, a restart and a start after it. The wrong bytes are the limits of lengths, the
flags of records and the tags of blocks; the cards have short and long lengths, records
with and without id, other types, unusable payloads and empty messages, as a
reference writer in `MCFilamentNdef` lays them out.

`native_faults` and `card_uids` have one coroutine at a time and check what does not
hold of overlapping calls. `CHECK_DEADLOCK FALSE` is set everywhere: with no
event left the system is at rest, as the real one is.

Fairness. `SpoolLink`: every coroutine that can go on does, as asyncio schedules
it and every request ends in an answer or a timeout. `ActiveSpool`: events and
tasks in the loop are run, Klipper reconnects and sends what changed. `Timelapse`:
threads are scheduled, ffmpeg is ended by its timeout, and a process that was
killed is started again. `FirmwareConfig`: threads and installers go on, a client sends
or hangs up; a client that stalls for ever holds the lock in the code, which no
timeout ends. `FakeService`: processes are scheduled and a program that is signalled
ends. `FilamentNdef`: the call runs on. Nothing is assumed of users, readers, faults,
kills or init scripts. `TagMigration` and `ExtendedPkg` have no liveness property and
no fairness.

### Where code and documentation part

`lost_update` is a run that must fail: with `card_uids` two cards are assigned to one
spool by calls that overlap; both have read the field empty, the first write links its
card and the second replaces it (`BystandersKept`); `PROJECT.json` quotes what it
contradicts. The run is bounded to assignments; an unlink that overlaps an assignment
loses or restores a link in the same way. Six more configurations fail in the same
way and are kept beside the runs, to be run by hand:

| Configuration | Property | What happens |
|---|---|---|
| `MCSpoolLink_archived` | `OneSpoolPerCard` | archived spools are not searched, a card ends up on two |
| `MCSpoolLink_clear_race` | `ClearedStaysCleared` | a scan in flight caches the card again after the channel was cleared |
| `MCSpoolLink_late_push` | `ChannelFollowsReader` | a resolve applies its spool after the card was removed |
| `MCTagMigration_newest` | `NewestLinkWins` | a rerun of an interrupted migration prefers the older tag to the user's newer assignment |
| `MCTagMigration_info_error` | `OneStoreAfter` | an HTTP error of `GET /info` is taken for an old server, the setting is switched and all tags stay |
| `MCFirmwareConfig_metrics_toggle` | `ReadsWithMetrics` | switching the metrics exporter off, on and off comments prose and brings it back as a line that configparser refuses |

What the properties of passing runs leave out is marked in the models by history
variables, and the code does go wrong there:

- Timelapse: an index rewrite that is cut short reads as no instances, and the next
  start deletes every finished timelapse (`hurt`). A kill between the emptying and the
  writing of a state file leaves a directory that the sweep passes over for ever, and one
  at the count of frames a timelapse that counts none and is deleted (`cut`). With `Early = TRUE` `ActiveKept` fails:
  the sweep takes a timelapse that was just started for an old one.
- FirmwareConfig: edits that overlap lose one of them, or report success on a file
  they found empty (`dirty`); a cut inside an edit leaves an empty file (`torn`); the
  metrics setting can make the file unreadable (`metered`). Uploads that overlap install
  each other's files, also when the first is one whose client has left while its installer
  goes on (`crowd`); a client gone before the response, or while its archive is unpacked,
  leaves a file at the path (`left`); a connection that ends early is installed as it
  came, if it is large enough (`full`).
- ExtendedPkg: calls that overlap, and a removal that was cut, can leave a part of a
  package that passes `check` (`hurt`). A cut between the removal and the link leaves
  nothing installed, although the comment at `extended-pkg:85-86` lets the older build
  work until an upgrade replaces it.
  A hook that fails, or is cut, has changed the environment the installed version runs
  in (`piped`); `FailedKeepsOld` keeps the directory then, and the environment before.
- FakeService: a signal in one of two gaps reaches no program (`missed`), and a
  restart whose start finds the old supervisor starts nothing (`refused`).

## 4. What is proved

All theorems hold for every value of the constants that the modules' named
assumptions allow: bounds are naturals, stored spools are spools, `None` is none of the
other values, spools are finitely many, a package has parts, options are pairs of
strings, memories are shorter than 2^16 bytes. TLC evaluates them on every run.

**`SpoolLinkProofs`: `TypeCorrect`, `NothingInvented`.** Neither is inductive: whether
a link that a coroutine makes was asked for depends on what it read before. The
invariant `IInv` adds for every coroutine `GoodTask`: the record is well typed for
its label (`Control`: a coroutine about to bind has a spool, one unbinding has some
left to do, one moving a tag has a holder), and everything it has read was asked
for when it was read (`Known`: the cards of its snapshots, and its call), which
stays true because `asked` only grows. One lemma per group of actions shows that
the coroutine's next record is good, one per variable that a step keeps
`OnlyAskedFor`.

**`SpoolLinkProofs`: `NativeImplementsCardLinks`.** With native tags each step
maps to `Begin`, `Link`, `Unlink`, `End` of `CardLinks` or to a stutter. The argument
needs from `IInv` that a coroutine that unbinds or moves a tag takes it from a spool
other than the one assigned. With `card_uids` it is false when calls overlap
(`lost_update`), hence the hypothesis `Native`.

**`SpoolLinkProofs`: one call at a time.** With `card_uids` a coroutine writes whole lists
back, and with either store it acts on listings it read some requests ago; the next
four theorems hold when nothing runs between, under `OneAtATime` (there is one coroutine).
That is the case the runs `native_faults` and `card_uids` check, and the most the code
can promise: `lost_update` and `clear_race` show what overlapping calls do. The hypothesis
bounds neither cards, spools, calls, retries nor failures.

- `OneCallImplementsCardLinks`: `Fresh`, what a coroutine has read and not used yet is what
  the server holds but for its own card, so that a list written back changes that card.
- `BystandersAreKept`: with `Fresh`, or with native tags without it, a step leaves the
  links of every other card alone. `lost_update` is the same property without either.
- `OneCallClears`: `ClearInv`, an unlink on its way has a list of the spools that still hold
  the card, and a later call for a cleared card is a scan that finds nothing.
- `OneCallBinds`, `OneCallCaches`: `SureInv`, which says at each place of a call that met no
  fault what is linked and cached already. It rests on the two before.

**`SpoolLinkProofs`: `NativeOneSpoolPerCard`.** With native tags, for overlapping calls and
any failures: a tag is given only to a spool that finds no holder. The configuration
`archived` shows that `card_uids` has no such guarantee.

**`ActiveSpoolProofs`: `TypeCorrect`, `BeliefIsRight`, `QuietIsInSync`.** `IInv` says that
the last event under way carries Moonraker's active spool, that with none under way
what is remembered agrees or is unknown, and that a connected component with no
sync pending, no event and no failed call remembers the spool it wants.

**`TagMigrationProofs`: `TypeCorrect`, `MigrationLosesNoLink`, `MigrationPlacesCards`.**
`RunInv`: while the script works on a spool its field still is what the listing says,
and a card that is about to leave one store is in the other, or stays. `PlaceInv`, for
`EveryCardOnItsSpool`: towards native the tags are the listing's and those of untagged
cards whose spool has been looked at, towards the fields the fields of the spools done
are what the listing makes of them; with nothing left in place that is every card. The
script counts the spools of a card, so spools must be finitely many.

**`TimelapseProofs`: `ActiveIsKept`.** Under `~Early`, as in the run: `IInv` says that only
the agent has the active instance in hand, that its state is empty only under the photo
being taken or where a kill fell, that the sweep's listing never contains it, and that no
worker runs before the listing is made. Hence no other thread's step touches it.

**`TimelapseProofs`: `TypesHold`, `CatalogueIsTrue`, `NobodyIsStranded`, `FinishedIsKept`.**
None is inductive: the index is emptied and rewritten from a list a thread carries,
so what it "lists" includes what the writer is about to put back (`Lists`). `CInv` is `IInv`
and two parts more. `Form` holds always: a thread has an instance exactly at the places
where it works on one (`Held`), a timelapse's own thread works on no other (`Own`), what is
not there is empty (`Born`). `Safe` holds until a rewrite is lost: one thread at a time has
the index open (`Writes`), and of every instance nobody asked to delete one thread at most
has it in hand and has brought it as far as its place says (`Alone`, `Route`), its state
says what it holds and whether it is listed, in the sweep's old copy too (`Entered`), and a
directory is active, finished, on the sweep's list, in somebody's hand, or one of those
whose state a kill left empty (`Found`; `cut`). The last is `NothingStranded` before
everybody is done; `FinishedKept` follows because `Route`
keeps everyone who removes, reopens or regenerates away from what is finished.

**`FirmwareConfigProofs`: `InstallerGetsItsOwn`, `UploadsLeaveNothing`.** `Crowds`: two
uploads under way, each until its installer has ended, are both in `crowd`, so a thread
outside it is alone. `Held`: where an installer can be while its request is where it is.
`Mine` follows an upload that is alone: it finds no file when it opens, then the path is
its own file, the halves received are its own (`Received`), and the installer has nothing
but its own firmware in the file, or in the shared directory, at each of its places
(`Taken`). `Kept`: a file at the path belongs to an upload that has opened one and
not ended, or has been left (by an ended connection, a power cut, or an installer that
outlived its request). Settings take no part; `Kinds` keeps the two
apart. The exceptions are those of the properties: an overlap up to the end of the
installer, a connection that ended early, and the two ways in which a file is left.

**`FirmwareConfigProofs`: `FileStaysReadable`, `SettingsAreShown`.** Being readable is not
preserved by the edits: they find a section by other rules than configparser does (it
ends at a blank line for them, at the next header for the reader), switch a paragraph
whatever it holds, and add a key that stands behind a blank line a second time. What is
preserved is `LaidOut`: sections have names of their own, the keys of each are distinct
and come before its first blank line, and the section of Spoolman, if any, is one
paragraph of keys in one condition, apart from other sections. `SetValueKeeps`,
`CommentKeeps` and `UncommentKeeps` show for every such file that an edit leaves one, that
the key reads as it was set, and that no other key reads differently (`OthersRead`); they
need neither bounds nor the files of the run. `EditDoes` turns them into what a command of
a script does to what the page shows. `Sound` then follows the threads while no edits
overlap: one writer at a time (`OneWriter`), one script of a setting at a time (`OneEach`),
and of the file, or while it is emptied of the one that was read for it (`Version`), that
it is laid out, shows what is expected, and has what the scripts under way have done
(`Ready`: Spoolman is not commented out when its key is added, else it would be there
twice). The hypothesis is `Start`: the printer starts with a file that is laid out. The
delivered file and the other two of the run are, which TLC evaluates (`HypothesisHolds`).
The metrics setting may be offered and shown; from its first use the properties say
nothing more (`metered`), as with it both would be false: the configuration
`metrics_toggle` shows it for the file.

**`ExtendedPkgProofs`: `TypeCorrect`, `WhatIsInstalledIsWhole`, `FailedUpgradeKeepsOld`,
`SuccessDelivers`.** The invariant says who may overlap (`Overlaps`), what a call that
runs alone has staged at each of its steps (`Courses`, `Progress`), that without `hurt`
every directory outside a removal is whole (`WholeDirs`), that pip run alone completes the
environment for the pinned version (`Progress`), and that until it removes anything an
upgrade has left what it found, but for the environment once its hook has begun
(`Untouched`, `Kept`). `FailedUpgradeKeepsOld` is of the step that ends the cleanup.

**`FakeServiceProofs`: `TypeCorrect`, `NoChildLeft`, `SignalsHandedOn`, `StartsServe`.**
`SignalInv` relates `received`, `told` and `missed` to the supervisor's place and the
child's; `StartInv` follows a command of the init script to its end: with the device and
the setting a start finds or makes a supervisor, without them, or at a stop, what is left
has been told.

**`FilamentNdefProofs`: `StaysInsideAlways`, `TurnsMoveOn`.** For every memory, and not
only for cards as written: the offsets stay inside, and each turn advances its offset
or leaves its loop, so the parser cannot circle. That it returns needs an induction
that is left to TLC (`Returns`).

**`FilamentNdefProofs`: `FindsWhatIsWritten`, `FirstIsTaken`.** For every set of cards
that are laid out as NDEF (`LaidOut`: offsets of blocks and records, each followed by
the next as its bytes say), and every memory that agrees with such a card up to
`place` and is cut there or goes on with any bytes whatever. An induction over the
card is out of reach, so the invariant `Tracks` does it turn by turn: the reader stands at an offset of the card and has found exactly
the records that end before it (`Follows`, `Read`), or it has passed the place, and then
it has found what it owes (`Found`) and in a memory cut short will leave every loop.
`Sequenced` carries that the first usable record exists once one was found. The parser
may withhold a record that it has read only where it refuses the card, at a record whose
id length lies behind its message, and not before the place (`RefusedAtId`); that it
finds nothing is no excuse, and a whole card is never refused. The cards
have the UID's twelve bytes without an E1 among them, or none, and types as `Ascii` reads
them. `MCFilamentNdef` states as an assumption that each of its inputs is laid out so,
with the offsets its writer recorded, and TLC evaluates it.

## 5. What is only model-checked, and what is left out

Only model-checked:

- Liveness (`CallsEnd`, `Converges`, `StoppedIsShown`, `UploadsEnd`, `StopsWhenTold`,
  `FailedIsRestarted`, `Returns`): TLAPS does not reason about `ENABLED`.
- `FileReads`, `SettingsHold` for files that are not laid out, of which there are readable
  ones: the edits may make such a file unreadable.

Left out, or abstracted:

- SpoolLink: the filament data of a spool, its wording and colours; parsing of UIDs
  and of versions; the creation of Spoolman's custom fields; `force_generic_vendor`. The
  answer of a Spoolman older than 0.27.0 to `?tag=` is taken as none found; if it
  ignores the parameter, an unreachable `GET /info` leads to wrong matches, and the
  repository does not say. The cache directory is taken as configured and writable,
  its files as written whole. The snapshot of `subscribe_objects` is taken to come
  before later differences. A failed `set_active_spool` is in `ActiveSpool` as a fault
  after which `SettledInSync` asks nothing. Listings beyond 1000 spools.
- Timelapse: monitoring and object detection, which keep one overwritten picture;
  `publish_dir`, which the init script does not set; two starts in one second; the
  shared `.tmp` name of snapshots; a disk that is full between the emptying and the
  writing of a file; a `config.json` cut in its
  writing, which is in a directory without a state that the sweep deletes unread.
- FirmwareConfig: actions, the upgrade from a URL, links and pages; the other settings'
  scripts. A thread takes no new request while the installer of its last one runs. `ExtendedConfig`: `update` and `has`, used on other files; a key behind a blank
  line, which the code adds a second time, is in the model and does not occur in the
  files of the run.
- ExtendedPkg: what is in the virtual environment beyond the version it is complete for,
  and the optional package at the end of the hook, whose failure is not looked at; the
  unpacking directory of zip archives; the order in which a removal takes files.
- FakeService: logging, grandchildren that hold the pipe, reuse of process ids.
- FilamentNdef: bytes of the UID that look like a container, null blocks, the parsing
  of JSON (`GoodPayload`); a result of the wrong shape, which the caller cannot unpack,
  is the code "raises".
- The components marked not modelled in `PROJECT.json`, each with its reason: they are
  planned, or packaging, one-shot tools and I/O with no state to check.

## 6. Plan

Done: the modules of section 2 and their proofs. Next, in this order; each with its
instance, its properties and, where it is short, its proofs:

1. `Recovery`: `S49extended-config` over reboots and power losses: a recovery asked for
   happens once and wholly.
2. `MultiAce`: bind mounts, configuration link and marker with a failure at every step.
3. `FilamentDetect`: the set endpoint, the reader and `print_task_config`; then a
   composition with `SpoolLink` and `ActiveSpool` through `print_task_config`.
4. AFC-lite's lane map; the purifier as far as its patch shows it.
5. Proofs: an abstract specification of an atomic install that `ExtendedPkg` implements
   for one caller.
