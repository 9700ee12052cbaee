# Verification of daz-python-bridge

TLA+ models, TLC runs and TLAPS proofs for daz-python-bridge: a DAZ Studio
plugin (C++/Qt) that starts a local Python daemon, installs Python plugins from
zip archives, and lets scripts call the functions of those plugins. The daemon
keeps one warm worker process per plugin.

## The system

### Daemon side (Python)

| Component | State | Operations | Interacts with |
|---|---|---|---|
| `WorkerManager` (`daemon/worker_manager.py`) | `_workers`, `_states`, `_stop_event`; per worker: process, `lock`, `last_used` | `call`, `start`, `stop`, `restart_failed`, `shutdown`, the eviction thread | worker processes over stdin/stdout; called by the registry from a pool of request threads |
| worker runtime (`daemon/worker_runtime.py`) | the process: loading, serving, gone | import of `main.py`, ready line, request loop | its manager |
| `PluginRegistry` (`daemon/plugin_registry.py`) | on disk: plugin directory, `install_status.json`, `disabled` | `status`, `start`, `stop`, `restart`, `enable`, `disable`, `call` | `WorkerManager`, the installer's files |
| routes (`daemon/app.py`) | none | maps results and exceptions to responses | registry, inline runner |
| inline runner (`inline_runner.py`, `inline_runtime.py`) | one process per `/run` | run a snippet with a timeout | routes |
| authentication (`auth.py`) | the token, read once | compare | token file written by the C++ side |

### DAZ Studio side (C++)

| Component | State | Operations | Interacts with |
|---|---|---|---|
| `ZipInstaller` | staging and plugin directories | `extractToStaging`, `commit`, `install` | miniz, file system |
| miniz (vendored): archive reader, inflater, CRC-32 | central directory and its sorted index; decoder state, window, bit buffer | open, find the end record, index, stat, extract, inflate | `ZipInstaller` through a write callback |
| `PluginInstaller` | the staged install | `install`, `onStopReplyFinished`, `commitAndResolveDeps` | daemon (`/stop`), dependency installer |
| `PluginDependencyInstaller` | stage of the uv pipeline | create venv, install, write `install_status.json` | `uv` processes |
| `UvBootstrapper` | stage | install uv, Python, venv, requirements | `uv` processes |
| `DaemonProcess` | the `QProcess`, partial output lines | `start`, `stop`, `onFinished`, `emitBufferedLines` | daemon |
| `DaemonHealthMonitor` | last known health, request in flight | `poll`, `onReplyFinished` | daemon |
| `PluginStatusManager`, pane | table, selection, requests in flight, label, console, log | refresh, actions, run | daemon, all of the above |
| `InlineRunner`, `JsonStd` | the request in flight | `execute`, JSON reading and writing | daemon (`/run`) |
| `AuthenticationService`, `SecureRandom` | token file | `loadOrGenerateToken`, `saveToken`, `generateBytes` | `auth.py` |

### What is hard

The daemon runs every request on a thread of its own and releases its lock
around every wait, so a decision (the plugin is not FAILED, this worker is
alive, this worker is idle) is regularly stale when it is used. Replies are
matched to requests by their position in a pipe only. Timeouts abandon a reader
thread and a process that both go on. On the C++ side the same holds between
two Qt slots: requests in flight overlap with user actions, and external
processes fail to start, fail, or never end; a crash of DAZ Studio leaves
directories, a token file and a daemon on the port to the next session. An
archive is untrusted: its fields may contradict each other, and the limits have
to hold for what really comes out of the decoder, which can be suspended at any
byte. The `hazards` of `PROJECT.json` list each of these at its line.

### What makes each component correct

* `WorkerManager`: a call returns its own reply or an error, never another
  call's and never another plugin's; the map never offers a worker that is being
  terminated; every call returns; a plugin is FAILED until a restart; a stopped
  worker dies and an idle one is evicted.
* registry: a disabled or resolving plugin runs no code; the reported state
  agrees with disk and manager; every request is answered.
* installers: the plugin directory is always the old version or the new one;
  every install ends with exactly one result and leaves nothing behind.
* extraction: limits hold for what is written, not for what the archive
  declares; nothing is written outside the staging directory; what is staged is
  the content of the archive; every way out closes and removes what it must.
* inflater: the output is the one the format defines wherever it was suspended,
  it stays in its buffers, takes no byte beyond the stream and ends.
* daemon lifecycle: any daemon on the port accepts the pane's token; health,
  death and the end of a bootstrap reach the label.
* status table: it never goes back in time, catches up with every change, and
  the selection stays on its plugin.
* inline runner and log: what runs is what was typed, what is shown as a result
  is the result as far as its digits go, no complete line of output is lost however
  it arrives, and a click ends unless the daemon hangs.

## Modules

* `WorkerManager.tla` - the manager, its threads, the worker processes and the
  readers of their pipes, with the properties. `MCWorkerManager.tla`: which
  operations each thread serves, and how many. `WorkerManagerProofs.tla`: theorems;
  `WorkerRepliesProofs.tla`: those about which call gets which reply.
* `PluginRegistry.tla` - the registry and the plugin routes, composed with
  `WorkerManager` (EXTENDS: one state, the manager's operations begin only
  through the registry), and what the installer does to the same directories.
  `MCPluginRegistry.tla`, `PluginRegistryProofs.tla`.
* `PluginSlot.tla` - abstract specification of overwrite-by-id.
  `PluginInstall.tla` - `PluginInstaller`, `ZipInstaller::commit`/`::install` and
  `PluginDependencyInstaller`, which implement it. `MCPluginInstall.tla`,
  `PluginInstallProofs.tla`.
* `DaemonLifecycle.tla` - bootstrapper, authentication, daemon process, health
  monitor and status label over several sessions. `MCDaemonLifecycle.tla`,
  `DaemonLifecycleProofs.tla`.
* `StatusPane.tla` - status manager, table, selection, action buttons.
  `MCStatusPane.tla`, `StatusPaneProofs.tla`.
* `JsonStd.tla`, `InlineRunner.tla`, `LogLines.tla` - text: JSON, one `/run` from
  the editor to the console, the daemon's output cut into lines. `MCText.tla`
  composes the last two.
* `ZipReader.tla` - miniz's archive reader; `ZipExtract.tla` -
  `extractToStaging` over it (EXTENDS). `MCZip.tla`: the archives.
  `ZipExtractProofs.tla`: theorems about both.
* `Inflate.tla` - the DEFLATE decoder; `Crc32.tla` - the checksum; `Bits.tla` - the
  shifts both use; `InflateCallers.tla` - the loops that drive the decoder (EXTENDS
  `Inflate`). `MCInflate.tla`: an encoder, written independently of the decoder, and the
  streams. `InflateProofs.tla`: theorems about the decoder, its callers and the checksum.

An operator that differs from the code like a plausible bug stands before some
definitions (`\* mutant`): a property that still held with it in place of the
definition would say nothing about that code.

### How `WorkerManager.tla` corresponds to the code

A **process** is one of `MaxProcs` slots with `life`, the plugin it was spawned
for (`home`), a queue of requests (`stdin`), a flag for the daemon's end of it
(`stdinOpen`) and a queue of lines (`stdout`). A request is tagged with thread,
request number, attempt and plugin in place of function and arguments: the
properties only ask whose reply it is. The slot of a dead process is used again
once nothing refers to it, the lowest free slot first.

A **thread** has a label `pc`, the operation, its plugin, the attempt of
`_with_crash_retry`, the worker in its local variable (`held`) and the line its
current `_recv` got. One action is one section that other threads cannot see
half way: a `with self._structural_lock` block, a send under `worker.lock`, the
hand-over of one line. Hence `_ensure_worker` is `EnsureReuse` or `EnsureSpawn`,
then `ReadyReceived` or `ReadyTimeout`, then `SetRunning` or `PopFailedStart`;
`_call_once` is `CallSend`, then `ReplyReceived` or `ReplyTimeout`; the crash
branch is `HandleCrash`, and `SetFailed` is a section of its own as it is in the
code. `stop()` is `StopPop`, `TerminateClose`, `TerminateKill`, for request
threads, `shutdown()` and the eviction thread alike.

The **readers**: `_recv` starts a thread that calls `readline()`. Python's text
stream admits one at a time, so `holder` is the reader inside, `readers` those
waiting, `strays` those whose `_recv` has timed out; which one gets the stream
next is open. What a stray reads is lost.

`ReplyReceived` follows the code's order: text that is not JSON is an exception
that is no crash; end of file or an exited process is a crash even if a reply
was read; any other line is the reply whatever its id. A write to a closed stdin
raises `ValueError` (HTTP 500); a write to a dead process is a crash. `CallSend` always
completes: requests are taken to fit the pipe. With one that does not, `_send`
(`worker_manager.py:182`, 236-237) would wait without a timeout, and with it the lock, for
a hung worker to read.

Time: a timeout may happen at any moment its reader has returned nothing. `Age`
says that more than `idle_timeout` has passed since `last_used`; it cannot
happen while the ready line is awaited (600 s against 15 s). A busy worker can
age, as in the code.

External: `RuntimeCrash` (a process dies), `Reclaim` (CPython frees a `Popen`
nothing refers to and closes its stdin), `Free` (slots), `Alive`, `Dies`.

### How `PluginRegistry.tla` corresponds to the code

`rpc` is the next step of the registry operation of a request thread; `present`,
`install` and `disabled` are the plugin's directory, its `install_status.json`
and its marker. Each file access is a step: `FindDir` (`_plugin_dir`),
`CheckMarker` (`start`, `restart`), `Enable`, `Disable` (`touch` raises if the
directory has just been moved away: 500). `Invoke` begins an operation of the
manager and `ManagerReturns` maps its outcome to a response or goes on: to
`start` in `restart()`, otherwise to the status. `status()` is five reads
(`StatusDir` to `StatusMarker`), the worker and its state separately because
`WorkerManager.status` takes no lock; the last one computes the reported state
(`Reported`), and for `call()` decides whether the call is admitted. `start()`
and `restart()` look at the marker only, so they also start a plugin that is
resolving. `list_plugins()` is a sequence of `status()`. `restart_failed()` and
`shutdown()` of the manager are not reached from the routes.

The installer seen from the daemon is `commit()` and `writeStatusFile()`: `MoveAside`,
then `MoveIn`, or `MoveInFails` and `Restore`, which puts the displaced directory back
with the marker and the status file it had, or fails; `OpenStatus` truncates the
status file (or cannot open it, and it stays), `WriteStatus` gives it its text; and
`StudioDies` between any two of them. `Archives` are the status files and markers that
archives ship, as `extractToStaging` strips nothing. A status file that does not
parse counts as absent, as in `_install_status`; one that is JSON but no object
(`no_object`) makes `status()` raise, a 500. A plugin that the installer has given a marker,
or given its marker back, while a `start()` was past its check of it, is disabled and
has a worker: nothing in the code prevents that, so the history variable `moved` says
where the installer has moved a directory in since `disable()` last touched the marker, and the
properties speak of the other markers.

### How `PluginInstall.tla` corresponds to the code

One plugin id. `final` is its directory: the version, whether its venv (inside
it, `DaemonPaths::pluginVenvDir`) exists and has the requirements, and its status
file. `Extract` gives it what the archive contains: `ShipsVenv` and `ShippedStatus` are the
versions whose archives bring a venv or an `install_status.json`; `recorded`, a history
variable, says that the status was written by `writeStatusFile` and not shipped.
`displaced` are the `<id>.old-<uuid>` directories, `staging` counts the
directories under `.staging`, `stage` is what the install does next. Every
rename, removal and start or end of uv is a step, and `Crash` (DAZ Studio dies)
can come between any two. `entry` tells `PluginInstaller::install`, which stops
the worker and overwrites, from `ZipInstaller::install`, which refuses an
existing id. `StopReplyFinished` needs no answer: an error counts as one, as in
`onStopReplyFinished`. The daemon starts a worker whenever the directory has a
venv, and stops it when the request arrives.

`FileLocks` is the platform: where it is TRUE (Windows), a directory whose
interpreter is running cannot be renamed. `UvStarts` and `StatusOpens` say
whether starting uv and opening the status file may fail.

The abstraction to `PluginSlot`: the installed version is the one under the id
or, if there is none, in the newest `.old-<uuid>` directory; the offered one is
the staged version until its rename.

### How `DaemonLifecycle.tla` corresponds to the code

One session is one pane: `OpenPane` is its constructor (token, first health
poll, `ensureReady`), `ClosePane` its destructor with `~DaemonProcess`, and
`StudioCrash` ends it without either, so that its daemon stays and keeps the
port. Everything the pane owns runs on the Qt main thread: a slot is an action
(`BootFinished` is the `finished()` of whichever bootstrap step runs, with the
start of the next one, or of the daemon). The state of the disk (`uv`, `venv`,
`deps`, `tokenFile`) outlives sessions; `uv` may be absent, good, or a file that
cannot be executed, which `installUv` takes for installed. A `QProcess` that
cannot start emits no `finished()`: `bootRuns` is then FALSE.

`LoadOrGenerateToken` covers a file that cannot be read, a token that is too
short, a random source that fails up to `MaxRetries` times and its fallback, a
file that cannot be opened, and a write that is lost; the pane ignores the
result, as in the code. `authFault` remembers that one of these happened. The
daemon reads the file when it boots. `label` is written by five slots in any
order. `DaemonProcess::stop` uses `m_process` after `onFinished` has cleared it;
whatever that does, the session ends there, which is all `StopDaemon` says.

### How `StatusPane.tla` corresponds to the code

`plugins` is what the daemon would report; `version` counts its changes, and
every list is dated with it. A list request and up to `MaxActions` action
requests are in flight, each on its own connection: the daemon applies them and
the replies arrive in any order. `Refresh` is dropped while `listInFlight`.
`OnPluginsUpdated` is the whole rebuild: rows, restored selection, buttons.
`SetRowCount` (external) is what Qt does to a current row that disappears. `OnActionReplyFinished` has
no table to change: the pane's handler of `actionFinished` is never connected (see Runs). The
five actions are reduced to the state they leave a plugin in (`PluginRegistry`
has them in full); `PluginChanges` and `Outage` are everything else that happens
to the daemon.

### How `JsonStd.tla`, `InlineRunner.tla` and `LogLines.tla` correspond to the code

Characters are numbers, and only those the code tells apart occur: a letter,
quote, backslash, the two line ends, a control character, and two characters outside
ASCII, one of which a Windows code page lacks. `JsonStd` is the escaping,
reading and writing of `JsonStd.h`. A number is `m * 10^e`; `PrintG` is `"%.15g"`, with
`Significant` digits for 15, and `ToLongLong` the conversion of integers to 64 bits,
with `LongMax` for 2^63 - 1.

A script is its text, what it does when it runs (`deed`: evaluates, prints besides,
raises, exits, kills its interpreter, prints late or prints what is no text, hangs,
leaves a child process that holds its output open) and its value. `InlineRunner` follows it
through `execute`, the request, the pipe, the interpreter with redirected output, the
envelope on the last line, the exit code, the reply and the console. `host` is the
machine: with `text=True` the script goes through the locale's encoding (what that does not
have is an error 500), and on Windows through two translations of line ends (`Piped`). A result
is read by the pane's parser (`Parsed`): SDK 4's makes every number a double of
`DoubleDigits` digits, SDK 6's keeps an integer that fits. `daemon` is up, down or hung, and
changes at any moment. The timeout of `subprocess.run` is an action (`TimesOut`) that races
`Completes`; on Windows it waits for the output to be closed, which a child left behind
does not do. `InlineRunner` itself sets no timeout on its request.

`LogLines` is `emitBufferedLines`: chunks that end anywhere, and a remainder kept for
the next. When the process ends (`OnFinished`) the remainder is not logged: the code
drops a last line without an end (`DaemonProcess.cpp:43-44`, 101-110).

Left out: NaN and infinities in a result, U+2028 and U+2029, which SDK 4's JavaScript
parser takes for line ends, and a script that prints an envelope of its own.

### How `ZipReader.tla` and `ZipExtract.tla` correspond to the code

An archive is a layout: where its records lie, and what their fields say, which
may contradict it. Record sizes and field widths are constants in the
proportions of the format, so that scan buffers, 16, 32 and 64 bit limits and
zip64 records are all met with small numbers. One action is one read: a buffer of the
backward scan, the end record with its checks, the central directory, one entry
of it, one comparison of the heap sort. `WellFormed` says when a layout is an archive
as the format has it; it looks at where things are, the code at what fields say.

`ZipExtract` is `extractToStaging`: checks of one entry (path, symbolic link,
sizes, ratio), directory or file, local header, the pieces handed to
`liveExtractWriteCallback`, size and CRC at the end, the manifest; every early
return removes the staging directory and the reader guard closes the archive. The removal
is taken to succeed (the code does not look at its result, `ZipInstaller.cpp:174`). The
entry count is compared as an `int` (`AsInt`). A write that Qt accepted counts as
done: the code does not look at the result of `QFile::close()`, so everything
said of the staged content is relative to that.

### How `Inflate.tla`, `InflateCallers.tla` and `Crc32.tla` correspond to the code

`tinfl_decompress` is a coroutine that returns wherever input or room for output
runs out and is resumed with its locals in the decompressor. One action is what
it does between two points where it may return; `r` is `tinfl_decompressor`, `pos` and
`outCur` are the pointers into the caller's buffers. The read-ahead, the two-level
tables (lookup and tree), the fast loop near and away from the ends of the
buffers, matches that wrap in the window, and the bytes put back at the end are
all there. The numbers of the format (bits of a byte, code lengths, alphabets, bases and
extra bits) are constants; `FormatAssumption` states the relations between them that the
code relies on, and DEFLATE's numbers satisfy it (two bytes hold a code: 15 <= 16; the
largest table sizes the header can say fit: 257 + 31 = 288, 1 + 31 = 32, 4 + 15 = 19).
`MaxLens` is the size of `m_len_codes`: with DEFLATE's numbers 288 + 32 + 137.

`InflateCallers` has the seven loops: the zip reader's `callback`, `iter` and
`mem`, `mz_inflate` (`zlib`), and tinfl's `heap`, `sink` and `once`. `Crc32` is the
byte-wise rule that generates the 256 constants of `s_crc_table`; at full width it
gives the standard check value (`CrcCheckValue`). `CallerAssumption`: streams and contents
are bytes, buffers are not empty, the declared size of an entry is that of the content its
checksum was taken of, the register is at least a byte wide and the polynomial has its
constant term. It says nothing of how stream and content belong together.

## Runs

`CHECK_DEADLOCK FALSE` stands wherever the bounded work may be finished; in `pane`
polling goes on for ever and deadlock is checked.

| Run | Instance | Shows |
|---|---|---|
| `wm_sequential` | 1 thread, all operations, 3 requests, 3 processes, 2 faults, unstartable interpreter | own replies; FAILED until a restart; state and map agree when idle |
| `wm_concurrent` | 2 threads (2 and 1 requests) that call and stop, 2 plugins, one noisy | the map offers only open workers of the plugin; strays only on dropped workers; no reply used twice; no live worker overwritten; no reply of another plugin, even with the stream out of step |
| `wm_eviction` | 1 thread, all operations, eviction active | idle workers are evicted, stopped ones die |
| `reg_sequential` | 1 thread, all routes, 2 requests, 2 processes that may hang, 1 that dies by itself, 1 install or reinstall whose renames may fail, from archives that ship nothing, a marker or a status file | a response agrees with the manager when the request is over; a plugin disabled by `disable()` has no worker; every request is answered, unless the process bound stops it |
| `pi_swap` | 2 versions, one of which ships a venv and an `ok`, both entry points, 4 installs, 2 crashes, everything may fail, files in use locked | refinement of `PluginSlot`; `ok` only with a complete venv unless it is the archive's own, success only with one; workers run the installed version |
| `pi_ends` | the same versions, no crash, uv starts, the status file opens, no locks | every install ends; none is left without a status of its own, and no staging directory |
| `life` | 3 sessions, 3 retries, every step and file access may fail | the token is accepted; health converges, death is noticed, the bootstrap settles |
| `pane` | 2 plugins, 2 changes, 2 actions in flight, outages | selection kept, table forward, table catches up |
| `text` | all texts of up to 3 of 8 characters as scripts, results of all shapes with 10 numbers, 9 kinds of scripts, 3 hosts, a daemon that goes away, hangs and comes back; output of up to 5 of 3 characters in every division | what runs is what was typed, honest results, no complete line lost, every run ends |
| `zip` | archives with comments, prefixes, zip64, duplicate names, contradictory fields, entries at and beyond each limit | well-formed archives open; accepted directories are consistent and searchable; limits, paths, content; clean ends |
| `inflate` | 9 archives of stored, fixed and dynamic blocks, with and without data behind them, 7 callers, read sizes 1, 3, 64, failing reads and sinks, every byte flipped and every truncation | exact output, pointers inside buffers, no byte too many, damage noticed, every extraction ends |

Bounds. `MaxProcs` (processes at one time), `MaxRequests` (for each thread),
`MaxFaults` (processes that die by themselves; timeouts are not limited, they
count towards the same number). Two requests per thread are enough for a reply
of the first to be taken by the second; two threads for every pairwise race of
sections; two faults for FAILED. `MaxRouted` bounds HTTP requests per thread; the
manager's own bound is at least twice that (`ManagerServesAll`), so it never stops
a request. The two processes of `reg_sequential` are all that a first request can spawn,
so it is always answered; the timeouts, which are not limited, give the second failed attempt
that a 502 needs. `MaxInstalls` and `MaxCrashes`: four installs allow a failed restore, a
crash between the renames and a reinstall over what they left. `MaxSessions`: three,
so that a session meets a daemon, a token and a uv that two earlier ones left in
different states. `MaxVersion` and `MaxActions`: two of each give every order of two
actions, their replies and a list taken before, between or after; the buttons
clicked are start and disable, the other transitions come as `PluginChanges`.

The `zip` run scales the format: end record 4, directory header 4, local header 3,
scan buffer 16 with signatures of 3, field limits 40, 63 and 255, `int` up to 31; limits
of 3 entries, 4 bytes each, 8 in total, ratio 3, pieces of up to 2 bytes. The
`text` run scales numbers: 2 significant digits for 15, doubles of 3 digits for 17, 16 bit
integers for 64, so that numbers that are printed exactly, rounded, with an exponent,
and integers just out of reach occur; its hosts are a UTF-8 one and a Windows code page
without one of the characters, with either SDK. A script is not edited between two
clicks. The
`inflate` run has bytes of 2 bits, codes of at most 4 bits over a first-level
table of 2, 8 literal and length symbols, a window of 8, a CRC of 4 bits, so that
every code path (tree nodes, wrap-around, the fast loop and its borders, every
repeat code) occurs within a few bytes. Damaged streams are left out for `heap`,
`sink` and `once`: they have no declared size to stop them (below).

One run shows a disagreement (expected violation): `wm_orphan_worker`, against "at most
one live worker subprocess" (`worker_manager.py:3`): a ready line does not come in time,
its handler takes the worker out of the map without ending it (`worker_manager.py:219-222`), and
the retry spawns another. A call that times out (184) leaves a live process in the same way.

Further disagreements the same models show, with the formula and the instance
that shows each:

* a timeout is handled as a crash while the worker lives, against "only the
  worker process actually dying counts as a crash" (`worker_runtime.py:19`): no
  live `held[t]` at the label `crash`, two calls;
* `success:false` is a plugin's own failure (`app.py:143`): the ready line is read
  as a reply, with two threads;
* prints do not corrupt the stream (`worker_runtime.py:23`): an import that prints
  shifts all replies; `OwnReply` with a noisy plugin;
* a thread that passed the FAILED check before it was set overwrites FAILED
  (`worker_manager.py:203`), against `worker_manager.py:17`: `FailedUntilRestart`
  with two threads;
* disabling "also stops its worker" (`DzPythonBridgePane.cpp:130`): a call admitted
  before spawns a worker after; `DisabledHasNoWorker` with two threads;
* with two threads a status may mix moments: another request runs between its five
  unlocked reads, and what it reports may never have been so at one time; `AnswerAgrees` with
  two threads;
* where the installer puts a directory with a marker in place while `start()` is past
  its check (a restore after a failed rename, `ZipInstaller.cpp:322`, or an archive that ships
  one), the plugin is disabled and has a worker: `DisabledHasNoWorker` without `~moved`, one
  thread;
* an archive may ship an `install_status.json` that says "ok" (`extractToStaging` keeps
  it, `ZipInstaller.cpp:233-266`): the plugin is ready before its venv is, and stays so
  if DAZ Studio dies; `ReadyMeansComplete` without its second alternative;
* a failed install hides the `disabled` marker (`plugin_registry.py:100`), so a
  disabled plugin can be called, against `plugin_registry.py:45`: no thread at
  `in_call` with a disabled target, `InstallOutcomes = {"failed"}`;
* where directories in use can be renamed, a worker started between the stop and
  the first rename runs the old code after a reinstall, against
  `.beads/issues.jsonl:18`: `WorkerRunsInstalled` without its first conjunct;
* "Atomically swaps" (`ZipInstaller.h:89`): between the two renames there is no
  directory; `[][Present => Present']_vars`;
* "Absence of this file means installation is still in flight"
  (`plugin_registry.py:7`): `NothingLeftBehind` with a crash;
* "must not leak staging directories" (`ZipInstaller.h:59`):
  `ZipInstaller::install` after a failed `commit()`; `NothingLeftBehind` with
  `Entries = {"zip"}`;
* `finished()` "exactly once per install() call" (`PluginInstaller.h:58`): a uv that
  cannot be started is followed by nothing; `InstallFinishes` with
  `UvStarts = {TRUE, FALSE}`;
* "a hung-but-still-running daemon can be told apart from a crashed one"
  (`DaemonProcess.h:9`): a health request has no timeout
  (`DaemonHealthMonitor.cpp:26`), so a daemon that hangs leaves `isUp` as it was;
  `DeathNoticed` with "hung" counted as gone;
* the label makes it obvious whether the daemon is up (`DzPythonBridgePane.h:89`):
  bootstrap, start and crash signals overwrite it while `isUp`, and no later reply
  is a transition; `open /\ isUp ~> label = "running"`;
* a refresh follows an action promptly (`PluginStatusManager.h:54`): it is dropped
  while an older one is in flight (`PluginStatusManager.cpp:51`), and the change
  shows with the next poll;
* the scan for the end record gives up only after about 64 KiB (`miniz.c:3666`): the
  step back is an unsigned maximum (`miniz.c:3670`), so an archive shorter than two buffers
  with a comment longer than one is rejected; `SoundArchiveOpens` without
  `ScanReaches`;
* `resultJson` is "raw JSON text" (`InlineRunner.h:29`): a string result is passed on
  as its text (`InlineRunner.cpp:17`), and numbers are read and written anew: SDK 4 makes
  each a double, and `"%.15g"` (`JsonStd.h:80-84`) drops the 16th and 17th digit, so a
  result need not read back as its value; `ResultHonest` with `x = d` for `IsNear`;
* a script runs with a timeout (`inline_runner.py:28`), but the request has none
  (`InlineRunner.cpp:49-52`): a daemon that hangs leaves the Execute button disabled for
  as long as it hangs, and on Windows a script that times out leaving a child
  behind leaves it disabled until the child ends; `RunEnds` without its antecedent or
  its exception;
* the daemon's output is logged line by line, but a last line without an end is
  not logged when the process ends
  (`DaemonProcess.cpp:101-110`): `~process => buffer = <<>>`;
* a comment explains which spelling makes the connection to `actionFinished` match
  (`DzPythonBridgePane.cpp:233-237`), but the slot's arguments are spelled otherwise than the
  signal's (238-239), which Qt refuses, so `onActionFinished` never runs. That is how
  `StatusPane` has it; no run shows it.

A note on the inflater: a one-symbol code is accepted, and the bit pattern that is
not in it decodes to a symbol that takes no bits. Such a stream yields output for
no input; only the declared size stops it, which the zip reader's loops have.

## Fairness

`FairSpec` of `WorkerManager` has weak fairness for each request thread, the
eviction thread and the readers: the interpreter schedules every runnable
thread, and timed waits end. Plugin processes get none: they may hang for ever,
which is what the timeouts are for. `RegistryFairSpec` asks less: while one of the daemon's
threads can run, in the registry or in the manager, one of them does; the installer may
stop half way. `FairSpec` of `PluginInstall` is weak fairness
of the installer: Qt's event loop delivers its slots, the stop request ends in a
reply or an error, and a uv that was started ends. `DaemonLifecycle`: the event
loop delivers timers and signals, uv processes end, a booting daemon gets
somewhere, and a request that can be answered is; nothing is assumed of users,
crashes and hangs, and a hung daemon answers nothing. `StatusPane`: the timer, the
answer to a list request (a list or an error) and its delivery. `InlineRunner`: a
daemon that is up takes a request and waits for the interpreter, at most until the
timeout, which is an action that may come at any moment and must come for a script that
does not end; a reply that has arrived is handled. Nothing is assumed of the daemon: it may go
away, hang and come back. That it does not hang for ever is the antecedent of `RunEnds`,
since a request without a timeout cannot end otherwise.
`ZipExtract` and `InflateCallers` are sequential code: weak fairness of the next step.

## Proofs

`WorkerManagerProofs.tla` proves, for every number of plugins, threads,
processes, requests and faults, from `SentinelAssumption` (the special values
are distinct), `BoundAssumption` and `OpsAssumption`:

* `TypeCorrect`: `Spec => []TypeOK`. `TypeOK` is not inductive: `held[t]` may be
  `NoProc`. `TInv` adds `LocalsOK`: at the labels between the lookup and the
  crash handler a thread has a process and a plugin.
* `MapSound`, `LockSound`, `StraysDropped`, `OwnershipHolds`, `Isolation`: the
  safety of two concurrent threads (`wm_concurrent`), for any number of them,
  from one inductive invariant `SInv`. They need each other: the map offers open workers because a
  worker being closed is unmapped (`ClosingUnmapped`); a reply belongs to the
  caller's plugin because its reader is on the worker it holds (`ReadersWait`),
  that worker is of its plugin (`HeldHome`), and the pipes carry only that
  plugin's traffic (`PipesHome`, `GotHome`).

* `NotReplaced`: `Spec => LiveWorkerNotReplaced`, an action property, from `TInv`.
* `FailedStays`: with one request thread (`Threads = {w}`), `Spec => FailedUntilRestart`.
  `NotFailed` says that a thread past the check of `_with_crash_retry` serves a plugin
  that is not FAILED; with a second thread this is what breaks.
* `QuiescentAlone`: with one request thread and no eviction, `[]QuiescentAgreement`,
  from `QInv`: at every label the reported state and the map differ exactly by
  what the request is about to do.

`WorkerRepliesProofs.tla`, from the same assumptions:

* `RepliesOnce`: `Spec => []NoReplyTwice`, for any number of threads. Nothing in the
  manager compares ids, so the proof follows each request: `RInv` says that it is in
  one place only (a stdin, a stdout, a reader, a returned value), that what is
  anywhere was issued, and that a returned one is in no pipe.
* `OwnReplyAlone`: with one request thread beside the eviction thread, and plugins
  that are silent while imported, `[]OwnReply`. `OInv` adds that pipes of a worker the
  map offers are empty between calls.

The hypotheses of these theorems are those under which the property is true; what
happens without them is in the list of disagreements under Runs.

`PluginRegistryProofs.tla`, additionally from `RegistryAssumption` and
`ManagerServesAll`:

* `RegistryTypes`: types of files, locals and responses.
* `ImplementsManager`: `RegistrySpec => Spec`. Every step of the daemon is a step
  of `WorkerManager` or leaves its state alone, so the manager's theorems carry
  over; `DaemonIsolation` and `DaemonMapSound` are two of them, for the daemon.
* `DisabledAlone`: with one request thread and no status file that says "failed"
  (`NoInstallFails`: such a status hides the marker from `call()`),
  `[]DisabledHasNoWorker`, whatever else archives ship, whichever renames fail and whatever is
  restored. `DInv` says what `disable()` has done at each of its steps, and that a worker is
  only started by a call that has seen no marker, or one that the installer has moved in
  or back since.
* `AnswersAlone`: with one request thread, no eviction, silent imports and the same
  `NoInstallFails`, `[]AnswerAgrees`, additionally from `NoneIsNoState`. `AInv` relates what
  `status()` has collected by each of its five reads to what is still so.

`PluginInstallProofs.tla`, from `InstallAssumption`, for all versions, any number
of installs and crashes, with or without file locks:

* `InstallTypes`, `OkIsComplete`, `LocksKeepWorkerCurrent`: from the inductive
  invariant `InstallInv`. `ReadyMeansComplete` alone is not inductive: a restore
  brings back a displaced directory, so `AllComplete` speaks of those too, and
  `StageInv` says that in a directory being resolved the status file is the archive's or
  none (`Fresh`; otherwise one that cannot be opened would leave an older "ok" of the
  installer behind) and that it has its venv once the requirements are installed.
* `ImplementsSlot`: `Spec => Slot!SlotSpec`. The swap maps to `Accept` at the second
  rename; moving aside stutters because the newest displaced directory is the
  one moved, and restoring stutters because `StageInv` keeps it there.
* `StagingAccounted`: of `PluginInstaller`, an idle one has left at most as many staging
  directories as DAZ Studio died in. `StagingInv` counts the one in use at each stage.
* `EndedIsRecorded`: without crashes, with a status file that can be written and
  installs through `PluginInstaller` only, `[]NothingLeftBehind`, from `RecordedInv`: the
  status there is written by the installer, not merely kept from the archive.

`DaemonLifecycleProofs.tla`, from `SessionsAssumption` and `RetriesAssumption`, for any
number of sessions:

* `LifecycleTypes`: `TypeOK`.
* `TokenAccepted`: `RequestsAccepted`. It needs that the token is the same in the
  pane, the file and every daemon that has read it, and that the file has it
  before the first daemon boots (`TokenInv`); and that the daemons of later sessions
  do not exist yet (`SessionOK`), so that a booting daemon belongs to a session
  whose token was saved.
* `LabelIsHonest`: the label says "running" only after a successful health reply,
  and a session whose bootstrap has not finished has launched no daemon.

`StatusPaneProofs.tla`, for any plugins, changes and actions in flight:

* `TableNeverGoesBack`: `Spec => TableForward`. A reply that is not older than the
  table is not inductive alone: with two requests in flight the older answer could
  come last. `PaneInv` adds that `listInFlight` holds exactly while there is a request
  (`OneInFlight`), hence one at most, and dates it between table and daemon (`Dated`).
* `SelectionStays`: `Spec => SelectionKept`, from what `RestoredRow` selects
  (`RestoresSelection`); `ButtonsMatch`: the buttons follow the selection.

`ZipExtractProofs.tla`, for every archive, from `SizeAssumption`, `LayoutAssumption` (fields
are numbers; what they say is free) and `LimitAssumption` (a directory whose size fits
32 bits cannot hold more entries than an `int` counts: with the format's numbers,
46 * 2^31 > 2^32 - 1, so the conversion in `Count` is harmless):

* `StagedIsArchive`, `WritesStayInside`, `LimitsAlwaysHold`: `StagedIsTheArchive`,
  `StaysInside`, `LimitsHold`. The inductive invariant `Inv` has five parts: what the reader
  knows (`ReaderInv`), where `extractToStaging` is (`PlaceInv`), paths (`TreeInv`), content
  (`ContentInv`: the file being written belongs to the current entry, the others have
  been checked and are not overwritten by a later entry without being checked again)
  and counters (`CountersInv`). The sum over all files needs `SumInv`: a file that is
  truncated lowers the sum, the running total stays.
* `ReturnsClean`: whenever `extractToStaging` has returned, `NothingOpen`, the safety half
  of `EndsClean` (that it does return stays with TLC). `FileInv` says that the file is
  open exactly while the reader is, `WayInv` follows every way out.
* `AcceptedDirectorySound`: `DirectorySound`, from `DirInv`. `SpanInv` balances the bytes of
  the headers against what is left of the directory. `IndexInv` has the index through
  the heap sort: always a permutation, `HeapBut` (a heap but for the root that is
  sinking, whose parent is no smaller than its children), `TailSorted` behind it; at
  rest that gives the order, from which `SearchFinds` shows that the binary search, cut
  off after as many steps as there are names, finds a name exactly if it is there.
* `WellFormedOpens`: `SoundArchiveOpens`, from `OpenInv`. During the scan no end record
  lies behind what the next buffer holds (`ScanInv`: the overlap leaves no gap), and
  buffers are whole steps apart (`ScanPlace`), so a scan that is refused before the
  file's beginning has no end record in reach; of a well-formed archive, what is left
  of the directory is exactly the headers not indexed yet (`IndexedSoFar`), so no check
  fails.

`InflateProofs.tla`, from `FormatAssumption` and `CallerAssumption`: for every format that
keeps those relations, every stream, sound or damaged, and every way input and output are
cut into pieces:

* `InflateTypeCorrect`: `TypeOK`. Its inductive invariant `Inv` (theorem `InflateSafe`) has
  four parts. `CoInv` is the coroutine's: 25 lemmas, one for each of its steps, show that
  it is kept. Its hard clause is `Entering`, true while a table is being built: the nodes
  created so far stand for different prefixes, none of them a code (`Inner`), the first
  level and the slots point only to them (`Trie`), and the symbols still waiting have
  their codes free (`Waiting`). That the nodes fit is `TableFits`: what
  `CompleteCode` lets through is a complete code, whose inner nodes are fewer than
  its symbols, or a single code, whose one path is at most `MaxCode - FastBits` long; a walk
  down any table built so far therefore ends (`DecodeFacts`). `PointOK` has what holds at
  one point of the coroutine only, such as the counters a repeat of code lengths is
  bounded by. `CallerOK`, `WindowOK` and `GivenOK` are the callers': a window starts
  where the last one ended, and output that waits for `iter_read` lies between the offset
  and the end of the last window. `CopyOK` needs that: a match interrupted in a buffer
  that does not wrap goes on exactly where it stopped.
* `DamageIsNoticed`: `DamageNoticed`. `SumOK` follows the checksum: after each piece it is
  the one of everything handed on (`CrcPieces`), and "ok" is said only after it was
  compared. `ByteRule` shows that table entry and shift are `ByteBits` single steps of the
  register; `OneBack` that a step can be undone, the polynomial's top bit telling which bit
  left. So two contents that end with the same register (`BurstChanges`) agree backwards
  to the last changed byte, from there differ only in low bits, and at the first
  changed byte, where both registers are still the same, have the same byte.

The library's induction theorems take an operator, which the prover cannot instantiate.
Where these proofs need induction (sums of header sizes and file sizes, depth of a
path, the binary search) they take the least number, or a smallest set, for which the
claim fails; `LeastExists`, `RecursionExists` and `SmallestSet` make that available, and in
`InflateProofs` `LeastNumber`, `Reaches` and `RecursionHolds`.

Only model-checked: all liveness properties, which are out of the prover's reach;
`PluginInstall`'s and the registry's behaviour outside the hypotheses above, where the
properties are false; the properties of `text` (`JsonStd` has RECURSIVE operators, which
the prover cannot handle); and of `inflate`, `ExpandsExactly` and `ReadsNoFurther`: what a
decoder computes is stated against an encoder, defined by recursion over tokens in
`MCInflate`, and that the one undoes the other is an induction over data.

## Plan

Done: every component that has state of its own, and a theorem for every safety
property of the manager, the registry, the installer, the daemon's life, the pane and the
archive reader; of the inflater, its memory safety and what its checksum promises. Left:
that a valid stream expands to its content, as a theorem.

Not modelled: of miniz, the compressor, the zip writer, PNG output, Adler-32 and
the zlib header and trailer, which the program never calls; directory names
(`DaemonPaths`, `paths.py`), constants without state; the plugin entry point (SDK macros);
the operating system's random sources, Qt's widgets and layout, uvicorn and uv,
which appear only by what the code sees of them; build files and Qt patches.
