# A verification project for kuura

kuura is an Arch/KDE desktop distribution kept in one repository: the packages (a KWin
effect and a window decoration in C++, a welcome window in QML and shell), the design
tokens and their generators, the ISO and release scripts, and a test harness that boots
guests under QEMU, drives them and compares screenshots. The programs with the most
concurrency and failure handling are those of the harness; the rest is pipelines of
steps, pure functions and bookkeeping over signals.

The project states what must hold of these programs, checks it with TLC on small
instances and proves the most important parts with TLAPS for every value of the
constants. `PROJECT.json` ties every definition to the lines it models.

## The system's parts

| Part | State it keeps | Operations | Talks to |
|---|---|---|---|
| Settle loop (`harness/shots/runner.py`, `settle`) | two frame files, the frame to compare with, the run of equal frames, the last CPU reading | one poll: screendump, CPU reading, comparison, verdict | QMP (screendump), guest agent (CPU counters); the guest works all the time |
| State and mode walk (`run_state`, `apply_mode`, `_run_steps`) | the step list, `dirty`, the reference frame, the result | steps, settles, the shot, the mode switch | settle loop, QMP input, guest agent programs |
| QMP client (`harness/shots/qmp.py`) | ids, the buffer of a partial line | `execute`, and input commands built on it | QEMU's monitor socket |
| Guest agent client (`harness/shots/guest.py`) | sync id, cached session environment | `_sync`, `call`, and `exec`, `run_as_user`, `write_file` built on it | the agent in the guest |
| VM (`harness/shots/vm.py`) | process, channels, runtime directory, log, serial tail | `start`, `stop`, the `with` block | QEMU, both clients |
| Capture run (`harness/shots/capture.py`) | plan, current mode, mode error, lost VM, results, PNG files, manifest | `run_capture`, `_capture_all` | VM, walk, the file system, signals |
| Comparison tools (`compare.py`, `accept.py`, `determinism.py`, `review.py`, `diff.py`, `pngio.py`) | the directories of shots and goldens | copy, compare, report | each other, and the capture, through those files |
| Installer verification (`harness/install/run.py`, `boot.py`, `testpackages.py`) | per-firmware entry, disk, the phase of the VM | install, reboot to disk, login, capture | a two-phase VM, wizard, walk |
| Preparation of the session (`wizard.py`, `testpackages.py`, `skelmerge.py`) | files and packages of the installed system, the greeter | stage the configuration, install the test packages, log in | agent calls; the greeter by QMP only |
| Wizard driver (`harness/install/wizard.py`) | the page last recognised, attempts | click, recognise, confirm | QMP only (no agent on the live medium) |
| VNC grab (`vnc.py`) | the frame, how much of it is covered | `grab` | QEMU's VNC server, in place of QMP's screendump |
| Stock comparison (`stock.py`) | the session's settings, the report | revert, read back, photograph | VM, walk, agent |
| Package repository (`build/*.sh`), ISO and release (`iso/`, `release/`) | directories of packages, the one ISO, the release directory | build, sign, copy, verify, rename | each other through files |
| Frost effect (`packages/kuura-frost`) | per window: glass rectangle, region, redirection, backdrop copies per view | window signals, paint calls | KWin |
| Window decoration (`packages/kuura-decoration`) | geometry, palette, shadow caches | relayout, paint | KWin |
| Welcome window (`packages/kuura-welcome`) | pipe between QML and shell | actions, exit marker | plasma tools |
| States file (`states.py`, `keys.py`, and `compare.py` again) | none | validate, select, plan | the three programs that read it |
| Generators, validators (`design/`, `tools/`) | none | text to text | files |

What is hard in it: the guest repaints at moments nobody chooses and the harness sees it
only through polls; commands given up on are still carried out; replies of the guest
agent carry no id; QEMU and the agent crash, hang and restart; signals arrive at any
step; a failing step must neither stop the run nor leak into the next state; and results
of one run lie in the directory of the next. The list of hazards, each with its line and
the properties that watch it, is in `PROJECT.json`.

For each part, what makes it correct:

* settle: a frame reported stable is one the guest has finished painting, and it is not
  the picture from before the action; the loop always returns, with the right reason.
* walk: a state reported `ok` was photographed settled, whatever its step list; no effect
  of an earlier state or mode is taken for the effect of a step.
* clients: an answer belongs to its call, and nothing given up on is carried out behind a
  later answer.
* VM: nothing survives the `with` block but what a failure or a signal took out of its
  hands, and `stop` always returns.
* capture: exit code 0 means that every planned PNG is this run's and shows its mode; a
  lost VM is not used again; the run ends and says what happened.
* install VM: the second boot starts after the first QEMU is gone, with nothing left of it.
* installer verification: a path's verdict is about that path alone, and every path is tried.
* preparation: a session starts only when everything it reads is in place, and of the
  product's files and packages only what the text names is changed.
* wizard: no page is passed unseen, and finished means installed.
* comparison: green means that all that was planned was taken by this run and matched; a
  golden is a picture somebody accepted.
* states file: what one reader accepts, all accept and can do.
* release: what lies in the release directory is whole, signed and a build's that was verified.

## Modules

| Module | Models | Checked by |
|---|---|---|
| `Settle` | `Runner.settle`, `_read_cpu`, `_guest_quiet`, `_snapshot_now` | `runner` |
| `Runner` (extends `Settle`) | `run_state`, `apply_mode`, `_run_steps`, `_execute` | `runner` |
| `RemoteCalls` | the promise of both clients, abstractly | refined by the next two |
| `QmpClient` | `Qmp.execute` over `JsonLineChannel` | `qmp` |
| `GuestAgentClient` | `GuestAgent._sync`, `call` | `agent` |
| `InputCommands` | the commands of `send_keys`, `type_text`, `pointer_move`, `pointer_click` | `qmp` |
| `QmpInput` | these operations, each command with its fate | `qmp` |
| `QmpSession` (extends `QmpClient`) | these operations over the connection | `qmp`; refines `QmpInput` |
| `GuestPrograms` | `exec`, `start`, `run_as_user`, `write_file`, `cpu_sample`, `process_running`, `wait_ready` | `agent` |
| `Vnc` | `grab` of `vnc.py` | `qmp` |
| `Vm` | `Vm.start`, `stop`, `__enter__`, `__exit__` | `vm`, `vm_second_signal`, `vm_signal_in_popen` |
| `Capture` | `run_capture`, `_capture_all`, `sigterm_as_exit` | `capture` |
| `Stock` | `run_stock` | `capture` |
| `InstallVm` | `InstallVm` with `reboot_to_disk_only` and `connect_live_agent` | `live_iso` |
| `InstallRun` (extends `Capture`) | `run_installed_verify`, `_run_states` | `install_run`, `install_run_escape` |
| `SessionConfig` | `inject_test_only_session_config`, `skelmerge.py` | `install_run` |
| `TestPackages` | `install_test_only_packages`, `ArchiveFetcher` | `install_run` |
| `Preparation` (extends the two) | their order, and `log_into_sddm` | `install_run` |
| `Wizard` | `run_install` and its two click loops | `wizard` |
| `Goldens` | `make shots`, `goldens-review`, `goldens-accept`: `compare.py`, `accept.py` | `goldens` |
| `Determinism` | `determinism.py` | `goldens` |
| `Frames` | `_unfilter`, `compare_images`, `write_diff_image`, `frames_match` | `goldens` |
| `StatesFile` | `states.py`, `keys.py`, `load_rules`, and what becomes of a step | `goldens` |
| `PureFunctions` (extends the two) | their operators applied to inputs, one step each | `goldens` |
| `Release` | `build_iso_host.sh` and `release.py` | `live_iso` |
| `RunnerProofs` | theorems about `Settle` and `Runner` | tlapm |
| `QmpClientProofs` | about `QmpClient`, `QmpInput`, `QmpSession` and `Vnc` | tlapm |
| `GuestAgentClientProofs` | about `GuestAgentClient` and `GuestPrograms` | tlapm |
| `VmProofs`, `InstallVmProofs` | about `Vm`, about `InstallVm` | tlapm |
| `CaptureProofs` | about `Capture`, `InstallRun` and `Stock` | tlapm |
| `WizardProofs` | about `Wizard`, `Preparation` and `SessionConfig` | tlapm |
| `GoldensProofs` | about `Goldens`, `Determinism`, `Release`, `Frames`, `StatesFile` and `PureFunctions` | tlapm |

The `MC` modules hold the values of constants a `.cfg` cannot write, and put modules that
belong together into one run: `MCQmp` (the input operations on their connection, the fates
of their commands, the VNC frame), `MCAgent` (the connection and the programs made of its
calls), `MCCapture` (capture and stock), `MCInstallRun` (the run over the paths and the
preparation of one), `MCGoldens` (the tools and the functions they rest on), `MCLiveIso`
(what is done with the ISO: its build and release, the VM that is installed from it). There a
variable, `part` or `tool`, says which of them a behaviour is about, and the others stand
still: they share a question, or a subject, and not their state. What one relies on in the other is its
promise, and for the input operations the promise is proved to be kept: `QmpSession` puts
them on the connection of `QmpClient` and implements `QmpInput`. `GuestPrograms` takes its
calls to be answered, refused or abandoned as `RemoteCalls` says, which `GuestAgentClient`
implements; `Capture` takes `apply_mode` and `run_state` to end as `Runner` lets them;
`InstallRun` takes the preparation to succeed or fail, and `Preparation` says what success
means.

Operators introduced by a comment in parentheses, "(Slip: ...)", are mistakes a
programmer could make in the definition that follows them; each property is broken by at
least one of them (`mutants` in `PROJECT.json`).

### Settle

A picture is a class of frames that are equal outside the masks. `work` is the number of
repaints the guest still owes: `Act(k)` is an action that causes k of them,
`GuestRepaints` performs one at any moment, also between a screendump and the CPU reading
of the same poll. A poll is two steps, `Dump` and `Judge`. The counters see the guest as
active if it repainted since the last reading or still owes a repaint: this is the
assumption of the code that work is visible as CPU or I/O-wait time above its two limits.
Work below the limits is outside the model, as it is outside what the loop can notice.
A reading may be missed (`ReadingsMissed`), a poll may raise, and the clock may
reach the timeout in any poll, at the latest after `MaxPolls`.

The variables `shown` and `readings` are history: what the screen showed in each poll and
what was true of it. The properties speak about them and not about the frame files, so a
mistake with the files is visible.

`StableIsFinal` needs "measured evidence": the last reading was answered on both sides and
`need >= 2`. Without these it does not hold, and the code does less there than its texts
say: a missed reading is kept as the `before` of the next poll and so disables the quiet
check for two polls (runner.py:419; the text of `_read_cpu`, runner.py:335-336, speaks of
one), and with `settle_frames = 1`, which the states parser accepts, the first frame that
differs from the reference is stable with no quiet check at all (runner.py:432; compare
runner.py:24-25).

### Runner

`Runner` extends `Settle`: the walk calls `Start` and waits until the loop is idle again,
with every step of the loop and of the guest between. The reset steps have no reference;
the state's own steps have one, moved by every settle step; an effect makes the list
dirty, and a dirty list ends with a settle that must see the screen change. A failing
effect may have reached the guest. `apply_mode` is the same walk with one effect after a
fresh frame. `OnEvidence` in the properties is the condition of `StableIsFinal`.

### RemoteCalls, QmpClient, GuestAgentClient

`RemoteCalls` says what a caller may rely on: calls are carried out in order, each at most
once; an answer belongs to its call; a call that was given up may still be carried out,
but not after a later one was answered. `QmpClient` implements it with ids,
`GuestAgentClient` with a numbered synchronisation before each command. For the agent more
holds than the abstract promise: once the echo was read, nothing older is under way
(`SyncFlushes`, a theorem).

### QmpInput, QmpSession and GuestPrograms

An input operation is a sequence of commands, each a list of events; a program run in the
guest is a sequence of agent calls. Each call is answered, refused, or abandoned, and an
abandoned one may be carried out later, in its order and not behind a later answer: this
is all `RemoteCalls` leaves open. What the guest has seen, started and written is history.
In `QmpSession` the commands are `execute` calls: each has an id, QEMU carries it out or
refuses it (`errors`) when it comes to it, and it is over when its own reply is read, its
time has passed or the connection breaks. `Input` maps this to `QmpInput`: `late` is what
is still on the way to QEMU, `seen` what was carried out (`carried`), and in both the
command under way does not count until it is over (`Outstanding`, `Past`), because
`QmpInput` lets a command be carried out and answered in one step.

`seen` is the sequence of commands the guest has carried out; a returned operation's own
commands are the last of it, with no other between them. The operations are any chords,
texts and places (`AllOperations`); a run picks a few of them.
`InputIsWhole` says what a returned operation may rely on and also what it may not: a key
that an operation given up has pressed stays down, since nothing releases it (the reset
steps of the next state press their own keys). `OnlyAbandonedRun` rests on two things:
`exec` polls until the program has ended or raises, and the one call that is sent again,
`guest-ping`, starts nothing.

### Vnc

A pixel's bytes carry the position they belong to, so that a byte out of place or two
colours exchanged can be told. The server cuts the frame into rectangles as it likes and
may talk for ever; it sends no part of the frame twice. This assumption is needed:
`covered` counts the pixels of overlapping rectangles twice, and a server that repeated
itself would end the loop with black pixels left.

### Vm

Every step of `start` may fail or be interrupted; QEMU may exit or start a helper process
at any step. `stop` is five steps: ask, wait, kill the group, close, remove. What `stop`
works on are attributes, and the directory and QEMU exist before theirs are assigned, so
each is two steps: `MakeRunDir` and `KeepRunDir`, `Popen` and `KeepProcess`. Between them a
chmod may fail or a signal arrive. `dir` and `qemu` are what exists, `runDir` and `process`
what the object knows of. The constant `SignalsIn` says whether signals may arrive there
("creation") and in `stop` ("stop"); the run `vm` allows both.

`NothingSurvives` says what holds then: whatever is left was either created in the very
moment in which `start` was ended (`slipped`, and only that one thing), or `stop` itself
was broken off and not called again (`broken`). Both are findings, each shown by a run with
the signal it needs and no other.

### Capture

`apply_mode` and `run_state` are single steps here, with the outcomes that `Runner` and
the clients give them: returned, `StepError`, `ConnectionError`, anything else. A PNG is
"none", "old" or the mode it pictures, so that a shot in the wrong mode can be told.

### Stock

Each group of revert commands resets some settings of the session; a command that exits 0
may have done nothing, or have its effect later, and a session is read back before it is
photographed. What is read back and what is not is the code's list. Two facts outside the
list of settings matter: the effect's identifier is made of the name the caller gives,
so a wrong name reads an effect that does not exist as unloaded; `_check_product` is what
excludes it, and the mutant of `StockShotsAreStock` drops it.

### InstallVm

Every handle of the object is the number of the boot it belongs to, 0 for none, so that
the properties can say "nothing of the first boot". Any step of a start may fail, QEMU
may exit at any moment, the guest may ignore the power button, and a signal may leave the
body, the wait for the guest or a stop, which `__exit__` repeats unless it was its own.
The creation of the directory and of QEMU is two steps as in `Vm`, and `cut` records what a
signal cut short, for the same two exceptions: both findings about `Vm` hold of boot.py too.

### InstallRun

The states loop of the installer is a copy of that of `capture.py`, so `InstallRun`
extends `Capture` and takes over its pair actions (`SkipLost` to `AllDone`); its own
variables are the path, the disks, the other paths' PNGs and the verdicts. What differs
is around the loop: the errors with a clause (`PathFails`), those without (`Escapes`),
and the verdicts, for which whether a picture matches its golden is a value chosen at the
start (`matches`), one per path. The steps between the second boot and the loop are in
their order and may fail; what they do is the next module's.

### Preparation, SessionConfig, TestPackages

The staging is a list of tasks made of agent calls; each is carried out, refused by exit
code where the code looks at it, or abandoned with or without its effect, and the removal of the
temporary files is tried in any case. The fragments of skel-merge are sequences of lines,
parsed by the automaton of `parse_fragment`; what they ask for is defined apart from it, by
the text (`AsksFor`). The packages are the closure of what the snapshot has, and
the installed system may have none, the same or another version of each.

`home` holds the user's files setting by setting, `system` the files outside: those of the
overlay, of which the product may have its own copy, /etc/localtime, /etc/passwd, the udev
rule, and others. The code changes the product in places, and its text says so: overlay
files and the timezone replace what was there (wizard.py:864-876), one field of
/etc/passwd is emptied. `OnlyNamedChanges` is that nothing else is changed.

The greeter is what the driver can see of it: a white pixel, which the desktop may show as
well. Before the greeter the pixel is not white; this is what wizard.py:694-695 says of
the screen ("still a plain dark background") and the only thing assumed of it. The session
reads its configuration once, when it starts, and `saw` is what it found.

### Wizard

A picture is the page it was painted from, whether its sidebar can be recognised, whether
the error dialog lies over it, and anything else that may differ (a caret). Calamares
repaints at any moment, takes a click, or loses it; the installation ends well or not. The
driver sees pictures only. The variable `slow`, chosen at the start, says whether a click may
still be taken after the wait that follows it; properties that need a fast host say so.

### Goldens, Determinism

The tools meet in two directories only, and each may be interrupted, so every sequence of
captures, selections, reviews and acceptances is explored from whatever the one before
left; a file may be torn, or be the diagnostic of a failure. Comparing two pictures is
equality here, except in `Determinism`, where likeness is not transitive (a tolerance adds
up), because the tool compares every run with the first.

### Frames, StatesFile

Operators, each checked against a definition of what it is for, on every input of a small
set: unfiltering is the inverse of filtering whatever filter a row has (with four levels,
which the ties of the Paeth predictor need); `frames_match` is equality outside the masks
although it looks at filtered rows first (an encoder that picks filters by content); a
painted difference is the counted one; a file `states.py` accepts is one `compare.py`
accepts, plans the same pairs, and has steps that can be carried out. A value of the file
is its type and its value, a name the parts the parser tells apart.

### Release

`build_iso_host.sh` and `release.py` are two processes, each of which may fail or be killed
at every step and be started again; a content is the build it comes from and whether it is
whole. The ISOs of earlier builds are removed one by one. `undisturbed` is history: the
release was made between two builds, and the one before ended well; `build` is which one.

## Runs, bounds and what they show

| Run | Shows | Bounds |
|---|---|---|
| `runner` | what a settle result means (`VerdictIsTrue`), that shots are final and effects seen, and that jobs return, over jobs in any order and every interleaving of polls, repaints, missed readings and errors | lists that end with an effect, a settle or a wait, and one without an effect; a reset step; 2 pictures, 2 frames, 4 polls, 2 repaints owed. Two pictures are enough to leave and to return to the reference; the loop compares only neighbours, so 4 polls contain every order of change, run and timeout for 2 frames |
| `qmp` | refinement of `RemoteCalls`, and of `QmpInput` by the operations on the connection; input seen whole, VNC frames complete, calls return | 5 commands and 1 unread event: enough for an answer to be stale by one and by two; 3 operations with one of each kind, chords and texts of 2 keys; screens of 2x2 and 3x2 pixels, an empty one and one above the limit, in every cut into rectangles and updates of up to 2 rectangles |
| `agent` | refinement of `RemoteCalls`, files whole, nothing run twice, calls return | 3 commands and 4 syncs; 3 operations, files of 2 chunks |
| `vm` | what can survive and that nothing else does, the tail is kept, stop returns | the model is finite; signals everywhere |
| `vm_second_signal` | a signal during `stop` leaves QEMU running | the same with signals in `stop`, and none in a creation |
| `vm_signal_in_popen` | one signal in `Popen` leaves QEMU running | the same with signals in a creation, and none in `stop` |
| `capture` | exit code, files, results, manifest, VM and modes agree at the end of every run; a stock picture is of a stock session | 2 modes, 2 and 1 states, any set of old files; every pattern of commands without effect or with a late one |
| `live_iso` | one QEMU per disk, handles and tail of the right boot, nothing survives but what was cut short, the reboot ends; a finished release is whole, and is that of the last build if none disturbed it | the VM is finite; 2 builds and 2 releases: one of each in the place of an earlier one |
| `install_run` | exit code, verdicts, results, pictures and disk of every path; a session starts prepared, of the product only what is named changes | 2 paths with any old files, and 3 pairs of 2 modes: the second path and the second mode are where something can be left over. Preparation: every fragment of up to 4 lines (a header, a key, a second header and a key again), one file of each sort, 2 of the overlay, each shipped by the product or not, a system file nobody names, 2 target packages and a library in every combination of versions; fragments and packages vary one at a time, since they share nothing |
| `install_run_escape` | an error without a clause ends the run | the same |
| `wizard` | no page is passed on a fast host; on any host finished means installed, no click follows a page too far, `run_install` returns | the real pages (Summary is the fifth after Welcome), 3 attempts for a page and 2 for Install: several clicks may be under way together |
| `goldens` | green means matched, goldens are what was accepted, repeated runs agree; pictures compared exactly, states files read alike | 2 planned pairs, one of a mode no longer listed, one of a state no longer there, 2 looks (symmetric); 3 repeated runs of 2 pairs and 3 looks, of which the outer two differ; of pictures of 2x3 pixels with 4 levels, all pairs that use two of the levels, under 6 sets of masks, and all whose third row is blank, with all filters of the other two; states files that vary in their rules, modes or settings, and every step with one key |

Deadlock is checked where the model always has a step (`vm`); the runs of `Runner`, the
clients, `Capture` and the other modules end in states where nothing is left to do (a lost
connection, the last call of the bound, the end of the run, the end of the block).

### Fairness

Fairness is assumed of the harness only, which is one thread whose calls all have time
limits: weak fairness of the steps of a settle, of the walk, of a client reading its
stream and giving up at its deadline, of the clock and the client of a VNC grab, of the
steps of `stop` and of a reboot, of the capture, stock and installer runs, and of the wizard
driver (its deadlines, whatever the screen shows). In `Wizard` a click under way is taken
or lost in the end, which is how a fast host is defined there. Otherwise nothing is
assumed of the guest, the agent, QEMU or its VNC server, who may stay silent or go on for
ever: the liveness properties hold against them.

## Proofs

Every safety property of a state machine that a passing run checks is a theorem, for every
value of the constants, proved from an inductive invariant that TLC has checked on the
instance of a run first. For `PicturesExact` and `StatesFileSound` the invariant is only
that a result belongs to its input; what carries them are the theorems about the operators
of `Frames` and `StatesFile`.

**Settle and walk** (`RunnerProofs`): `TypeOK` and `VerdictIsTrue`, that is
`StableIsStill`, `StableIsFinal` and `VerdictNamesTheFault`, for all pictures, frame
counts, poll limits and work bounds. The invariant `IInv` ties the loop's variables to the
history: `run` is at most the length of the run of equal pictures at the end of `shown`,
`previous` is the slot of the last frame, `changed` says whether a frame differed from the
reference, and a run that was extended on measured evidence has found no work
outstanding. None of the properties is inductive without it, because a verdict is computed
from `run` and `changed` while the properties speak about the frames. Every run of the
walk is a run of the loop (`RunnerRunsSettle`), so that all of this holds inside it;
`ShotIsFinal`, `ReferenceIsCurrent` and `EffectWasSeen` follow for all step lists, since
between two effects the reference is the picture on the screen.

**Clients** (`QmpClientProofs`, `GuestAgentClientProofs`): both implement `RemoteCalls` for
any number of calls. For QMP the invariant orders the ids: those QEMU has carried out are
below those it has not. For the agent it is the shape of the two streams: while an echo is
awaited, its request is the last message to the agent, or the echo is the last message of
all, so that both streams are empty when the command is sent.

**What is made of the calls** (the same modules): `InputInv` says that an operation under
way has had exactly the commands it has sent already carried out, as the last of `seen`,
unless one was given up; with it `InputIsWhole` holds for all chords, texts and numbers of
operations. `GuestInv` accounts for everything that may still be done behind the caller's
back: the calls left are the end of the operation's list (`Remaining`); nothing started or
under way is newer than the operation, and nothing is under way when it returns (`Past`);
no program is started twice (`Unique`), and what the operation started belongs to a call
already behind it that was not given up (`Behind`); while an operation that waits has not
failed, the only program of its own that may still be running is the one it polls
(`Awaited`), and one was begun (`Begun`); a chown that ended well has taken effect, and the
file holds the chunks sent so far and no others (`Chowned`, `Writing`). `VncInv` equates
`covered` with the number of positions already sent, so that a full count is the whole
frame: this uses that the server repeats nothing, and that a subset of a finite set with as
many elements is the set.

**The operations on their connection** (`QmpClientProofs`): `SessionOfOperations`, every run
of `QmpSession` is one of `QmpInput`, for any number of commands, events, keys and
operations, so that what `InputIsWhole` says of `QmpInput` holds on a connection with late
replies. The order of ids that suffices for `RemoteCalls` is not enough here: the mapping
reads the sequences QEMU works on, so `SessionInv` says that the ids are consecutive
(`Numbered`: what is on the way are the last ids issued, what was performed are all
before), that the last command performed is the last one carried out unless it was refused
(`Carried`), and that the command under way is the first one of `rest` (`Current`). With
these a reply that is read shows that nothing else is on the way, since commands are
performed in order (`ReplyIsLast`), and a command given up becomes `late`, or `seen` if
QEMU had come to it (`WaitEnds`).

**VM and install VM**: `NothingSurvives`, `TailTells` (in the run of `Vm` together, as
`OnlyTheTailRemains`), `OneQemu`, `PhasesAreSeparate`, wherever signals arrive. The
invariants say what each step of a start has acquired, which boot each handle is of, and
that a living QEMU or a directory has its attribute assigned, except in the one step before
the assignment and after a start that was ended in it: this exception is the exception of
`NothingSurvives`, so the theorem says that there is no other way to leave something behind.

**Capture, installer run, stock** (`CaptureProofs`): every safety property of the
`capture` run for every plan; the invariant adds that the guest shows the mode the
loop believes it shows unless an error or a loss is noted. `InstallInv` adds to the states
loop what was recorded for the paths that are over, so that `ExitOkMeansVerified` and
`PathsAreSeparate` hold for any number of paths. `StockInv` says which settings a session
that passed its checks can differ in.

**Wizard** (`WizardProofs`): every safety property for any number of pages and attempts.
The invariant counts: on a fast host the clicks under way and the page together never
exceed the page waited for, and a click is repeated only over a picture of the page before
it, read after the wait of the earlier click was over. Without the count `NoPagePassed` is
not inductive, since a click made now moves the page later.

**Preparation** (`WizardProofs`): `SessionIsPrepared` and `OnlyNamedChanges` for all files,
fragments and packages. The invariant of the staging, `NothingForgotten`, is about the list
of tasks: until the staging gives up, whatever is not in place is still to be done, where
the task `load` stands for the merges that are not known before the fragments are read.
The packages have one conjunct for each place of the call, and the login needs only that
nobody logs in before both have returned. The proof needs what three functions over data
compute: `parse_fragment` yields the settings the text asks for (`ParsedAsks`), and the
lists of tasks hold every file and key (`FlattenContains`, `SetToSeqContains`). These are
proved by induction in the form of a least element: of the arguments for which a recursive
function is wrong there would be a least one, and the function is right there since it is
right one before.

**Files** (`GoldensProofs`): in `GoldensInv`, a pair a tool is done with has a shot that
nothing touches again before the verdict, what the acceptance has passed is in the goldens,
and no golden is the diagnostic of a failure. `AllFresh` in `DetInv`: as long as every run
ended well, each run so far has photographed the whole plan in this call. In `ReleaseInv`,
`Made` says what each step has read and written, and `ReadUndisturbed` that while no build
begins the same ISO is hashed, copied and measured; without it the three readings could be
of two builds, which is what `undisturbed` excludes.

**Pictures** (`GoldensProofs`): `PngDecodes`: unfiltering gives the picture back, for every
size, number of levels, picture and choice of filters. That a picture satisfies the equation
of its own decoding is modular arithmetic (`AddBack`); that nothing else does goes by the
least row, and in it the least byte, that differs. `PaethIsStandard` is the case of the
predictor. `FramesMatchIsExact`: the comparison of filtered rows and the masks together are
equality outside the masks, for all masks with integer corners. The early "no" is right
because a filtered row is made of its own row and the one above: where it differs, one of
the two does, and if no mask meets either row the difference is outside the masks.
`DiffShowsTheVerdict`: what is painted is what was counted.

**States file** (`GoldensProofs`): `AcceptedStepsCanRun` and `FileReadersAlwaysAgree`, for
every file. A chord that passes the parser presses no key twice since it has as many keys
as names; a coordinate on the screen is mapped to the axis of the tablet, for every
screen of at least two by two pixels (`abs_value` refuses less, and the parser asks for more).
`PicturesAlwaysExact` and `StatesFileAlwaysSound` collect these results and those about
pictures into the invariants of the run.

The type invariants are theorems and not in the runs, and so are `ReferenceIsCurrent`,
`AnsweredMeansFlushed`, `SyncFlushes`, `VmStopped` (of runs no signal has ended) and
`NothingAfterLost`, on which the
properties of the runs rest.

Assumptions are those named in the modules: non-empty pictures, positive frame counts,
attempts, poll limit and number of paths, well-formed step lists and operations, a plan
without repetitions, finite sets of files that do not overlap, names that are not each
other's, a screen of at least two by two pixels; the theorems about values of a states file
take names, texts and argument lists to be sequences, and the inputs of `PureFunctions` are
of the types the functions declare. None restricts what the guest, QEMU or the file system
may do.

Only model-checked: liveness (`JobReturns`, `CallsReturn`,
`CallReturns`, `StopReturns`, `RunsEnd`, `RebootEnds`, `WizardReturns`) is out of the
prover's reach, as is `ENABLED`, and the three violation runs show single behaviours.

## Where the code and its texts differ

The three violation runs; `findings` in `PROJECT.json` quotes the texts.

1. A single signal in `subprocess.Popen`, after QEMU was forked and before `_process` is
   assigned (vm.py:450-452, and boot.py:460-462), leaves a QEMU that `stop` cannot kill.
   In the same way a signal or a failing chmod after mkdtemp leaves the directory.
2. A second signal while `Vm.stop` runs leaves QEMU and the runtime directory behind.
3. A `QmpError` or `GuestAgentError` on one firmware path ends the installer run before
   the next path. (The same errors, let through by `apply_mode`, end a capture run
   without a manifest: the clauses at capture.py:394 do not name them.)

Observations made while modelling, which no run is about; the properties are stated so
that they hold all the same:

* Settle: the section above names two places where the quiet check does not count. A
  states file with `settle_frames = 10`, an interval of 10 s and a timeout of 1 s is
  accepted (states.py:333-381) and never settles.
* Capture removes the planned PNGs of an earlier run and leaves its manifest.json
  (capture.py:292-294): a run that dies leaves its own PNGs beside the older manifest.
* Wizard: a click taken only after its 60 s wait is repeated, and the two together leave the
  page that is being filled in. The comment at wizard.py:214-219 reports a page that took
  90 s. `NoPagePassed` asks for a fast host; `StopsAfterOvershoot` holds on any.
* determinism.py:132-140 builds its options without the display mode, so `--display gpu`
  is accepted and has no effect there.
* A state's `run` step is validated with the limits of its own arguments, while
  `run_as_user` adds the session's environment before `_check_argv` counts again
  (guest.py:145-166): a long environment could refuse an accepted step.
* Release notes name the commit that is checked out, which nothing ties to the ISO, and a
  size read after the copy, which may be another ISO's when a build runs meanwhile. A copy
  whose checksum failed stays in `.build/iso`, where a release takes it; its sums are then
  consistent with the bad copy. `ReleaseIsVerifiedBuild` excludes both by `undisturbed`.
* release.py removes an earlier release file by file before it makes the new one: a removal
  that is broken off leaves a directory that no longer verifies (`torn`).
* build_iso_host.sh makes its scratch directory before its marker, and removes the marker with
  the directory: killed between the two or in the removal, it refuses every later build
  until somebody removes the directory by hand.
* Vnc: `covered` counts overlapping rectangles twice (see `Vnc`).

## Plan

Done: the settle loop, the walk, the clients with the operations made of their calls, the
VM, the capture run; the installer's verification with its preparation and the wizard; the
stock comparison; the tools over the captured files, the states file and the comparison of
frames; the ISO build and the release. Composition: `Runner` extends `Settle`; the clients
implement `RemoteCalls`, whose promise `GuestPrograms` takes; `QmpSession` extends
`QmpClient` and implements `QmpInput`; `InstallRun` extends `Capture`; `Preparation` extends
`SessionConfig` and `TestPackages`.

Proved: the safety properties of all runs, the refinements, and what the operators of
`Frames`, `StatesFile` and `SessionConfig` compute. Left:

* the promises one module takes from another, as step-by-step theorems: that every end of
  a job in `Runner` is one of the outcomes `Capture` lets `apply_mode` and `run_state` have,
  and for `GuestPrograms` what `QmpSession` is for `QmpInput`;
* the safety part of the liveness properties: the measure that each of `JobReturns`,
  `StopReturns` and `RunsEnd` decreases, as an action property;
* `render_shell_script` of skel-merge, the only writer of the session's configuration that
  is not modelled.

## Not modelled

* Frost effect: what may go wrong there depends on the order of KWin's signals and paint
  calls and on what its buffers hold, and the repository says nothing of either; a model
  would check assumptions about KWin. One place is worth a look: a fresh backdrop copy
  that was filled in part is skipped for one frame "never garbage" (frost.cpp:721-727),
  but it is no longer `fresh` in the next frame, whatever has been filled by then.
* Welcome window: a window of the Qt runtime and a pipe to the shell that reads its output by
  lines; the exit marker is recognised only if the last output ended its line, and
  without a marker the status is 0 (welcome.sh.in:171-185).
* Window decoration, design generators, live repository strip, forbidden terms check: pure
  functions of text, sizes and colours, with tests for each value; nothing is concurrent
  and nothing is kept.
* Package repository build and the container variant of the ISO build: they run tools the
  repository does not contain (makepkg, repo-add, mkarchiso) one after the other.
* The HTML review page, the montage of stock pictures, `render_shell_script`, the
  resource sampler and the QEMU command lines: reports and texts no property is about.
* PNG chunks, checksums and compression; TOML; recognising a page of Calamares in a picture:
  conversions taken as exact where a model uses them.
* Real time: time limits are choices that may be made at any step.
