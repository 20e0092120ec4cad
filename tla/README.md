# A formal model of Droid DRM Takeover

This directory holds TLA+ specifications of droid-drm-takeover, TLC
configurations that check them on small instances, and TLAPS proofs about them.
Paths below are relative to the directory that contains `tla/` and `src/`;
`kwinwrap.c` is `src/src/kwinwrap.c`.

    tlc -workers 2 -config KwinWrap_core.cfg MCKwinWrap      # one run of the table below
    tlapm KwinWrapProofs.tla                                  # the proofs

`PROJECT.json` lists, for every definition that models code, the lines it
models ("map"), the runs, a faulty variant of the code for every checked property
("mutants", they stand beside the definition they vary and are marked *Faulty
variant*), the hazards, the findings and the theorems.

## 1. The system

Android's composer holds DRM master on the tablet's only card. The project stops
Android's display stack, opens the card as root, and runs an unmodified
`kwin_wayland` on it under a ptrace supervisor.

| component | state | operations | what makes it hard |
|---|---|---|---|
| **kwinwrap supervisor** `kwinwrap.c` (`main`, `handle_entry`, `hijack_open`, `filter_getres`, `relay_atomic`) | `HIJACK`, `MASTERFD`, `RELAYFD`, `NATIVE`, `phases[]` (one slot per thread); in the kernel: who is master | start-up: open, SET_MASTER, optional lease, brightness, DROP_MASTER, fork; then one entry and one exit handler per trapped call of every thread of kwin | tracees run concurrently; master is given away and must be found out again from the result of one commit; calls are skipped, replaced, executed on kwin's behalf and answered by overwriting registers; 512 slots |
| **commit splitter** `kwinwrap.c` (`split_commit`) | none of its own: it rewrites the commit in kwin's memory | one rewriting per commit kwin executes itself | kwin's choice of plane and crtc varies; libdrm issues an interrupted commit again from memory that is already rewritten |
| **relay filter** `kwinwrap.c` (`build_local_atomic`, `filter_commit`) | none | copies a commit for the wrapper to execute, or filters it in kwin's memory | what is left must be consistent; fences are numbers of another process; limits |
| **drm-takeover** `drm-takeover.sh`, `scripts/drm-stop.sh`, `kwin-restart.sh`, `keepbright.sh`, `dmesg-harvester.sh` | Android's display, `system_server` (frozen or not), settings, suspend and wake lock, kwin, helpers, the file `takeover.ok` | take the display, run, restore by trap; a detached *fuse* that restores after 150 s; a stop script | any script may be killed; three scripts share the device and one file; the watchdogs strike whatever their settings say |
| **desk-takeover** `desk-takeover.sh`, `scripts/desk-stop.sh` | the framework, composer, `system_suspend`, wake lock, kwin, desktop, WiFi, `takeover.ok` | take over with rollback; a stop script that polls and tries again | the two scripts do not know of each other; everything is in the background and found by its command line |
| **touchinj** `touchinj.c` | multi-touch slots | evdev batches to fake-input requests | batches cut packets apart; the kernel's queue overflows |
| **touchtest** `touchtest.c` | two buffers, touch points, `inflight`, `pending` | draw and commit per frame callback | callbacks outstanding over a resize; partial damage in two buffers |
| **touchdraw** `touchdraw.c` | the framebuffer, slots | take the panel over, draw the fingers | as touchinj, and a self-test drawn over the picture |
| **panel tools** `drmatomic.c`, `stageprobe.c`, `atombisect.c`, `replicate.c`, `rawprobe.c` | master, client capabilities, framebuffer | find the output, test requests; `drmatomic` also shows a picture | started beside each other and a compositor; devices differ |
| canoe touch window, setters, probes, generated code | – | one-shot | not modelled, see section 7 |

How they interact: `drm-takeover.sh` and `desk-takeover.sh` stop the composer
(so that nobody is master), start kwinwrap with environment variables, and
watch it as a background job. kwinwrap stops the threads of kwin at system
calls. The splitter and the filter are called from kwinwrap's entry handler and
change what the kernel is given. The fuse, the traps and the stop scripts start
the composer, which tries to become master. touchinj talks to kwin, and touchtest
hears from it, in the touch stream of `TouchStream`. The panel tools run
instead of kwin.

What each must guarantee:

* supervisor: commits are executed once and answered truthfully; the wrapper
  does not keep kwin from being master when kwin can be; once it relays, nobody
  takes master from it; every stopped thread is resumed; kwin never sees the
  resources it must not see;
* splitter: whatever kwin asked for, the panel is driven by the two halves on
  crtc 206, both of the same framebuffer, and by nothing else; doing it twice
  does no harm;
* relay filter: kwin gets what it asked for on the panel, nothing else is turned
  on, and what is left of a consistent commit is consistent;
* scripts: the display comes back on every way out, or the fuse brings it back;
  stopping undoes what was done, in an order that does not hang the device, and
  the watchdogs get no chance under a takeover that is to last;
* touch programs: nobody is told an impossible gesture, and when the fingers
  come to rest, kwin, the canvas or the framebuffer tells the truth;
* panel tools: what is committed was tested, the picture is whole, a probe
  disturbs nothing, and the panel is given back.

## 2. The modules

| module | what it is |
|---|---|
| `KwinWrap` | the supervisor, the threads of kwin, the kernel's master rules and the composer |
| `CommitService` | abstract: what kwin is promised of MODE_ATOMIC; `KwinWrap` implements it |
| `SplitCommit` | the splitter with kwin, libdrm's retry and the kernel around it |
| `RelayFilter` | extends `SplitCommit`: probe, then split natively, relay, or filter |
| `DrmTakeover` | the takeover script, its fuses, the stop and restart scripts |
| `DeskTakeover` | the desktop takeover, its rollback and its stop script |
| `TouchStream` | abstract: a legal stream of touch frames; `TouchInject` implements it, `TouchCanvas` relies on it |
| `TouchReader` | the panel, the kernel's event queue, and the loop both touchinj and touchdraw read it with |
| `TouchInject` | extends `TouchReader`: touchinj |
| `TouchCanvas` | touchtest and the compositor |
| `TouchDraw` | extends `TouchReader`: the loop of touchdraw |
| `PanelTools` | the programs that use the card without a compositor, beside one |
| `KwinWrapProofs`, `DrmTakeoverProofs`, `DeskTakeoverProofs`, `TouchInjectProofs`, `TouchDrawProofs`, `TouchCanvasProofs`, `PanelToolsProofs` | theorems about the module they are named for |
| `SplitCommitProofs` | theorems about `SplitCommit` and `RelayFilter` |
| `MC...` | values for the constants that a .cfg cannot express |

### KwinWrap

Every trapped call passes through `user -> entry -> kernel -> exit -> user`
(variable `stat`). `CallOpen`, `CallGetres`, `CallAtomic` bring a thread to the
entry stop. One action per branch of `handle_entry` decides what the kernel will
be asked for (`reg8`: the call itself, `dup(HIJACK_FD)`, or nothing) and leaves
`sub` and `hret` in the thread's phase, as the code does; `Kernel*` are the
kernel's side; one action per branch of the exit handler writes the result
register. The two stop disciplines (plain `PTRACE_SYSCALL` and the seccomp
filter) are the difference between `Armed` and not. `applied` is a history
variable that counts how often the current commit took effect.

`env` is the environment of the run: `hijack`, `lease` and `secc` are the
`KWINWRAP_` variables, `x8` says whether the kernel runs the system call number
the tracer leaves in x8. The code relies on that and a comment
(kwinwrap.c:273-276) reports a kernel where it did not hold; the model has both.

| code | model |
|---|---|
| `main` to the fork | `OpenCard` ... `Fork`, in `pcw` |
| `NATIVE` -1, 1, 0 | `"probe"`, `"native"`, `"relay"` |
| `ph->sub` 2, 3, 4, 5, 6 | the same numbers in `ph[t].sub` |
| `handle_entry` | `EntryOpenHijack`, `EntryOpenReal`, `EntryGetres`, `EntryProbe`, `EntryPassthrough`, `EntryRelay` |
| `phases[]` full | `EntryUnmanaged`, `ExitUnmanaged` |
| exit stop | `ExitProbeNative`, `ExitProbeRelay`, `ExitGetres`, `ExitRelay`, `ExitPlain` |

Start-up goes wrong where the code has a branch for it: the card cannot be opened
(`OpenCardFails`), SET_MASTER is refused or the dup2 after it fails (`ClaimFails`; in
the second case the wrapper stays master without a hijack), the lease is refused, or it is there
and its dup or dup2 fails (`CreateLease`). `filter_getres()` gives up if the
connectors cannot be listed, if none or all of them are phantoms, or if kwin's
memory cannot be read or written (kwinwrap.c:975, 999-1011): kwin then sees what the
kernel wrote. In the model a successful GETRESOURCES answer that went through the
filter is `"FILTERED"` or, where the filter gave up, `"RAW"`; one that went round it is `"OK"`.

What a commit contains is left out: it is accepted or refused (`EINVAL`) if the
file may commit, `EACCES` otherwise. Signals are not modelled, because every
stop is given its true direction, as `PTRACE_GET_SYSCALL_INFO` does; the parity
fallback for kernels without that request is left out, and so are failures of
single ptrace requests. `KWINWRAP_BRIGHTNESS` is taken to be set, as
`desk-takeover.sh` does.

### CommitService and the refinement

`CommitService` has a set of waiting threads, the number of effects of each
thread's commit and the last answer. `KwinWrap` implements it
(`ImplementsService`) under the mapping at the end of `KwinWrap`: native commit,
probe, refused probe executed again by the wrapper, and relayed commit are four
ways of taking `TakeEffect` and `Answer`.

### SplitCommit

A commit is a sequence of entries, an object id with the properties it sets. The
inventory of `split_commit` is a group of operators (`Virtual`, `I206`, `Kact`,
`Iconn`, `Areal`, `Fb`, `Kblob`), one per variable of the code, and `Min` or
`Max` where the code's loop lets the first or the last entry win. `Rehomed`,
`Dropped` and `Appended` are the three passes over the commit, `Rewrite` the
function. An entry that is dropped leaves its place empty and what is appended gets
places behind the last one: a commit is a function from places to entries, of which
the code only ever uses the order. kwin builds a commit (`Add`), has it rewritten and submitted
(`Submit`), the kernel may interrupt it (`Again`: the same memory is rewritten
once more) or accept or refuse it (`Finish`).

Assumptions about kwin: planes are listed before crtcs and these before the
connector, no object is listed twice, the halves are listed both or not at all. An
entry is one of a connector, of a crtc or of a plane (`IsConn`, `IsCrtc`, `IsPlane`:
the kernel knows each property for one kind of object only); a plane comes with
framebuffer and crtc, both or neither of them 0; and the ids of planes are not used
for crtcs (`EntriesAssumption`, `IdsAssumption`).
Most properties are stated for a kwin that drives one output (`OneOutput`): one
real plane and one other crtc are turned on at most. Without it a retry takes
the framebuffer of the second plane, and TLC finds that.

### RelayFilter

`mode` is the code's `NATIVE` where kwinwrap was started with
`KWINWRAP_HIJACK`: `"probe"` until the first commit has been answered, then
`"native"` or `"relay"`. `"plain"` is a start without it.

| code | model |
|---|---|
| the first commit, executed as kwin wrote it (`NATIVE` -1) | `Probe`; `ProbeNative` or, after EACCES, `ProbeRelay` |
| `split_commit` of every commit after that | `SplitStep`: the actions of `SplitCommit` |
| `build_local_atomic`: is the connector linked, to which crtc, what is kept, fences | `Local`, of `Dyn`, `Target`, `KeepObj`, `KeptProps`, `LocalValue` |
| `filter_commit` in kwin's memory (`KEEP_OBJS`, `keep_prop`), again when libdrm retries | `Filtered`, `Filter`, `FilterAgain` |
| the answer, -EINVAL for what is too long | `Answer` |

The kernel keeps the state of every object (`kern`) and takes only what is
consistent: a crtc has a mode exactly when the connector is linked to it, is
active only with a mode, and a plane has a framebuffer exactly when it has a
crtc. Assumptions: `FILTER` is set, as both takeover scripts do
(drm-takeover.sh:204, desk-takeover.sh:124), `KEEP` has its default, splitting is
enabled, and the first commit of kwin is a test.

### DrmTakeover

`pc` is the place in `drm-takeover.sh`, `fuse[r]` the fuse that run `r` has left
behind, `stop` the place in `drm-stop.sh`, `restart` that in `kwin-restart.sh`,
which kills kwin and starts another one in two steps, whatever the other scripts do
meanwhile. `kwin` tells the kwin of the run from another one, as each
script knows only the process it started. "Display" stands for surfaceflinger
and the composer, which every script starts and stops with one command. TERM
makes bash run the EXIT trap, KILL does not. Sleeps are not modelled: a fuse may
wake any time after its run began, which includes all real timings.

A takeover that is to persist does four things to the device, each its own step:
`Disarm` changes the settings of the watchdogs (`defaults`), `KeepAwake` stops
system_suspend, takes the wake lock and sets `screen_off_timeout` to its maximum
(`maxTimeout`), `Freeze` stops system_server, and `Persist` touches `takeover.ok` and
starts the helpers. The comment at drm-takeover.sh:235-240 says what the first is
worth: HyperOS ignores it and killed the framework again after 117 s. So in the model
the settings hold nobody off: `WatchdogStrikes` may happen whenever the display is
stopped and system_server is not frozen, and reboots the device, which ends
every script and fuse, and brings the display back, but keeps files and settings. The fuse
needs 150 s, so a run killed with the display stopped is as likely to end in
that reboot; the model has both orders.

Assumptions: the user starts one takeover at a time, none while `drm-stop.sh` is at
work, and `drm-stop.sh` only after a takeover is over, and not twice at once; the
commands sent through adb succeed. Device discovery, node creation, backlight and
diagnostics are left out; they change nothing the properties speak of.

### DeskTakeover

`pc` is the place in `desk-takeover.sh`, its `rb...` values those in `rollback()`;
`stop` is the place in `desk-stop.sh`, which may be started at any time and polls
for surfaceflinger. Both ignore HUP, INT and TERM, so only KILL ends them. The
framework is `wanted` once `start` was run, and comes up (`SfUp`) if
system_suspend runs and the composer is master; while kwin holds the panel it
fails (`SfFails`). A WiFi configuration is the user's (`static`) or was generated
from Android's (`gen`), and `wpa` remembers with which one `wpa_supplicant` runs,
because it is found and killed by that name. `begun` says how far a takeover was
when `desk-stop.sh` began: one that is still running goes on behind its back.
Device nodes, udev records, routes and backlight are left out.

### TouchStream, TouchInject and TouchDraw

`TouchStream` is the stream of touch frames between touchinj and kwin, and
between kwin and touchtest: a frame has at most one request per id, presses only
what is up and moves or lifts only what is down. `TouchInject` implements it
(`LegalStream`), and the environment of `TouchCanvas` is any behaviour of it.
kwin itself, which stands between the two programs, is not part of the project;
that it passes legal frames on as legal frames is assumed, and the two modules
are not composed further.

In `TouchReader`, `Touch` is the panel and the kernel: packets that name a slot
only when it changed and a coordinate only when it changed, queued whole for the
reader or, if the queue is full, replaced by SYN_DROPPED. `Read` takes up to
`Batch` events wherever packets end, and `Handle` is one turn of the loop over the
events. `TouchInject` adds what kwin was told (`told`) and `Flush`, which is `flush_touches()` when a SYN_REPORT was among them. `strayed`
marks the cases the program cannot know of: the panel was touched before the
node was opened, events were dropped, or a slot past `NSLOT` was used. One axis
stands for the two, which are treated alike.

`TouchDraw` takes panel, reading and decoding from `TouchReader` too (the two programs
have the same loop) and adds the framebuffer, the circles and the self-test.

### TouchCanvas

`app` is the client: its touch points, its buffers (a pair is known by its
generation `gen`), the circles of the last commit and the flags `inflight`,
`pending`. `Dispatch` handles the first event on the wire: one disjunct per
listener of the code. `Schedule` and `Render` are `schedule()` and `render()`,
`Alloc` is `alloc_buffers()`. The compositor sends touches, cancels, configures, closes,
and repaints (`Present`): it shows the newest commit, copies only what was
damaged, and answers all callbacks. The surface has one dimension; the damaged
box is an interval.

### PanelTools

A process runs one tool: `Open`, `SetCaps`, `Find` (one disjunct per program: which
output, crtc and planes it picks), `MakeFb`, `Test`, `Commit`, `Done`; it may be killed
anywhere (`Kill`). A request is a set of triples of object, property and value, and
`Requests(p)` are the tool's requests in its order, such as the cumulative stages S1 to
S8 of stageprobe. The kernel gates requests on master and the ATOMIC capability
(`Gate`), refuses what makes no sense on the device (`Sensible`), and may
refuse anything else. A closed file takes its framebuffers and mastership with
it. `Devices` describes what a program finds: planes, crtcs, masks, the
framebuffer property that works.

## 3. The runs

| run | instance | what it checks |
|---|---|---|
| `kwinwrap_core` | 2 threads that both commit, 2 descriptions, 2 slots; the environment of the scripts; both kinds of kernel; 2.1M states | `TypeOK`, `NativeNotLockedOut`, `MasterHandedOver`, `NeverPastFilter` |
| `kwinwrap_service` | 2 committing threads, 1 description, 1 slot, all environments, with and without seccomp, on a kernel that honours x8; 439k states | `HonestResult`, `RelayKeepsMaster`, `ImplementsService`, `CallsReturn` (liveness) |
| `split_shapes` | every commit of up to 5 entries out of every shape the inventory tells apart, one commit, any number of retries; 31k states | `HalvesDrivePanel`, `PanelTakesOver`, `RetryKeepsPanel` |
| `split_history` | three commits of up to 4 entries, in every mode, copied up to 3 entries; 138k states | `NativePanel`, `RelayedAsAsked`, `FilterKeepsConsistent` |
| `takeover_runs` | two runs in any of 4 settings, TERM and KILL anywhere, `kwin-restart.sh` and the watchdogs at any point; 58k states | `TypeOK`, `WatchdogHeld`, `StopUndoesAll`, `PersistUndisturbed`, `ThawedBeforeDisplay`, `RoundGivesBack`, `FuseRescues` (liveness) |
| `desk_runs` | two runs with and without a WiFi configuration, KILL anywhere, kwin dying anywhere, `desk-stop.sh` at any point, 2 retries; 115k states | `StopReturns`, `SuspendFirst`, `DisplayReturns` (liveness) |
| `touch_inject` | 2 forwarded slots of 3, batches of at most 3 events, a queue of 8, 4 packets; 312k states | `TypeOK`, `NoFingerLost`, `LegalStream` (refinement), `CatchesUp` (liveness) |
| `touch_canvas` | 2 ids, 1 circle, radius 1, sizes 0, 4 and 6, two frames of at most 2 requests, 2 configures or a close after the first; 1.6M states | `NothingForgotten`, `NoLostFrame`, `DrawsFree`, `TruePicture`, `PictureCatchesUp` (liveness) |
| `touch_draw` | the panel of `touch_inject`, 4 pixels; 860k states | `DrawnWhenHandled`, `PictureSettles` (liveness) |
| `panel_tools` | one process with any tool, one with `drmatomic` or `replicate`; a device like piano, one like canoe, one without output; 137k states | `HalvesShown`, `GatesPassed`, `Tested`, `PanelReturned` (liveness) |
| `takeover_persist`, `desk_wifi` | the smallest instance that shows it | one statement of a comment or document each, which the code does not keep: section 6 |

Why the bounds are enough.

* `KwinWrap`: two threads are needed for a thread that finds no slot, and for one
  to open or close a card while another one probes; a third would only repeat the
  role of one of the two. Two descriptions let kwin hold a card and a render
  node, or two cards of which one is master. `FileSymmetry` is used only where no
  liveness property is checked.
* `SplitCommit`, `RelayFilter`: five entries are a virtual or real plane, two halves, a
  crtc and the connector, and five is also the limit `MaxObjs` of `split_shapes`,
  so that commits occur that the rewriting makes too long for a second
  rewriting. Three commits are the probe, one that lights something and one that
  must cope with it; `MaxRelay` 3 makes commits of 4 entries too long to copy.
* Scripts: two runs are needed for what an earlier one left to meet the next;
  what a third would add is covered by the theorems of `DrmTakeoverProofs` and
  `DeskTakeoverProofs`. Two retries of `desk-stop.sh` are one that finds the panel
  busy and one after it.
* Touch: a packet of a press has up to four events, so a batch of three cuts
  every press apart; a queue of eight overflows with three packets; slot 2 is the
  one past `NSLOT`. Two ids and one circle leave one finger without; `PictureTrue` and the
  other theorems are for any number. Sizes 4 and 6 let the surface shrink, grow and
  stay, and two configures let it change and change back between two repaints.
* `PanelTools`: two processes and a compositor are all the sides of the race for
  master; the devices differ in each thing the programs look at.

kwin commits from one thread, but nothing in kwinwrap relies on it, and `kwinwrap_core` has
two committing threads. Each may then have a probing commit in flight, and
the exit of the second overwrites what the first decided (kwinwrap.c:1402): if one
was executed and the other then refused, the wrapper takes master to relay, and the
first answer makes it `"native"` under a wrapper that is master. `NativeNotLockedOut`
says that this overtaking is the only way to get there; `KwinWrap_probes.cfg` shows that
it is one (section 6). The environments without seccomp are in `kwinwrap_service`.

Deadlock is checked for `KwinWrap`, where the composer never stops. It is not for
the other modules, whose commits, scripts, packets and programs come to an end.

Fairness. Nothing is assumed of kwin, of users, or of what may be killed; only that
what is able to go on does:

* `KwinWrap`: the tracer serves every stop `waitpid` reports and a call the
  kernel was asked to run ends (weak fairness of each thread's `Entry`/`Exit` and
  `Kernel`);
* `DrmTakeover`: a started script goes on until it ends or is killed and a
  sleeping fuse wakes (`Takeover`, `Fuse`, `DrmStop`, `RestartStart`, `HelpersLeave`);
  nobody is bound to start a script, and no watchdog to strike;
* `DeskTakeover`: a started `desk-stop.sh` goes on; a composer that runs takes a
  free panel, and surfaceflinger comes up if it can (`DeskStop`, `ComposerClaims`,
  `SfUp`). A rollback is not bound to go on, since KILL may end it; the property
  speaks of one that is complete;
* `TouchInject`, `TouchDraw`: the program reads, handles and flushes or draws
  what has arrived;
* `TouchCanvas`: the client dispatches and the compositor repaints what was
  committed;
* `PanelTools`: every process takes its next step (`Step(p)`, without `Kill`).

## 4. What is proved

Each theorem holds for every value of the constants that meets the named
assumptions of the module. TLC found no violation of the inductive invariants on
the instances of the runs.

**`KwinWrapProofs`**, for any sets of threads, committers, descriptions and
environments and any number of slots (`LeaderAssumption`, `FilesAssumption`,
`PhasesAssumption`, `EnvsAssumption`):

* `TypeCorrect`: `Spec => []TypeOK`;
* `CommitsHonest`: `Spec => []HonestResult`. The promise is made where the kernel
  honours x8 (`env.x8`); where it does not, a relayed commit may run twice;
* `RelayOwnsPanel`: `Spec => RelayKeepsMaster`;
* `FilterNeverBypassed`: `Spec => []NeverPastFilter`, for a finite set of threads
  (the property itself speaks of a `phases[]` with a slot for each). It says that no
  answer gets round `filter_getres()`, not that the filter never gives up.

`HonestResult` speaks of threads that have their answer and says nothing of
the way there, so it is not inductive. `IInv` adds what is true on the way:
`BootInv` (nothing runs and nothing is decided before the fork), `FdInv`
(`MASTERFD` is set wherever a dup or a probe relies on it), `PhaseInv` (the phase
of a thread agrees with what was done to its call: `sub` 4 exactly when the call is
skipped, 3 exactly when it is a dup, and a marked call is one that will stop at
its exit) and `Ledger` (`applied` is 1 exactly when the answer already known, in
`hret`, in the result register, is OK). `Inductive` combines one lemma for each
group of actions: start-up, the threads, the kernel, entry and exit stops.
`FilterNeverBypassed` adds `Marked`: a GETRESOURCES call past its entry stop is one
whose exit will filter it; a thread always finds a slot, because as many as
there are threads cannot all be taken by the others (a cardinality argument).

* `ServesCommits`: `Spec /\ env.x8 => ImplementsService`, the refinement of
  `CommitService`, on a kernel that honours x8. `IInv` is all it needs: each action
  is shown, by the same groups as in `Inductive`, to be a `Turn`, `TakeEffect`,
  `Answer` or `Abandon` of the service for one thread, or a stutter.

* `HandsOverMaster` (`[]MasterHandedOver`) and `LockedOutOnlyOvertaken`
  (`NativeNotLockedOut`), for any number of committing threads. They come from
  `Undecided`: while nothing is decided a wrapper without a lease is not master
  (`HandInv`), and a probe that comes back from its system call while the wrapper
  is master has failed (`ProbeInv`). So only the exit of a refused probe makes
  the wrapper master, and a later answer "native" is one that it overtook.

**`SplitCommitProofs`**, for any entries that meet the assumptions about kwin above,
commits of any length, any number of commits and retries, and any limits:

* `HalvesTogether` (`[]HalvesDrivePanel`), `TakesOver` (`[]PanelTakesOver`) and
  `RetryHarmless` (`RetryKeepsPanel`), of `Spec`;
* `PanelTogether`: `RelaySpec /\ []OneOutput => []NativePanel` if
  `MaxEntries <= MaxObjs`, that is for a kwin that drives one output with commits
  that are not too long to be rewritten (a longer one reaches the kernel as it is);
* `RelaysFaithfully` (`[]RelayedAsAsked`) and `FilterConsistent`
  (`[]FilterKeepsConsistent`), of `RelaySpec`.

`PanelTakesOver` has two parts. That the crtc kwin lit is shut down and the connector
goes to 206 (`GivesWay`) is proved for every split commit of a kwin that drives one output; that 206
is lit (`Lit206`) for all but a flip that lists 206 as off, which loses it. `FilterKeepsConsistent` is
an equivalence: the commits of which the filter takes away the part of a crtc that the
connector leaves or joins (`Loses`) are inconsistent after it, all others are not. And
`RelayedAsAsked` says of each kind of commit what it turns on: one that links the
connector only the target, one that unlinks it nothing, any other what kwin asked for.

What was sent is not a function of what was asked once a commit has been issued
again, since the wrapper rewrites what it has rewritten. The invariant `SentInv`
therefore describes the *shape* of a commit in flight. `Split(s, f)`: both halves
are there once, with framebuffer `f`, on 206; every other entry is the connector on 206, a
crtc that is off, 206 itself, or a plane that is off. `Stripped`: entries of the
commit that was asked for, without the virtual planes and perhaps without idle ones. A first
rewriting produces one of the two (`FirstSplit`, `FirstStripped`) and a further one
keeps it (`SplitAgain`, `StrippedAgain`), whatever mode 206 has by then. `RelayInv`
says for each mode what is in kwin's memory, and `PanelInv` is `NativePanel` itself, which
is inductive once `RelayInv` is known: a split commit sets both halves and turns off
what it names besides, a stripped one names no plane that is on (`SplitMerge`,
`DarkMerge`). For the filter, every object is shown to be set as kwin asked or left as
the kernel has it, and a crtc only left if the connector neither was nor will be on
it (`PartConsistent`).

The code's "first" and "last" entries are `Min` and `Max` of sets of places. That
a set of numbers has a least element (`Least`) is proved from the well-foundedness
of inclusion between finite sets, since the induction theorems of the library
cannot be used (see section 5).

**`DrmTakeoverProofs`**, for any number of runs in any settings with any signals
(`ModesAssumption`, `RunsAssumption`): `TypeCorrect`; `StopIsComplete`
(`[]StopUndoesAll`); `FrozenWhileStopped` (`[]WatchdogHeld`); `OwnFuseHarmless`
(`PersistUndisturbed`); `ThawedFirst` (`ThawedBeforeDisplay`). `StopInv` records what
`drm-stop.sh` has undone at each of its places, and that no takeover is running
meanwhile: without the second part a takeover could undo the undoing. `FreezeInv` says
that system_server is frozen from before the helpers start, only by a run that is to persist, and that a
round that has ended has the display back; with `StopInv` it leaves the watchdogs the
windows `WatchdogHeld` names. `FuseInv` says that a fuse which is restoring under its
own run found that run over and no `takeover.ok`.

**`DeskTakeoverProofs`**, for any number of runs and retries: `GivenBack`
(`[]StopReturns`) and `SuspendStarted` (`SuspendFirst`, which excepts one start:
`desk-stop.sh`'s first, when begun in the early part of a takeover). `IInv` has four parts:
`BegunInv` (a stop that did not begin early never sees the takeover before kwin's
start), `ReturnInv` (what has been given back at each place of `desk-stop.sh` and
stays so), `DesktopInv` (if the takeover was over, the same of desktop and WiFi)
and `RollbackInv` (system_suspend runs from its place in the rollback on).

**`TouchInjectProofs`**, for any panel, number of slots, size of batches and of the
queue (`ParametersAssumption`, `SlotsAssumption`, `NoTouchAssumption`):
`TypeCorrect`, by which every point kwin is told lies on the panel;
`StreamIsLegal`: `Spec => LegalStream`, a refinement; and `FingersKnown`
(`[]NoFingerLost`). The invariant `Agree` says
that `was` of a slot is true exactly when kwin believes the finger down; with it
`Flush` is a step of `TouchStream` and every other action a stutter. `FingersKnown`
rests on `PendingInv`: the events that are still pending, in the batch and then in the
queue, *lead* from what the program believes (current slot, fingers, points) to what
the panel has. `Leads` is a path of such views, one per event; reading moves events
without changing the path, a packet extends it at its end, handling an event takes its
first step off. When nothing is pending the path has one view, and the two agree.
Cutting packets apart between batches thus cannot lose a finger.

**`TouchDrawProofs`**, for the same panels and any brush and self-test square:
`FingersDrawn` (`DrawSpec => []DrawnWhenHandled`), from the same `PendingInv` and what has
been drawn of the fingers that were handled. The picture is exactly the circles wherever the
self-test does not draw (outside the union of `Spots`); where it does, a square is all that can hide them.

**`TouchCanvasProofs`** (`CanvasAssumption`): `TouchesDrawn` (`[]NothingForgotten`),
`CallbackComes` (`[]NoLostFrame`), `FreeBuffer` (`[]DrawsFree`), `PictureTrue`
(`[]TruePicture`). `IInv` is `Types`,
`Drawn` (what has changed is noted or drawn), `Owed` (a frame in flight has its
callback queued, in a commit or on the wire, and but for the wake of a rebuilding
exactly one) and `Swapped` (what was committed last is the other buffer of the
pair). Each handler is shown to leave the client as it was, to draw while no
frame is in flight, or to make a new pair and draw it. `PictureTrue` needs two more
invariants. `TouchInv`: the touch events on the wire lead, one legal step after the
other, from what the circles show (`Matches`: every circle a finger heard of where
it is, every such finger a circle unless it is in `missed`) to what the compositor has
announced. `PicInv`: the newest commit shows the circles in `last` at the client's
size, and where the commits that wait have damaged nothing the screen shows
them already, and only them. Its core is `BoxCovers`: the damaged box covers every circle
of the last commit and of the new one.

**`PanelToolsProofs`** (`ProcsAssumption`), for any processes, devices and
compositor: `CarefulToolsPass` (`[]GatesPassed`), `ProbesDisturbNothing`
(`Tested`) and, for devices that are consistently described (`DevicesAssumption`),
`PictureWhole` (`[]HalvesShown`). `GateInv`: a takeover or stageprobe is master from its `Open` to its
end and has the capability from `SetCaps` on. `PictureInv` adds that the planes a
takeover has listed as lit are all that are lit on its crtc when it commits
(`Counted`: nobody else has been master since) and what the kernel accepted of the
request it commits (`Accepted`).

## 5. What is only model-checked

* Liveness (`CallsReturn`, `RoundGivesBack`, `FuseRescues`, `DisplayReturns`, `CatchesUp`,
  `PictureCatchesUp`, `PictureSettles`, `PanelReturned`): it needs ENABLED, or
  well-founded orders on behaviours, which are out of reach of the prover.

Everything else the runs check is also a theorem. No proof uses induction over data: the
library's induction theorems take an operator as a parameter, which the installed provers
cannot instantiate. Where a proof needs the effect of many events or entries, the
invariant carries it (`PendingInv`, `Split`), or the model states it without
recursion.

Exceptions written into the properties, each of them a behaviour of the code:

* `NativeNotLockedOut`: the answer "native" of a probe that was overtaken by the
  refusal of another (section 3);
* `PanelTakesOver`: a flip that lists crtc 206 as off while another one is lit
  loses that entry before it would be re-homed; the other crtc is shut down then, and
  206 is not lit;
* `HalvesDrivePanel`, `PanelTakesOver`, `RetryKeepsPanel`, `NativePanel`: only for a kwin
  that drives one output (`OneOutput`);
* `FilterKeepsConsistent`: a commit that moves the connector away from another
  crtc, or unlinks it, loses the shutdown of the old crtc; without
  `KWINWRAP_HIJACK` the filter knows only crtc 206. These commits are never consistent
  after the filter, which the property says;
* `RelayedAsAsked`: fences are left out, because their numbers mean nothing in
  the wrapper, and so is `VRR_ENABLED` of the target crtc;
* `ThawedBeforeDisplay`: the fuse of a run cut short between freezing
  `system_server` and touching `takeover.ok`, the fuse of a run before the one that froze
  it, and the trap of a round started over a takeover nobody had stopped, start the
  display under a frozen `system_server`;
* `WatchdogHeld`: the watchdogs have a window while a takeover is under way (the
  model does not count the 117 s they wait), between the
  thaw and the start of the display in `drm-stop.sh`, after a run that was killed, and after a
  persistent one that came to nothing;
* `StopUndoesAll`: `screen_off_timeout` is not given back, and a kwin that
  `kwin-restart.sh` started while `drm-stop.sh` was at work, or after, is left alone;
* `RoundGivesBack`: not after SIGKILL, nor after TERM has met the trap at work;
* `PersistUndisturbed`: the fuse of an earlier run that woke before `takeover.ok` was
  touched starts the display under a persistent takeover;
* `FuseRescues`: says nothing while an old `takeover.ok` exists. A run killed
  after it stopped the display and before it removed the previous run's file
  is not rescued;
* `StopReturns`, `DisplayReturns`: a `desk-stop.sh` that overtakes
  a takeover which has not got to kwin (`begun = "early"`) is undone by it.
  `SuspendFirst` excepts, in that case, the first start of the framework by
  `desk-stop.sh`, which may find system_suspend stopped again. If the
  takeover was further but still running, `takeover.ok`, the desktop and
  `wpa_supplicant` may be started again after they were removed;
* `NoFingerLost`, `CatchesUp`, `DrawnWhenHandled`, `PictureSettles`: not once the
  program has `strayed`. It does not read the panel's state when it opens the node
  or after SYN_DROPPED, and credits events of slots past `NSLOT` to the slot before;
* `DrawnWhenHandled`, `PictureSettles`: where the self-test draws (`Spots`), a square
  may hide a circle;
* `HalvesShown`: for devices with at most `MaxOther` other lit planes;
* `DrawsFree`: not in the wake of a rebuilding during a frame (`overlap`):
  `alloc_buffers()` clears `inflight` while the old callback is outstanding, and that
  callback ends the new frame early;
* `TruePicture`: a finger that went down while every circle was taken is
  not shown until it comes again (`missed`). `alloc_buffers()` also clears
  `last` (touchtest.c:181), so if the size changes and changes back between two repaints
  (`back`), the old circles are outside the damage of the next commit: they may stay on
  the screen until something else damages them. No circle is missing even then.

## 6. Findings

Two have runs of their own whose counterexample shows them; `PROJECT.json` quotes
the lines.

1. `takeover_persist`: `PERSIST=1` with a kwin that dies early leaves the display
   stopped, with the fuse disabled by `takeover.ok`.
2. `desk_wifi`: `desk-stop.sh` does not match, and so does not kill, a
   `wpa_supplicant` with the generated configuration, though it says that it gives
   display and WiFi back.

Other statements of comments and documents that the code does not keep. Those
with a configuration are not among the runs of `PROJECT.json`; TLC shows each in
seconds.

| what | shown by |
|---|---|
| relaying starts even if taking master back failed; the "master" descriptor kwin is then given cannot commit | `KwinWrap_dup.cfg` with `MCKwinWrap`: `DupIsMaster` |
| without `KWINWRAP_HIJACK`, kwinwrap never drops the master it got by opening the card, although its documentation says so | `KwinWrap_plain.cfg` with `MCKwinWrap`: `DroppedBeforeExec` |
| a flip in which kwin lights another crtc is sent with that crtc off, which the comment in the same function says the kernel refuses | `Split_flip.cfg` with `MCSplitCommit`: `NoOffCrtcInFlip` |
| unlinking the connector is dropped as an "idle plane" | `Split_idle.cfg` with `MCSplitCommit`: `DroppedAreNoops` |
| "native" is final: kwin that was found to be master is never shut out. With two probing commits in flight it can be | `KwinWrap_probes.cfg` with `MCKwinWrap`: `NeverLockedOut` |
| drm-stop.sh restores Android, but leaves `screen_off_timeout` at the maximum drm-takeover.sh:234 set | `Takeover_timeout.cfg` with `MCDrmTakeover`: `TimeoutRestored` |
| system_server must be thawed before the display is started (drm-stop.sh:24-25), but the fuse of a run killed between freezing it and touching `takeover.ok` does not | `Takeover_thaw.cfg` with `MCDrmTakeover`: `NeverUnderFrozen` |
| a terminated round starts the composer while its kwin still holds the panel | `Takeover_signal.cfg` with `MCDrmTakeover`: `PanelFreeAtEnd` |
| the fuse of a failed run starts the composer under the next | `Takeover_fuse.cfg` with `MCDrmTakeover`: `StoppedWhileRunning` |
| atombisect, which is to find the object or property the kernel rejects, never asks for the ATOMIC capability, without which the kernel rejects everything | `Panel_bisect.cfg` with `MCPanelTools`: `BisectBlamesRequest` |
| "at most one redraw per compositor frame" (touchtest.c:7) does not hold in the wake of a rebuilding | `OneRedrawPerFrame` in `TouchCanvas`, false on the instance of `touch_canvas` |

Seen while modelling, and part of the models where it changes state: a resize
to a larger size unmaps the old buffers with the new size (touchtest.c:162,
`TConfigureUnmaps`); a configure event with a size equal to the default in the
first roundtrip draws before there are buffers (`Rendered`, phase `"crashed"`);
replicate names object 0 where `possible_crtcs` is empty (replicate.c:148-164);
stageprobe gives CRTC_X, CRTC_W and CRTC_H the fixed-point shift that only SRC_*
takes (stageprobe.c:103-106); drmatomic also turns off planes that are lit on other
crtcs, and does not turn off those past the 32nd.

## 7. What is not modelled

* Parts of modelled components: kwinwrap's parity fallback for kernels without
  `PTRACE_GET_SYSCALL_INFO`; failing reads and writes of kwin's memory by the splitter
  and the commit filter (those of `filter_getres()` are modelled); failing adb commands
  of the scripts; the number of properties of a commit (objects are counted); device discovery, device nodes,
  udev records, routes and backlight of the scripts; diagnostics everywhere.
* The canoe touch window: a straight-line script without rollback, whose steps
  are those `DrmTakeover` models.
* Backlight and property setters: one write or one ioctl each.
* Probes and dumps (`atomic-spy`, `atomicspy`, `crtcstate`, `informats`, `kwinprobe`,
  `planecrtc`, `connprops`, `masterprobe`, `udevprobe`, `udevmatch`): they print what
  the kernel or udev answers, or log system calls, and change nothing.
* Generated Wayland code: it marshals arguments. What the touch requests of
  fake-input mean is in `TouchStream`.

## 8. Plan

Done: every component in whose behaviour steps of several actors, failures or
history matter has a module, runs and theorems; every safety property of the runs
is a theorem.

Left, in this order:

1. `NativePanel` without `MaxEntries <= MaxObjs`: what exactly a commit that is too long
   to be rewritten may do to the panel.
2. `atomic-spy`, whose tracing loop is a smaller variant of kwinwrap's.

Out of reach for the prover and left to TLC: liveness under fairness.
