# Verification of thingino-onvif

TLA+ modules, TLC configurations and TLAPS proofs for the ONVIF server of the
Thingino camera firmware. Paths are relative to the repository; `src/` is its
source directory.

## The system

`onvif_simple_server` is a CGI program: the web server starts one process for
each SOAP request, and the process ends with the response. What outlives a
request is kept by the kernel, in files, or by two daemons. The events service
is where processes share state; most of the other services answer from a
configuration that no request changes.

| part | source | state | operations | meets |
|---|---|---|---|---|
| subscription table and event requests | `events_service.c`, `utils.h` | `shm_t`: 32 slots (id, kind, expiry, filter, `push_need_sync`) and 8 events (`is_on`, two bit masks of slots) | CreatePullPointSubscription, Subscribe, PullMessages, Renew, Unsubscribe, SetSynchronizationPoint | the daemon, through the shared memory |
| notification daemon | `onvif_notify_server.c` | `last_emit_time`, the inotify queue | main loop (inotify, or polling), `sync_events_thread`, `send_notify` | files under `/run/motion`, the table, HTTP consumers |
| shared memory and semaphore | `utils.c` | names `/onvif_subscription` and `/sub_mem_lock`, the handle of each process | create, attach, wait, post, detach, destroy | every CGI process that handles events, both threads of the daemon |
| instances and pid file | `onvif_notify_server.c`, again in `wsd_simple_server.c` | the pid file | acquire, check, release | other starts of the same daemon |
| topic expressions, times | `utils.c` | none | parse, match, convert | the two above |
| PTZ, what is stored | `ptz_service.c` | `preset_tours.json`, the presets of an external program | presets, preset tours | shell commands, other PTZ requests |
| PTZ, moves | `ptz_service.c` | the motors | the move methods, Stop, home position, GetStatus | shell commands |
| front end | `onvif_simple_server.c`, `onvif_dispatch.c`, `fault.c` | one request | read the configuration, parse, authenticate, dispatch, answer | the web server, every service |
| device, media, relays | `device_service.c`, `media_service.c`, `media2_service.c`, `deviceio_service.c` | the contacts of the relays | some 100 methods, most of which only read the configuration | each other, through the tokens a client carries |
| imaging | `imaging_service.c`, `prudynt_bridge.c` | filter, focus, presets; the values of the streamer | get, set, move | shell commands, prudynt's FIFO and state file |
| configuration | `conf.c` | read once per process | - | every service |
| WS-Discovery | `wsd_simple_server.c` | the multicast socket, message numbers | Hello, Bye, Probe, Resolve | the network |
| XML, response buffer, logs | `mxml_wrapper.c`, `utils.c`, `xml_logger.c`, `log.c` | - | - | - |

What is hard about it:

- **Sections with stale variables.** A handler takes the semaphore several
  times and keeps a slot index, an expiry or a clock value in between, while
  the clean-up, an Unsubscribe and other creations go on.
- **Ids and slots.** Requests name a subscription by id, the events name it by
  slot: whatever outlives a subscription in one of the two is inherited.
- **The semaphore's name.** Every CGI process unlinks it when it detaches.
- **Time.** Expiries, the debounce and the timeout of a pull are whole seconds
  of a clock read before the lock is waited for.
- **Files rewritten without a lock.** A request on a preset tour loads the file,
  truncates it and writes its own list; a request on a preset checks a listing
  and then runs a command. Nothing excludes another request in between.
- **Starts, stops and kills** of the daemon around a pid file and a memory with
  exclusive creation.
- **Four services over one configuration.** Each handler finds profiles, encoders
  and relays by code of its own, prints tokens made in one way and compares them
  made in another, and reads an array whose length, and whether it is there at
  all, the configuration file decides. What one answer says another must not deny.
- **State the process only believes.** The mode of the filter is what the
  configuration says, though other processes have switched it; a value of the
  image is set when prudynt's state file shows it, which may be late or never.
- **Conversions.** Positions go from ONVIF units to steps and back through ranges,
  inversions and a reverse mode, in five methods that each have their own code.

The hazards, each with its line and with the properties about it, are in
`PROJECT.json`.

## Modules

`SubTable` is the table and the searches in it. `Subscriptions` extends it with
the processes. `Delivery` and `Leases` are `Subscriptions` with history
variables, each for one family of properties, and `SubManager` is the abstract
specification that `Subscriptions` implements. `Server` composes `Media`,
`Media2`, `Device`, `DeviceIo` and `Events`, which all extend `MediaConf`. `ShmLock`,
`Instances`, `PtzStore`, `Moves` and `Imaging` stand alone. An `MC` module gives
a module's constants small values and a symmetry set; a `_proofs` module holds
its theorems.

**`SubTable`**. A slot is a record like `subscription_shm_t`, without the
consumer's address. A topic expression is a member of `Filters`, and
`Selects[f]` is the set of events whose topic matches. `FreshId` is the scan for
the greatest id with the return to 1 after 65535 (`MaxId`).

**`Subscriptions`**. One step is one critical section. The variables of `shm_t`
are `subscriptions`, `is_on`, `pull_send_initialized` and `pull_notify` (the bit
masks, as sets of slots). `req[c]` holds the local variables of the CGI process
`c`, with `step` for the place it has reached:

| step | next section | action |
|---|---|---|
| `alloc` | the slot and the id of a new subscription | `Alloc`, `AllocFull` |
| `mark` | its initial messages | `MarkPull`, `MarkPush` |
| `find` | the slot of a pull, the temporary expiry | `PullFind`, `PullFault` |
| `wait` | the loop until a message or the timeout | `PullWake` |
| `restore` | the expiry afterwards | `PullRestore` |
| `emit` | the response | `PullEmit` |
| `renew` | the new expiry | `Renew`, `RenewFault` |

`Unsubscribe` and `SetSynchronizationPoint` are one section; the requests that
end in a fault before the first section are left out. The main loop of the
daemon is two steps: `InotifyRead` or `PollRead` fixes what it knows of a change
before it waits for the semaphore (`change`), and `Record` is the section. The
other thread takes one slot at a time (`SyncStep`) and then cleans up
(`CleanStep`). The environment creates, deletes and modifies input files; with
inotify each of these adds to `queue`. Which of the two strategies a daemon uses
is settled when it starts (`inotify`, any of the constant `Inotify`). `mine` and
`wrapped` are history.

**`Delivery`** adds what each subscriber has heard of each event (`heard`), and
the two reasons to which the properties refer: `excused`, the changes that the
debounce, an expiry or an older handler took away, and `inherited`, the bits
that were set when the slot changed hands.

**`SubManager`** has no slots, sections or handlers: a bounded set of live
subscriptions, `Grant` of one under an id that no live one has, and `End` of
some. The refinement mapping (`Manager` in `Subscriptions`) shows of each used
slot its id, kind and filter; expiries and the flag for the synchronisation are
not what a client refers to. `KeepsSubscriptionsApart` says that `Subscriptions`
implements it: a handler that writes through a slot index it kept must not turn
the subscription that got the slot into another one. After the ids have wrapped
(`wrapped`, the abstract `exhausted`) a grant may repeat an id, as in the code.

**`Leases`** adds the time until which a client was told its subscription lives.

**`ShmLock`**. One step is one system call. `name` is the object that the
semaphore's name stands for, `handle` the object that each process has open,
`held` the object on which each actor's wait succeeded. The daemon is one
process with two actors, `main` and `sync`.

**`Instances`**. One step is one system call of a start or a stop of the daemon.

**`PtzStore`**. What the PTZ requests store: `file` is the list of tours that
`tours_ensure_loaded` finds in `preset_tours.json` (empty while it is
truncated), `presets` the names kept by the external program. `req[p]` holds
the process `p`: its request (`ask`), the list it will write (`tours`), the
presets it listed (`listed`) and the next step.

| step | what follows | action |
|---|---|---|
| `open` | `fopen(..., "w")` truncates the file | `OpenTours` |
| `write` | `fclose` writes the list at the start of the file | `WriteTours` |
| `set` | the `set_preset` command | `RunSetPreset` |
| `relist` | the second listing and the answer | `RelistPresets` |
| `move` | the `move_preset` command | `RunMovePreset` |

The text of the tours is shorter than a buffer of stdio, so one write puts it in
place. When two processes have the file open, the second write leaves what is
behind its own text of the first (`Left`): the loader looks for the next
`"token"` and does not stop at the end of the list. An entry has 68 to 136 bytes,
with a name of up to 63 and a number of up to three digits, so that a text of `n`
tours covers any number of the other's from `n / 2` to `2 n` (`Covered`). `serial`, `fresh` and
`spoiled` are history: the tours the requests would have left one after the
other, whether a process still knows the state it read, and on which of the two
stores that went wrong. The external program is modelled from how the code uses
it: a new preset goes to a free place, or nowhere when there is none.

**`Moves`**. `PlanOf(r)` turns a request into the commands that its process runs
and the fault it sends after them; `Begin` fixes the plan, `Run` runs the next
command, and the last one answers. A process that GetStatus asks runs one command
for the position and one for the movement, and the camera moves (`Turn`)
between the two. `ToSteps`, `ToDelta`, `FromSteps` and `Reversed` are
the conversions; numbers stand on a grid on which they are exact.

**`Imaging`**. A SetImagingSettings is a process with three steps: the checks and
the filter's command (`SetImagingSettings`), the line to the FIFO (`Write`), and
one look at the state file (`Poll`), up to `MaxPolls` of them. The other
requests are one step each. prudynt is external: it takes a line (`Apply`), dies
and starts at any time, and keeps whole numbers (`Stored`).

**`MediaConf`**, **`Media`**, **`Media2`**, **`Device`**, **`DeviceIo`**,
**`Events`**. Each method of the five services is an operator that maps the loaded configuration and
a request to an answer: a fault, or the entries the answer shows. An entry is a
token, the profile whose values are shown, and a codec. `MediaConf` has what they
share: `Load`, the part of `process_json_conf_file` they depend on, with the
profile that was emptied and the sort by size; tokens as the handlers compare
them (`Whole`, `Cut`); and an answer for a process that dies of a NULL pointer.
What a handler finds in a variable it never set, or behind the array, is `junk`,
any member of the constant `Junk`. So is the table of subscriptions that `Events`
finds, which is absent, does not have what the request needs, or has it: what the
handlers of the Events service do to the table is in `Subscriptions`, and what they
answer is here. An entry that belongs to no profile is a number the answer gives
(`Count`), a topic, the state of an event, or something else that the device tells
(`Info`).

**`Server`**. One process per request: `Serve` loads the configuration and replies.
`Reply` is the order of `main`: a configuration that is refused, the HTTP method,
the body, the parser, the login, the dispatch table. The variable `answer` is
what the client holds: its next request carries tokens of the last answer, or ones
that it made up. The user may `Edit` the file in between.

`Subscriptions` assumes that sections exclude each other. `ShmLock` shows that
they do until the first process detaches, and that they need not afterwards: so
the properties of `Subscriptions`, `Delivery` and `Leases` are about the code's
own discipline, beside what is lost when the lock fails. The composition without
exclusion is planned.

## Runs

| run | shows | bounds |
|---|---|---|
| `subs` | `PullReturns`, `ExpiredAreFreed` over all six requests and both watching strategies, under fairness | 2 clients, 1 slot, expiries of zero and in the past, 3 requests |
| `delivery_mixed` | `UnusedHasNoId`, `UniqueIds`, `NoOtherLoss`, `StateIsCurrent`, and `KeepsSubscriptionsApart`, the refinement, over five requests with inotify and a debounce | 2 clients, 2 slots, ids to 2 (they wrap), 1 event, 3 requests |
| `delivery_reuse` | `FilterBreaksByInheritance` with a slot that changes hands | 2 clients, 1 slot, 2 events, 2 filters, 4 requests, poll strategy |
| `leases` | `PromiseKept`, `NoReapDuringPull` as long as nobody touches the slot of a pull that waits (`UndisturbedPulls`, the ACTION_CONSTRAINT) | 2 clients, 1 slot, 4 requests with Unsubscribe, times in the past and in the future |
| `lock` | `OneHolder`, `TakenHasHolder`, `ExclusionUntilClosed`; `TakenIsReleased` under fairness | 2 CGI processes, 4 objects, crashes |
| `inst` | `OnlyOneRuns`, `MemoryLeftByCrash` | 4 starts, kills |
| `ptz` | `ToursWithinLimit` unless the texts of two processes are mixed in the file; `ServedInOrder`, `TokensDistinct`, `NamesDistinct`, `AnswersRight` as long as requests do not get in each other's way | 2 processes, 4 requests, kills, 2 tours at the start and a limit of 2, 2 places for presets, 3 names |
| `server` | `ShowsWhatThereIs`, `TokensWork`, `Answered`, `TellsStrangersLittle`, `ServicesAgree`, `RelayFollows`: every method of five services, GetServiceCapabilities of the other two, every login | 27 configuration files, three contents of the memory that was never written and of the table |
| `imaging` | `FilterFollows`, `ReportedValueKept`, the focus in its ranges (`TypeOK`); `EveryRequestAnswered` under fairness | 2 processes, 4 lists of sources, 6 contents of a setting and 10 of a focus move, 2 looks, a pipe of 1 line |
| `moves` | `MovesAsAsked`, `ReportedPositionKept`, the camera in its ranges (`TypeOK`) | 2 processes, 5 configurations, 30 requests of the one and 2 of the other, ranges of 3 to 5 steps |

Why these bounds are enough to see the hard cases: two clients and two slots are
what it takes for one handler's stale index to meet another's subscription, and
one slot makes it change hands with the fewest requests; ids to 2 or 3 make the
search wrap; a timeout, a margin and a debounce of none to two ticks fall on
both sides of an expiry. `ShmLock` has an object for each process and one more,
so a new one can always be made. `delivery_mixed` leaves out Renew, which writes
nothing that its properties are about except through an expiry (`subs` and
`leases` have it). The files of `server` are the ones that differ in what a
handler decides by: none, one, two and three streams, either order of sizes and
names, skipped streams, names of every length, each codec, relays with and
without a token and with a command that is missing or empty, topics that are
missing, empty or too deep, and more relays and events than there is room for. `imaging`
has a field whose range starts below zero and one that prudynt does not have;
`moves` has every mix of inversion and reverse mode that the conversions
distinguish, a range that is not symmetric, and a number beyond each end.
`PtzStore` starts with the file at its limit, so that a removal and a creation
cross it, and has one place for presets fewer than names. `MaxTime`, `MaxQueue`
and `MaxRequests` bound the clock, the unread inotify events and the requests;
the clock runs past `MaxTime` only for a pull that still waits.

Runs that show a disagreement between the code and what the repository says of
it (the quotes are in `PROJECT.json`, under `findings`):

| run | what happens |
|---|---|
| `v_renew` | a pull that waits undoes a Renew |
| `v_ircut` | a source without `ircut_modes` reports a filter mode that it refuses |

The same models have further behaviours a reader should know of, which the
passing properties name as their exceptions. Of the table and the daemon: after
the first detachment unlinks the semaphore, a CGI process and the daemon can be
in their sections at once (`ExclusionUntilClosed`); a pull whose subscription is
gone may emit and clear the initial messages of the slot's next holder
(`NoOtherLoss` excuses them); a stop within the debounce interval is never
delivered to pull subscribers, though docs/MOTION_DETECTION_EVENTS.md calls them
self-healing (`NoOtherLoss`); after a kill the memory remains and the daemon
cannot start again (`MemoryLeftByCrash`); the pending bits of a slot pass to its
next holder (`FilterBreaksByInheritance`); a termination time that does not
parse makes a slot that never expires (`ExpiredAreFreed`); an input file that
exists when the daemon starts is reported as no motion (`StateIsCurrent` holds
with `FilesAtStart` empty and fails at once without); a pull that is held up
beyond its margin is overtaken by the clean-up (`NoReapDuringPull` holds in
`leases`, where the margin is longer than the run); two starts over a stale pid
file can both acquire it, so that `OnlyOneRuns` rests on the exclusive creation
of the memory; a change is posted to push consumers whatever their filter
(`Record` of `Subscriptions`); and requests on tours that overlap lose tours,
mix their lists or give one token twice, as requests on presets that overlap
store one name twice, which the properties of `PtzStore` exclude by `spoiled`.
When one of two processes that have the file open writes a shorter text over a
longer one, the tail can even bring the file above `max_preset_tours`: two short
names over two long ones leave a third tour where two are allowed. This is the only
exception of `ToursWithinLimit` (`"mixed"`).

Of the services: tokens are printed as `Profile_0` and `Profile_1` and compared
with the names of the configuration, so that `TokensWork` holds only where they
are the same (`AsPrinted`); four handlers of Media2 read a second profile that
may not be there (`ReadsTwo`); a configuration that loads no profile, or that
has a user without a password, leaves requests without an answer, as do requests
without an element that is read unchecked (`WellConfigured`, `Unchecked`). A relay
without a command gives `sprintf` a NULL format when it is to be driven, and an
event with an empty topic makes GetEventProperties follow a NULL pointer: both are
configurations that the loader accepts and that answer every other request
(`WellConfigured`, `Wired`). GetProfiles of Media2, asked for the second profile,
prints that profile's encoder tokens with the size, rates and audio codec of the
first one (media2_service.c:232-258), where GetVideoEncoderConfiguration shows the
second (`Borrowed`). Without a login, the comment of onvif_simple_server.c:561-564
opens the methods of the Events service "when the service is running in anonymous
mode (no username configured)", and the code below it opens them in every setting:
a stranger reads the topics, what happened, and pulls, renews and ends the
subscriptions of others by their numbers. `TellsStrangersLittle` states what the
code tells (`Public`), not what the comment means. The interface that gives the
device its address is never without a name (`DEFAULT_IFS`, conf.c:1001-1005), but
need not be up: the methods of the device service that need the address then end in
a fault, and those that do not look at what get_ip_address returns (the URIs of the
media services, the addresses of new subscriptions, the texts of faults) print an
address that was never set. Of imaging: the mode of the configuration is taken for the mode of the filter, so
that a request for it runs no command (`FilterFollows`); a reported 0 or 1 is
taken for a fraction when it is set back (`ReportedValueKept`). Of the moves: a
diagonal without `move_both` runs no command and succeeds, where
docs/TRUE_DIAGONAL_MOTION.md describes a fallback to two commands (`Dropped`); a
zoom velocity of zero stops all axes with the shipped stop command (`Undone`); a
position without pan and tilt, or without zoom, sends what it leaves out to step
0 (`TypeOK`), and so does one that has only one of pan and tilt beside a zoom
(`Aims`); a relative move from such a step goes back to the range whatever its
sign (`Obeys`); and a relative move in the space of the view succeeds and goes
nowhere where the view angle is not configured (`Blind`). The proof of
`MovesGoAsAsked` found the last three; TLC confirms each when it is taken out of
the property.

Deadlock is checked in the runs of `Subscriptions`, `Delivery` and `Leases`: the
daemon's second thread always has a step. In `ShmLock` and `Instances` every
process may have ended, `PtzStore` and `Moves` rest when no request comes, and
with `Server` a file that the user does not edit may leave only answers that
were given, so it is not. In `Imaging` it is checked: prudynt can always die or
start.

**Fairness.** `FairSpec` of `Subscriptions` has weak fairness on the clock, on
each started handler and on the daemon's loops: they are ordinary loops of
processes that the kernel schedules, and a semaphore wait returns because every
section ends. No client has to send a request and no file has to change.
`Imaging` has weak fairness on `Write` and `Poll` of each process, which are
straight code and a counted loop; nothing is assumed of prudynt, which may never
run. `FairSpec` of `ShmLock` has weak fairness only on `Leave`: whoever is in a
section comes to its end. Entering is not assumed fair, POSIX semaphores promise
no order.

## Proofs

All theorems hold for every value of the constants that the named assumptions
allow (`TableAssumption`, `CoreAssumption`, `LockAssumption`,
`InstanceAssumption`, `StoreAssumption`; those of `Imaging`, `Moves` and `Server`,
which say what a field of prudynt, a node, a request and a configuration file are
like). Three of them are more than types. `GridAssumption` of `Imaging` and of
`Moves` puts the numbers on a grid where a conversion there and back is exact:
the code computes with floating point and rounds, which the models leave out.
`StepsAssumption` says the same of the numbers that clients ask of pan and tilt,
since a part of a step may be no step at all.

- `Subscriptions_proofs`: `TypeCorrect`, `UnusedHaveNoId`, `IdsAreUnique`. The
  two properties are not inductive alone: an id is given for the kind of the
  request, so the invariant `IdInv` adds that a handler about to create
  (`step = "alloc"`) has a kind. A fresh id is greater than every id in the
  table, or 1 after a wrap, which `wrapped` then records; every other step
  writes only the expiry or the flag of a slot, or clears it.
- The refinement (`TableImplementsManager`, same module): `StepShape` says that
  every step keeps id, kind and filter of all slots (`SameIds`), clears some
  slots (`Clears`), or is `Alloc`; the first is a stutter of `SubManager`, the
  second an `End`, and `AllocImplementsGrant` shows the third a `Grant`: a free slot
  means room (`RoomLeft`, by a surjection of the used slots), and a fresh id is above
  all others.
- `Delivery_proofs`: `FiltersBreakByInheritance`, `NothingElseIsLost`, for `DSpec`, whose steps are steps of `Spec`
  (`DSpecSpec`). The filter property is inductive with types, of the model's
  variables and of its history (`HistoryTypeOK`). `NoOtherLoss` needs
  `OwnedKind`: the slot of a creation that is still its own has the kind that was
  asked for, since between the two sections nobody may exchange it unnoticed; and
  `RecordShape`, that a step moves one handler on or clears slots and takes them
  from the handlers that kept them (`Disowned`).
- `RecordedStateIsCurrent` (same module) is for the daemon with inotify and with
  no input file at the start, the conditions under which the code does it right:
  `CurrentInv` says of each event that the last unread message about its file, or
  without one the change in progress, or without one the table, agrees with the
  file. No step of a handler touches any of these (`OthersLeaveState`).
- `PromisesAreKept` and `NotReapedDuringPull` (same module) are for `LSpec` of
  `Leases`, with any number of clients, on two conditions: nobody renews, pulls or
  is given the slot on which a PullMessages works (`UndisturbedPulls`), and no
  pull is held up beyond its margin (`Punctual`). Each is needed: without the
  three cases of the first TLC finds a Renew undone by a pull (`v_renew`), two
  pulls of which the first ends and puts back the expiry that the second has
  moved, and a pull that writes an expiry to a slot that, after an Unsubscribe, is
  somebody else's; and the clean-up cannot
  know that a pull is late. `LeaseInv` says where a promise is while a pull
  waits: not in the table, whose expiry the pull has moved to its deadline and the
  margin, but in the variables of the one handler that pulls the slot.
- `ShmLock_proofs`: `TypeCorrect`, `ObjectAdmitsOne`, `TakenHasItsHolder`,
  `ExclusionHolds`. The inductive invariant `LockInv` adds that a held object is
  at zero and its holder inside (`HeldIsTaken`), that whoever will post posts
  what it waited for (`PostsWhatItHolds`), and that the daemon opens its
  semaphore before its second thread exists (`OpensAlone`). Without
  `PostsWhatItHolds` a post could free the object of somebody else. For
  `ExclusionHolds`, `OneObject` adds that before the first detachment every
  handle is the object that the name stands for.
- `Instances_proofs`: `TypeCorrect`, `OneInstanceRuns`, `OnlyCrashLeavesMemory`, from their
  conjunction, which is inductive: only the owner of the memory is past its
  creation, so a step of anybody else cannot unlink it.
- `PtzStore_proofs`: `TypeCorrect`, `LimitHolds`, `RequestsAreServedInOrder`,
  `TokensAreDistinct`. The inductive invariant `ToursInv` says beside the
  properties that every list a process is about to write is within the limit
  (`ListsWithinLimit`): each list grew from one that was loaded, and as long as no
  texts are mixed the file is such a list or empty; that a process that is
  fresh holds what its request makes of `serial` (`FreshKnows`), so that its
  write leaves the serial result; and that some number bounds all tokens
  (`Bounded`), so that `next_tour_number` has a maximum to take. The first match
  of `IndexOf` and the greatest token exist by the well-founded order of `Nat`.
  `NamesAreDistinct` and `SetPresetAnswersRight` rest on `Undisturbed`: a process
  that is fresh finds, before the command, no preset of the name it is about to
  store (`SetReady`), and afterwards exactly its own in one new place, or none
  (`Placed`).
- `Imaging_proofs`: `FilterIsAsAsked` and `FocusStaysInRange`. `FilterFollows` is
  inductive with the domains of its functions (`FilterInv`), since the filter and
  what was asked of it change in one request. A focus command that is accepted has
  passed the checks of its argument and of the speed that was resolved for it
  (`AcceptedMoveInRange`). `TypeCorrect` adds the types of what the processes and
  prudynt's two files hold (`TypeInv`). `ReportedValuesAreKept` needs `ShownInv`:
  what an answer shows has the ranges that the fields still have, since prudynt
  changes values and never ranges. On the grid a value that is made a fraction and
  a value again is itself.
- `Moves_proofs`: `CameraStaysInRange`. The inductive invariant `CameraInv` says of
  every process that what it still has to run are at most two commands (`Short`),
  each of which leads to reachable steps or is a shift that the motors cut off
  (`Safe`); the conversions clamp whatever number a request has (`StepsInRange`,
  `DeltaIsWhole`), and `PlansAreShort` joins the plans of all methods.
- `ReportedPositionsAreKept` (same module): on the grid ptz_machine_to_onvif_units
  and ptz_onvif_to_machine_units undo each other (`StepsRoundTrip`), and so do two
  reversals, whatever is inverted; what is shown is the status of what was read.
- `MovesGoAsAsked` (same module), the longest of its proofs, has two halves. The
  conversions keep the order of the numbers: the scale is linear and monotone
  (`ScaleIsLinear`, `ScaleIsMonotone`), so that a positive number raises what a
  client is shown, by a difference (`DeltaFollows`, `ViewDeltaFollows`,
  `ShiftFollows`), by a position (`PositionFollows`) or by an end of the range
  (`EndsFollow`), inverted or reversed or not. And the commands do what was planned:
  `AloneInv` says that a process that nobody interrupted has yet to run its whole
  plan, or only the second command after the first has done its work (`Halfway`).
  The plan does not change under it, as the configuration does not (`SamePlan`).
- `Server_proofs`: `StrangersLearnLittle` rests on `OpenMethodsPublish`: each of
  the methods that the dispatch lets pass without a login answers with what
  `Public` allows its service, whatever the configuration and the table. `RelaysFollowRequests` needs
  `ContactInv`, that there is a contact for each relay: only an admitted request
  drives one (`OnlyAdmittedDrive`), a token that finds no relay is refused
  (`RefusalsDriveNothing`), and the first relay that a token names is the one that
  GetRelayOutputs shows under it (`DrivenFollows`).
- `TypeCorrect`, `AnswersShowWhatThereIs` and `RequestsAreAnswered` (same module)
  are one invariant, `AnswerInv`, proved method by method over the five services.
  What a handler may rely on is `IsConf`, which every file loads as, and
  `Named`, that there is a profile and each has a name: a search that meets a
  profile without a name crashes.
- `ServicesAlwaysAgree` compares answers rather than steps: what the profiles of
  Media and of Media2 show is written out once (`Common`, `AllAdecs`), and each
  list is shown to be its part.
- `TokensAlwaysWork` has the invariant `TokensInv`: each token that was answered is
  `Genuine`, it stands for the profile, source or output that its entry shows. A
  genuine token is found by whatever method takes its kind
  (`GenuineTokensWork`), where the names are printed as they are configured
  (`Printed`) and the relays have their commands (`Wired`). What GetProfiles of
  Media2 borrows is genuine but for its values (`Loaned`).

Model-checked only are the liveness properties (`PullReturns`, `ExpiredAreFreed`,
`TakenIsReleased`, `EveryRequestAnswered`), since fairness and ENABLED are out of
the prover's reach.

## Abstractions, and what is not modelled

- The input files of different events are different files.
- A pid is not given again to another program; `check_pid` would take that
  program for the daemon.
- A notification that is posted is heard: failures of `send_notify` belong to
  the network and are reported nowhere.
- The table of `ShmLock` is one memory; a CGI process whose `ftruncate`, `mmap`
  or `sem_open` fails, and so unlinks the memory's name, is left out.
- `PtzStore`: faults before the file is loaded or the presets are listed, the
  check that the motors rest before SetPreset, a failing disk, the motor
  commands and what they return, and a file longer than a buffer are left out. The
  lengths of the names are: how many entries one text covers of another is any
  number that they allow.
- `Moves`: speeds are left out, they choose between two commands for the same move;
  a number is rounded nowhere, since the grid is exact; how motors get to
  their goal, and that a command reaches them, is external. SendAuxiliaryCommand
  runs one command and keeps nothing.
- `Imaging`: the values that GetImagingSettings takes from the configuration
  alone are left out; what two numbers differ by on the grid is more than the
  tolerance of the comparison. The array of commands in
  `imaging_set_imaging_settings`, which is too short for all nine values at
  once, is a function without a size in the model.
- `Server`: the text of the answers, the templates and the response buffer; what
  the digest is computed from (it is right or wrong); requests to the PTZ and
  imaging services, which have modules of their own, beyond their
  GetServiceCapabilities; what the requests to the Events service do to the table,
  which is in `Subscriptions`; the setting of the clock and the delayed reboot, which
  are commands of the device.
- Signals are left out, as is the window between the memory's creation and its
  clearing.
- Topic expressions and time conversions: `Subscriptions` has the events that a filter
  selects and the times of a request as parameters.
- WS-Discovery: each datagram is answered from a fixed text; the pid file code is that
  of `Instances`.
- XML access and logging: no state that a request decides by.

## Plan

What is left, in this order:

1. `SharedTable`: `ShmLock` composed with the sections of `Subscriptions`, so
   that what is lost without exclusion can be stated: the size of a response
   against its content, an id given twice, a table cleared under a creation.
2. `TopicFilter`: the matcher of topic expressions and the length limit of a
   slot, against a reference definition over bounded inputs; the time
   conversions.
3. `Wsd`: Hello, Bye, Probe and Resolve, with the pid file shared with
   `Instances`.
4. Theorems about these modules.
