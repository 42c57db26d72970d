# A formal model of the temperature and humidity sensor

The firmware is a Matter temperature and humidity sensor for nRF boards with a
TI HDC302x and/or a Sensirion SHT4x and, optionally, an e-paper display.  This
directory holds TLA+ modules translated from `src/src/` and from the display
driver in `src/drivers/`, TLC configurations that
check them on small instances, and TLAPS proofs of the most important results
for every value of the constants.  `PROJECT.json` maps every definition to the
lines it models.

Run a check with `tlc -config NAME.cfg MODULE.tla` and a proof with
`tlapm MODULE_proofs.tla`.

## 1. The system

### Threads

| thread | runs | fed by |
|---|---|---|
| worker (`IoWorker`, a `k_work_q`) | display bring-up, ticks, toggling the primary sensor, calibration requests, starting and stopping decontamination | `k_work` items, one object per kind, FIFO; an item that is already queued is not queued twice |
| app thread (`AppTask::StartApp`) | `MatterReporter::Publish`, `HDC302xDecontaminationController::RunCycle` | `Nrf::PostTask`, a bounded queue; a full queue drops the task |
| outside both | the tick timer, the decontamination timer, the button handler | only submit to one of the two queues |

The worker's priority is numerically higher, so lower, than the app thread's
(`src/Kconfig`, `APP_IO_WORKQUEUE_PRIORITY`): the worker advances only while
the app thread waits for a task or for a bus.  There is not one mutex or atomic
in the application: `mActive`, the heater, the display fields and the LVGL
objects are shared between both threads and rely on priorities and luck.

### Components

| component | state | operations | what makes it correct |
|---|---|---|---|
| I/O worker, app queue (`io_worker`, `app_task`) | two queues, the location of each thread | submit, take, post, dispatch | nothing queued twice, capacity kept, a dropped task does no lasting harm |
| Measurement worker (`measurement_worker`, `sensor`) | primary and secondary sensor, two averages per sensor, pending calibration, cached offset | `Tick`, `TogglePrimary`, `CalibrationRequestHandler`, `ToggleDecontamination`, `Init`, `Start` | heated readings stay out of the cluster, averages never mix offsets, requests are answered |
| Decontamination controller | heater, `mActive`, start time, cycle count, timer | `Start`, `Stop`, `RunCycle` | the heater is on only under a session that will end |
| Display manager | `mCurrent...`, `mLast...`, the update counter, the visibility budget, LVGL objects, panel | `InitOnWorker`, setters, `RefreshDisplay` | the panel does not pair values that do not belong together; `noChange` never hides a redraw that is needed; full updates come in time; a label shows what it is for, as long as it should |
| Humidity calibrator | in the HDC302x: the offset and the measurement mode | `Apply` | offset in range, measurement mode restored, calibrated humidity equals the reference |
| Moving average | `mSmoothed` | `update`, `reset` | within the range of its samples, no overflow, converges |
| Matter reporter | four bounds, the two attributes | `LoadValidityRanges`, `Publish` | a value out of range is published as null, at any time of the start |
| Startup (`AppTask::Init`) | what has been initialised | the `Init` calls in order | nothing is used before it is initialised; the measurements do start |
| SSD16xx driver (vendored, changed) | profile, blanking, scan mode, orientation; in the controller: registers, RAM window, two planes | `init`, `write`, `read`, `blanking_on/off`, `set_orientation`, all through `set_profile`, `set_window`, `update_display` | the profile and the two RAM planes are what the driver takes them for; an image appears where it was drawn |
| Thread status | none of its own | `GetThreadConnectivity` | the best link is shown, a dash without one |
| sensor configuration, LEDs, ZAP data, boards, fonts | none of their own, or generated | | mostly not modelled, see section 7 |

How they interact: the tick timer submits a tick; `Tick` reads the primary and
then the secondary sensor through their averages, takes up a pending
calibration, posts the readings to the app thread, tells the display and
refreshes it.  The app thread writes the readings to the Matter attribute.
While a session is active ticks and toggles return at once; the session's own
timer posts `RunCycle` to the app thread, which reads the same sensor, draws on
the same display and may end the session.  The worker ends it too, on a button.
`RefreshDisplay` flushes LVGL, which calls the driver's `write`; with
`CONFIG_LV_Z_FULL_REFRESH` it draws the whole screen, and blanking around a
flush makes it a full refresh instead of a partial one.

### What is hard here

Two writers of the session and of the display on two threads; every bus
transfer is a point where the other thread gets in; calls that fail and are
only logged (heater, offset, fetch); a bounded queue that drops tasks; state
that describes the sensor's earlier condition (average, cached offset,
displayed reading) after a toggle or a calibration.  At the start: buttons that
are live before the parts they talk to, and a sensor that keeps, over a reset,
what an unfinished calibration left in it.  On the display: eleven comparisons
that decide whether anything is drawn at all, an eight-bit counter of updates
and a budget of refreshes.  In the driver: a controller
whose planes swap behind its back after one kind of refresh and not after the
other, transfers that break off between two planes or behind a software reset,
and window arithmetic in four orientations and two units.  `PROJECT.json` lists
each hazard at its line.

## 2. The modules

| module | models | correspondence |
|---|---|---|
| `IoWorker` | threads, queues, priorities | `pc[t]` is the location of a thread in its handler; `workQueue`, `taskQueue`; `At` combines the location with the scheduling rule |
| `DisplayManager` | `RefreshDisplay` and the setters | a content is the tuple of `mCurrent...` fields the properties tell apart; comparing, drawing the measurements, drawing the status bar, flushing and committing are a step each, with the waits for the panel between them |
| `DecontaminationController` | `Start`, `Stop`, `RunCycle` | one step per bus transfer and per access to a field the other thread sees; time counts timer periods |
| `MeasurementWorker` | the work items, sensors, publication, and the composition of all of the above | a reading is the set of samples blended in it; a sample records sensor, heater and offset epoch |
| `MeasurementProperties` | type invariant and properties of the composition | |
| `HeaterInterlock` | abstract specification: heating and sampling exclude each other, nothing heated is published | implemented by `MeasurementWorker` under the mapping `Interlock` |
| `MovingAverage` | `update` and `reset` in 32-bit integers | `smoothed` is `mSmoothed`, the empty set its sentinel `INT32_MIN` |
| `Ssd16xxGeometry` | `ssd16xx_set_window` with `ssd16xx_ram_x_span`, the scan modes, the controller's address counters | pure operators over rectangles; `Rotated` and `CellOf` say where a pixel belongs |
| `Ssd16xxWindow` | the geometry asked one request at a time, with its properties | `request` is the call's orientation and rectangle |
| `Ssd16xx` | every call of the driver, transfer by transfer, and the controller | `profile`, `blankingOn`, `scanMode`, `orientation` are `ssd16xx_data`; `programmed`, `entry`, `window`, `black`, `red`, `panel` are the controller; `pc` is the next transfer |
| `Framebuffer` | abstract specification: what is drawn is shown at once or, while blanking is on, when it is turned off; a failure (`Stray`) may leave anything on the panel until the next initialisation | implemented by `Ssd16xx` under the mapping `Promise` |
| `DisplayPath` | the calls of `RefreshDisplay` on the driver: blanking around a full update, the flush of the whole screen; composes `Ssd16xx` and `UpdateTrust` | `step` is the next call, `full` is `fullUpdate`, `sent` the picture drawn last, `failed` a result that the code ignores |
| `UpdateTrust` | what the results of those calls say about the panel | `trusted`: it shows what was sent last; `stale`: a partial update has failed and none has succeeded since |
| `RefreshPolicy` | `RefreshDisplay` in full, the setters, `GetThreadConnectivity`, one caller after the other | an optional is a set of at most one value; `current` and `last` are the `mCurrent...` and `mLast...` fields, `partialCount` and `infoLeft` the counters, `widgets` the labels with their hidden flags; `panel` is what LVGL sent last |
| `Readout` | the formatting of numbers | what a label reads, in tenths, with the rounding of each formula |
| `HumidityCalibrator` | `Apply` and `ManualMeasurementScope`, and the HDC302x as they see it | `phase` is the next command; `mode` and `steps` are the device, whose offset is a number of steps of 625/32 hundredths |
| `MatterReporter` | `LoadValidityRanges`, `Publish`, the attributes of both clusters | `loaded` counts the bounds that are loaded: `LoadValidityRanges` returns at the first that fails |
| `AppTask` | `Init` and `StartApp`, buttons, tick timer, resets, and the path of a measurement; composes the previous two | `stage` is the next call of the main thread; `handlers` are the items `k_work_init` has seen; `crashed` is the call of a null handler, or a list cut by `k_work_init` |
| `CppIntegers` | 16-bit types and truncating division | |
| `MCAppTask`, `MCDisplayPath`, `MCMeasurementWorker`, `MCMovingAverage`, `MCRefreshPolicy`, `MCSsd16xx`, `MCSsd16xxWindow` | instances for TLC | |
| `*_proofs` | theorems | section 5 |

A handler is cut into steps where a thread blocks on a bus and where the other
thread can get between two accesses to shared state.  Two accesses of one
thread to variables the other never touches stay in one step.  `RefreshDisplay`
can be left between the comparison and the drawing (a full update waits in
`display_blanking_on`, display_manager.cpp:371), after `DrawMeasurements`, before
the flush, and between flush and copy (`display_blanking_off`, line 381);
`TogglePrimary` between the name and the offset (measurement_worker.cpp:250-251).
Kept in one step are the setters in a row at the end of a tick
(measurement_worker.cpp:221-224) and in `RunCycle`, and the copy of the fields to
`mLast...` (lines 384-394): without sessions only the worker draws, and with
them no property of the panel is claimed.  An operator
whose comment begins with "Variant" is not used by the specification: it is
the mutated form of the definition below it.

In `Ssd16xx` the RAM is a grid of bytes and a byte is one of the images, blank,
or "noise": something nobody meant.  The controller is modelled from how the
driver uses and comments it: a full refresh shows the black plane; a partial
refresh drives the pixels in which the planes differ and swaps the planes
(ssd16xx.c:503-509); a software reset leaves the RAM alone (802-805).  A byte
that a partial refresh drives from another image than the panel shows becomes
noise.  A transfer that fails may have had its effect or not, and the step that
issues it returns where the code does.  `healthy` is a history variable: it is
FALSE from a failure that leaves the controller unlike the driver's notes to
the next initialisation.  Which failures those are is part of the model's
result: a window that fails does not count, because every call sets its own.

`RefreshPolicy` and `DisplayManager` model the same function from two sides.
`DisplayManager` keeps the interleaving of two threads in it and reduces the
contents to what they tell apart; `RefreshPolicy` keeps the contents, widgets
and counters and leaves each refresh whole.  `trusted`, `stale`, `draws`
and `introduced` are history variables.  After a failed call on the display the
panel and the planes behind it are taken for unknown until a full update
succeeds, which sends both; but not when a partial update has failed and none
has succeeded since.  That rule is `UpdateTrust`; `DisplayPath` has the
same calls, with the driver and the controller behind them, and derives it.
`err` in `Ssd16xx` says whether the last call of the driver has returned an error,
which `RefreshDisplay` never looks at.

`AppTask` and `MeasurementWorker` likewise share `Tick`: `MeasurementWorker` has
the sessions and the display in it, `AppTask` the numbers, the calibration
command by command, the start and the resets.  In `AppTask` the averaged
reading of the HDC302x stands for the correction of what it senses by one of
the offsets its samples were taken under (`averaged`, a history variable); the
blending itself is `MovingAverage`.  The device comes with any offset and in
any mode, and both survive a reset of the microcontroller.  A command that
reports a failure may have had its effect.

A bus location may stand for several transfers of one call (`Sensor::Read`
fetches once, `Apply` makes up to five transfers).  Between them the other
thread could run, but none of them touches state that the other thread changes
in the meantime, except the heater and the measurement mode of the HDC302x
itself, which only the device sees.

## 3. The runs

| run | question | result |
|---|---|---|
| `decontamination` | do sessions, ticks and toggles keep the interlock under the real priorities, with both threads drawing and blocking in the panel, attribute writes that fail and tasks that get lost? does a session keep its timer and its sensor? | yes; the composition implements `HeaterInterlock` |
| `app_task` | does the firmware reach its measurements from every start, in the order that the parts rely on? does calibration keep the sensor in its mode and bring it to its reference, whatever fails or resets between? do the clusters keep their bounds? | yes; an early press is the one way to a crash |
| `refresh_policy` | is all that should be drawn drawn, are full updates in time, is the sensor information visible as long as it should be and no longer, are numbers rounded to the nearest? | yes; what is drawn and when it hides as far as the panel can be relied on after failed calls (`trusted`) |
| `display_measurements` | does the panel pair name, reading, difference and offset correctly when reads fail in the middle of a toggle, and do average and cached offset follow a calibration? (without sessions) | yes, the latter unless the offset took effect although its call reported a failure |
| `session_ends` | with toggles, sessions, tasks that get lost and fetches that fail, but not for ever: does every session end, does a toggle reach the cluster? | yes |
| `repairs` | when transfers fail anywhere in an update: from when on does the panel show what was sent last? | from the next full update, or, after a partial update that failed, from the first full update that follows a partial one without failure |
| `moving_average` | range, convergence, overflow | kept |
| `windows` | does each accepted rectangle get the window that holds its buffer and puts every byte in place? | yes; rectangles of rot180 that are not centred and one-page spans scanned downwards are left out, because there the code is wrong (section 6) |
| `driver` | do driver and controller agree between calls when any transfer may fail and the processor may restart, does blanking hold the panel, and does the driver keep a frame buffer's promise with writes of the screen and of parts, turns, blanking and restarts? | yes, up to `healthy`; yes; it implements `Framebuffer` |
| `fetch_never_succeeds` | "for up to five minutes" while fetches fail | violated: `RunCycle` returns before it looks at the clock |
| `heater_command_fails` | "heater readings do not pollute the Matter cluster" when switching off fails | violated: `mActive` is cleared all the same |
| `driver_profile_fails` | "a no-op if the profile is already active" | violated: after a failure behind the software reset it is a no-op although no profile is active |

The last three compare the code with its own comments; each disagreement is a
finding in `PROJECT.json`.

### Bounds

* `TaskQueueSize` 1 instead of the SDK's: small enough that `PostTask`
  does drop tasks, which is the only effect of the size.
* `MaxAge` 1 or 2 periods instead of 150: a session may end by time after none,
  one or two cycles.  `DisplayInterval` 1 instead of 10: every cycle draws.
* `MaxCalibrations` 0 or 1: the first calibration is the only step from one
  epoch to the next, and samples remember which side they are on.  The proofs
  cover any number, and with it the calibration that follows one that took
  effect unnoticed.
* `Available` both sensors where toggles matter; the proofs cover one sensor.
* The run `decontamination` tells states apart by a `VIEW` without `labels` and
  `panel` (`WithoutPicture`).  Both are written there and read by no guard, no
  other variable and no property of the run but their types, which
  `TypeCorrectness` proves; states that differ only in them have the same
  behaviours otherwise.  All other runs use the whole state.
* `Buttons` is the set of requests in play; the work queue needs no bound, an
  item is queued at most once.
* Windows: all rectangles with edges at, before and after a byte boundary on a
  panel of three gates and three pages with one source left over; the proofs
  cover every size and the controllers that address bytes.
* Driver: a panel of one gate and two pages, two images, so that a plane can
  hold the new, the old or neither, and a page can be written or left alone.
  Draws the whole screen, and a part that is accepted upright and one that is
  accepted sideways; each overlaps the whole.  Every call may fail, and
  `MayRestart` lets the processor start again between any two transfers.  A
  panel without a partial profile is covered by the proofs only.
* Repairs: the same panel lying on its side, two pictures, every call may fail,
  restarts at any time.  Each update may be a full one, so every pattern of full
  and partial updates is there.
* Refreshes: `WrittenInterval` 259, which as a `uint8_t` is 3 just as 400 is
  144; a budget of 2 refreshes instead of 10.  A temperature below zero, a humidity
  and an offset that come and go, each at a step of its rounding, a session, and
  a router with two neighbours.  The proofs cover every interval that is not 0 modulo
  256, every budget and all values of the types.
* Start: every order of the threads, one request for a calibration before, at
  and after each stage, one reset at any step, a task queue of one.  The device
  comes with the offset 0 or -100 steps; the references ask for the greatest
  correction that is allowed and for one that the driver would clamp.  The
  stages that call the SDK all end `Init` in the same way: one of them,
  `StartServer`, fails in the run, which is the one with the queue and the
  display already at work.  A second reset finds nothing that the first did
  not: the proofs cover any number.
* Samples of `MovingAverage`: small values of both signs, where rounding
  decides, and both ends of the type, where overflow would.

Where priorities are strict, timers and buttons act while both threads wait:
a submission earlier would put the same item in the same place of the queue,
because the thread that takes it runs no sooner.  Where they are not
(`StrictPriority = FALSE`), everything interleaves with everything.

## 4. Fairness

`SchedulingFairness`: the app thread has the higher priority, so it runs
whenever it can (weak fairness).  The worker is enabled again and again while
the app thread waits, so strong fairness is what a preemptive kernel gives it.
Timers expire (strong fairness, since under strict priorities they are enabled
only between two waits).  `FetchFairness`: a fetch that is tried for ever
succeeds some time; the run `fetch_never_succeeds` shows what happens without.
Nothing is assumed of buttons, nor of the outcome of any other call.

`AppTask`: both threads run and the timer expires (weak fairness; here the
stages do not compete), and a primary sensor that is fetched again and again is
read some time.  A reset may come at any time, but only boundedly often.
`RefreshPolicy`: the bring-up is carried out; a session ends (that is
`HeaterStops`, under the same assumption about fetches); ticks come again and
again and refresh the display unless a session is active.  The strong fairness
of both says no more than that ticks and sessions alternate for ever.

## 5. The proofs

`MeasurementWorker_proofs` proves `TypeOK` for every configuration, queue size
and fault set, one step per action.  It includes that no `k_work` item is queued
twice and that the task queue keeps its capacity.  Then it classifies the steps
of the whole system as a session sees them (`SessionSteps`: a step of `Start`,
`Stop` or `RunCycle`'s decision, or a step aside), which reduces every later
argument from some thirty actions to eight.

* `SessionKeepsTimer`, `SessionStaysOnPrimary`: for any interleaving, any
  faults.  The first is inductive with `TypeOK` and `ResumeKnown` (where
  `RefreshDisplay` returns to); the second also needs that without
  `CONFIG_APP_HDC302X_MAINTENANCE_FEATURES` there are no sessions.
* `HeaterAlwaysSupervised`: under `HeaterObeys`, that is, the priorities of the
  code and heater commands that do not fail.  It is not inductive:
  `HeaterInvariant` adds that a thread about to clear `mActive` has the heater
  off, which needs the priorities (`HeaterOn` on the worker cannot run between
  the app thread's `SetHeater(kHeaterOff)` and `mActive = false`), and that a
  tick past its check of `mActive` reads unheated sensors.
  `heater_command_fails` shows that the second assumption cannot be dropped.

`Readings_proofs` follows the readings from there to the panel and the cluster.

* `HeatedReadingsKeptOut`, under `HeaterObeys`, from `HeaterInvariant`.
* `InterlockImplemented`, the refinement of `HeaterInterlock` under the same
  assumption: steps that switch the heater map to `SwitchOn` or `SwitchOff`, the
  start of a tick to `BeginTick`, reads to `Measure`, publication to `Report`,
  everything else to `Forget` or a stutter.
* `AverageNeverSpansOffsets`, `CacheStaysFresh`: for any interleaving and any
  failing calls.  A call on the offset that reports a failure may have had its
  effect; the history variable `unnoticed` says so until the next calibration
  succeeds, and excuses both.  The first is inductive as it stands; the second
  needs that nothing is cached without a display.
* `PanelKeepsLast`, `PanelAlwaysNamesSource`, `DeltaNeverOfOneSensor`,
  `OffsetOnlyOfPrimary`: for any interleaving and any failing calls under
  `NoDecontamination` (nobody requests a session, so the app thread never
  draws; section 6 says what happens if it does).  What is wanted on the panel
  is not consistent at all times: `TogglePrimary` names the new sensor before it
  sets the offset and before it reads.  `WantedInvariant` says how far it may be off; `PanelInvariant` says
  that it is consistent while the worker is inside `RefreshDisplay`, that the
  labels hold it from drawing on, and that the panel holds it between flush and
  commit, and what `mLast...` says at every other time.

`MovingAverage_proofs` proves, for every weight and every set of 16-bit samples,
that an average exists exactly from the first sample after a reset, that it
stays between its samples, that the sum cannot overflow, that a sample pulls
the average towards itself and never past itself, and that with more than half
the weight on the sample the average rests only there.

`Ssd16xxGeometry_proofs` holds the arithmetic of windows: the conditions under
which each byte of a buffer lands on the pixels it shows (`Placement`), and that
the bytes a buffer fills are exactly those its rectangle covers
(`BytesOfRectangle`).  `Ssd16xxWindow_proofs` and `Ssd16xx_proofs` use both.

`Ssd16xxWindow_proofs` proves the three properties of windows for every panel
size and both kinds of controller.  `BytesLandInPlace` assumes what
section 6 shows to be needed, that rectangles in rot180 are centred
(`Centred`); `WindowsHoldBuffers` assumes that descending spans have more than
one page on a controller that addresses pixels (`FacesScan`).  So does the
module `Ssd16xx`, and with it every theorem of `Ssd16xx_proofs`
(`TransfersFillWindows`): `ssd16xx_write` sets the address counters once and may
transfer the buffer twice (lines 497 and 510), and the second transfer starts
where the window does only if the first has filled it.  On a controller that
addresses bytes the assumption says nothing.

`Ssd16xx_proofs` is about every panel, configuration and set of faults, restarts
included.

* `DriverInStep`, `BlankingHoldsPanel`: `InStep` speaks of idle states only; the
  inductive invariant adds what holds between two transfers (`Writing`: the
  plane just written is the other one with the buffer over it, so that after the
  swap and the second transfer both are equal), during the initialisation
  (`Clearing`), and that the planes hold no noise, since a partial refresh shows
  the black plane only where the red one is what the panel shows.
* `WindowsWithinRam`: the type invariant; what it takes is that the window of
  every accepted rectangle, in every orientation, is one of the RAM's.
* `FramebufferImplemented`: the refinement of `Framebuffer`, if rectangles are
  centred in rot180 (`Centring`).  The invariant it adds, `Aimed`, says that
  between two transfers the window is the one of the call that is under way, in
  the orientation the call began with.  The transfer or refresh that shows the
  call's buffer maps to `Draw`, calls of blanking and of the orientation to
  `Blank`, `Unblank` and `Turn`, a failure that leaves driver and controller
  apart, or a restart, to `Lose`, all until the next initialisation to `Stray`,
  its last step to `Start`, and the rest stutters.
* `UpdatesUseDriver`: what `RefreshDisplay` does on the driver (`DisplayPath`)
  is a behaviour of `Ssd16xx`, step by step, so that the three results above
  hold under the display manager.  The only hypothesis, here and in the next, is
  that the whole screen is one of the rectangles that are drawn.
* `TrustIsJustified`: whenever the rules of `UpdateTrust` say so, every byte of
  RAM that is visible shows the picture sent last.  Nothing of it follows from
  `InStep`, which excuses every state behind a failure; the theorem is about
  just those.  Its invariant `PathInv` has five parts, one per question:
  `Control` (where `RefreshDisplay` and the driver may be at the same time, and
  what `blankingOn` and the profile are there), `Starting` (what an
  initialisation has cleared so far), `Believed` (when `data->profile` names a
  profile, the controller holds it, unless a partial update failed), and
  `PartialUpdate` and `FullUpdate` (what planes and panel hold after each
  transfer that succeeded).  It stands on `PathBase`: the driver's own
  invariant, and that between two transfers the window is the screen's and the
  data the picture.  TLC checked it first, in three orientations and with and
  without a partial profile.

`RefreshPolicy_proofs` proves the five safety properties of that module for
every interval, budget and content.  It takes what the display does
after a failure from `UpdateTrust`, which `TrustIsJustified` derives from the
driver.  `PanelShowsContent` rests on a
lemma, that drawing and hiding give the picture of the content whatever texts
the labels held before, and on an invariant: the panel holds the picture that
`last` records, or nothing, and the latter exactly as long as `last` holds the
elapsed time that nobody sets.  `FullUpdatesInTime` is that the pictures since
the last full update never outnumber the counter; when a full update fails, the
panel has taken the whole interval and starts over, which makes the bound one
more while the panel is not to be trusted.
`InformationWindow` relates the budget to
the refreshes outside sessions: `infoLeft + introduced` is the budget as long
as there is no second sensor.  The rounding theorems are arithmetic.

`AppTask_proofs` proves the seven safety properties of that module for all
readings, devices, failing calls, and any number of requests and resets.

* `ItemsHaveHandlers`: an invariant says, stage by stage, which items have
  handlers, and that an item is in the queue without one only after an early
  press.  `DisplayComesFirst` adds that the display has been brought up, or its
  item is at the head of the queue, or the queue is empty and nothing has a
  handler yet.
* `OffsetsNeverClamped`: 2480 hundredths are less than 127 steps.
* `CalibrationsAlign`: while `Apply` is in its write phase, the offset it is
  about to send is the one in the device plus the difference of its arguments,
  because nothing else writes the device; what remains is the arithmetic of two
  roundings.
* `SensorMeasuresOn`: outside `Apply` a device in manual mode goes with
  `modeFailed`, from the moment that `Init` has set the mode.
* `ReportsWithinBounds`: nothing is published before all four bounds are loaded.

Model-checked only: the liveness properties `HeaterStops`,
`AttributeFollowsPrimary`, `InfoHides` and `MeasurementsStart`.  TLAPS has no proof rule for `ENABLED`, which fairness is
defined by.

## 6. What the code does not guarantee

Behaviour of the model, and so of the code, that no run refutes:

* `RunCycle` tests `mActive` before it fetches and sets the DECON label after.
  If the worker stops the session in between, the label stays until the next
  session.
* Both threads may be in `RefreshDisplay` at once.  The one that commits last
  copies fields it has not drawn to `mLast...`, and `noChange` then hides the
  redraw.  This is why `PanelShowsLast` is checked without sessions.
* With sessions the panel may also pair values that do not belong together.
  When the tick of a toggle to the HDC302x fails to read and a session starts
  next, the reading of the SHT4x is shown under the name of the HDC302x; and the
  next cycle may show the difference of the HDC302x to itself.  A `RunCycle`
  that waits for its fetch while the worker ends the session and toggles shows
  the HDC302x, with the DECON label, under the name of the SHT4x.
* `TogglePrimary` sets the name and the offset in two calls
  (measurement_worker.cpp:250-251).  A `Stop` that `RunCycle` has begun may go on
  between them on the app thread, whose priority is higher, if the worker's own
  `Stop` has ended the session meanwhile; its `RefreshDisplay` then shows the name
  of the SHT4x with the offset of the HDC302x until the next refresh.  This is
  why `OffsetOfPrimary` is checked and proved without sessions only.
* `RunCycle` and the `Stop` and `RefreshDisplay` it calls run on the app thread,
  which then waits for the sensor and the panel; only ticks and requests are
  kept off it.
* A `RunCycle` posted before a stop may run in the next session, which only
  makes one cycle early.
* When a call on the offset reports a failure but took effect, the average goes
  on over the change and the cached offset is the old one, until the next
  calibration.
* After a failed `SetHeater(kHeaterOn)` a session runs its five minutes cold.
* A write that breaks off between the planes, or a failed `set_orientation`,
  leaves driver and controller apart until the next initialisation; the driver
  never initialises again by itself.
* In the rotation of 180 degrees `set_window` takes the caller's x for the gate x
  (lines 409-414), where the other rotations turn it around.  A window that is
  not centred appears mirrored: with three gates, x = 0 and width 1 lands on
  gate 0, while the pixel belongs on gate 2.  The boards of this repository
  draw the whole screen (`CONFIG_LV_Z_FULL_REFRESH`), which is centred.
* `ssd16xx_ram_x_span` takes a span for ascending when first and last page are
  equal (line 218).  On a controller that addresses pixels, a window one page
  wide that is scanned downwards then starts at its low edge and ends at its
  high one, against "the pixel edges facing the scan direction" (line 207).
* `blanking_off` clears its flag before it refreshes (line 307).  If the refresh
  fails, a second `blanking_off` does nothing, and the next partial refresh
  starts from a red plane the panel has never shown.
* `set_profile` programs the flag `override_gate_line_width` where it should
  program `gate_line_width` (ssd16xx.c:841-842).  The values of the registers
  are not in the model.

* After a session the panel shows the heated readings of its last cycle until
  the next tick, up to two minutes later, and if there are two sensors the
  difference of a heated reading and an unheated one.
* `kFullUpdateInterval` is written as 400 and is 144 (display_manager.h:102).
* `RefreshDisplay` looks at no result of a display call.  If a flush fails, the
  `mLast...` fields are set all the same, and the content is drawn again only
  when it changes; if a full update fails, the next one is an interval later.
  In particular, if the flush fails that should hide the sensor information,
  `noChange` hides every later redraw while the readings stay the same, and the
  panel keeps name and offset although their time is over
  (display_manager.cpp:384-394).  `InfoHides` speaks only of panels that no
  failed call has left in doubt.
* A full update does not always repair the panel.  If a partial update fails
  in `set_profile`, behind its software reset, the controller has lost the
  registers of the full profile while `data->profile` still says "full".  The
  `blanking_on` of the next full update then programs nothing (ssd16xx.c:798),
  and all its calls report success.  A partial update that succeeds changes the
  profile and with it puts an end to this.
* A temperature of -0.04 degrees reads "-0.0".
* A button pressed between `IoWorker::Init` and `MeasurementWorker::Init` queues
  an item without a handler.  The worker then calls a null pointer, or, if it
  has not got there yet, `k_work_init` cuts the item out of the list it is
  linked into.  Presses before that are turned away by the kernel (`-ENODEV`).
* When `Init` fails, `main` returns, but the worker, the buttons and the Matter
  server live on: the node answers, and reports null for ever.
* When the command that leaves the manual mode fails, nothing repeats it: the
  HDC302x stays in manual mode until the next calibration or reset.  Likewise
  when the command that enters it takes effect but reports a failure, because
  the scope then does not count as entered.

## 7. Not modelled

LEDs; the residual heat of the sensor after `Stop`, for which the code makes no
allowance; whether the heater survives a reset, which is up to the HDC302x and
its driver (if it does, nothing in the code switches it off until the next
session ends); locks inside the drivers and the wait for the OpenThread lock in
`GetThreadConnectivity`; the shared use of button 3 by decontamination and the
ICD user-active-mode trigger; the guard of `lv_timer_handler` against being
entered twice; whether the SDK takes the sentinels in `MeasuredValue::Set` for
null, as the code expects.
In the driver: look-up tables and voltages, the flags of each controller
generation, the busy line, and two threads in the driver at once, which its
callers would have to be in `RefreshDisplay` for (section 6).
On the display: fonts, icons and the placement of widgets.
The reading of serial numbers has no effect but a line in the log.  Of the ZAP
files only the bounds and defaults of the measurement clusters are used; the
rest, well over half of the lines in this repository together with the fonts,
is generated tables without behaviour of this program, once in
`src/src/default_zap/` and once, with the same values for what is used here, in
`zap-generated/`.
`tl::expected` is third-party.

## 8. What could follow

All components with behaviour of their own are modelled.  What is left is
depth: a heater that survives resets, once it is known what the device does; a
driver with two threads in it; and the display theorems with sessions, for the
parts of them that two concurrent calls of `RefreshDisplay` leave true.
