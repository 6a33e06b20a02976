# DMRtastic in TLA+

Models, model-checking runs and proofs of the firmware in `src/` (a Zephyr application for
the TYT MD-UV390 radio). Paths below are relative to the repository; `PROJECT.json` maps
each definition to the lines it models, and lists the components, the runs, the hazards and
the theorems.

## 1. The system

### Threads

| thread | source | does |
| --- | --- | --- |
| LVGL thread, lowest application priority | `src/display.c` 18-52 | scans the keypad, drains the action queue, runs the screens' handlers and LVGL's timers (200 ms screen update, key input, boot, menu dismissal), sleeps up to 50 ms |
| console thread, priority 10 | `src/console/console_dispatch.c` | reads a line and calls the controllers directly |
| squelch thread, priority 10 | `drivers/radio/at1846s/at1846s.c` 879-962 | every 25 ms reads noise and tone flags and switches the speaker |
| log thread, log drain, USB thread | `src/console/` | fill and empty the log ring, follow USB power and DTR |
| input thread and timer interrupts | `src/app_input.c`, `src/backlight.c`, `src/watchdog.c` | post actions, fade the backlight, feed the watchdog |

There is no lock above the drivers. The console thread has a higher priority than the LVGL
thread and calls the same functions on the same statics, so a call of one is interleaved
with a call of the other wherever the LVGL thread can be preempted and wherever either
sleeps (I2C, SPI flash). In the AT1846S driver the mutex `i2c_lock` covers one sequence of
transfers, not a whole API call.

### Components

| component | state | operations | calls / is called by | hard part | what makes it correct |
| --- | --- | --- | --- | --- | --- |
| zone_controller | current zone slot | init, step, count, channel at | LVGL and console; reads the codeplug | empty table, zone changing under a search | the zone is in use |
| channel_controller | cached channel, index, zone scope, zone position, entry digits | step, entry, zone-scoped mode | LVGL, console, scan; programs the radio | two callers, cleared slots, failing transfers | index, record, position and radio agree |
| scan_controller | state, target, direction, prior scope, VFO bounds | start (channel, VFO), stop, reverse, tick | keys, screen update, console; drives the two controllers | sleep inside the tick, all-skip zones, the borrowed zone scope | keys are swallowed exactly while a scan runs; every eligible channel is visited; the scope is given back |
| fm_vfo_controller | two VFOs, pending retune and its age, entry digits | step, entry, switch, tick | keys, quick menu, screen update, VFO scan | debounce, rollback, edits during a transfer | what is shown is tuned; steps stay in band; retunes settle |
| AT1846S driver | page, write cache, tone squelch, threshold | frequency, bandwidth, CSS, squelch; squelch thread | radio_state | half-done tables, cache against chip, order of CSS calls, two reads of one poll | the chip holds what was asked for; the speaker follows carrier and tone |
| app shell (app.c, app_input.c, screens, overlays) | frame stack, action queue, menu, timers | push, pop, switch, dispatch, tick | input thread, LVGL | focus and LVGL events beside the action queue, timers, drops | one effect per key, only the topmost frame is shown |
| settings | runtime settings, positions of the rows | init from defaults and codeplug, set, cycle, subscribe; dimming | rows, console, screen update; program the radio, the panel and the backlight | refused radio calls, levels that bound each other, two writers | stored, shown and applied values agree; the display is lit in use and dims when idle |
| backlight | level, start and target of the fade, timer | set | LVGL, console, timer interrupt | three actors without a lock | the level comes to rest at a target someone asked for |
| console transport, log backend | rings, semaphores, DTR, readiness | put, drop, get, send; receive, edit and run a line | interrupts, log, drain, USB and console threads | two consumers of one ring; one give for many characters | no torn line, the boot log survives, no wake-up is missed |
| keypad and shared bus, display driver | pin directions, window cache, orientation, blanking, light | scan; init, windows, blanking, brightness | LVGL thread | early returns; commands in two parts | driver, panel and lines agree |
| bit-banged SPI | pins, place in the buffer lists | transceive | HR-C6000 driver | lists of unequal shape, clock modes | every byte is exchanged |
| HR-C6000 driver | power, registers | init, power, FM receive, audio path | main() | a table that fails in the middle | "ready" and "powered" say what the chip is |
| volume | stable reading, level, overlay | report, filter, set, show | axis driver, input thread, LVGL | hysteresis at the ends of the range | level and overlay go where the knob goes |
| battery | last reading, next sample, label | init, poll, percentage, label | main(), screen update | failing ADC, label drawn only on change | the label tells the charge |
| GPS | receive ring, line, fix | interrupt, poll, parse | UART, screen update | sentences cut anywhere | positions come from whole, valid sentences |
| codeplug | the flash image | read channel, zone, contact, settings, dump | everything | strides, bitmaps, BCD, erased slots | a read stays in its record and decodes what was stored |

Out of scope: fonts and theme, simulator, host tools, board descriptions.

## 2. What is modelled

### Modules

| module | models | notes |
| --- | --- | --- |
| `Codeplug` | the searches over channel table and zone lists | constant data; a channel is its table index |
| `ZoneController` | `zone_controller.c` | a flash read that fails is one outcome of a step |
| `ChannelController` | `channel_controller.c` | a call is a frame per thread: search, commit of the statics, frequency, then bandwidth and CSS |
| `ScanController` | channel scan of `scan_controller.c`, `app.c`'s frame stack, key gate and screen update, the console commands | keys reach the top screen, and only the top screen's update ticks a scan; the VFO and the settings appear as other writers of the radio (`OtherWriters`), the VFO scan as a state machine |
| `ScanSession` | what scanning promises | abstract; `ScanController` implements it (`ImplementsSession`) |
| `FmVfoController` | `fm_vfo_controller.c` and the driver's RX tuning with its mutex and frequency cache | frequencies are naturals in units of the last entry digit; the comparison that ends a retune and the clearing of its flag are two steps |
| `VfoScan` | VFO scan, VFO screen, 200 ms update, quick menu row, console scan commands over `FmVfoController` | a pass of the LVGL loop takes no time, its sleep one unit of 100 ms |
| `At1846s` | pages, write cache, calls and squelch thread of the driver | a locked section is one step and may fail at any of its transfers |
| `AppShell` | `app_input.c`, `app.c`, quick menu, levels of Settings, boot splash, and the loop of `display.c` | LVGL's key input and the keypad scan are external parts; a scan or an entry is on or off |
| `Settings` | `radio_settings.c`, `settings_controller.c`, the console's setters, dimming (`app.c`), the heartbeat LED (`watchdog.c`) | a call is steps of its thread: store, read back, apply, write the row; radio calls may fail or refuse, and `apply_to_radio()` programs bandwidth and tones past the settings |
| `Backlight` | `backlight.c` | a call is cut at every access to the fade's statics |
| `LogBackend` | `console_log_backend.c`, transmitter and USB thread of `console_transport.c` | a byte is its place in the stream; Zephyr's ring with claim and finish is external |
| `ConsoleLine` | receiving and editing a line (`console_transport.c`, `console_dispatch.c`) | a character is its line and its place, or a control |
| `Panel` | `display_hx8353e.c`, `kbd_matrix_shared_bus.c` | composed: the scan borrows the display's data lines |
| `SpiBitbang` | `spi_bitbang_irq.c` | one step per clock edge, with a slave in the mode of the call |
| `HrC6000` | `hr_c6000.c` | initialisation table by table, failing at any transfer |
| `Volume` | hysteresis of `app_input.c`, volume of `app.c`, the overlay | real axis range; the axis driver is external |
| `Battery` | `battery.c`, the battery label of `status_bar.c` | the real charge table |
| `Gps` | `gps.c` | a sentence is its marker bytes and what RMC and GGA make of it |
| `CodeplugImage` | `codeplug.c` and the region dump of `console_debug.c` | the real offsets, strides and decoders over sample images, which the encoders of `tools/gen_sim_codeplug.py` write |
| `MCScan`, `MCVfo`, `MCRadio`, `MCDevices` | constants of the runs; `MCDevices` runs the device modules side by side | |
| `ScanProofs`, `ScanSerialProofs`, `VfoProofs`, `RadioProofs`, `ShellProofs`, `StreamProofs` (log, command line, GPS), `BusProofs` (panel, baseband, SPI), `DeviceProofs` (battery, volume, codeplug image, backlight, settings) | the theorems | section 5 |

### How state and actions correspond to the code

- A static of a `.c` file is the variable of the same name. `s_channel` is the table index
  of the cached record, since codeplug writes are no-ops in this firmware and frequency,
  bandwidth and tones are functions of it.
- `th[t]` is the stack of thread `t`: the point its call has reached and the locals that
  matter afterwards. A call is cut where the code sleeps or where it reads one module's
  static after having written another's, so that preemption between any two of these points
  is an interleaving of steps. `call[t]` of `Backlight`, `producer` and `drain` of
  `LogBackend` are the same for their threads.
- `radio` and `chip` are the hardware: which channel's (`ScanController`), which frequency's
  (`VfoScan`), which registers' values (`At1846s`) it has; `chip` of `Panel` is the panel's
  registers, `panel` what the driver believes of them.
- `AppShell`: `phase` is where the LVGL thread is in its pass (scan, tick, timers, sleep).
  `ui_events` is the action queue, `indev` LVGL's keypad with the queue of its own listener,
  `inbox` the key event that neither has got yet. `acted` remembers whether app.c did
  something on the latest OK press; it serves `OneEffect` only.
- `At1846s`: a write is a record of the fields it sets; `Announce` is what
  `at1846s_write_reg_locked()` records of a page select before the transfer, `Broken` a
  sequence of which the i-th transfer failed. `asked` remembers what the calls were asked
  for and succeeded with (`Unknown` after a failure), `torn` whether a page table ever
  stopped between its page selects: both only serve the properties. So do `said`
  (`HrC6000`), `sky` and `cut` (`Gps`), `asked` (`Backlight`), `sentTo` and `opened`
  (`LogBackend`), `request` and `earlier` (`CodeplugImage`).
- `LogBackend`: `put`, `head` and `tail` count bytes ever put, claimed and finished, so that
  the ring's content is `head..put-1` and a byte sent twice shows.
- A definition headed "Mutant" is a plausible bug of the definition below it. No
  specification uses it; it documents which property notices that bug.

## 3. Runs

TLC with `tlc -workers 2 -config X.cfg Module.tla`; states are distinct states.

| run | question | checked | size |
| --- | --- | --- | --- |
| `Shell` | two keys at a time, encoder, timers, dropped actions | `OnlyTopShown`, `ScanUnderItsScreen`, `EntryOnItsRoot`, `RowsOnlyInSettings`, `BackClosesOne`, `MenuCloses`, `OneKeyOneEffect` | 2.5 million states, 2 min |
| `ScanSerial` | all keys, commands and ticks of one thread, over every screen, other writers of the radio, transfers failing | `StateMatchesTarget`, `CacheConsistent`, `RadioHasChannel`, `RadioOnlyInUse`, `HoldsOnEligible` | 1.1 million states, 35 s |
| `ScanKeys` | keys and update only, with fairness | `ScanIsZoneScoped`, `ImplementsSession`, `CallsEnd`, `ScanVisits` | 1 min |
| `VfoKeys` | VFO screen, quick menu, scan, other screens, failing transfers | `OperatorStaysInBand`, `SweepStaysInBounds`, `RetuneSettles` | 1.6 million states, 50 s |
| `VfoRace` | a console thread's scan commands between any two steps of the display thread | `ShowsWhatIsTuned`, `CacheIsChip` | 5.4 million states, 1 min |
| `Radio` | any sequence of driver calls, two failing sections | `CacheTrue`, `DetectorStands`, `FrequencyTook`, `PageReturns` | 0.4 million states |
| `Squelch` | squelch thread beside the calls, a failing section, failing reads | `SquelchCloses`, `SquelchOpens` | 76 000 states |
| `Devices` | the eleven device modules, one per behaviour | the safety of each device: `LogKept`, `PanelAgrees`, `ChipAgrees`, `Exchanged`, `BatteryShown`, `RecordsRead`, `FadeArrives`, `LinesRun`, `GpsTrue`, `KnobFollowed`, `SettingsFollow`; and `DevicesGoOn`, the liveness of them all: `LogFlows`, `FadeSettles`, `AllRead`, `Resyncs`, `DimsWhenIdle`, `Heartbeat` | 0.3 million states, 2.5 min |
| `ShellStray`, `ScanRaceState`, `VfoSweeps`, `RadioPage` | what a header or a comment says and the code does not do | one property each, violated | - |

The type invariants of the scan and VFO modules are proved (section 5); those of the shell,
the radio driver and the devices are a conjunct of `OnlyTopShown`, `CacheTrue` and each
device's property. A device's property is a conjunction of named parts, each with its
comment, in its module.

### Bounds and why they are enough

- `Shell`: the queue holds two actions instead of eight, so that it overflows; two keys are
  held at most, which is what it takes for a press to be drained together with another's.
  Down and the rest of the digits add no behaviour that Up and one digit lack. Times are
  counted in passes of the loop: a long press lasts one, the boot splash two and the menu two,
  so that keys fall before, at and after the end of each, and the menu can be opened over the
  splash, which in the firmware outlasts a long press (`BOOT_DWELL_MS` 2000,
  `SK1_LONG_PRESS_MS` 600). With a splash of one pass Back never meets the two together. The frame stack has its real depth
  of four.
- `MCScan`: four channels (eligible, skip-flagged, cleared) and four zone slots (mixed,
  unused, all-skip, only cleared): every kind of neighbour a search can meet, with
  wrap-around. The controllers compare slots and flags only, so larger tables repeat the
  kinds. The theorems below hold for every table.
- `MCVfo`: bands 10..11 and 13..14 with step 1: both edges, the gap and unsupported
  frequencies are all reached; two entry digits for the eight of the firmware; the debounce
  is one unit of 100 ms, the update two. `VfoRace` has one display and one console thread,
  one digit, no channel screen and an update each unit.
- `MCRadio`: two frequencies and two bandwidths, so that a redundant and a needed write
  differ; one tone and none; in `Squelch` one of each. Noise has three values: below the
  threshold, inside the hysteresis, above. The hold of four polls is one poll. `MaxFails`
  bounds the failing sections (two in `Radio`, one in `Squelch`): one tears a table, another
  fails during the repair. Both leave out DCS codes (see the known behaviours), which
  `RadioPage` has, and have one caller; in `RadioProofs`, `CacheTrue` and `FrequencyTook` are
  about any number.
- `Devices`. The devices share no state, so a behaviour that runs one of them loses nothing;
  the settings rows come in three groups (what programs the radio, the three brightness
  levels, the switches) for the same reason: no row of a group reads what another group's
  writes, the shared part is the subscriber, which every group runs. The dimming timer runs
  with the levels and the watchdog's with the switches, whose light each shares. One thread
  makes all calls, keys and commands, as `SettingsFollow` supposes. The numbers that make
  cases meet are small, the ones that arithmetic depends on real: two threads on the
  backlight's three levels; a log ring of 6 bytes with lines of 1 and 3, discards of 2,
  chunks of 3 and 13 bytes in all, so that the ring goes round twice and a drain falls into
  every step of a drop; a 2 by 2 key matrix; two bits a byte and five shapes of buffer
  lists; a receive ring of 3 characters, batches of 2, two lines; a GPS ring of 4 and a line
  of 8 bytes with two sentences of five kinds; every third millivolt over the cell's range;
  two whole codeplug images (a modern and a legacy one, numbers and places at their ends)
  and the indices around every bank, bitmap byte and table end; the real volume axis 2..25
  with its hysteresis of 3; brightness levels in the rows' own step.

### Fairness

- `AppShell`: weak fairness of the LVGL thread's pass and of the delivery of a scanned key.
  `MenuCloses` also requires that the loop goes round (`phase` is "sleep" again and again):
  actions posted faster than `app_tick()` drains them would keep it draining.
- `ScanController`: weak fairness of each thread's call steps. A started call runs on: I2C
  transfers end with an answer or an error. `FairSpec` adds `UpdateRuns`, weak fairness of
  `UpdateTick`: the 200 ms update recurs, but ticks a scan only while the scan's screen is
  the top frame (`app.c` 299-313). A scan parked under the Zones is owed nothing, and
  `ScanVisits` is about one whose screen stays on top.
- `VfoScan`: the LVGL loop goes round, its timer fires, transfers end.
- `At1846s`: strong fairness of a poll of the squelch thread whose read succeeds, once for
  the noise and once for the flags: reads may fail any number of times, not for ever.
  Nothing is assumed of the calls; the properties ask about times when they are over. A
  half-done table is excluded (`~torn`), since nothing in the code repairs it until the next
  change of bandwidth.
- Devices: a call that has begun goes on and a running timer fires (`Backlight`,
  `Settings`; the LVGL loop comes to `update_timer_cb()` however often a key's call is under
  way when it looks, strong fairness); the receive interrupt, the drain, USB and console threads run while they have
  something to do, and the drain gets the transmit mutex sooner or later, since `k_mutex`
  wakes its waiters by priority and the others give it back (strong fairness of
  `DrainLock`); `gps_poll()` recurs with the screen update. Nothing is assumed of the host,
  the operator, the receiver or the codeplug.

## 4. What the runs show

### Holds

- **Scan state and keys.** With calls that do not overlap, the scan state is IDLE exactly
  when no scan is armed, a channel scan holds only on channels that are not skip-flagged,
  the zone scope the operator chose survives a scan, and the search over a zone terminates
  and misses no eligible channel while the scan's screen is on top.
- **Channel and radio.** A zone that lists a cleared slot never makes it current, even when
  two threads race (section 5). A call that programs the radio leaves frequency, bandwidth
  and tones of the cached channel in it, unless a transfer failed; between calls, whatever
  the radio has of a channel is the cached one's, while the VFO and the settings program the
  same radio.
- **VFO.** What is shown is what is tuned, once no retune is pending, across edits,
  switches, scans and rollbacks in any order, unless a sweep step overtook the very end of a
  retune (up to the next update), also when the frequency changes during the transfer and while a console thread
  starts, stops and reverses scans. Operator steps end inside a band from wherever they
  start.
- **Driver.** The cache never suppresses a write the chip needs, unless a page table stopped
  half way. The receive tone is detected after any order of bandwidth and CSS calls that
  succeeded. The next successful call repairs a receiver left off by a failed one. A
  bandwidth change re-synchronises the page.
- **Squelch.** Whatever mixture of old and new state a poll decides on, it does not last:
  the speaker closes when the carrier or the tone is gone for good and opens when they are
  there.
- **Shell.** With two keys held, dropped actions and every order of LVGL's timers the shown
  frame is the top one and no frame is stacked twice; a scan that a key started stays with
  its screen, parked under the Zones at most; a digit entry is never left on the other root;
  the rows level of Settings does not outlive it, although LVGL's clicks arrive by another
  way than Back; a Back closes exactly one layer; the quick menu goes away once the keys are
  released. For an operator who holds one key at a time and leaves Up and Down alone, an OK
  is never handled by both app.c and LVGL.
- **Settings and light.** With calls that do not overlap, rows show what is stored, and the
  hardware has it, or what the channel controller programmed over it, unless a transfer
  failed or a DCS code was refused. The off-level never ends above the brightness that is set by rows, an
  idle display dims and a key lights it again, the watchdog's LED goes on blinking whatever
  the LED row does.
- **Fades.** Whichever assignments of two callers and the timer mix, a fade ends, and the
  level rests on, or next to, a target somebody asked for.
- **Log and console.** A drop that the drain interrupts never tears a line, always makes the
  room it is for, and re-sends at most one discard's bytes; the log of the boot waits for
  the host whenever it comes; a character in the receive ring is always read, and a line
  runs as it was typed unless the ring overflowed.
- **Panel and keypad.** The driver's cache names the panel's state wherever a command
  failed, the backlight is on only over a cleared panel that is switched on, and a scan that
  reports no error has given the bus back, whatever earlier scans left.
- **Baseband, SPI, battery, GPS, codeplug, volume.** `set_fm_rx()` is refused by a chip that
  is not initialised, also on the retry; lists of any shape are exchanged bit by bit in
  every clock mode; the label tells the latest reading; positions come from sentences that
  arrived whole; each codeplug accessor stays in its record
  and decodes the frequencies, tones and contact numbers the image tool encoded (places are
  another matter, below); the level and the overlay
  follow the knob, never against its direction.

### Findings

1. `ShellStray`: Back and OK drained in one tick close and reopen Settings, so the attached
   group is the same at both ends and nothing waits for the OK's release, which then enters
   the rows of the focused tab (comment in `app.c` 225).
2. `ScanRaceState`: a stop during the squelch read of the other thread's tick is
   overwritten; keys are then swallowed for a scan that does not run.
3. `VfoSweeps`: a sweep re-arms the debounce in the update that would have retuned, so a
   moving sweep never retunes the radio.
4. `RadioPage`: a bandwidth table that fails between its page selects leaves page 1
   selected; the next `set_frequency()` returns 0 and the chip is not on the frequency.

### Known behaviours not covered by a run of their own

Met while modelling, each a state or a step the modules have.

Channels, scan and VFO:

- Selecting a zone without in-use channels clears the current channel, and flat stepping
  stays dead after the zone-scoped mode is left, although `channel_controller.h` 29 calls it
  a no-op only "if no in-use channel exists at all".
- After a zone step the zone position names a channel of another zone
  (`channel_controller.c` 25); a scan started without a current channel never moves
  (`scan_controller.c` 197); `channel_controller_init()` caches the first channel and does
  not program it; two overlapping channel steps leave the radio with one channel's frequency
  and the other's bandwidth.
- Neither the VFO nor the channel controller programs the radio when its screen comes up:
  `channel_controller_init()` (138-156) only caches the first channel, and a switch from the
  VFO shows a channel the radio is not on until a key steps or enters one, although
  `channel_controller.h` 22 says that init "applies it to radio_state" and
  `scan_controller.h` 19-20 that ownership is "whichever screen's update() is currently
  running".
- SK2 during a scan opens the Zones over it (`app.c` 413); only the top screen is updated, so
  the scan is parked, without a tick, until they close.
- `fm_vfo_controller_tick()` compares the frequency with what it tuned and then clears
  `s_retune_pending` (150-156). The console thread has the higher priority, and a sweep step
  of its in between has its retune cleared; the radio follows at the next idle update only.
- A channel tuned on another screen is overwritten by the VFO's rollback or replaces its
  frequency at the next idle update; default sweep bounds reach over the gap between the
  bands (`scan_controller.c` 107); a console command that stops a scan during its tick lets
  that tick move the VFO once more.

Driver, settings and codeplug:

- The rows are turned by two threads without a lock, and `on_settings_changed()` (269-309)
  sleeps in I2C or SPI between reading a setting and writing its row. A console command that
  comes in between ends first: the row, or the hardware, is left at the value that lost,
  although `console_view.c` 224-225 says the command "stays in sync with the LVGL UI".
- `apply_to_radio()` (`channel_controller.c` 57-70) programs the channel's bandwidth and
  tones past the settings; the rows keep showing the setting.
- Places: `tools/gen_sim_codeplug.py` 164-172 stores the fraction of a degree in 32768ths,
  `codeplug_decode_latlon()` (`codeplug.c` 118-127) reads it as ten-thousandths, as
  `codeplug.h` 124 says. Half a degree comes back as 1.6384, 51.5 as 52.6384. The model has
  both as they are; `DecodesWhatWasStored` leaves places out.
- A DCS receive code is refused after the transmit code has cleared the receive tone, with
  the tone squelch still armed, so that the speaker stays closed (`at1846s.c` 717); set from
  the console it makes the CSS row show "Off", and the console does not move the row's
  position.
- The driver's `current_rx_freq_hz` is written after the mutex is released, so that of two
  callers the loser may name it.
- A brightness set from the console while the display is dimmed stays lit until a key; the
  off-level may be above its ceiling after a codeplug is loaded, may fall into 1..9 if the
  codeplug's brightness is no multiple of ten, and its 1 % step never has an effect.
- Boot: `main()` sets 12.5 kHz while `settings_apply_all()` of the LVGL thread sets 25 kHz.
- The LED setting says that nothing lights the LEDs yet when it is on; the watchdog blinks
  the green one whatever it says.
- `hr_c6000`'s power-down takes no lock against `set_fm_rx()`; nobody calls it.

Shell:

- SK2 is only looked at when Up is released, so that the SK2+Up gesture with SK2 released
  first starts a scan (comment in `app_input.c` 35).
- With Up released just before OK, Up's release uses up LVGL's wait, so the stray click of
  `ShellStray` also happens with one key at a time; `OneKeyOneEffect` leaves Up out for that
  reason.

Console, display and peripherals:

- A log line can be cut by a command's output, although `console_log_backend.c` 12-15 and
  `console_transport.h` 20-21 say never: the mutex covers a chunk. A voided drop makes up to
  64 log bytes be sent twice. A full receive ring merges two command lines without a word.
- A window whose column command succeeded and whose row command failed leaves the older one
  cached as valid (`display_hx8353e.c`); a failed keypad scan garbles the display's next
  commands, which still return 0. A buffer of length zero costs the SPI a dummy byte.
- The battery label goes from "--" to 0 % if the ADC has not given a reading.
- GPS: an invalid GGA keeps ACQUIRED, though `gps.h` says "last sentence carried a valid
  position"; an active RMC with an unreadable position gives ACQUIRED with the old one, or
  none; `gps_get_position()` returns false after a lost fix, though `gps.h` says "false if
  no fix has ever been acquired"; a line whose checksum was lost is accepted.
- A failed probe read makes a legacy codeplug's zones be read with the modern stride, and an
  erased byte of a modern first zone makes it look like a legacy one. `codeplug.h` 196 calls
  the DTMF durations an own flash region; 0x1472..0x1476 lies inside the DTMF signalling
  block at 0x1400.

## 5. Theorems

`tlapm M.tla` proves them. Each holds for every value of the constants that satisfies the
module's named assumptions, among them any number of threads unless the table says
otherwise.

| theorem | module | assumes | says |
| --- | --- | --- | --- |
| `TypeCorrect` | `ScanProofs` | - | the types of the three controllers |
| `OnlyInUse` | `ScanProofs` | - | `RadioOnlyInUse`: any interleaving of any number of threads |
| `SerialInvariant` | `ScanSerialProofs` | one thread | `SerialInv` is invariant |
| `ScanStateTrue`, `CurrentChannelTrue` | `ScanSerialProofs` | one thread | `StateMatchesTarget`, `CacheConsistent` |
| `RadioFollows` | `ScanSerialProofs` | one thread of the controllers; VFO and settings also program the radio | `RadioHasChannel`, with its action property |
| `ScanHolds` | `ScanSerialProofs` | one thread | the action property `HoldsOnEligible` |
| `ScanStaysScoped`, `SessionImplemented` | `ScanSerialProofs` | one thread, no console | `ScanIsZoneScoped`; the refinement of `ScanSession` (`ImplementsSession`) |
| `VfoTypes`, `StepEndsInBand` | `VfoProofs` | - | the types; a step ends in a band from wherever it starts |
| `OperatorInBand`, `SweepInBounds` | `VfoProofs` | - | the action properties `OperatorStaysInBand`, `SweepStaysInBounds` |
| `ShownIsTuned`, `CachedIsChip` | `VfoProofs` | `OneUi`, `NoChannelCommands` | `ShowsWhatIsTuned` and `CacheIsChip`, one display thread, any number of console threads that scan; `ShowsWhatIsTuned` excepts a frequency that came between comparison and clearing (`overtaken`) |
| `CacheStaysTrue`, `FrequencyStays` | `RadioProofs` | - | `CacheTrue` and `FrequencyTook`, any number of callers, the squelch thread and any failures |
| `ShellInvariant` | `ShellProofs` | - | `ShellInv` is invariant |
| `FramesFit`, `ScansFit`, `EntriesFit`, `RowsFit` | `ShellProofs` | - | `OnlyTopShown` and the three other invariants of `Shell` |
| `PageComesBack` | `RadioProofs` | one caller | `PageReturns` |
| `DetectorIsArmed` | `RadioProofs` | one caller, no DCS code | `DetectorStands` |
| `BackClosesOneLayer` | `ShellProofs` | - | the action property `BackClosesOne` |
| `OneKeyHasOneEffect` | `ShellProofs` | - | `OneKeyOneEffect`; its own hypothesis is one key at a time, none but OK of LVGL's |
| `LogIsKept` | `StreamProofs` | - | `LogKept` |
| `LinesRunAsTyped` | `StreamProofs` | - | `LinesRun`: any ring, batch, buffer and number of lines; it is about a ring that never ran full |
| `PositionsAreValid` | `StreamProofs` | a line buffer of more than one byte | the action property `GpsTrue`: any sentences, cut anywhere |
| `PanelKept` | `BusProofs` | - | `PanelAgrees` |
| `ChipKnown` | `BusProofs` | - | `ChipAgrees` |
| `EveryByteIsExchanged` | `BusProofs` | - | `Exchanged`: any width of a byte, any lists, every mode |
| `BatteryTold` | `DeviceProofs` | - | `BatteryShown`: any readings, any period |
| `VolumeFollowsKnob` | `DeviceProofs` | - | `KnobFollowed`: any axis, hysteresis and positions |
| `RecordsAreRead` | `DeviceProofs` | - | `RecordsRead`: any index, size and image; frequencies, tones and numbers, not places |
| `FadesArrive` | `DeviceProofs` | - | `FadeArrives`: any number of threads, any levels |
| `SettingsAreFollowed` | `DeviceProofs` | one caller | `SettingsFollow`: any codeplug, any tones, any failures of the radio calls |

The arguments, in the order of the modules:

- **Scan.** `RadioOnlyInUse` is not inductive: between the search and the transfers the
  channel lives in a thread's frame and in `s_channel`, so `InUseInv` adds that every
  frame's candidate, and the cached record, is a populated slot. The search lemmas
  (`NextInUseChannelType`, `NextInUseZonePosType`, ...) say what a search returns for every
  table; a frame lemma for each way of entering a call turns that into the frame's promise;
  one case per action preserves it. `SerialInv` needs more: `Local(t)` says which of the
  other variables a call in progress may still rely on (the index is the candidate's while
  it is programmed, the scan target is CHANNEL during its squelch read). These promises are
  exactly what a second thread breaks, which `ScanRaceState` exhibits; hence the hypothesis
  of one thread. The refinement adds `KeysInv`: a start that waits for its first channel to
  be applied has turned the zone-scoped mode on and armed nothing yet, so that the scope the
  operator chose, which `UserScope` reads from two places, moves from one to the other
  without being seen to change. A console command could change the mode behind a running
  scan, hence no console. `ScanHolds` adds `Listening`: the squelch is only ever read on a
  channel the scan may hold on.
- **VFO.** `TunedInv`: the pending flag stays up for as long as a frequency of the VFO is on
  its way to the chip, a channel's is only on its way while another screen is up, and
  between the register writes and the cache the chip is on the call's target. Where the tick
  is about to clear the flag ("clear"), what is shown is tuned or `overtaken` says so. A console
  thread's calls only wait for the RSSI. The assumptions say who may tune: `OneUi` is the
  firmware's one LVGL thread, `NoChannelCommands` leaves out the console's channel commands,
  with which the statement is false (two callers in the driver, see the known behaviours).
- **Driver.** `RadioInv`: as long as no table stopped half way, between two locked sections
  driver and chip are on page 0 and the cache is the chip's registers; what the last calls
  settled is in the registers, also in the middle of a call. `WriteFirstGood` and
  `WriteFirstTakes` carry that over the transfers of a section, `SectionLeaves` over the
  registers a section is not about, and a section that fails claims nothing of what it left
  open. Nothing in it counts callers, since the mutex covers a section; that is why the
  theorem is wider than the run. The two that remain need one caller. `PageInv`:
  the control write, which settles a bandwidth, only follows the table that ended with the
  select of page 0 (`Linked`, the order of a call's steps), and no call moves the page while
  a bandwidth counts as set. `DetectorInv` says which half of the detector stands at which
  step (`Stands`): between a bandwidth table and `at1846s_reapply_rx_css_select()` only the
  tone, between the transmitter's code and the receiver's only the selection. A second
  caller's steps between these break both, and `radio_state_set_rx_css()` leaves the detector
  as it is for a DCS code; hence the hypotheses.
- **Shell.** `ShellInv`: the stack is empty, a root, Settings over a root, or the Zones over
  Channel mode, so the stack is at most two deep; and what `app_tick()` attached stays on
  screen until the pass ends (`TabsShown`), so that a click LVGL delivers on the tabs finds
  Settings on top. The rows level needs exactly this. `BackClosesOne` counts the layers: each
  branch of Back's dispatch removes one, and `StackShapes`, `Fits` say that no branch meets a
  state in which what it closes is not there or has a second one on top of it. The attempt to
  prove it met the menu over the boot splash, which an earlier count of the layers, with the
  splash left out, got wrong. `OneKeyInv` follows one press through the scan, app.c's queue
  and LVGL's: an event that has been scanned is handled before the next one (`InboxAgrees`), a
  press leaves app.c's queue before its key can change again, with only the encoder behind it
  (`QueueAgrees`), and what LVGL read last and what it has still to read tell whether OK is
  down (`LvglAgrees`). Its core is `Parked`: from the action on an OK until LVGL has seen its
  release, LVGL waits, has no group, or is in the tick that will attach another one and can
  handle nothing but the encoder before that. `TabsAgree` excludes the one way in which the
  group would stay, Settings left and entered again in one tick.
- **Log.** `LogInv`: a claim of the producer's stands or has been voided, and the drain that
  voids it takes as much as a discard or empties the ring, so the space the drop was for is
  made either way (`LogBackendAssumption`: a discard is no more than a chunk, a line and a
  chunk fit the ring). Before the console opens nobody drains and exactly enough is dropped.
  The next chunk begins at the head, which a finish can take back by one claim.
- **Panel.** `PanelInv` adds to `PanelAgrees` that the memory is cleared once the driver is
  ready and that nothing is cached before; `AfterOne` and `AfterTwo` say what the panel has
  after the part of a command sequence that got through.
- **Baseband.** `ChipAgrees` is inductive.
- **SPI.** `ExchangeInv`: at each of the four steps of a bit (`ByteUnderWay`), how many bits
  the slave has put out, how many it has taken and which the driver has sampled, in either
  CPHA, with the clock where the step before left it; so that when the last bit is over both
  bytes are whole. `EdgeMoves` is the lemma of an edge, in either mode. A list's place after
  `n` bytes is the one of rank `n` (`ListsWalked`): `NextPlace` passes exactly one place more,
  which the library's facts on finite sets turn into a rank, without induction.
- **Battery.** The curve's table rises and its ten lines meet, so two entries bracket every
  reading and the truncated division stays within one percent of the line; whatever the label
  was last drawn from, `SameAsDrawn` skips a drawing only if it would be the same
  (`DrawnAsSaid`).
- **Volume.** The knob's last report is within the hysteresis of the pot, or exact at the ends
  of the axis (`PotIsNear`); the percentage is a piecewise linear function of a rising table,
  and rises over each segment and from one to the next.
- **Codeplug.** `ImageInv`: the request, and the one before it, is inside the region of its
  accessor (`Sound`), regions do not overlap, and two records of a table are a stride apart,
  by linear arithmetic over the strides of the code; `Decoded` follows a record through the
  byte orders, the BCD digits and the sign bits. `ImageAssumption` states what the sample
  images are made of: bytes, numbers of the widths the decoders read, tones of the two ranges.

- **Command line.** `LineInv`: the characters on their way, in the ring and then in the UART,
  are a path: between each two stands a mark, the line and how many of its characters are
  behind it; each character says how one mark leads to the next (`Leads`: a carriage return
  to the next line, an erasure nowhere, a letter one place on); the last mark is where the
  host is, and the first says what the line buffer is of (`Typed`). The host's actions extend
  the path at its end (`PathGrows`), a batch moves within it (`StreamMoves`), the console takes
  its first step (`PathShrinks`), and a command runs with the buffer of the line before the
  mark. A batch that does not fit breaks the path, so the invariant, like the property,
  ends with the first loss.
- **GPS.** `GpsInv`: every byte on its way is one of a sentence sent. If a line passes
  `checksum_ok()`, the sentence its "*" is of is the line's only one: the first "*" exists by
  the order of the naturals, and what the checksum compares names one sentence, whose
  fields all came through. The proof of the types is what asks for `GPS_LINE_MAX > 1`: with 1
  the "$" alone is already too long (the code has 96).
- **Backlight.** `FadeInv`: a call in progress is counted among those asked, and so is the
  target of a fade that runs, or that is about to because a call is before its timer's start.
- **Settings.** `SetterInv`: rows, hardware and light follow the settings but for what the
  call in progress still has to do, and that it does with the current setting (`Doing`).
  `NothingLeft` draws the property from it, with one lemma per step of a call
  (`TurnKeeps`, `ReadKeeps`, `ApplyKeeps`, `TextKeeps`, `ReclampKeeps`). A second caller
  breaks exactly `Doing`: the setting a call has read is no longer the current one. Hence
  the hypothesis.

Only model-checked: all liveness (`MenuCloses`, `CallsEnd`, `ScanVisits`, `RetuneSettles`, the
two of `Squelch`, and `DevicesGoOn` with its six parts), since fairness and `ENABLED` are outside
the proof system's reach. Every invariant and every action property of the passing runs is a
theorem, under the assumptions the table names.

## 6. Abstractions

- I2C transfers sleep between their locked sections; the order of the register writes within
  one matters only to `At1846s`. A failed transfer does not reach the chip. Bandwidth and
  CSS are one transfer for `ScanController`, which only asks whose they are.
- Channel and zone reads: whether a slot reads back is fixed; a zone step whose flash read
  fails keeps the old zone. Where the bytes of a record are is `CodeplugImage`'s.
- Screens: `ScanController` has the frame stack as far as scans need it: the two roots,
  Zones and Settings, which of them is on top and gets keys and updates. What Settings and
  Zones do with a key is `AppShell`'s and `ZoneController`'s. The other writers of the radio
  may write at any time between two calls.
- Keys: in the scan and VFO modules, long presses and repeats are the same action again;
  digits come one at a time.
- `AppShell`: the input thread has the LVGL thread's priority (the lowest application
  priority) and does not sleep inside a callback, so the two listeners of an event run back
  to back, at any point between two steps of a pass. A debounced key needs two scans to
  change, and one key changes in a scan. LVGL's timers run in any order. Left out: PTT and
  the pound key (no action behind them but that they, like any key, stop a scan), the second
  OK listener's focus moves other than their effect on the menu's timer, and scans that the
  console starts. Dimming, the rows of Settings and the volume are modules of their own.
- The VFO scan's direction and bounds are forgotten when it stops: nothing reads them before
  the next start sets them.
- `At1846s` starts after the tuning of `main()`; the LVGL thread may already be running
  then, and that overlap is left out. `init()`, `set_mode()`, `standby()`, the volume
  register, the voice mux, hardware squelch and the raw accesses are left out: `main()`
  calls the first two once, nothing calls the third, no board selects hardware squelch, and
  the others do not write the registers modelled here (except the debug console's raw
  writes). Registers of page 1 are observed only through their cache.
- `Settings`: a row's arithmetic and its store are one step, and so are the transmit and the
  receive tone of a CSS call, whose order is `At1846s`'s. The module has any number of
  callers; the run and the theorem have one. The levels are percentages; the
  fade between them is `Backlight`'s, and its easing curve is any level on the way.
- `LogBackend`: what a byte says is left out, as is the formatting of a line; the
  transport's other writer is the console thread's output of one chunk.
- `Panel`: pixels, the reset pulse and the delays are left out; a command reaches the panel
  or fails. A column that stays driven shows up as ghost keys in the next scan.
- `SpiBitbang` has a slave in the mode of the call; a call holds a spin lock, so none
  overlaps.
- `Gps`: the checksum is taken to tell any two different contents apart; the number formats
  are `readable` or not.
- `CodeplugImage`: an image's fields are encoded as `tools/gen_sim_codeplug.py` encodes them;
  a name is not decoded.
- Numbers: frequencies are naturals. The firmware's are 32 bits of Hz, below 2^29 by its own
  band table.

### Not modelled

The console's status commands and raw register accesses, which read or write through without
state of their own; the straight line of calls in `main()`; PTT, behind which there is
nothing; the setters of a VFO's own step; drawing, fonts and theme; the simulator's
replacements of drivers; build and host tools.

## 7. Plan

Done: the controllers and their scan session, the VFO and its sweep, the transceiver driver,
the shell, the settings, the devices from backlight to codeplug, and theorems about every
module whose safety rests on more than one actor.

Left, in the order of what it would add:

1. The composition of `Settings` with `At1846s`: the subscriber's calls interleaved with the
   controllers', and the overlap of `main()` with the first screen update.
