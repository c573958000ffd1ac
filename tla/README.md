# Formal models of hidbridge

TLA+ models of the hidbridge daemon (Go, `src/*.go`) and of its ESP32-S3
firmware (`src/firmware/esp32s3_hid_idf/main/main.c`), the TLC configurations
that check them on small instances, and TLAPS proofs of what matters most for
every instance. `PROJECT.json` lists the components, the runs, the mutants that
show that each property can fail, the source lines behind every definition, the
findings, the hazards and the theorems.

## 1. Inventory

hidbridge is a KVM switch. The daemon reads `/dev/input/event*`; a toggle key
(or an MQTT command) takes the devices away from the local session (`EVIOCGRAB`)
and forwards what they do as framed HID reports over a cable, BLE or TCP to a
board that replays them as a USB keyboard and mouse.

| component | state it keeps | operations | talks to |
|---|---|---|---|
| grab controller, `kvm` (main.go) | `devs`, `grabbed`, under `k.mu` | `SetGrab`, `ToggleGrab`, `handle`, `applyGrab`, `forceRelease`, `releaseLocked`, `trackIfNew`, `deviceLost` | kernel, Reporter, MQTT hook |
| goroutines of main.go | position in their loop | `readDevice` per device, `watchLink`, `superviseDevices`, shutdown | controller, `Sink.Alive` |
| Reporter (report.go, keymap.go) | modifiers, keys, buttons, pending motion, under `r.mu` | `Handle`, `coalesceLoop`, `Reset`, `ClearState` | Sink |
| MQTT bridge (mqtt.go) | the client; the retained state at the broker | `startMQTT`, `onConnect`, `onGrabSet`, `publishGrab`, `watchLink`, `Close` | controller, `Sink.Alive` |
| BLE sink (ble.go) | `connected`, `dialing`, under `s.mu` | `connect`, `reconnect`, `write`, `Alive` | BlueZ |
| BLE peripheral (main.c) | `s_conn_handle`, `s_param_timer` | `ble_on_sync`, `gap_event`, `ble_advertise`, `request_fast_interval` | NimBLE's controller |
| TCP sink (net.go) | `conn`, `lastDial`, under `s.mu` | `ensure`, `maintain`, `write`, `readUntilClosed` | the bridge's `net_task` |
| Wi-Fi station (main.c) | membership of the access point | `wifi_event_handler`, `wifi_connect_blocking` | Wi-Fi driver, `net_task` |
| serial sink (sink.go, serial.go) | `f`, under `s.mu` | `openSerial`, `ensure`, `configurePort`, `write`, `Alive` | the tty |
| framing (sink.go, ota.go / `feed` in main.c) | one `parser_t` per transport, one `ota_buf` | `frame`, `feed`, the three receiving tasks | all of the above |
| firmware update (ota.go / `ota_*` in main.c) | update session, two slots, boot choice | `runOTA`, `ota_begin`, `ota_write_chunk`, `ota_end`, confirmation | any transport, bootloader |
| settings (main.go / `apply_*`, `app_main` in main.c) | radios and Wi-Fi credentials in NVS | `setRadios`, `setWifiCreds`, `apply_control`, `apply_config`, `load_wifi_creds`, `read_flag` | cable |
| send path and statistics (main.c) | counters, last report, `hid_mtx` | `send_report`, `account_report` | TinyUSB |
| the rest | – | discovery, configuration, debug sink, web page, diagnostics, build | – |

What is hard about this code:

* **Steps between locks.** No lock is held from `isGrabbed` to `rep.Handle`,
  from `isGrabbed` through `Alive` to `forceRelease`, from a BlueZ call to what
  is concluded from it, or from one MQTT publication to the next; and `main`
  ranges over the array of `k.devs` while `deviceLost` compacts it.
* **Hardware that comes and goes** under the feet of readers, supervisor and
  grab; a grab that fails halfway; a serial port that goes between two system
  calls of one write.
* **Peers that vanish in silence** (TCP, BLE) and reconnect, with frames of the
  old connection still under way; two ends of a connection that learn of its end
  at different times; a server with a single client slot.
* **A byte stream that breaks off anywhere**, on transports of which only one
  starts again with a fresh parser.
* **A target that sleeps and restarts** behind a send path that several tasks
  share, and that drops a report rather than wait for ever.
* **Power loss** during an update or while settings are saved, settings commands
  in the middle of an update, and a daemon that infers the outcome from the link.

What makes each component correct, in a sentence: the controller never withholds
a device in LOCAL mode and lets go when link or hardware is gone; the Reporter's
target shows what is held, and loses no motion; together they leave nothing
pressed behind; the broker's retained state tells the truth once things are
quiet; a sink dials once at a time, leaks nothing, reconnects, and does not
reorder; the parser stays within its buffers and finds the frames again; an
update either lands whole or leaves the board bootable, and is reported as what
it was; what the target shows after a report over the cable is what was last said,
a report wakes the target instead of being lost, and the counters agree with
what the target saw; the board runs with the settings it was asked for, whatever
restarts came between. Section 3 gives the exact properties; `hazards` in `PROJECT.json` lists
what threatens them, line by line.

## 2. Modules

```
InputOwnership <--implements-- Kvm <-- KvmProofs
                                |          DeviceTable (before Kvm's Init)
                    Session = Kvm x Reporter x readers  <-- SessionProofs
                                |                              |
                             Reporter <------------------------+
MqttBridge (grab and link as seen from outside)         <-- MqttBridgeProofs

BleLink  = BleSink    x BlePeripheral                   <-- BleLinkProofs
NetLink  = netSink    x net_task x WifiStation          <-- NetLinkProofs
Cable    = SerialSink x uart_task x SendPath            <-- CableProofs
FrameParser <-- Framing (wire format, any transports)   <-- FramingProofs
Firmware = Ota x Settings (the board's persistent state) <-- FirmwareProofs
```

Every `MC*` module gives a specification its model values; the `.cfg` files hold
the bounds. The operators named after a fault, placed just before the definition
they replace (`GrabRefusedNoRollback` before `GrabRefused`), are mutants: they
are used by nothing, and stand for a plausible bug that the property named in
`PROJECT.json` must catch.

### Kvm and InputOwnership

One critical section under `k.mu` is one action. Each goroutine has a program
counter: `reader[d]` for `readDevice`, `found` for the probes that
`superviseDevices` has opened and not yet looked at, `watch` for `watchLink`,
`run` for `main`. A *device object* is one open file on an event node, and the
grab (`evgrab`) belongs to the object, as in the kernel: closing it, or
unplugging, frees the grab, while closing another file on the same node does not.
`EVIOCGRAB` may be refused by any device, since a node may be gone (`ENODEV`) or
held by another program (`EBUSY`); `GrabRefused` then chooses any set of devices
that had been taken before it, because the order of `k.devs` is arbitrary.
`deviceLost` untracks and closes before it releases, in one step, as under the
lock. `InputOwnership` is what the user is promised with all of that hidden:
KVM mode starts by taking every device known at that moment and no other, ends
by giving back all of them, and in between none is taken and one is given back
only because its hardware goes. The refinement mapping is
`mode <- IF grabbed /\ Running THEN "kvm" ELSE "local"`, `known <- devs`,
`held <- evgrab`.

Left out: `k.pressed`, written and never read; `notify`, which is MqttBridge's
subject; the order of `devs` and the array behind it (DeviceTable).

### DeviceTable

Kvm starts when every device has its reader. DeviceTable models how that comes
about: `newKVM` shares its slice with `main`, whose `range` fixed the number of
entries but reads each when its turn comes, while `deviceLost` moves them. The
array, the length of `k.devs` and the loop's position are state; what discovery
opens is `Probe`, and the supervisor starts after the loop.

### Reporter

Every method runs under `r.mu` and is one action. `Slots` and `Limit` are
numbers of the code; `coalesce` and `invertWheel` are chosen once, by `Init`, as
by `NewReporter`; keys, modifiers and buttons are model values, as `keymap.go`
classifies them. REL codes that no report carries (`HandleRelOther`: the
high-resolution wheel, say) make the end of the frame send a report without
motion. `shownKbd` and
`shownButtons` are what the target believes: the last report that arrived. A
write may fail, or succeed and not arrive; the Reporter treats both alike, so
`ok` stands for "took effect". `pressed`, `owed`, `kbdStale` and `mouseStale` are
history variables that no guard reads; motion that a report cuts off is counted
as discarded.

### Session

An extension of `Kvm` and `Reporter`, with `readDevice` cut into read,
`isGrabbed` and `rep.Handle`. Every action of Kvm that goes through `applyGrab`
is conjoined with the Reporter's `Reset` (unless the grab was refused), and
every one through `releaseLocked` with `ClearState`. Devices follow evdev: a key
goes down before it comes up, and each event is followed by a `SYN`. `cutOff`
and `overtaken` are history: `overtaken` says that the grab ended while two
readers were past `isGrabbed`, so that one may press a key and the other end the
frame after the reset.

### MqttBridge

The four publishers, the client library and the broker's three retained topics.
The library (paho, QoS 1, `AutoReconnect` and `ConnectRetry`, mqtt.go:60-61 and
147) is external. What is published goes out in order on a connection there is,
and is stored when there is none; what the broker has not acknowledged when a
connection breaks stays stored too, whether the broker has taken it or not
(`ConnectionLost`). The first connection empties the store (clean session); each
later one lists it at some moment (`ListStore`) and sends what it lists once
more, in any order (`Resume`), while `onConnect` publishes. Two equal messages
that wait are one, since an additional copy changes nothing that is retained.
The library is assumed not to run two `onConnect` handlers at once.

`overlap`, `crossed` and `late` are history. `overlap`: at the latest transition,
or when `onConnect` has asked since, a publication of the other state was under
way, stored, or about to be made. `crossed`: the same of the link state, at the
latest change that the watcher saw. `late`: `onConnect` or a resumption said
"online" after `Close` had begun.

### BleSink, BlePeripheral and BleLink

BleSink: callers of `write` and `Alive`, and the goroutine that `reconnect`
starts. BlueZ may report an error that means nothing, and `Alive` answers true
when the property cannot be read (ble.go:205). `misled` is history: such an error
came to `write`, or a connection was recorded while a caller was about to act on
the end of the one before. BlePeripheral: the controller queues events, which
`gap_event` handles later, one at a time; the one-shot timer of the fast
connection interval runs in a task of its own and may be for a connection that
is over. `ble_gap_adv_start` may fail, which main.c:653 does not look at; `mute`
is history and says that the last one did: the bridge then stays silent until
something else makes it advertise. `synced` is `"failed"` when the board finds no
address at startup: it then never advertises, which only a restart changes.
BleLink puts them together: `linked` is what BlueZ believes, `peer` what the
bridge's controller believes, and each finds out in its own time.

### NetLink and WifiStation

Both ends of TCP, with the backlog of the listening socket, frames as serial
numbers, a silent network, keepalives and restarts of either end. The network
is there when the access point is in reach and the station has joined; the
handler asks the driver for another try after every failure, for ever, and the
driver does nothing that it is not asked for. `Settings` says whether the
radio is on at all.

### SerialSink, SendPath and Cable

SerialSink: the system calls of one report, with the port unplugged between any
two. A file whose port has gone stays open, dead, and keeps the port's name
taken; so a port that returns may be `"elsewhere"`, and `Alive`, which asks for
the name, is true while the file is dead. SendPath: `send_report`, called by the
tasks of all transports, under `hid_mtx`; a target that sleeps with or without
remote wakeup, and restarts; the two waits may time out. Cable: the Reporter's
snapshots through both, with the losses in between, and another transport
sending at the same time. `missed` and `by` are history: the last report of a
kind was lost, or another transport spoke after it.

### FrameParser and Framing

`feed`, one action per state, for any number of transports, with the width of a
byte, the checksum operator and the two buffer sizes as parameters. Framing puts
the daemon's `frame` at the other end and the three receiving tasks between.
Transports in `Net` are TCP: `net_task` gives every client a fresh parser, and
nothing is lost within a connection. The others are lossy: `uart_task` has no
flow control, `gatt_rx_cb` keeps of each part of a write what fits into its
stream buffer, a BLE link drops in the middle of a frame, and both tasks keep one
parser for ever. So a frame on them may lose its end, its beginning, a part in
between or all of it (`SendCut`), at any moment. A loss within what one `Read`
returns is a loss in one or several frames; `MaxCuts` bounds how many.
Once a command has restarted the board, everything under way is gone.

`sent` and `done` count from the beginning of the connection or from the last
loss. `whole`, `clear` and `spared` are history: no byte was lost since the board
started; how many bytes were sent since the loss in frames that mislead nobody,
in a row; and how many of the commands since the loss it may therefore cost. A
frame is `Misleading` if a parser that comes to it in search of a sync byte
can take one of its contents for it: a sync byte other than the first, with a
type after it or at the end.

### Ota, Settings and Firmware

Ota: `runOTA` against the board's handlers, two slots and the bootloader's
choice, with the frames between them. Framing justifies that a frame arrives
whole or not at all; a frame that Framing cuts is one that `FrameLost` takes.
The ESP-IDF library is external: `esp_ota_end` accepts
exactly a whole image, and `esp_ota_begin` refuses while the running image is
unconfirmed. Settings: the four keys of NVS, what a handler has set and not
committed, and what `app_main` makes of them. What is not committed when the
board stops may be kept or not, key by key. Firmware: a settings command
restarts a board in the middle of an update; an update or a reset restarts one
that is saving; every image has its own built-in credentials; and an image is
confirmed only once `app_main` has come that far. Five variables of Ota are
history: `disturbed` says that in this attempt the link or the board was down for
another reason than an update's restart (a drop, a reset, a settings command, or
the attempt found things in motion); `hindered` adds every fault, so lost frames
and failures of the flash library count in it and not in `disturbed`; `opened` is
the attempt whose begin opened the session, and `took` what ends were accepted,
in which attempt and with which image. `asked` and `torn` are history of
Settings: what the commands asked for, and which keys were not saved as asked.

## 3. Runs

Passing runs:

| run | checks | instance | states |
|---|---|---|---|
| `kvm` | `NoLeftoverGrab`, `OneReaderPerNode`, `NoFdLeak`, `HoldsUntilRelease`, `ImplementsOwnership`, `LinkDropReleases`, `DeviceLossReleases`, `DeviceReattached` | two nodes, two device objects each; fair | 101 thousand |
| `reporter` | `TargetShowsKeys`, `TargetShowsButtons`, `MotionLossless`, `ClicksCarryMotion`, `MotionDelivered` | three keys for two slots, a modifier, a button, the wheel; both options on and off; fair ticker | 477 thousand |
| `session` | `ReleasedMeansNeutral`, `NoStuckKeys`, `LocalStaysLocal` | two keyboards with the same key, which also move the pointer; coalescing; MQTT commands | 3.3 million |
| `mqtt` | `AvailabilityShown`, `GrabShownUnlessOverlap`, `LinkShownUnlessCrossed` | two messages kept by the client, one pending notifier per value | 7.1 million |
| `ble` | `OneDial`, `NoOrphanLink`, `Reconnects`, `FastIntervalAsked` | two callers, two dialers, spurious errors, three disturbances; fair | 37 thousand |
| `net` | `NoSocketLeak`, `ConnIsWatched`, `FreshConnKept`, `InOrder`, `ServedAgain` | three connections, backlog one, three disturbances; fair | 1.4 million |
| `framing` | `RoomForNextByte`, `EachConnectionHeard`, `CutCostsFewFrames` | TCP and a lossy transport at once, the lossy one with chunks of an update and a misleading report, sync bytes in what TCP carries, a connection broken and a frame cut | 1.8 million |
| `cable` | `NoPortLeak`, `OneFailurePerReplug`, `CountersShowTarget`, `TargetShowsLast`, `WakingReportKept` | the cable and one other transport, one key, counters that wrap at 2, a UART buffer of one report; unbounded in time | 3.5 million |
| `firmware` | `AlwaysBootable`, `RefusalReported`, `SettingsInForce`, `UpdateLands` | two chunks, two attempts, two faults, three settings commands; fair | 825 thousand |

Runs that show where the code and what is said of it disagree (`findings` quotes
both sides):

| run | what is said | what the code does |
|---|---|---|
| `mqtt_switch` | the switch always reflects the real state | nothing orders the publications of transitions, of `onConnect` and of the client's store: at rest the switch can show the opposite |
| `device_table` | a probe is closed because its node is read already | a device lost while the readers are being started moves another one out of the loop's sight: it stays tracked and nobody reads it, and the supervisor drops every probe of it |
| `session_lost` | a forced release has nobody to tell | after `deviceLost` the target is still there, with the key down |

Four more disagreements have no run of their own:

* main.go:17-18 says that in KVM mode the controller "holds EVIOCGRAB on every
  device". `trackIfNew` (main.go:163) adds a device that appears in KVM mode
  without grabbing it, so that it is forwarded and heard locally. Kvm has this,
  and InputOwnership promises no more than the code does.
* ble.go:22-23 says that the sink "reconnects in the background if the link
  drops", and so does ble.go:196-197. A drop is dialled once, for 20 s; when that
  fails, only the next write dials again (ble.go:129, `Alive` does not get so
  far), and the end of the grab stops the writes (main.go:193-196). `Reconnects`
  therefore has "reports are written again and again" as a premise, and
  `FairSpec` assumes nothing of the kind.
* main.c:629 says that "a mid-frame leftover resyncs on the next sync byte". A
  leftover is first read to the length that it announces, up to 1027 bytes with
  their sync bytes (two of length, a chunk of 1024, the checksum), and contents
  that look like the beginning of a frame mislead the parser again.
  `CutCostsFewFrames` says what holds instead.
* sink.go:93-95 says that "unplugging and replugging the bridge recovers without
  restarting the daemon". It does under the same name; while the dead file is
  open the name stays taken and the port may return under another one, which the
  sink never tries. SerialSink has that state (`node = "elsewhere"`).

Some properties carry a proviso, because the code breaks the plain promise in
one known way. Each proviso is a history variable that names the cause, or a
condition on the run, so the property still finds every other way:

| property | proviso | what happens inside it |
|---|---|---|
| `ReleasedMeansNeutral`, `LocalStaysLocal` | `~overtaken` | two readers past `isGrabbed` press and flush a key after the reset |
| `MotionLossless` | what the clamp cuts off is discarded | a wheel or pointer that moves further between two flushes than a report can say loses the rest |
| `LinkShownUnlessCrossed` | `~crossed` | the other state was under way, stored or about to be published when watcher or `onConnect` last asked |
| `GrabShownUnlessOverlap` | `~overlap` | the same of the grab: publications arrive in the wrong order, are sent once more in the wrong order, or are not made before the hook is installed |
| `AvailabilityShown` | `~late` | `onConnect` or a resumption has the last word after `Close`, and no will corrects it |
| `NoOrphanLink`, `Reconnects` | `~misled` | a late answer, or an error after connecting, leaves a connection that nobody closes, and a bridge that no scan finds |
| `Reconnects` | reports are written again and again; `synced # "failed"`; `~mute` | a dial that failed is tried again only by a write; a board that found no address, or whose `ble_gap_adv_start` failed, does not advertise |
| `EachConnectionHeard` | TCP, or `whole` | a UART or BLE transport has lost a byte: `CutCostsFewFrames` takes over |
| `CutCostsFewFrames` | after `LongestRemainder` bytes in a row in frames that are not misleading | what is left of a cut frame swallows the frames after it, and a misleading one starts the count afresh; with real sizes these are 1027 bytes |
| both of these | `Alone`: for a transport that carries chunks, no other has lost a byte | a parser that is astray stores an imagined chunk in the one `ota_buf` |
| `TargetShowsLast` | not `missed`, and `by` the cable | the daemon does not repeat a report, so a lost key-up leaves the key down until the next one |
| `CountersShowTarget` | `~dropped` | a report that was counted and dropped, or a target that restarted |
| `WakingReportKept` | `armed`, or else `disturbed` | a target that forbids waking, or is too slow to wake |
| `SettingsInForce` | keys not in `torn` | power went, or NVS failed, while that key was being saved |
| `RefusalReported` | `~disturbed` | the link or the board was down for another reason, and `runOTA` takes any drop for the restart; lost chunks, and a begin, write or end that fails on the board, are not exempt |
| `RefusalReported` | `u.opened = attempt` | a begin that was lost leaves the session of an earlier attempt on the board, whose image may then be completed and accepted |

The modules also state their types (`TypeOK`; `ReporterTypeOK`; `SettingsTypeOK`
in Firmware; the compositions BleLink and Cable for their parts), which are
proved and not run. `AllOrNothing` of Kvm is proved and has no run either, and
so are `NeverSilent`, `NeverTwo` and `IntervalPending` of the bridge's BLE side,
which are stated in `BleLinkProofs`.

### Bounds, and why they are enough

* *Kvm*: two objects per node are the tracked file and the probe of the same
  node; an object is reused once its file is closed. Two nodes give a grab that
  fails halfway and a device that is lost beside one that is not. Nothing is
  bounded beyond that: the run covers every behaviour of this instance, of any
  length.
* *Reporter*: rollover needs `Slots + 1` keys, so two slots and three keys
  behave as six and seven do. Reports carry -2 .. 1, so that two units between
  two flushes (`MaxPending`) exceed the range on one side and reach its end on
  the other. The axes are treated alike except for the inversion of the wheel,
  so the run has the wheel.
* *DeviceTable*: three nodes, since a device is skipped when another leaves
  before it in the array; two objects per node, as in Kvm.
* *Session*: two devices meet each other, and each meets every step of its own
  reader against controller, watcher, supervisor, MQTT and ticker. One object
  per node: what happens when nodes return is Kvm's subject. The keyboards are
  interchangeable together with their nodes, which is the symmetry the run uses;
  they send no REL code that no report carries (`RelCode`), which Reporter's run
  and `session_lost` have and the proofs allow. The run's properties are
  symmetric in the keyboards and none is a liveness property.
* *MqttBridge*: two messages kept are an older and a newer state of one topic, or
  one of each of two, stored or under way, which is what can be sent in the wrong
  order; one pending notifier per value is enough for two publications in the
  wrong order. What would exceed the bound waits; an `onConnect` of three
  publications goes through while earlier ones are acknowledged.
* *BleLink*: two callers are a poller and the readers, which write one at a time,
  or two pollers; two dialers, although `OneDial` says that there is one, so that
  it can fail. `MaxDrops` (three) allows a disturbance during the recovery from
  another, on either side.
* *NetLink*: three connections, so that one can be served although its client
  has gone, one wait and one be dialled. `MaxDisturb` (three) as above.
  `MaxFrames` two: order shows on two frames.
* *Framing*: three-bit bytes, payloads and chunks of up to three, so that the
  longest remainder is six bytes, which one chunk or motion frame covers. Three
  frames since a loss are the one or two that it costs and one that must be
  heard; the keyboard report on the lossy transport is misleading and the others
  are not. A length beyond the buffer is reachable in these widths, because a
  byte goes up to 7. One frame per TCP connection is enough next to a
  connection that broke off inside the one before. One cut: the count starts
  afresh with every loss.
* *Cable*: nothing is bounded but data. One key pressed and released is all that
  snapshots, counters and order need; the counters wrap (`CountMod` 2) and are
  compared with a count that wraps alike; `Buffered` one report is full at the
  next, so that overflow happens; two tasks contend for `hid_mtx`.
* *Firmware*: two chunks tell a whole image from a part; two attempts write a
  slot that has held another attempt's chunks and one that an update came from.
  To an update a settings command is one more fault, so `MaxFaults` (two) bounds
  commands, lost frames, drops and power cuts together: a command cut short by
  power, a command during an update, or two commands. The commands turn one
  radio off, one on and the other off, and set credentials.

### Fairness

* *Kvm*: goroutines that can run do, tickers fire, a blocked read returns when
  its node goes. Nothing is assumed of user, hardware, link or MQTT. Go's
  scheduler and the tickers of `watchLink` (200 ms) and `superviseDevices` (1 s)
  justify it; `k.mu` is held for bounded work only.
* *Reporter*: the ticker of `coalesceLoop`.
* *BleLink*: a call or dial that has begun ends (BlueZ answers, the scan gives
  up after 20 s), and a dial that may succeed infinitely often does. Both ends
  find a broken link out (supervision timeout), and the host and timer tasks run.
  Nobody need ever write or poll.
* *NetLink*: `maintain`, the clock, blocked reads that can return, the bridge's
  task, and the Wi-Fi driver, which tells the handler what became of a try.
  Nobody needs to type. `ServedAgain` asks for an access point that stays.
* *Firmware*: daemon and board keep running, a handler that saves ends in its
  restart, and the transport reconnects.
* *Session*, *MqttBridge*, *Framing*, *Cable* and *DeviceTable* are checked for
  safety only.

`CHECK_DEADLOCK FALSE` appears where the program ends (the daemon's exit, the
last update) or where a bound on the environment is used up.

## 4. What is proved

Every invariant that the passing runs check is proved for every value of the
constants, and so is every action property. The
theorems speak of the specification without fairness (`Spec`), which the fair one
implies.

| module | theorems | inductive invariant |
|---|---|---|
| `KvmProofs` | types, `NoLeftoverGrab`, `OneReaderPerNode`, `NoFdLeak`; `AllOrNothing`, `HoldsUntilRelease`; Kvm implements InputOwnership | `IInv` |
| `SessionProofs`, of the Reporter | types, `TargetShowsKeys`, `TargetShowsButtons`, `MotionLossless`; `ClicksCarryMotion` | `ReporterInv` |
| `SessionProofs`, of the daemon | Session implements Kvm (`ControllerRuns`) and Reporter (`ReporterRuns`), hence InputOwnership (`DaemonOwns`), the invariants and action properties of Kvm (`DaemonControls`, `DaemonHolds`) and the Reporter's three invariants (`DaemonReports`); `ReleasedMeansNeutral`, `NoStuckKeys`; `LocalStaysLocal` | `SessionInv` |
| `MqttBridgeProofs` | types, `AvailabilityShown`, `GrabShownUnlessOverlap`, `LinkShownUnlessCrossed` | `BridgeInv` |
| `BleLinkProofs` | types; `OneDial`, `NoOrphanLink`; of the bridge, `NeverSilent`, `NeverTwo`, `IntervalPending` | `IInv`; `BridgeInv` |
| `NetLinkProofs` | types, `NoSocketLeak`, `ConnIsWatched`; `FreshConnKept`, `InOrder` | `IInv` |
| `CableProofs` | types, `NoPortLeak`, `OneFailurePerReplug`, `CountersShowTarget`, `TargetShowsLast`; `WakingReportKept` | `CableInv` |
| `FramingProofs` | types of the parsers, `RoomForNextByte`; Framing implements FrameParser (`ParsersRun`), hence `RoomForNextByte` of Framing; `EachConnectionHeard`, `CutCostsFewFrames` | `IInv`; `FInv`, `BInv` |
| `FirmwareProofs` | types, `AlwaysBootable`, `RefusalReported`, `SettingsInForce` | `IInv` |

Few of these properties are inductive by themselves. What each invariant adds,
and why it is needed:

* **Kvm.** A release frees the *tracked* devices, so a grab held by an untracked
  one would survive it (`HeldIsTracked`); a grab can leave with `deviceLost` only
  because a device whose reader has failed is dead (`FailedIsDead`), and a dead
  one holds nothing (`HeldIsLive`). `OneReaderPerNode` needs that pending probes
  are on different nodes and apart from the tracked devices (`ProbesApart`). For
  the action properties and the refinement, `GrabSteps` classifies every step:
  it engages, releases, loses hardware, or leaves mode and held devices alone.
* **Reporter.** The list of keys has none twice and holds exactly what is down
  (`KeysListed`), so that its length is the number of keys: that is what makes
  rollover right. `AddedKey` and `RemovedKey` say what the two operations do to
  such a list.
* **Session.** `LocalCalm` says what a reader that was past `isGrabbed` at the
  end of KVM mode can still do: it is the only one, or `overtaken`; until it has
  reported the Reporter is as it was cleared; and what its one event leaves
  behind is never sent. `KeysAnsweredFor` says `NoStuckKeys` of every moment: each
  key in the Reporter's state or reports is down on a tracked device, or its
  release is in a reader's hand, or the device is gone and KVM mode about to end;
  and while a change waits, some device has yet to end its frame. `PressesHeld`
  covers the keys that are still in a reader's hand.
* **MqttBridge.** The properties are about a bridge at rest. `StatusInv` is about
  the newest message of its topic, wherever it is: on its way, or retained. For
  grab and link that is not enough, because the client sends stored messages in
  any order: `GrabInv` and `LinkInv` say that all that may yet reach the broker,
  on its way, stored or listed, says the same, and that it is on its way or
  retained once nobody is left to say it.
  `late`, `overlap` and `crossed` excuse in them just what they excuse in the
  properties.
* **BleLink.** There is one busy dialer, and `s.dialing` says so
  (`DialersAlike`, `DialingIsSet`). A caller that is about to clear
  `s.connected` on account of a failure finds no connection that anybody relies
  on (`FailureIsOld`). Of the bridge, `AirInv` says which of the six queues of events
  there can be go with which state of the controller: hence a bridge with an
  address is silent for good only after a start of advertising that failed, and
  no event waits while it advertises. `TimerInv` ties the one-shot timer to the
  connection it was started for.
* **NetLink.** `InOrder` rests on where the frames are: those of the connection
  that is served come before those in the backlog, which are in its order, and
  the sink writes to the last connection of all (`ServedFirst`,
  `BacklogInOrder`, `ConnIsLast`).
* **Cable.** What the serial sink holds open at each stage of a call (`Stages`),
  and that a dead file has not yet cost a report (`DeadIsNews`); `hid_mtx` has
  one holder (`Serialised`), and between accounting and the target the counters
  are ahead by what is in hand (`Counted`); and the newest report of a kind says
  what the daemon said last, wherever it is on the way (`Newest`).
* **Parser.** The length checks at `S_LEN` and `S_OTA_L1` establish `Room`, and
  the counters keep it; types and room are inductive together.
* **Framing.** `Reading` says what a parser holds when it has taken the first k
  bytes of a frame: state, contents so far, and a running checksum that is the
  fold of `Encode` over those contents. One lemma per state (`TypeHeard`,
  `LenHeard`, `PayloadByte`, `LowHeard`, `HighHeard`, `ChunkHeard`) carries it to
  k + 1, and `ReadsLast` ends the frame with its command. `Layout` places every
  frame sent at an offset of the bytes under way, and `Stream` says that the
  parser is reading the frame after those completed. Chunks go through the one
  `ota_buf`, so a parser of another transport must not be in a chunk meanwhile:
  that is what `OneUpdater` and the other transports' own `Stream` give.
  Of a transport that has lost a byte, `Resync` has three phases: `Astray` in what
  a loss has left to be read, which `Left` bounds by `LongestRemainder` and which
  began no earlier than the latest misleading frame; `Skips` to the next sync
  byte, which in a frame that does not mislead is the first of the next one; and
  `Follows`, after which every frame is completed. `Spares` ties the count of
  clear bytes to the frames that the loss may cost.
  The bound of `CutCostsFewFrames` came out of this proof: a cut after the type
  makes the first bytes of the next frame the length, so the remainder is up to
  two length bytes, the contents and the checksum.
* **Induction over data.** The fold of the checksum and the offsets of frames
  need an induction over numbers. `Induction` states it for sets instead of
  predicates, from the least element of a set (`Least`), and `FoldExists` and
  `PrefixSums` turn the `CHOOSE` behind `FoldLeft` into its defining equations.
* **Firmware.** An update writes only the slot that does not run, and only while
  the one that runs is confirmed (`WritesOther`, `FallbackIsWhole`). All data
  on the wire of an attempt that found nothing in motion is its own, and so is
  what the session holds that its begin opened, whatever frames were lost or
  failed on the board; and as long as nothing else took link or board down, their
  being down means that an end was accepted (`FlowInv`). What NVS
  holds, together with what a handler has set and not committed, is what was asked for, but for what was torn; and
  a board that has started runs with what is saved (`SettingsInv`).

Assumptions on the constants, each named in the module that declares them, and
evaluated by TLC in every run of it:

| assumption | says | why |
|---|---|---|
| `KvmAssumption` | each object was opened on some node | `openDevice` |
| `ReporterAssumption` | numbers are numbers; rollover is no key's usage | usage 0x01 is reserved |
| `SessionAssumption` | a code is a modifier, a key or a button, and only one of them; devices are finitely many | the order of the lookups in `Handle`; descriptors are |
| `CableAssumption` | the cable is one of the tasks and nobody is none; keys are finitely many; buffer and counters are not empty | `main.c` |
| `OtaAssumption`, `FirmwareAssumption` | an image has a chunk; commands and built-in credentials are what Settings says they are | an empty image is none; the handlers accept nothing else |
| `ParserAssumption` | the checksum of two bytes is a byte; the sync byte and the type of a chunk are bytes; fixed lengths fit the payload | `payload_len`, `frame` |
| `CommandsAssumption` | commands have the lengths that the firmware expects of their types (`IsCommand`); types have one kind of length each; lengths fit their one or two bytes; the sync byte is no type | `payload_len`, `feed`, the frame types of `sink.go` and `main.c` |
| `OneUpdater` | chunks of an update come over one transport | "one OTA at a time, so a single shared chunk buffer" (main.c:314) |
| `NetAssumption`, `BridgeAssumption`, `BleAssumption`, `FramingAssumption` | bounds are numbers, and those of queues not zero | |

Only model-checked:

* Liveness: `LinkDropReleases`, `DeviceLossReleases`, `DeviceReattached`,
  `MotionDelivered`, `Reconnects`, `FastIntervalAsked`, `ServedAgain`,
  `UpdateLands`. Fairness and `ENABLED` are out of the prover's reach.
* The three runs that end in a counterexample.

## 5. What is not modelled

* Times. A tick, a timeout or a dial is a step; that `s.mu` is held for a dial of
  two seconds, or that a keepalive takes eleven, does not show.
* `SYN_DROPPED`, the kernel's event buffer. No report is ever repeated by the
  daemon: after a lost one Session and Reporter claim nothing (`kbdStale`,
  `mouseStale`) until the next one arrives, and so does Cable.
* 32-bit sums of motion; the mapping tables of `keymap.go`; the ioctls, names and
  grouping by USB device in `discover`: every node is one that it wants.
* Rollover reports and the two report counters in the send path; the lengths in
  a config frame; termios bits; errors of `bind` and `listen`; mDNS.
* That `request_fast_interval` reads `s_conn_handle` twice without a lock: the
  value is a word that only the host task writes, and a stale one makes the call
  fail, which the timer of the next connection makes good.
* The port that comes back under another name is a state of SerialSink
  (`"elsewhere"`) about which no property says anything (section 3).
* The client library's limits on what it stores, and discovery messages, which
  never change.
* Two firmware updates at once, which the firmware's comment on `ota_buf`
  excludes.
* Configuration, debug sink, web page, diagnostics and build: no state that
  several actors share.

## 6. Plan

Done: every component with state that several actors share, the compositions
of section 2, and the proofs of section 4.

Next theorems, in this order:

1. **DeviceTable**: what holds of the array and of the readers while
   `deviceLost` moves entries under the loop of `main`, as far as it does (the
   run shows what does not).
2. **BleLink**: that every step of the composition is one of the sink and one of
   the peripheral.
3. Abstract specifications for the transports, such as a lossy channel that
   keeps the order, which NetLink implements.

Larger instances worth running for hours: Session with a modifier and a button
beside the key, Cable with both kinds of report, Firmware with three attempts.
