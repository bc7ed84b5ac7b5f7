# A TLA+ model of the Hesai LiDAR driver

The driver receives UDP packets of a Hesai LiDAR (the deployed sensor is a
PandarXT-16), checks their order, assembles point clouds and publishes them and
the raw packets as ROS 2 messages. This directory holds TLA+ modules of its parts
and of how they work together, the TLC configurations that check them on small
instances, and TLAPS proofs of the main safety properties for every value of the
constants.

Paths below are relative to the repository: `raw/` stands for
`src/HesaiLidar_General_SDK/src/PandarGeneralRaw/src/`, `sdk/` for
`src/HesaiLidar_General_SDK/src/`.

## The system

```
 UDP socket ──RecvTask──┐                                    (decoding thread)
 pcap file ──parsePcap──┼─► BoundedSpscQueue ─► TimestampGuard ─► XtSequenceTracker
 rosbag ──scanCallback──┘                                              │
                                                                 block loop, EmitBackMessege
                                                                       │ lidarCallback
 (publisher thread)  publish ◄── LatestValueMailbox ◄── cloud TimestampGuard
```

| Component | State | Operations | What is hard | What makes it correct |
|---|---|---|---|---|
| Packet queue `raw/bounded_spsc_queue.h` | slots, read and write index | `try_push`, `try_pop`, `reset` | two threads without a lock, stale loads, wrap-around, `reset` between runs | no slot is read and written at once; FIFO; backlog limit; every loss counted |
| Sources: `RecvTask` with `raw/input.cc`, `raw/pcap_reader.cpp`, `scanCallback` and `PushScanPacket` | sockets, run flags, replay clock, scans waiting | poll, receive, classify; `start`, `stop`, `parsePcap`; push a scan | one or two sockets, damaged datagrams, GPS read first; sleeps cut short, clocks that jump; a node that hears itself | lidar packets pushed in order, and read as long as GPS leaves pauses; GPS never decoded; no drift, never early, `stop` returns; no packet of a bag decoded twice |
| Packet filters `raw/packet_defenses.h` | highest timestamp; last sequence and when | `observe`, `reset` | UDP repeats and reorders, 32-bit rollover, reboots, host clock steps | order, exact gap count, no creeping regression, recovery |
| Block loop in `raw/pandarGeneral_internal.cc` | last azimuth and time, points, scan | parse, split, emit, add points | lost packets around the start angle, a packet in two frames, decoder exit in mid-packet | one revolution per cloud, every packet in one scan (but for a QT with `pcl_type`), a point buffer set back in time if the head turns |
| Node `src/main_ros2.cc`, mailbox `src/latest_value_mailbox.h` | pending cloud, stop flag, counters | `lidarCallback`, `publishPointClouds`, `push`, `wait_pop`, `stop`, constructor, destructor | three threads, condition variable, publish failures, teardown order | no lost wake-up, newest cloud wins, totals add up, destruction ends |
| SDK object `sdk/pandarGeneral_sdk.cc`, TCP client `sdk/tcp_command_client.c`, `sdk/util.c` | calibration thread, correction table, flag | `Start`, `Stop`, destructor, `GetCalibrationFromDevice`, `LoadCorrectionFile` | a thread blocked in the network is joined; a fallback that must not win | thread inside the object's life, sensor's table kept |
| Transform lookup (tf2) | target frame, buffer, two matrices | `manage_tf_buffer`, `computeTransformTo...`, `transformPoint` | members that outlive what they were computed for; a failed lookup ends the decoder | points in the frame the cloud names, moved by their own packet's matrix |
| Packet parsing, `raw/pandarXT.h`, `raw/pandarQT.h` | cursor | dispatch, `Parse...Data` | sizes and offsets repeated as literals, counts from the header | a sensor's packets are read inside and parsed, the XT parser takes nothing else, fields where others expect them |
| Correction table | angle tables, vectors | `LoadCorrectionFile`, `SaveCorrectionFile`, `Calc...` | resized and filled under the decoder, no lock; a vector that grows moves | reads inside the vectors while they need not grow, quiet reads untorn |
| Message `src/compact_pointcloud2.h` | — | `makeCompactPointCloud2` | products of words | copies inside, message describes itself |
| Coordinates | — | trigonometry | floating point | out of reach, see below |

Threads: the receiver (or the pcap reader's thread, or in rosbag mode the
executor) is the queue's only producer and the decoder its only consumer;
`lidarCallback` runs on the decoder; the publisher waits on the mailbox; the
main thread constructs the node, spins and destroys it; `Start` also creates the
calibration thread.

## Modules

| Module | Models | Composes / used by |
|---|---|---|
| `FifoQueue` | abstract: a bounded FIFO queue that may refuse or be emptied | implemented by `BoundedSpscQueue` |
| `BoundedSpscQueue` | the queue, `RecvTask`/`FillPacket`/`PushLiDARData`, the pop loop of `ProcessLiarPacket`, `Start`/`Stop` | |
| `TimestampGuard` | `TimestampGuard` as operators | `PacketDefenses`, `CloudHandoff`, `DriverPipeline`, `RosbagReplay` |
| `PacketDefenses` | `XtSequenceTracker` as operators | `PacketOrder`, `DriverPipeline`, `RosbagReplay` |
| `PacketOrder` | the head of `ProcessLiarPacket` for XT sensors between a sensor, a network and a host clock | |
| `FrameAssembly` | the block loop, `EmitBackMessege`, scans, decoder exit, `Start` | |
| `LatestValue` | abstract: a latest-value register | implemented by `CloudHandoff` |
| `CloudHandoff` | the node: `lidarCallback`, mailbox, `publishPointClouds`, constructor and destructor | |
| `Calibration` | `PandarGeneralSDK` with its calibration thread, and the correction packets of a rosbag | |
| `DriverPipeline` | both filters, the frame and the cloud filter of the node, in one | composes `TimestampGuard` twice and `PacketDefenses` |
| `Transforms` | `manage_tf_buffer`, the lookups, `transformPoint` | |
| `PacketLayouts` | dispatch, the five parsers' cursors, the pcap reader's offsets, firing tables | `MCLayouts` |
| `CompactCloud` | `makeCompactPointCloud2` | `MCLayouts` |
| `CorrectionTable` | `LoadCorrectionFile` against the decoder's reads, entry by entry | |
| `PacketInput` | `Input` and `RecvTask` | `PacketSources` |
| `PcapReplay` | `PcapReader` | `PacketSources` |
| `RosbagReplay` | `scanCallback`, `PushScanPacket`, the decoder's filters and the raw scans it publishes | `PacketSources` |
| `PacketSources` | the choice of one of the three | composes them |
| `MC...` | the same modules as instantiated by the `.cfg` files | |
| `DecodingProofs` | theorems about `CorrectionTable`, `Transforms`, `PacketLayouts`, `CompactCloud` | |
| other `...Proofs` | theorems about the module named before `Proofs` | |

### BoundedSpscQueue

`try_push` is three steps (`PushLoad`, `PushWrite`, `PushPublish`) and `try_pop`
three (`PopLoad`, `PopCopy`, `PopRelease`), split at the accesses the other
thread can see. An acquire load may return any value between the one last seen
and the newest (`Visible`); storing with release and loading with acquire makes
the slot's content visible with the index, so the content itself is not stale.
`PushPublish` includes what `PushLiDARData` does after a successful push. The
flags are read once per loop. `StopJoinsProcess` includes the `reset()` that
follows the join; `Start` resets again and creates both threads. The decoder
starts in `"working"` because its first transform lookup may already end it.
The sizes, 36000 slots and 400 packets, are constants.

### TimestampGuard, PacketDefenses, PacketOrder

The two classes are operators from a state and an observation to a decision and
a next state; times are integers, sequence numbers are modulo `SeqModulus`. In
`PacketOrder` any of the last `Reordering + 1` packets may arrive, any number of
times; a reboot sets the counter back, `ClockStep` sets the host's clock to any
value. The queue is FIFO (proved), so reception and processing are one step.
`quiet` and `stepped` are history variables for what the filters cannot see: the
real time since the last packet, and whether the clock was set meanwhile.

### FrameAssembly

Points are reduced to the revolution they were fired in and azimuths to a small
circle. The sensor turns by one of `Steps` per firing and sends `returns` blocks
for it, all at one azimuth; up to `MaxLost` packets in a row are lost. A loss of
a whole revolution or more is excluded because no azimuth could reveal it.
`Plausible` is the code's quotient of azimuth and time in double arithmetic. The
code has the loop once per packet family; the map points at the XT one. They
differ in the count of points `index`: `CalcQTPointXYZIT` (`qt`) counts in both
layouts, the others only the entries of `m_vPointCloud`. `EmitFrame` hands over
nothing when the cloud is empty, and clears the scan all the same, as the code
does. `TransformFails` and `EmitLastFrame` are the decoder's two kinds of return.
`ResetStartAngle` has no caller. `SaveCorrectionFile`'s packet, appended to every
scan, is not a sensor packet and is not recorded.

### CloudHandoff

Each mailbox function runs under its mutex and is one step; the counters that
`lidarCallback` changes after `push` has returned are a step of their own. The
condition variable wakes spuriously. `Teardown` stands for the destructor and
for the constructor's `catch`, which make the same calls. The branch for an
empty cloud in `lidarCallback` is unreachable, since `EmitBackMessege` returns
before calling it. An exception from publishing a raw scan is not caught in the
code and ends the process; the model has no such step.

### Calibration

One owner thread calls `Start`, `Stop` and the destructor in any order.
`PandarGeneral_Internal::Start` and `Stop` are single steps here, because their
inside is in `BoundedSpscQueue`. `LoadCorrectionFile` always returns 0, so the
branches for a failed load are dead and a load always sets the flag. The table is
`"partial"` while it is filled: the decoder may read it then, without a lock.

### DriverPipeline

A packet arrives at the host's time `clock` and, in `Decoded`, passes the packet
guard and the tracker, adds points before and after a start angle that may lie
in it, and hands the frame to `lidarCallback`, which asks the second guard. A
point's stamp is the host's time (`timestamp_type` "realtime") or the sensor's.
The guards, the tracker and the frame are those of one `Start`; the node calls
`Start` once. `Shapes` stands for the azimuths, which are in `FrameAssembly`.

### Transforms

Matrices are reduced to the frames they relate and the packet they were looked up
for; a matrix no lookup filled is `NoMatrix`, and moving a point with a matrix of
the wrong frame gives `NoFrame`. tf2 is external: a lookup finds the transform,
finds it not available, or throws what the code does not catch.

### PacketLayouts, CompactCloud

All sizes and offsets are the numbers of the headers and parsers. A packet is its
size and the fields that steer a parser; the cursor moves as `index` does in the
code, block by block and field by field of the tail. `SentBy` and `SizesOf` are
what sensors send, from the packet sizes the code documents; `LayoutAssumption`
limits `Sensors` to the nine of `DocumentedSensors`. `StrayPackets` is what else
may come: any size the dispatch knows, or another, for any configured sensor, with
any counts and with or without the start mark. The properties say of each parser
what it checks: `ParseXTData` everything, `ParseRawData` nothing, but its loops are
fixed, the other three the start mark only (`Bounded`). The firing tables of
`Init` are closed formulas in nanoseconds. In `CompactCloud` a word has four bits
instead of 32 and a point 3 bytes instead of 26, so that every product that could
wrap does.

### CorrectionTable

An entry of a table is reduced to the load it came from. `LoadCorrectionFile`
parses into local arrays (one step), resizes the vector of sines and then that of
cosines, and fills a row in four steps: elevation, sine, cosine, azimuth. A vector
has a capacity (`room`) and a numbered buffer (`storage`): `Resize` is the case
that fits, `ResizeFrees` and `ResizeMoves` the one that does not, with the moment
between them at which the vector still points to the buffer that is gone. The
decoder takes the azimuth of a point, then for each vector its pointer
(`FetchVector`) and what it points to (`ReadVector`), and saves a table row by
row. `quiet` says that no load overlapped the decoder's operation. A text has a
row for every laser and may go on with a stray line, which the code counts before
it looks at the id.

### PacketSources

`PacketInput`: two ports or one, so two sockets or one; GPS packets are told by
their size after they were read. Receive buffers are bounded and what finds them
full is lost; GPS and damaged datagrams come without end. A datagram that fails
its checksum after `poll` reported it makes `recvfrom` return nothing, and the
code pushes the packet as it is. If the constructor gave up, `socketNumber` is one
of `SocketNumbers`, any set of integers; if `poll` reports what no entry of `fds`
accounts for, an error of the second socket among it, `ReadNothing` returns a
packet nobody filled, of any size. `readLidar`, `pushedLidar` and `pushedKinds`
are histories of what was read and what was pushed. `PcapReplay`: every `Gap`
packets the reader compares clocks; `count` starts with any value, since the code
does not set it. `RosbagReplay`: the node publishes assembled scans on the topic
it subscribes to, the default when `publish_type` is "both"; the subscription
keeps the newest scans only and the queue drops when it is full.

## Runs

| Run | Checks | Bounds and why they are enough |
|---|---|---|
| `queue` | `NoSlotRace`, `PacketsAccounted`, `RefinesFifo`, `StopCompletes`, `BacklogServed` | 3 slots, backlog 2, 5 packets: both indices wrap, the queue fills, drops happen before and after a Stop |
| `packet_order` | `DecodedInOrder`, `GapsExact`, `StampsNearMonotone`, `StaleOnlyAfterSilence`, `SilenceEndsRejection` | 4-bit sequence numbers starting two before rollover, 3 packets per boot, 1 reboot, 2 clock steps of any size (creeping back needs two), 4 arrivals, idle period of 3 ticks |
| `cloud_handoff` | `CloudsAccounted`, `NoLostWakeup`, `CallbackInsideLifetime`, `RefinesLatestValue`, `TeardownCompletes` | 4 clouds, 5 timestamps, all publish types: one cloud each in the publisher, the mailbox and the decoder, and one dropped |
| `frame_assembly` | `FramesPure`, `ScansExact`, `FrameBounded` | circle of 8, 2 lasers, start angles 0 and 1, packets of 2 blocks in single and dual return, 5 packets (more than a revolution), up to 1 lost between two, 1 restart, both layouts, QT or not; a buffer of 18 points, the least `Roomy` allows |
| `calibration` | `ThreadInsideLifetime`, `SensorTableKept`, `StopReturns`, `TableArrives` | 3 calls of `Start`, all modes, file readable or not |
| `pipeline` | `CloudFilterRedundant`, `ReorderingCostsNoCloud` | both time bases, XT or not, 2 clock steps of any size, 1 reboot, 2 packets per boot that may swap, 4 arrivals: two frames and a third begun |
| `pipeline_reboot` | `RebootRecovers`, **violated** | sensor time, one reboot, no reordering |
| `transforms` | `PointsInFrameId`, `PointsCompensated` | all 27 settings of three frames with two names, 4 packets, 2 calls of `Start` |
| `transforms_same_frame` | `SensorTargetNeedsNoTransform`, **violated** | the same |
| `layouts` | `ReadsInside`, `ParsedAsSent`, `FieldsWhereExpected`, `BlocksInFiringOrder`, `MessageConsistent` | every size of the nine documented sensors, and for each of them all sizes the dispatch knows with 8 x 8 counts (those that are sent, 0 and 255, and 40 blocks of 6, which fill an XT packet); 18 sizes of clouds and all declared dimensions of a 4-bit word |
| `correction_table` | `ReadsInVector`, `QuietReadsUntorn` | 2 lasers, arrays of 3 entries, 2 loads: the first can grow the vectors and the second fit into what they became, or both grow |
| `packet_sources` | `LidarPushedInOrder`, `LidarServed`, `NoDrift`, `NeverEarly`, `ReplayStops`, `EchoNotDecoded`, `EchoDiesOut` | 2 datagrams of the sensor, GPS and damaged ones without end, buffers of 3, `socketNumber` set or any of 0 to 3; 4 captures (regular, standing still, jumping ahead, set back), 2 starts, 1 signal, 2 delays; 3 bags (regular, paused beyond the idle period, out of order), subscription of 2 scans, backlog of 3 |

Deadlock is checked in the queue, node, calibration, table and source runs. The
others stop at their bounds on packets and time, so there it is not.

Two runs show where the program and what is written about it disagree.

* `pipeline_reboot`: `README.md:77` says "A receive idle period of 2 seconds
  resets the sequence baseline so a sensor reboot can recover". With timestamps
  of the sensor, a reboot that sets its clock back leaves `cloudTimestampGuard`
  (`main_ros2.cc:218`), which nothing resets, dropping every cloud until the clock
  has passed its old value, although the packets are accepted again. In host time
  the same cannot happen: `CloudFilterRedundant`.
* `transforms_same_frame`: `pandarGeneral_internal.cc:2181` means to "avoid doing
  transformation when m_sSensorFrame equals target frame". But
  `computeTransformToTarget` is called before the loop (line 801), and the tf
  buffer is created only by a packet, inside it: with any target frame the
  decoding thread returns before its first packet.

## Read off the code, without a run

* `CalcQTPointXYZIT` has no braces around its `else` (lines 1921-1925), so
  `m_iPointCloudIndex++` is executed with `pcl_type` too, where nothing sets it
  back. From then on every start angle counts as the end of a frame; if the
  revolution had no points, `EmitBackMessege` returns without the callback (2034)
  and `scan->packets.clear()` drops its packets. `ScansExact` excepts this case
  from its second half (the first holds). The count is an `int` and overflows
  after 2^31 points, which the model, with unbounded integers, does not show.
* `ParseL64Data`, `ParseL20Data` and `ParseQTData` loop to the counts in the
  header (1249, 1334, 1425) without comparing them with the packet's size or
  their arrays, `ParseRawData` looks at no start mark, and all of these sizes are
  dispatched whatever `lidar_type` is. `ReadsInside` and `ParsedAsSent` claim of
  these parsers only what holds for the packets their sensors send. In the
  deployed configuration, an XT, a datagram of such a size reaches them as well.
* A table with more lines than the vectors have room for, as a stray line after
  the last row makes it, moves the vectors (677-678) under a decoder that reads
  without a lock. In the model a read of the freed buffer happens;
  `ReadsInVector` excepts reads that overlap such a load.
* `getPacket` reads the first readable socket only, GPS before lidar: with a GPS
  datagram waiting at every `poll` the lidar is never read. Without its condition
  on GPS, `LidarServed` is violated.
* A packet of size -1 (a damaged datagram) becomes `resize(4294967295)` and a copy
  of as many bytes at `pandarGeneral_internal.cc:833`; the model ends where
  it is pushed.
* The test for the start angle (`pandarGeneral_internal.cc:1081`) misses a step
  of the azimuth that passes a start angle just below 360 degrees and 360 degrees
  together; `StartDetected` proves that this is the only way to miss it, and that
  the test is exact for start angle 0.
* `util.c:38` defines a ten-second timeout for reads that nothing uses: a sensor
  that accepts the TCP connection and stays silent blocks the calibration thread
  in `read`, and `Stop` with it. `StopReturns` assumes a sensor that answers or
  hangs up.
* `frame_id` is written into the cloud after the block loop (line 1104), so a
  cloud handed over by the very first packet has none.
* `Init` never sets `laser40Offset_[7]`, and a Pandar64 packet of seven blocks
  indexes tables of six entries; the pcap reader's offsets for the Pandar64 fit
  packets of six blocks. The layout properties name these three exceptions.
* `LoadCorrectionFile` returns 0 whatever it read, and a truncated text makes the
  vectors shorter than the sensor has lasers; `ReadsInVector` and its theorem are
  about complete texts.
* In rosbag mode with raw publishing, a sensor without sequence numbers decodes
  its own scans again as long as their stamps are within the tolerance;
  `EchoNotDecoded` and `EchoDiesOut` except that case.
* Publishing a raw scan is not guarded (`main_ros2.cc:269`): an exception there
  ends the process.

## Fairness

* `BoundedSpscQueue`: weak fairness of every step of both threads, which the
  operating system's scheduler gives, and of a `Stop` under way. Strong fairness
  of a load that sees the newest index: C++ asks that stores become visible in
  finite time. `Start`, `Stop` and packets are not forced.
* `CloudHandoff`: weak fairness of every step of a thread that can run; a
  `publish` call returns or throws. New clouds, spurious wake-ups and shutdown are
  not forced. `TeardownCompletes` is about the decoder and the publisher; that the
  calibration thread ends is the question of `Calibration`.
* `Calibration`: weak fairness of all local steps; `connect` ends because the
  kernel gives up. `AnsweringSpec` adds that the sensor answers or closes, which
  nothing in the code guarantees.
* `PacketInput`: weak fairness of the thread's own steps; strong fairness of
  `ReceiveFrom` each socket, because a `poll` whose first readable socket it is
  may be interrupted now and then but not every time. Datagrams and `Stop` are not
  forced. That GPS leaves pauses is no fairness of the code but a condition
  `LidarServed` states: a receiver sends one datagram a second.
* `PcapReplay`: weak fairness of the reader, of the clock and of a `join` whose
  thread has ended.
* `RosbagReplay`: weak fairness of the executor and of the decoder; the player is
  not forced.

## Proofs

Every theorem holds for all values of the constants allowed by the `ASSUME`s:
`QueueAssumption` is the class template's `static_assert`s; `GuardAssumption` and
`DefenseAssumption` ask for a tolerance in `Nat`, a positive idle period and a
modulus above 2; `NetworkAssumption` says that fewer than half the sequence
numbers are used after one boot, `PipelineAssumption` that the network reorders
over less than half of them, `LayoutAssumption` that the sensors are among the
documented nine and the counts of a header are bytes; the other assumptions only
type the constants.

Five theorems have a hypothesis of their own, stated where it is used and not as
an assumption of the module, because the code does not check it:

* `Turning` (frames): the head turns, from one firing that arrives to the next by
  less than a circle and slower than the plausibility limit, and never past both
  the start angle and the zero of the azimuth. Without the last part the block
  loop does miss a start angle (see above); with start angle 0 it only says that
  losses are shorter than a revolution. Blocks of one firing may have one azimuth.
* `Roomy` (the point buffer): channels times returns times the firings of the
  slowest revolution are no more than `MaxPoints`. For an XTM with 32 channels,
  three returns and 0.09 degrees between firings, at 5 Hz, that is
  32 * 3 * 36008 / 9, about 384,000, of 1,000,000 entries. The `frame_assembly`
  run evaluates both for its constants.
* `Recognisable` (rosbag): the guard's tolerance, 0.1 s, is below the tracker's
  idle period, 2 s, and a bag has fewer packets than half the sequence numbers.
  The `packet_sources` run evaluates it.
* `CompleteTables` (correction tables): a row for every laser.

* `BoundedSpscQueueProofs`: the invariant adds to `TypeOK` that what each thread
  last loaded lies between the true indices (`distance(producerRead, writeIndex)`
  bounds the backlog from above, `consumerWrite` lies within the backlog), and
  what the program counters know (a thread that writes found room, one that
  copies found a packet, the threads have ended when the control has joined them).
  `QueueRefinesFifo` maps the ring to the sequence `Contents`; the key lemmas say
  what `PushPublish` and `PopRelease` do to it.
* `PacketOrderProofs`: the tracker's last sequence is that of the last packet
  logged, the guard's time is at least every logged stamp and the numbers within
  an epoch increase; the half-range condition makes a modular difference below
  half the modulus a true difference.
* `CloudHandoffProofs`: what the mailbox holds and what the publisher took are
  numbered in order, the guard's time bounds every stamp in the node, and the
  state of the main thread says which threads are still there.
* `FrameAssemblyProofs`: `FrameScansExact` by induction over the concatenation of
  published and current scan, which increases, and has every packet unless a cloud
  that was counted as one turned out to be empty; `StartDetected` by cases on the wrap. For
  `FramesOfOneRevolution` and `FramesBounded` every azimuth is measured from the
  start angle (`Rel`): what the sensor has turned is a number whose quotient by
  the circle is the revolution and whose remainder is `Rel` (`Position`). A block
  `Follows` another if the loop splits between them or both are of one revolution
  and the second is further on; `TurnFollows` derives that from `Turning` for two
  blocks of a packet and across a loss. The invariant: the blocks waiting follow
  each other, the next one follows the block decoded last or is a further return
  of its firing, the points gathered are of that block's revolution, and `index`
  is no more than channels times returns times the firings that fit into the
  azimuths passed.
  `FrameTypeCorrect` needs no hypothesis.
* `CalibrationProofs`: the thread lives only while the owner is outside `Start`
  and the destructor, and reading the file implies no table came from the sensor.
* `DriverPipelineProofs`: two arguments for the two time bases. In host time
  (`HostInv`) the cloud guard's time never passes the packet guard's, and a frame
  begun at an accepted time is within the tolerance of that. In sensor time
  (`SensorInv`) everything remembered, the frame's stamp and the guard's, is no
  later than the packet at the tracker's baseline, and a packet accepted in
  sequence was sent later (`AcceptedIsLater`). `FrameStep` reduces the block loop
  to the two things it can do: add to the frame, or hand it over.
* `PacketSourcesProofs`: one invariant for each source, which the steps of the
  other two leave alone. Capture: `NoDrift` is kept by every look at the clock
  because the wake-up time, not the time of waking, becomes the reference;
  `NeverEarly` needs in addition that a reader that is not asleep is behind it
  (`PaceInv`). Sockets: the lidar socket holds exactly the datagrams that arrived
  and were not read, in order (`Waiting`), so the one read is the next, and what
  was read was pushed but for the one in hand (`ReadInv`). Rosbag: whatever is on
  its way, in the subscription, in the callback or in the queue, is a correction
  packet, an old packet (number at most `newest`, stamp at most the guard's time)
  or a new one, and the new ones are in order through all three places
  (`Pipeline`); the guard's time is within the tolerance of the tracker's last
  observation (`FilterInv`), so an old packet finds no idle period to pass by
  (`OldFiltered`), and the scans the node publishes hold old packets only.
* `DecodingProofs`: four parts. Tables: the vectors keep at least the sensor's
  rows through every `resize` (`VectorInv`), and the buffer is the one the reader
  fetched unless a load that outgrew it came between (`RoomInv`, `HeldInv`); the rows below the loader's come from
  the last load (`LoadInv`); what the decoder does undisturbed it does with that
  table. Transforms: while packets are decoded the matrix to the target is
  one from the frame the points are in (`MatrixInv`), although the members outlive
  the lookup; `PointsMoved` follows a point through both. Layouts: the
  cursor is where the fields read so far end (`Progress`), and the sizes leave room
  for what a sensor sends, for what `ParseXTData` has checked and for what
  `ParseRawData` takes (`Fits`); then the tables of offsets sensor by sensor. Messages: for a word
  of any width, a product that is compared before it is formed does not wrap
  (`ConversionInv`).

Every invariant of the passing runs and every action property is proved. Only
model-checked is what holds under fairness, which is out of the prover's reach:
`StopCompletes`, `BacklogServed`, `TeardownCompletes`, `StopReturns`,
`TableArrives`, `LidarServed`, `ReplayStops`, `EchoDiesOut`; and the two
violations, which are counterexamples.

## Not modelled

* Coordinates and the trigonometric tables (floating point).
* The values in packets: distances, reflectivity, dates. The text of GPS packets
  and `mktime`.
* TCP commands other than the calibration request, which the driver never sends.
* A sensor whose head stands still and sends on: the azimuth does not change, no
  frame is split and the point buffer grows. `FrameBounded` is about a head that
  turns.
* `pcl_type_` = 1 when channel 0 sees nothing for a revolution: the code then
  keeps the frame open (`pandarGeneral_internal.cc:1085`); `FramesPure` says
  nothing about that layout.
* The sensor's clock in `DriverPipeline` is set back by a reboot only: steps of
  PTP or GPS time and the rollover of the sequence counter are outside that run
  (`PacketOrder` has the rollover). In `PcapReplay` the host's clock does not step
  backwards.
* A capture whose packets have no Ethernet header with IPv4 or IPv6: the default
  branch of `pcap_reader.cpp:123` leaves a null packet, from which the pace would
  be read.
* What an unset `socketNumber` does beyond the packets it may yield: the code
  allocates an array of that length on the stack.
* `target_frame` and points together: with any target frame the decoder returns
  at line 801, so that `PointsInFrameId` never meets the clearing at line 2185.
* ROS parameters, QoS, logging, durations in the diagnostics.

## Plan

1. Done: queue, packet filters, frame assembly, node and mailbox, calibration.
2. Done: `DriverPipeline`, `Transforms`, `PacketLayouts`, `CompactCloud`,
   `CorrectionTable`, `PacketSources` with its three parts; proofs about the
   pipeline, the replay and the correction table.
3. Done: proofs of every safety property the runs check.
4. Left: lemmas on what keeps a step enabled until it is taken, the safety half
   of the liveness properties.
