# TLA+ models of the Unionpi Tiger board support

`unionpi_tiger/` is the OpenHarmony support package of the Unionpi Tiger board
(Amlogic A311D, Realtek RTL8822CS wifi and Bluetooth). Most of its million lines
are vendored drivers. The code of the repository's own is the Bluetooth vendor
library (`hardware/bt`, about 14 000 lines of C), the camera adapter
(`hardware/camera`), the HDF audio and wifi adapters (`kernel/hdf`) and a few board
drivers (`kernel/drivers/{battery,bluetooth,panel,wifi}`).

This directory models the core of the Bluetooth vendor library: the H5 (three-wire
UART) link in `hci_h5.c`, the initialisation of the controller in `hardware_uart.c`,
the command server with the vendor service and the heartbeat, the coexistence state of
`rtk_parse.c`; and the streaming part of the camera adapter. TLC checks the models on
small instances, TLAPS proves the safety properties for all values of the constants.

Run a model with `tlc -config H5Down.cfg H5Transport` and check the proofs with
`tlapm H5TransportProofs.tla`. `PROJECT.json` lists runs, mutants, the lines each
definition models, findings, hazards and theorems.

## 1. Inventory

| Component | State | Operations | Interacts with |
|---|---|---|---|
| H5 reliable transport (`hci_h5.c`) | `rel`, `unack`, `unrel` queues, `msgq_txseq`, `rxseq_txack`, `is_txack_req`, retransmission timer and counter | enqueue, `h5_wake_up`/`h5_dequeue`, `h5_recv`/`h5_complete_rx_pkt`, `h5_remove_acked_pkt`, `data_retransfer_thread` | stack through the socket thread, UART, `data_ready_cb_thread` |
| H5 link establishment (`hci_h5.c`) | `link_estab_state`, two periodic timers, two counters | `hci_h5_send_sync_cmd`, `h5_process_ctl_pkts`, two timer handlers | reports its result to the initialisation, the loss of a link to the stack |
| H5 delivery (`hci_h5.c`) | `recv_data` queue, `internal_skb`, `num_internal_cmds` | `hci_recv_frame`, `data_ready_cb_thread`, `hci_h5_cleanup`, baud rate timer | initialisation, stack |
| Initialisation over UART (`hardware_uart.c`, `hardware.c`) | `hw_cfg_cb`: state, file buffers, fragment counters | `hw_config_start`, `hw_config_cback` | stack (`xmit_cb`, `init_cb`), UART speed |
| Initialisation over USB (`hardware_usb.c`) | the same | the same without speeds | stack |
| UART, socket and SCO threads (`userial_vendor.c`) | file descriptors, running flags, coexistence queue, SCO ring buffer | open, close, four threads, H4 parsing, `userial_enqueue_coex_rawdata` | all of the above |
| Vendor command server (`rtk_parse.c`) | `coex_cmd_send`, `coex_list`, `current_cback` | `rtk_vendor_cmd_to_fw`, `rtk_cmd_complete_cback` | parser, timers and vendor service submit, the stack passes answers |
| Coexistence profiles (`rtk_parse.c`) | profile bitmaps and counts, connection and profile lists, packet counters | HCI event and L2CAP parsing, timers, socket to the wifi driver | userial threads, command server, wifi driver |
| Vendor service (`rtk_btservice.c`) | command queue, two semaphores, callback, reply timer | `Rtk_Service_Vendorcmd_Hook`, `cmdready_thread`, start and stop | heartbeat, command server |
| Heartbeat (`rtk_heartbeat.c`, `rtk_poll.c`) | sequence number, count of missed answers, one-shot timer | a command at every expiry, comparison of the answer, hardware error event | vendor service, stack |
| Buffers and lists (`bt_skbuff.c`, `bt_list.c`) | intrusive lists with locks | queue operations | all |
| Vendor interface, pins, logs (`bt_vendor_rtk.c`, `upio.c`, `rtk_btsnoop_net.c`, `rtk_socket.c`) | configuration flags | `BT_OP_*` | stack |
| Camera V4L2 adapter (`v4l2_dev.cpp`, `v4l2_buffer.cpp`) | `streamNumber_`, epoll set, thread, map of queued buffers | start, stop, `ReqBuffers`, `QueueBuffer`, `StartStream`, `StopStream`, `Flush`, `ReleaseBuffers`, `loopBuffers` | HDI camera, V4L2 driver |
| Audio HDF adapters | two DMA streams | prepare, start, pause, pointer | ALSA drivers |
| Wifi HDF adapter | registration, mode, queues | forward to the vendored driver | HDF framework |
| Board drivers | rfkill state, power use count, static buffers | power on and off, resume interrupt | kernel |

What is hard in this code, and what a correct component guarantees:

* **Transport.** Three threads share `rtk_h5`; only part of it is under
  `h5_wakeup_mutex`. Numbers have three bits, packets are damaged and repeated, a
  timer may fire while it is stopped. Each packet arrives once and in order, none is
  freed before the controller has it, none is left without a timer, no
  acknowledgement is forgotten.
* **Establishment.** Four threads, no lock. A timer is started after the request
  whose answer stops it; a handler at its limit tests, reports and stops in separate
  steps. There is exactly one result for each link, never too early, and it comes.
* **Initialisation.** Eight kinds of commands in a row, each of which may fail, with
  files, an image and a changed speed in hand. The image arrives whole, at a speed
  both sides have, buffers are freed once, `init_cb` is called once.
* **Delivery and cleanup.** A queue with a condition variable, a timer that hands
  over a packet it may free, threads joined while they may signal each other.
* **Vendor commands.** Five kinds of threads submit and complete commands; the mutex
  covers the list but neither the callback nor the transmission. Commands go out one
  at a time and in order, none stays in the list, a dead controller is noticed and a
  live one is not, the close returns.
* **Coexistence profiles.** Counts for every connection and in total, kept from
  signals that can be refused, lost with their connection or parsed late; timer
  threads that change the status without a lock. Counts, bitmaps, list and timers
  agree, nobody stays busy.
* **Camera buffers.** A buffer belongs to the upper layer, the map, the driver or the
  thread between them, with a lock for only part of the way; streams come and go while
  that thread waits without a timeout. No buffer has two owners or none, `StopStream`
  returns, frames arrive.
* **SCO queues.** Bounded queues between threads.

`PROJECT.json` lists each hazard at its line with the properties that cover it.

## 2. Modules and the code

### ReliableLink
What one direction of the H5 link promises: packets are named by the order in which
they are handed over, and come out in that order, each once.

### H5Transport
`hci_h5.c` with the link in `H5_ACTIVE`. Threads: `stack` (socket thread),
`rx` (UART thread), `retrans` (`data_retransfer_thread`); `pc` says where each one
is, `mutex` who holds `h5_wakeup_mutex`. Every section under the mutex and every
access outside of it is an action: `h5_enqueue_*`, `h5_wake_up_lock`, one
`dequeue_*` for each packet sent, `h5_wake_up_done`, the branches of `h5_recv` and
`h5_complete_rx_pkt`, `h5_remove_acked_pkt`, the timer, its handler, and the steps
of the retransmission thread, with `data_retrans_count++` as a load and a store.
A packet carries the real `seq` and `ack` (modulo `SeqMod`) and two history
fields: `id`, its payload, and `cum`, the full count behind `ack`.
The controller (external) accepts packets in order, acknowledges, and may repeat any
packet of its window; a damaged packet is a lost one.
`DownRefines` and `UpRefines` are refinements of `ReliableLink`; the second ends where
`h5_complete_rx_pkt` accepts a packet (`up`). What becomes of it there is `pass_up`: a
packet of a type that is not passed up is freed (`NotPassed`), the answer to
`HCI_VSC_UPDATE_BAUDRATE` (`BaudAnswer`) is held back in `internal_skb` until the thread of
its timer queues it, and the others are queued in `recv_data` at once. `PassedUp` says what
the stack gets.

### H5GiveUp
`H5Transport` with a history variable: rounds since the counter was reset.

### H5Establish
Threads `cmd`, `rx`, `sync`, `conf`. A link control packet is unreliable and written
by `h5_wake_up` before the sending function returns, so sending is one append to the
wire. The branch of `h5_process_ctl_pkts` for one packet is one action unless another
thread can tell the difference: the fall back to `H5_UNINITIALIZED` and the new
request are two. Stopping a timer does not stop an expiry whose handler has not
begun (`sync_due`, `conf_due`); each timer has one handler thread, as the C library
runs the `SIGEV_THREAD` callbacks of one timer one after the other. The controller
answers as the protocol asks, may lose everything and may restart.

### HwConfig
`hw_config_start` and `hw_config_cback` of `hardware_uart.c` with one action for each
state of `hw_cfg_cb.state`. Everything between `CFG_START` and the first command
after it is one action, because it is one run of one thread. `buf` and `len` are the
three buffers and the length kept beside each: the code frees a buffer if its length
is not 0. Fragment count and index are taken modulo the width of a byte. What the
files contain is a choice: loaded, missing, not readable in full, empty; refused firmware,
no memory, the two ways to build the image. An empty configuration file leaves an
allocated buffer with length 0, which nobody frees. Where the code goes on with a
configuration that is not there, the process may end (`alive = "fault"`). The baud rate is
any code the configuration has, in the table or not, and passes through the real tables of
three functions. Parsing of the configuration, matching of `patch_table`
and the contents of the image are left out. Flow control is switched off on either
branch and has no state here.
The stack and the controller (external) execute or refuse each command; the
controller wants the fragment index to count as the code counts it.

### VendorServer, VendorCmd
`VendorServer` is what the server promises, as three counters: commands are sent in
the order in which they are accepted, one at a time, and forgotten only when the
library is closed. `VendorCmd` is the code: `rtk_vendor_cmd_to_fw` and
`rtk_cmd_complete_cback` cut where `coex_mutex` is given back (`install` and `xmit` of
the same thread are steps of their own, and so are call, post and clear of the
callback); `cmdready_thread` with one action between each two of its waits; the
one-shot timer of `rtk_poll.c`, the two halves of `heartbeat_timed_out`, the answer
with its 16-bit number; `userial_vendor_close` as far as it stops these. A command is
its number in the order of acceptance and its callback. Allocations succeed. The
answers come from a controller (external) that may hang at any time; when it is closed
the stack passes no more answers. `open` resets what the code resets: not `coex_cmd_send`,
and `held_over` remembers that a session found it set. The 1 ms sleep in
`heartbeat_timed_out` with its second look at the flag is part of the step before it.
The commands of clients never reach the service
(`Getpacket_RTK_HCICMD` reads descriptor 0, `rtk_btservice.c:352`), so heartbeats are
the only ones it has.

### CoexProfiles
`rtk_prof` as one record, the helpers of `rtk_parse.c` as functions of it, one action
for each HCI event and L2CAP signal. All parsing is in one thread, so a packet is one
action; the handlers of the two packet count timers are cut at each access of
`profile_status`. The parser changes it without a lock, too: a store of a handler that
falls between its load and its store is lost (`Parser`), and so is a change of the parser
that falls between load and store of a handler. The changes the parser makes for one packet
count as one read and write. `chans` is what the two ends of each channel know (external), so that
signals come in an order the protocol allows; a signal of the host waits in `late`
between being sent and being parsed, and what the other side sends meanwhile may be parsed
first (`overtaken` remembers it). The commands the parser sends to the controller
are `coex_command` of `VendorCmd`, the notifications to wifi and the inquiry, paging
and pairing flags are left out. `PAN_PACKET_COUNT` is a constant. The loop that deletes
several entries (`handle_disconnect_hci_conn_type_zero`) is written as what it leaves
(`Without`, `drop_channels`, `remove_profiles`), and a total over the connections is the
cardinality of a set, so that no fold stands between the model and its proofs. Reference
counts are integers; the code's are `int8_t`.

### CameraStream, MCCameraStream
Three threads: the caller of the adapter (`ctl`), a thread of the upper layer that
returns buffers (`app`), `loopBuffers`. `V4L2QueueBuffer` is two steps under
`bufferLock_`, `V4L2DequeueBuffer` is `VIDIOC_DQBUF` without the lock, the lookup with
the callback, and the erase; `StartStream` and `StopStream` are cut where
`loopBuffers` can see the difference. A buffer is its index, `FrameSpec` and pixels
are left out. The driver (external) fills queued buffers while it streams and gives
them up at `STREAMOFF`, `REQBUFS` of 0 and close. Calls come in any order, also on a camera
that streams or has buffers queued, and may fail half-way: `epoll_create`, the allocation of
the thread object, `GetCurrentFd` or `VIDIOC_STREAMOFF` in `StopStream`, with everything left
as the code leaves it. `early` remembers the buffers that `Flush` or `ReleaseBuffers` gave
back while the driver or `loopBuffers` still had them.
Assumed of the callers and the kernel: each started stream is stopped once (a second
`StopStream` would take the unsigned `streamNumber_` below 0), a camera opened again gets
the same file descriptor, and after `ReleaseBuffers`, which drops the map without a callback
(`v4l2_buffer.cpp:382`), the upper layer takes all its buffers for its own.

## 3. What the runs show

| Run | Instance | Result |
|---|---|---|
| `h5_down` | window 3 of 4 numbers, 4 packets and an unreliable one, wires of 2, 1 round | types, `AckSafe`, `QueuesHoldRest`, `Watched`, `DownRefines` hold |
| `h5_up` | 2 numbers, 3 packets up, the first not passed up, the second held back, one packet down, fair | `AckNotForgotten`, `WindowsConsistent`, `PassedUp`, `UpRefines` hold; a packet sent once arrives or the stack is told |
| `h5_stall` | window 1, 2 packets, fair | **violated**: a packet held back by a full window may never be sent |
| `h5_give_up` | limit 2 | **violated**: a lost update of the counter makes the thread give up early |
| `h5_establish` | limits 1, one restart, wires of 1, fair host | one result for each link, no early failure, always repeated; a result comes, repetition ends |
| `hw_config` | the real constants 252, 127, 256, 40 K; sizes at the edges; codes the host knows, one only the table knows, one nobody knows; two initialisations | image whole, speeds agree where the host knows the code, buffers freed once, `init_cb` at most once and in the end if the callback has something to go on with |
| `hw_init` | one initialisation, auto restart off (the default) | **violated**: no call of `init_cb` |
| `vendor_cmd` | one caller with a command, heartbeats, limit of 2 missed, timers at any moment, two sessions | types, `ServerInv`, `ServiceSerial`, `ServesInOrder` hold; commands are sent, silence is noticed, the close returns |
| `vendor_alarm` | limit 3 as in the code, heartbeat timer only when all is quiet | **violated**: a controller that has answered everything is reported |
| `coex_profiles` | 2 connections, two channel numbers for each side, A2DP and PAN, 3 beginnings, 2 packets, 2 signals late | counts, bitmaps and timers agree, the counts with the list as long as nothing is overtaken; nobody stays busy |
| `camera` | 2 cameras with a buffer each | one owner, nothing lost, map and driver agree, streams counted; `StopStream` returns, frames are taken |
| `camera_start` | 1 camera with 2 buffers | **violated**: the thread has ended, no frame arrives |

The passing runs assume of the outside world what section 2 says, and nothing that is there
to make a property hold. Where the code does something that a property cannot hold with,
the model does it, too, and the property names the exception, so that the run and the proof
show that there is no other:

* `BaudAgree`: for the 3500000 baud of the table, which `line_speed_to_userial_baud` does
  not know (`hardware_uart.c:361`), and for any code outside the table, the host goes to
  115200 whatever the controller does.
* `BuffersKept`: the buffer of an empty configuration file stays after a failure
  (`hardware_uart.c:1357`).
* `CallbackReports`: nothing is promised after a failed link establishment or after the
  configuration was read through a bad pointer; `hw_init` shows these, and a refused first
  command, as violations of what the interface demands.
* `CommandsSent`, `ServerInv`: a session that finds `coex_cmd_send` set by one that was
  closed with a command unanswered (`rtk_parse.c:279`, `held_over`): its commands stay in
  the list.
* `ServiceSerial` says that there is one permit, not that the heartbeat before has been
  answered: the callback of a heartbeat can be called with the answer to another command.
* `CountsMatchList`: after something of the other side has been parsed before a signal of
  the host that was sent earlier (`userial_vendor.c:763`, `overtaken`), an answer finds no
  request and a request is added after its answer. Bitmaps, counts and timers still agree.
* `MapMatchesDriver`: buffers in `early`. After a `Flush` on a streaming camera, or between
  `VIDIOC_DQBUF` and the lookup (`v4l2_buffer.cpp:289`), or after an `epoll_create` that
  failed (`v4l2_dev.cpp:444`), the upper layer has a buffer that the driver fills.

Why the bounds are enough: the transport distinguishes packets only by their number
and their place in the window, so a window one below the number space, more packets
than numbers, and wires that hold two packets contain every case of old against new;
the proofs cover the rest. In establishment more than one packet on a wire only
repeats what losing and resending already give. `HwConfig` uses the real constants.
In `VendorCmd` the server holds at most one command outside its list, so one command
with the controller, one in the list and one being submitted meet in every way, in the
first session and in one that follows an unanswered command; the proofs cover any number. In
`CoexProfiles` two handles with two numbers each contain reuse of a number after a refusal,
two channels on one connection or on two, and the loss of one of them. In `CameraStream` a
second camera is needed for streams that end while the thread goes on. There is one buffer
for each, to keep the liveness check small; the safety properties are proved for any number
(and TLC has checked them with two and one, in 1.5 million states), and `camera_start` has
two. Deadlock is checked for the cameras; every other instance may run out of its
bounded work.

**Fairness.** Threads that can run do run (weak), a thread waiting for the mutex gets
it if it is released again and again (strong), armed timers expire. In `h5_up` the
UART does not damage the same packet for ever and the controller acknowledges.
`H5Establish` assumes nothing of the controller or the wires. In `HwConfig` the
stack passes events on and the controller answers, with whatever status. Nothing
forces the stack to send or to start again. In `VendorCmd` threads run, the heartbeat
timer expires once it is armed, a close that has begun goes on and a controller that is
alive answers. In `CoexProfiles` only the periodic timers and their handlers are fair.
In `CameraStream` each call that has begun goes on, `loopBuffers` runs, and it gets
`bufferLock_` if that is free again and again (strong, for the others take it briefly);
the driver need not fill anything and nobody need call.

**Findings** (details and quotations in `PROJECT.json`):

1. `h5_complete_rx_pkt` wakes the sender before it processes the acknowledgement and
   not after it (`hci_h5.c:1289`): packets held back by the window wait for an
   unrelated event.
2. `data_retrans_count++` outside the mutex (`hci_h5.c:1558`) can undo the reset.
3. BT_OP_INIT can end without `init_cb` (`hardware_uart.c:1424`): the result of the first
   `xmit_cb` is ignored, a failed link establishment is reported only with auto restart, a
   missing configuration is read all the same. `bt_vendor_lib.h:71` says "Must call init_cb".
4. `current_cback` is read, called and cleared outside `coex_mutex` (`rtk_parse.c:745`): the
   answer to a coexistence command can be given to the callback of a heartbeat that was
   installed just then, which reports a missing heartbeat of a controller that works.
5. `StartStream` creates the thread before it counts the stream (`v4l2_dev.cpp:458`).

## 4. What is proved

Assumptions: those named in the modules, nothing else. `SeqMod` is 2, 4 or 8 and both
windows are smaller than it; limits and bounds are natural numbers; in `HwConfig`
the fragment size, moduli and sizes are positive and the largest patch fits into the
fragments a byte can count; in `CoexProfiles` the connection handles are finitely many
and 0 is no channel number. No theorem has a hypothesis of its own.

* **H5TransportProofs**: `TypeCorrect`, `WindowsCorrect`, `AckSafety`,
  `QueuesCorrect`, `DownRefinement`, `UpRefinement`, `PassUpCorrect`, `AlwaysWatched`,
  `AcksSent`.
  None of the properties is inductive: that an acknowledgement of three bits means
  what the sender thinks depends on what is on the wires. `WindowsConsistent` says
  so: counts and numbers agree, a packet on a wire is less than a window away from
  the count of its receiver and from the packets behind it, acknowledgements on a
  wire are truthful and never go back. Then two packets or acknowledgements that can
  meet differ by less than `SeqMod`, and equal numbers mean equal packets
  (`ModInjective`, `ExpectedIsNext`, `RemovedExact`). There is one lemma for each
  action. `PassUpCorrect`, `AlwaysWatched` and `AcksSent` have small invariants of their own;
  the first also needs that packets are accepted in order.
* **H5EstablishProofs**: `TypeCorrect`, `OkOnce`, `FailsLate`, `Watch`, from
  `OkCounted` (successes and losses alternate), `RequestsCounted` (a count, also one
  that was loaded and will be stored late, never runs ahead of the requests sent) and
  `TimersKept` (before the first result no handler is about to stop a timer that is
  needed). `EstablishInv` is their conjunction, and the lemma `EstablishCorrect` proves it.
* **HwConfigProofs**: `DownloadCorrect` and `ReportedOnceCorrect`, from `DownloadInv`:
  the fragments cut up the image, the controller has exactly what comes before the
  fragment under way, one command or event is under way at a time and only before
  `init_cb`. `FragmentsCutUp` is the arithmetic of the byte counters,
  `FragmentFits` the one of the last fragment. `TypeCorrect` follows from `TypeInv`:
  the counters, computed modulo `CountMod`, stay within their bytes. `BuffersCorrect`
  follows from `BufferInv`, which ties the buffers to the command or event under way:
  nothing is allocated before `CFG_START`, the image is live from the speed command on,
  and nothing is live after a failure but the buffer of an empty configuration file.
  `BaudCorrect` follows from `BaudInv`: for a code the host knows the two speeds differ only
  between the answer to the speed command and the host's own change.
* **VendorCmdProofs**: `TypeCorrect`, `ServerCorrect`, `ServerRefines`, `SerialCorrect`,
  for any set of threads. `ServesInOrder` is a statement about counters; it follows from `ServerInv`,
  which says where each command is: the last accepted ones in `coex_list` in order, the
  one before them in the hand of a single thread, or with the controller, or on its way
  back, and `coex_cmd_send` is set as long as there is one (and, in a session that found it
  set, also without). The mutex alone does not
  give this, for the hand is used after the unlock: what does is that only the thread
  that found `coex_cmd_send` clear, or completed the command before, has a hand at all.
  `SerialCorrect` follows from `PermitInv`: the permit of `cmdsend_sem` is in one place at
  most: the semaphore, the service's thread, a heartbeat not yet sent, the installed
  callback, or the thread of the stack about to post it.
* **CameraStreamProofs**: `TypeCorrect`, `OwnerCorrect`, `StreamsCorrect`,
  `NeverLostCorrect`, `MapCorrect`, for any number of cameras and buffers. `OwnInv` says
  who holds `bufferLock_` at each place of each thread, that `loopBuffers` has a frame in
  its hand between `VIDIOC_DQBUF` and the erase, that streams, epoll set and thread
  agree at each place of `StartStream` and `StopStream` (`StreamsInv`), also after a call
  that failed, and that the driver has a buffer once (`DriverOnce`) and not while
  `loopBuffers` has it unless the upper layer was given it too early (`HeldOnce`).
  `NeverLostCorrect` is an action property.
* **CoexMapsProofs**: `TypeCorrect`, `MapsCorrect`, in whatever order signals are parsed.
  `LooseInv` says that bitmaps, counters and timers agree without saying what is counted;
  each helper keeps it, whichever entry of the list it finds and also where a signal parsed
  late takes a count below zero.
* **CoexProfilesProofs**: `CountsCorrect`. Until something is overtaken the invariant
  `CoexInv` holds, which has three parts, for any number of connections, channels, packets
  and signals on their way. `Balanced`: bitmaps, counters, totals and timers of `rtk_prof`
  agree. `Tally`: each ACL connection counts what the list of profiles has for it, and a SCO
  or LE link counts itself. Each handler of `rtk_parse.c` keeps the two only if it finds
  the entry the signal is about, by channel numbers that the two sides choose and use
  again. `Protocol` says that it does: established entries of a connection have numbers of
  their own, the two ends of the channel know them or a disconnect is on its way, and
  no established entry has the number a response on its way is about to give to another.
  There is one lemma for each handler and each part.
  The theorems hold of counters without a width. The code's counters are `int8_t`; only
  the sink's can grow without end (`rtk_parse.c:1197`, listed as a hazard).

Only model-checked: liveness (`InFlightResolved`, `InitAnswered`, `RepetitionEnds`,
`CallbackReports`, `CommandsSent`, `SilenceNoticed`, `CloseEnds`, `BusyEnds`, `StopEnds`,
`FramesTaken`), which is out of the prover's reach, and the findings, which are
counterexamples. Every invariant, action property and refinement a passing run checks is
also a theorem.

## 5. Not modelled

* Failed allocations inside `skb_alloc` and `h5_prepare_pkt`; `hci_h5_cleanup`
  (the `cleanuping` flag) and the thread that takes packets from `recv_data`.
* SLIP framing and checksums byte by byte: a damaged packet is dropped.
* In `H5Transport`, link control packets and the fall back to `H5_UNINITIALIZED`.
* The wrong callback that `VendorCmd` allows is followed into the heartbeat only; its
  effect on clients of the service is moot (see above).
* That `fw_buf` and `config_buf` of most chips stay allocated after a success
  (`hardware_uart.c:1310`) is in the model of `HwConfig` and no property is about it.
* The wrap of the 16-bit heartbeat numbers (`rtk_heartbeat.c:180`) is beyond the bounds.
* Failed allocations: `Rtk_Service_Vendorcmd_Hook` leaves its mutex locked after one
  (`rtk_btservice.c:262`).
* LE profiles in `rtk_parse.c` (no caller; also their part of the disconnection,
  `:2345`), wifi messages, inquiry, paging and pairing
  flags; format, control, enumeration and hot plug code of the cameras.
* The components marked `not_modelled` in `PROJECT.json`: pure I/O, tables of
  registers, vendored trees. The vendored trees (`kernel/drivers/{rtl88x2cs,media,isp}`)
  are about a million of the repository's lines, so the share of lines that is modelled
  is small and stays so: the models are of the code that is the repository's own.

## 6. Plan

In order of importance:

1. *H5Link*: `H5Establish` and `H5Transport` in one model. Does the transport survive
   a fall back that keeps its numbers and queues (`hci_h5.c:1120`)?
2. *H5Delivery*: `data_ready_cb_thread` behind `recv_data`, `hci_h5_cleanup` against all
   threads, also while a packet is held back (`hci_h5.c:2018`). Each event is delivered
   once, cleanup ends.
3. *HwInit*: `H5Establish` with `HwConfig`, for the event of a second handshake
   during the download.
4. *Userial*: open, the socket, UART and SCO threads, close; *H4Parser* against a
   reference definition.
5. *H5Slip*: encoding and decoding of a frame as functions, checked on all short
   frames.
6. *AudioDma*, *ChipPower* (rfkill and wifi power count), the hot plug thread.

Abstract specifications to state: an initialisation that answers once (implemented by
`HwInit`), a FIFO with a consumer that can be stopped (by `H5Delivery`).

Theorems to prove next: the progress arguments as far as they are safety, that is, for
each liveness property the invariant that some thread, timer or message is there to
make the next step, as `Watched` and `HandshakeWatched` are for the link; the width of the
counters of `CoexProfiles`, from a bound on the number of connections and channels.
