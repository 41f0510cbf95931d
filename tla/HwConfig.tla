------------------------------ MODULE HwConfig ------------------------------
(***************************************************************************)
(* Bringing up the controller over the UART, hardware_uart.c: BT_OP_INIT   *)
(* calls hw_config_start, and hw_config_cback is called with each command  *)
(* complete event: link up, versions, patch and configuration files, baud  *)
(* rate, firmware download in fragments, init_cb.                          *)
(*                                                                         *)
(* The stack and the controller are not in the repository.  The stack      *)
(* sends what xmit_cb is given and passes back the event that completes    *)
(* it; the controller executes the command and may refuse it.  The event   *)
(* of HCI_VSC_H5_INIT is the result that H5Establish reports.              *)
(***************************************************************************)
EXTENDS Integers, Sequences

CONSTANTS
  FragMax,      \* PATCH_DATA_FIELD_MAX_SIZE, 252
  IndexMod,     \* 0x7f: the index of a fragment wraps behind it
  CountMod,     \* 256: the width of patch_frag_cnt and patch_frag_idx
  MaxPatch,     \* max_patch_size of the chip
  PatchSizes,   \* bound: sizes of firmware and configuration together
  Codes,        \* bound: baud rate codes in the configuration, or "none"
  AutoRestart,  \* RtkBtAutoRestart of rtkbt.conf
  MaxStarts     \* bound: BT_OP_INIT calls

ASSUME FragAssumption ==
  /\ FragMax \in Nat \ {0}
  /\ IndexMod \in Nat \ {0}
  /\ CountMod \in Nat \ {0}
ASSUME PatchAssumption ==
  /\ MaxPatch \in Nat
  /\ MaxPatch <= FragMax * (CountMod - 1)   \* 40K <= 252 * 255
  /\ PatchSizes \subseteq Nat \ {0}
ASSUME EnvAssumption == AutoRestart \in BOOLEAN /\ MaxStarts \in Nat

VARIABLES
  state,       \* hw_cfg_cb.state
  alive,       \* the process runs
  buf, len,    \* fw, config and total: the buffer, and the length kept beside it
  config_file, \* history: what rtk_get_bt_config met
  frag,        \* patch_frag_cnt, _idx, _tail, _len
  baudrate,    \* speed code of the configuration
  host_baud,   \* speed of the host's UART
  cmd,         \* command under way, event that answers it
  event,
  starts,      \* BT_OP_INIT calls so far
  results,     \* calls of init_cb
  image,       \* history: size of the image being downloaded
  c_baud,      \* controller: speed of its UART
  c_got,       \* controller: bytes of the image it has, from the beginning
  c_frags      \* controller: fragments it has

cfgvars == <<buf, len, config_file, frag, baudrate>>
ctrlvars == <<c_baud, c_got, c_frags>>
vars == <<state, alive, cfgvars, host_baud, cmd, event, starts, results, image, ctrlvars>>

Buffers == {"fw", "config", "total"}
Ops     == {"H5_INIT", "LMP_VERSION", "ROM_VERSION", "CHIP_TYPE", "UPDATE_BAUDRATE", "DOWNLOAD"}
States  == {"0", "H5_INIT", "READ_LOCAL_VER", "READ_ECO_VER", "READ_CHIP_TYPE",
            "SET_UART_BAUD_HOST", "DL_FW_PATCH"}
\* The configuration file is read, is not there (or too large, or no memory), ends
\* before its length or has the length 0.
ConfigFiles == {"loaded", "missing", "short_read", "empty"}
NoCmd   == [op |-> "none", index |-> 0, bit7 |-> 0, from |-> 0, size |-> 0]
NoEvent == [op |-> "none", status |-> 0, index |-> 0, bit7 |-> 0]
NoFrag  == [cnt |-> 0, idx |-> 0, tail |-> 0, len |-> 0]
Command(op) == [NoCmd EXCEPT !.op = op]

-----------------------------------------------------------------------------
(* Baud rates.  A code of the controller is written as in the table; the   *)
(* symbols USERIAL_BAUD_* and B* are written as the speed they stand for.  *)

baudrates == <<
  <<"0x00006004", 921600>>,  <<"0x05F75004", 921600>>,
  <<"0x00004003", 1500000>>, <<"0x052A8002", 1500000>>, <<"0x04928002", 1500000>>,
  <<"0x00005002", 2000000>>,
  <<"0x00008001", 3000000>>, <<"0x04928001", 3000000>>, <<"0x06B58001", 3000000>>,
  <<"0x00007001", 3500000>>, <<"0x052A6001", 3500000>>,
  <<"0x00005001", 4000000>>,
  <<"0x0000701d", 115200>>,  <<"0x0252C014", 115200>> >>

\* The first entry with the code; without one, 115200.
rtk_speed_to_uart_speed(code) ==
  LET hits == {i \in 1..Len(baudrates) : baudrates[i][1] = code}
  IN IF hits = {} THEN 115200
     ELSE baudrates[CHOOSE i \in hits : \A j \in hits : i <= j][2]

\* LINE_SPEED_1M is defined as 4000000, so that no speed gives USERIAL_BAUD_1M.
line_speed_to_userial_baud(speed) ==
  IF speed \in {4000000, 3000000, 2000000, 1500000, 921600, 460800, 230400, 115200,
                57600, 19200, 9600, 1200, 600}
  THEN speed ELSE 115200

userial_to_tcio_baud(baud) ==
  IF baud \in {115200, 4000000, 3000000, 2000000, 1000000, 1500000, 921600, 460800,
               230400, 57600, 19200, 9600, 1200, 600}
  THEN baud ELSE 115200

-----------------------------------------------------------------------------
\* The type invariant: counters within their bytes, buffers live, freed or never
\* allocated, at most one command or event under way.
TypeOK ==
  /\ state \in States
  /\ alive \in {"running", "killed", "fault"}
  /\ buf \in [Buffers -> {"null", "live", "freed"}]
  /\ len \in [Buffers -> Nat]
  /\ config_file \in ConfigFiles \cup {"none"}
  /\ frag \in [cnt : 0..(CountMod - 1), idx : 0..(CountMod - 1), tail : 0..FragMax, len : 0..FragMax]
  /\ cmd.op \in Ops \cup {"none"} /\ cmd.index \in 0..IndexMod /\ cmd.bit7 \in {0, 128}
  /\ cmd.from \in Nat /\ cmd.size \in 0..FragMax
  /\ event.op \in Ops \cup {"none"} /\ event.status \in 0..2 /\ event.bit7 \in {0, 128}
  /\ starts \in 0..MaxStarts
  /\ results \in Seq({"SUCCESS", "FAIL"})
  /\ image \in Nat /\ c_got \in Nat /\ c_frags \in Nat

Init ==
  /\ state = "0" /\ alive = "running"
  /\ buf = [b \in Buffers |-> "null"] /\ len = [b \in Buffers |-> 0]
  /\ config_file = "none" /\ frag = NoFrag
  /\ baudrate = "none" /\ host_baud = 115200
  /\ cmd = NoCmd /\ event = NoEvent
  /\ starts = 0 /\ results = << >> /\ image = 0
  /\ c_baud = 115200 /\ c_got = 0 /\ c_frags = 0

init_cb(result) == results' = Append(results, result)

free_all_but_total(b, l) ==   \* mutant: total_buf is forgotten
  [x \in Buffers |-> IF x # "total" /\ l[x] > 0 THEN "freed" ELSE b[x]]

\* free(b) for every buffer whose length says it is there.
free_all(b, l) == [x \in Buffers |-> IF l[x] > 0 /\ b[x] # "null" THEN "freed" ELSE b[x]]

abort_silent(b, l) ==   \* mutant: init_cb is not called
  /\ buf' = free_all(b, l) /\ len' = [x \in Buffers |-> 0]
  /\ state' = "0" /\ cmd' = NoCmd
  /\ UNCHANGED results

\* The end of hw_config_cback when is_proceeding is FALSE.
abort(b, l) ==
  /\ init_cb("FAIL")
  /\ buf' = free_all(b, l)
  /\ len' = [x \in Buffers |-> 0]
  /\ state' = "0"
  /\ cmd' = NoCmd

\* xmit_cb: the stack takes the command, or refuses it and the callback aborts.
xmit_or_abort(c, next, b, l) ==
  \/ /\ cmd' = c /\ state' = next
     /\ buf' = b /\ len' = l
     /\ UNCHANGED results
  \/ abort(b, l)

-----------------------------------------------------------------------------
(* BT_OP_INIT.                                                             *)

\* hw_config_start clears hw_cfg_cb and sends the first command: for H5 the link
\* establishment, for H4 the version.  xmit_cb may refuse it: no one looks.
hw_config_start ==
  /\ alive = "running" /\ starts < MaxStarts /\ Len(results) = starts
  /\ state = "0" /\ cmd = NoCmd /\ event = NoEvent
  /\ starts' = starts + 1
  /\ buf' = [b \in Buffers |-> "null"] /\ len' = [b \in Buffers |-> 0]
  /\ config_file' = "none" /\ frag' = NoFrag /\ baudrate' = "none"
  /\ image' = 0 /\ c_got' = 0 /\ c_frags' = 0       \* powered off and on before
  /\ c_baud' = 115200 /\ host_baud' = 115200
  /\ \/ /\ \E first \in {<<"H5_INIT", "H5_INIT">>, <<"LMP_VERSION", "READ_LOCAL_VER">>} :
             /\ cmd' \in {Command(first[1]), NoCmd}
             /\ state' = first[2]
        /\ UNCHANGED results
     \/ init_cb("FAIL")      \* no buffer for the command
        /\ UNCHANGED <<cmd, state>>
  /\ UNCHANGED <<alive, event>>

-----------------------------------------------------------------------------
(* hw_config_cback, by event and state.                                    *)

Handles(op, st) ==
  alive = "running" /\ event.op = op /\ state = st /\ event' = NoEvent
same == UNCHANGED <<alive, starts, host_baud, image, config_file, ctrlvars>>

\* A failed link establishment: with auto restart the stack is told and the
\* process killed, otherwise the callback just returns.
cback_h5_init_failed ==
  /\ alive = "running" /\ event.op = "H5_INIT" /\ event.status # 0
  /\ event' = NoEvent
  /\ IF AutoRestart THEN init_cb("FAIL") /\ alive' = "killed" ELSE UNCHANGED <<results, alive>>
  /\ UNCHANGED <<state, cfgvars, host_baud, cmd, starts, image, ctrlvars>>

\* Any other failed command (but ROM_VERSION, which old chips do not know), or no
\* memory for the next command: nothing to send, so the callback aborts.
cback_abort ==
  /\ alive = "running" /\ event.op # "none"
  /\ ~(event.op = "H5_INIT" /\ event.status # 0)
  /\ event' = NoEvent
  /\ abort(buf, len)
  /\ UNCHANGED <<frag, baudrate>> /\ same

cback_h5_init ==
  /\ Handles("H5_INIT", "H5_INIT") /\ event.status = 0
  /\ xmit_or_abort(Command("LMP_VERSION"), "READ_LOCAL_VER", buf, len)
  /\ UNCHANGED <<frag, baudrate>> /\ same

cback_read_local_ver ==
  /\ Handles("LMP_VERSION", "READ_LOCAL_VER") /\ event.status = 0
  /\ xmit_or_abort(Command("ROM_VERSION"), "READ_ECO_VER", buf, len)
  /\ UNCHANGED <<frag, baudrate>> /\ same

\* Several entries of patch_table fit the versions: ask for the chip type.
cback_read_eco_ver ==
  /\ Handles("ROM_VERSION", "READ_ECO_VER") /\ event.status \in {0, 1}
  /\ xmit_or_abort(Command("CHIP_TYPE"), "READ_CHIP_TYPE", buf, len)
  /\ UNCHANGED <<frag, baudrate>> /\ same

fragment_index_wide(idx) == idx   \* mutant: the index never wraps

\* DOWNLOAD_FW: the fragment that is next, numbered 0, 1 .. IndexMod, 1 .. and the
\* last one marked with bit 7; hci_download_patch_h4 sends it.
fragment_index(idx) == IF idx = 0 THEN 0 ELSE ((idx - 1) % IndexMod) + 1

fragment(f, rx) ==
  IF f.idx < f.cnt
  THEN [op |-> "DOWNLOAD", index |-> fragment_index(f.idx), bit7 |-> IF f.idx = f.cnt - 1 THEN 128 ELSE 0,
        from |-> f.idx * FragMax, size |-> IF f.idx = f.cnt - 1 THEN f.tail ELSE FragMax]
  ELSE [op |-> "DOWNLOAD", index |-> rx, bit7 |-> 0,
        from |-> f.idx * FragMax, size |-> f.len]

download(f, rx, b, l) ==
  /\ frag' = [f EXCEPT !.len = fragment(f, rx).size]
  /\ xmit_or_abort(fragment(f, rx), "DL_FW_PATCH", b, l)

fragments_no_tail(total) ==   \* mutant: a full last fragment is given the length 0
  [cnt |-> ((total \div FragMax) + (IF total % FragMax = 0 THEN 0 ELSE 1)) % CountMod,
   idx |-> 0, tail |-> total % FragMax, len |-> 0]

\* How an image is cut up, in the arithmetic of a byte.
fragments(total) ==
  LET tail == total % FragMax
  IN [cnt  |-> ((total \div FragMax) + (IF tail = 0 THEN 0 ELSE 1)) % CountMod,
      idx  |-> 0,
      tail |-> IF tail = 0 THEN FragMax ELSE tail,
      len  |-> 0]

\* rtk_get_bt_config: the buffer and the length it leaves.  A file that cannot be
\* read in full leaves a buffer that has been freed; an empty one leaves a buffer
\* whose length says that there is none.
config_buf_of(outcome) ==
  CASE outcome \in {"loaded", "empty"} -> "live"
    [] outcome = "missing" -> "null"
    [] OTHER -> "freed"
config_len_of(outcome) == IF outcome = "loaded" THEN 1 ELSE 0

\* rtk_get_bt_firmware and rtk_get_bt_final_patch, as the buffers they leave, with
\* the size of the image, or 0 if there is nothing to download: no firmware file;
\* a firmware that is refused; no memory for the image; the image of an 8723a,
\* whose parts are freed at once; the image of another chip, whose parts stay.
Images(config, clen, old, total) ==
  { [buf |-> [fw |-> "null", config |-> config, total |-> "null"],
     len |-> [fw |-> 0, config |-> clen, total |-> 0], download |-> TRUE],
    [buf |-> [fw |-> "freed", config |-> IF clen > 0 THEN "freed" ELSE config, total |-> "null"],
     len |-> [fw |-> 0, config |-> 0, total |-> 0], download |-> FALSE],
    [buf |-> [fw |-> "freed", config |-> IF clen > 0 THEN "freed" ELSE config, total |-> "null"],
     len |-> [fw |-> 0, config |-> 0, total |-> total], download |-> FALSE],
    IF old
    THEN [buf |-> [fw |-> "freed", config |-> IF clen > 0 THEN "freed" ELSE config, total |-> "live"],
          len |-> [fw |-> 0, config |-> 0, total |-> total], download |-> TRUE]
    ELSE [buf |-> [fw |-> "live", config |-> config, total |-> "live"],
          len |-> [fw |-> 1, config |-> clen, total |-> total], download |-> TRUE] }

patch_fits(total) == total <= MaxPatch

\* What follows when the files are loaded: give up, set the baud rate of the
\* controller first, or start the download at once.
start_download(i, code) ==
  /\ image' = i.len["total"] /\ baudrate' = code
  /\ IF ~patch_fits(i.len["total"]) \/ i.len["total"] = 0 \/ ~i.download
     THEN abort(i.buf, i.len) /\ UNCHANGED frag
     ELSE IF code # "none"
          THEN /\ frag' = fragments(i.len["total"])
               /\ xmit_or_abort(Command("UPDATE_BAUDRATE"), "SET_UART_BAUD_HOST", i.buf, i.len)
          ELSE download(fragments(i.len["total"]), 0, i.buf, i.len)

\* CFG_START: the entry of patch_table, the configuration file, the alternative
\* settings written into its buffer, the firmware.  The chip is an 8723a (no more
\* questions), or one entry fits after the ROM version or the chip type.
cfg_start ==
  /\ \/ Handles("LMP_VERSION", "READ_LOCAL_VER") /\ event.status = 0
     \/ Handles("ROM_VERSION", "READ_ECO_VER") /\ event.status \in {0, 1}
     \/ Handles("CHIP_TYPE", "READ_CHIP_TYPE") /\ event.status = 0
  /\ \E outcome \in ConfigFiles, total \in PatchSizes :
       LET config == config_buf_of(outcome)
           clen == config_len_of(outcome)
       IN /\ config_file' = outcome
          /\ \/ \* rtk_update_altsettings reads a buffer that is not there: a null
                \* pointer faults, of a freed buffer it may find the bytes and return
                /\ config # "live"
                /\ alive' = "fault"
                /\ buf' = [buf EXCEPT !["config"] = config]
                /\ UNCHANGED <<state, len, frag, baudrate, cmd, results, image>>
             \/ /\ config # "null"
                /\ UNCHANGED alive
                /\ \E i \in Images(config, clen, state = "READ_LOCAL_VER", total),
                      code \in (IF outcome = "loaded" THEN Codes ELSE {"none"}) :
                     start_download(i, code)
  /\ UNCHANGED <<starts, host_baud, ctrlvars>>

userial_vendor_set_baud_not == UNCHANGED host_baud   \* mutant: the host keeps its speed

userial_vendor_set_baud ==
  host_baud' = userial_to_tcio_baud(line_speed_to_userial_baud(rtk_speed_to_uart_speed(baudrate)))

\* The controller has its new speed: the host follows and starts the download
\* (after switching flow control off, if the configuration mentions it at all).
cback_set_uart_baud_host ==
  /\ Handles("UPDATE_BAUDRATE", "SET_UART_BAUD_HOST") /\ event.status = 0
  /\ userial_vendor_set_baud
  /\ download(frag, 0, buf, len)
  /\ UNCHANGED <<alive, starts, image, config_file, ctrlvars, baudrate>>

next_idx == [frag EXCEPT !.idx = (frag.idx + 1) % CountMod]

\* A fragment has arrived: the next one,
cback_dl_fw_patch ==
  /\ Handles("DOWNLOAD", "DL_FW_PATCH") /\ event.status = 0 /\ event.bit7 = 0
  /\ download(next_idx, event.index, buf, len)
  /\ UNCHANGED baudrate /\ same

cback_dl_fw_done_goes_on ==   \* mutant: is_proceeding stays FALSE after the success
  /\ Handles("DOWNLOAD", "DL_FW_PATCH") /\ event.status = 0 /\ event.bit7 # 0
  /\ frag' = next_idx
  /\ buf' = free_all(buf, len) /\ len' = [x \in Buffers |-> 0]
  /\ results' = results \o <<"SUCCESS", "FAIL">>
  /\ state' = "0" /\ cmd' = NoCmd
  /\ UNCHANGED baudrate /\ same

\* or, after the last, the image is freed and success reported.
cback_dl_fw_done ==
  /\ Handles("DOWNLOAD", "DL_FW_PATCH") /\ event.status = 0 /\ event.bit7 # 0
  /\ frag' = next_idx
  /\ buf' = [buf EXCEPT !["total"] = "freed"]
  /\ len' = [len EXCEPT !["total"] = 0]
  /\ init_cb("SUCCESS")
  /\ state' = "0"
  /\ cmd' = NoCmd
  /\ UNCHANGED baudrate /\ same

-----------------------------------------------------------------------------
(* The controller and the way back through the stack.                      *)

\* The command is executed or refused; a refused one changes nothing.  The index
\* of the fragments counts 1 .. IndexMod after the first; the controller answers
\* with the index it was given and refuses one it does not expect.
\* Of a code that is not in the table the speed is not known here: 0.
expected_index == IF c_frags = 0 THEN 0 ELSE ((c_frags - 1) % IndexMod) + 1

ctrl_speed(code) ==
  LET hits == {i \in 1..Len(baudrates) : baudrates[i][1] = code}
  IN IF hits = {} THEN 0 ELSE baudrates[CHOOSE i \in hits : TRUE][2]

ctrl_answer ==
  /\ alive = "running" /\ cmd # NoCmd /\ event = NoEvent
  /\ cmd' = NoCmd
  /\ \E status \in 0..2 :
       LET taken == status = 0 /\ cmd.op = "DOWNLOAD"
       IN /\ taken => cmd.index = expected_index
          /\ event' = [op |-> cmd.op, status |-> status, index |-> cmd.index, bit7 |-> cmd.bit7]
          /\ c_got' = IF taken /\ cmd.from = c_got THEN c_got + cmd.size ELSE c_got
          /\ c_frags' = IF taken THEN c_frags + 1 ELSE c_frags
          /\ c_baud' = IF status = 0 /\ cmd.op = "UPDATE_BAUDRATE"
                       THEN ctrl_speed(baudrate) ELSE c_baud
  /\ UNCHANGED <<state, alive, cfgvars, host_baud, starts, results, image>>

-----------------------------------------------------------------------------
Callback ==
  \/ cback_h5_init_failed \/ cback_abort \/ cback_h5_init \/ cback_read_local_ver
  \/ cback_read_eco_ver \/ cfg_start \/ cback_set_uart_baud_host
  \/ cback_dl_fw_patch \/ cback_dl_fw_done

Next == hw_config_start \/ Callback \/ ctrl_answer

Spec == Init /\ [][Next]_vars

\* The stack passes events on and the controller answers; nothing makes the stack
\* start again.
FairSpec == Spec /\ WF_vars(Callback) /\ WF_vars(ctrl_answer)

-----------------------------------------------------------------------------
(* Properties.                                                             *)

Last(s) == s[Len(s)]

\* The image arrives whole: every fragment continues where the controller is,
\* carries the index it expects, stays inside total_buf, and success is reported
\* only when the controller has every byte.
DownloadExact ==
  /\ cmd.op = "DOWNLOAD" =>
       /\ cmd.from = c_got
       /\ cmd.size > 0 /\ cmd.from + cmd.size <= image
       /\ cmd.bit7 # 0 <=> (cmd.from + cmd.size = image)
       /\ cmd.index = expected_index
  /\ starts = Len(results) /\ starts > 0 /\ Last(results) = "SUCCESS" => c_got = image

\* The codes for which the host has a speed of its own: those of the table, but
\* for 3500000 baud, which line_speed_to_userial_baud does not know.
HostKnows(code) ==
  \E i \in 1..Len(baudrates) : baudrates[i][1] = code /\ baudrates[i][2] # 3500000

\* Whenever a fragment is sent, the host and the controller agree on the speed if
\* the configuration names none or one the host knows.  For every other code, and
\* rtk_parse_config_file takes any 32 bits for one, the controller has been told
\* its new speed and the host is at 115200.
BaudAgree ==
  cmd.op = "DOWNLOAD" =>
    host_baud = IF baudrate = "none" \/ HostKnows(baudrate) THEN c_baud ELSE 115200

\* No buffer is freed twice (abort frees the ones whose length is not 0), a failed
\* initialisation keeps none but the one of an empty configuration file, and
\* total_buf is live while fragments are cut from it.
BuffersKept ==
  /\ \A b \in Buffers : len[b] > 0 => buf[b] # "freed"
  /\ starts = Len(results) /\ starts > 0 /\ Last(results) = "FAIL" /\ alive = "running" =>
       \A b \in Buffers : buf[b] = "live" => b = "config" /\ config_file = "empty"
  /\ cmd.op = "DOWNLOAD" \/ event.op = "DOWNLOAD" => buf["total"] = "live"

\* init_cb is called at most once for each BT_OP_INIT, and then no command is left
\* whose event would find hw_config_cback in state 0.
ReportedOnce ==
  /\ Len(results) <= starts
  /\ Len(results) = starts => cmd = NoCmd /\ event = NoEvent

\* Once the controller has answered, and not with a failed link establishment,
\* hw_config_cback reports a result in the end, whichever command fails or is
\* refused; unless it has read the configuration through a pointer to nothing.
CallbackReports ==
  \A n \in 1..MaxStarts :
    (starts = n /\ event # NoEvent /\ ~(event.op = "H5_INIT" /\ event.status # 0))
      ~> (Len(results) >= n \/ alive = "fault")

\* bt_vendor_lib.h on BT_OP_INIT: "Controller Must call init_cb to notify the host
\* once it has been done."
InitReported == \A n \in 1..MaxStarts : (starts = n) ~> (Len(results) >= n)
=============================================================================
