--------------------------- MODULE HwConfigProofs ---------------------------
(***************************************************************************)
(* HwConfig for every fragment size, index and counter width, patch limit, *)
(* file size and number of initialisations that its assumptions allow: the *)
(* image arrives whole, init_cb is called at most once, no buffer is freed *)
(* twice and only that of an empty file left behind, host and controller   *)
(* agree on the speed if the host knows its code.                          *)
(***************************************************************************)
EXTENDS HwConfig, TLAPS

EarlyOps == {"H5_INIT", "LMP_VERSION", "ROM_VERSION", "CHIP_TYPE"}

\* frag cuts an image of img bytes into cnt fragments, all full but the last.
CutUp(f, img) ==
  /\ f.cnt \in 1..(CountMod - 1) /\ f.tail \in 1..FragMax
  /\ (f.cnt - 1) * FragMax + f.tail = img

SizeOf(f) == IF f.idx = f.cnt - 1 THEN f.tail ELSE FragMax

\* One fragment under way or acknowledged: the controller has what is before it,
\* or what is before it and itself.
FragType(f) == f.cnt \in Nat /\ f.idx \in Nat /\ f.tail \in Nat
                   /\ f = [cnt |-> f.cnt, idx |-> f.idx, tail |-> f.tail, len |-> f.len]

Sent ==
  cmd.op = "DOWNLOAD" =>
    /\ CutUp(frag, image) /\ frag.idx < frag.cnt
    /\ c_frags = frag.idx /\ c_got = frag.idx * FragMax
    /\ cmd.from = frag.idx * FragMax /\ cmd.size = SizeOf(frag)
    /\ cmd.bit7 = (IF frag.idx = frag.cnt - 1 THEN 128 ELSE 0)
    /\ cmd.index = fragment_index(frag.idx)

Acknowledged ==
  event.op = "DOWNLOAD" /\ event.status = 0 =>
    /\ CutUp(frag, image) /\ frag.idx < frag.cnt
    /\ c_frags = frag.idx + 1 /\ c_got = frag.idx * FragMax + SizeOf(frag)
    /\ event.bit7 = (IF frag.idx = frag.cnt - 1 THEN 128 ELSE 0)

NothingSent ==
  /\ cmd.op \in EarlyOps \cup {"UPDATE_BAUDRATE"} \/ event.op \in EarlyOps \cup {"UPDATE_BAUDRATE"} =>
       c_got = 0 /\ c_frags = 0
  /\ cmd.op = "UPDATE_BAUDRATE" \/ event.op = "UPDATE_BAUDRATE" =>
       CutUp(frag, image) /\ frag.idx = 0

OneUnderWay ==
  /\ cmd.op = "none" => cmd = NoCmd
  /\ event.op = "none" => event = NoEvent
  /\ cmd.op = "none" \/ event.op = "none"
  /\ cmd.op # "none" \/ event.op # "none" => Len(results) < starts

Reported ==
  /\ Len(results) <= starts
  /\ starts = Len(results) /\ starts > 0 /\ Last(results) = "SUCCESS" => c_got = image

DataTypes ==
  /\ starts \in Nat /\ results \in Seq({"SUCCESS", "FAIL"})
  /\ image \in Nat /\ c_got \in Nat /\ c_frags \in Nat
  /\ FragType(frag)
  /\ cmd.op \in Ops \cup {"none"} /\ event.op \in Ops \cup {"none"}

\* The inductive invariant.
DownloadInv ==
  DataTypes /\ Sent /\ Acknowledged /\ NothingSent /\ OneUnderWay /\ Reported

-----------------------------------------------------------------------------
\* fragments: what tail and count, in the arithmetic of a byte, amount to for an
\* image of the size CFG_START lets through.
LEMMA FragmentsCutUp ==
  ASSUME NEW total \in Nat, total > 0, total <= MaxPatch
  PROVE  CutUp(fragments(total), total) /\ fragments(total).idx = 0
         /\ FragType(fragments(total))
<1> DEFINE q == total \div FragMax  r == total % FragMax
<1>1. q \in Nat /\ r \in Nat /\ r < FragMax /\ q * FragMax + r = total
  BY FragAssumption
<1>2. q * FragMax + r <= FragMax * (CountMod - 1)
  BY <1>1, PatchAssumption, FragAssumption
<1> HIDE DEF q, r
<1>3. q <= CountMod - 1 /\ (r > 0 => q < CountMod - 1)
  <2>1. ASSUME q > CountMod - 1 PROVE FALSE
    <3>1. q = (CountMod - 1) + 1 + (q - CountMod) /\ q - CountMod \in Nat BY <1>1, <2>1, FragAssumption
    <3>2. q * FragMax = FragMax * (CountMod - 1) + FragMax + (q - CountMod) * FragMax
      BY <3>1, <1>1, FragAssumption
    <3>3. (q - CountMod) * FragMax >= 0 BY <3>1, FragAssumption
    <3> QED BY <3>2, <3>3, <1>1, <1>2, FragAssumption
  <2>2. ASSUME r > 0, q = CountMod - 1 PROVE FALSE
    BY <2>2, <1>1, <1>2, FragAssumption
  <2> QED BY <2>1, <2>2, <1>1, FragAssumption
<1>4. CASE r = 0
  <2>1. q > 0 BY <1>1, <1>4, FragAssumption
  <2>2. q % CountMod = q BY <1>3, <1>1, FragAssumption
  <2>3. fragments(total) = [cnt |-> q, idx |-> 0, tail |-> FragMax, len |-> 0]
    BY <1>4, <2>2, <1>1, (q + 0) % CountMod = q DEF fragments, q, r
  <2>4. (q - 1) * FragMax + FragMax = q * FragMax BY <1>1, FragAssumption
  <2> QED BY <2>1, <2>3, <2>4, <1>1, <1>3, <1>4, FragAssumption DEF CutUp, FragType
<1>5. CASE r > 0
  <2>2. (q + 1) % CountMod = q + 1 BY <1>3, <1>5, <1>1, FragAssumption
  <2>3. fragments(total) = [cnt |-> q + 1, idx |-> 0, tail |-> r, len |-> 0]
    BY <1>5, <2>2, <1>1 DEF fragments, q, r
  <2> QED BY <2>3, <1>1, <1>3, <1>5, FragAssumption DEF CutUp, FragType
<1> QED BY <1>1, <1>4, <1>5

\* A fragment ends inside the image, and at its end exactly if it is the last.
LEMMA FragmentFits ==
  ASSUME NEW f, NEW img \in Nat, FragType(f), CutUp(f, img), f.idx < f.cnt
  PROVE  /\ f.idx * FragMax + SizeOf(f) <= img /\ SizeOf(f) > 0
         /\ SizeOf(f) \in 1..FragMax
         /\ f.idx * FragMax + SizeOf(f) = img <=> f.idx = f.cnt - 1
         /\ f.idx # f.cnt - 1 => f.idx * FragMax + FragMax = (f.idx + 1) * FragMax
<1>1. PICK i \in Nat, c \in Nat, t \in Nat : i = f.idx /\ c = f.cnt /\ t = f.tail
  BY DEF FragType
<1>2. c \in 1..(CountMod - 1) /\ t \in 1..FragMax /\ (c - 1) * FragMax + t = img /\ i < c
  BY <1>1 DEF CutUp
<1>3. CASE i = c - 1
  BY <1>1, <1>2, <1>3, FragAssumption DEF SizeOf
<1>4. CASE i # c - 1
  <2>1. i * FragMax + FragMax = (i + 1) * FragMax BY <1>1, FragAssumption
  <2>2. c - 1 - (i + 1) \in Nat BY <1>2, <1>4, <1>1
  <2>3. (c - 1 - (i + 1)) * FragMax >= 0 BY <2>2, FragAssumption
  <2>4. (c - 1) * FragMax = (i + 1) * FragMax + (c - 1 - (i + 1)) * FragMax
    BY <1>1, <2>2, FragAssumption
  <2> QED BY <1>1, <1>2, <1>4, <2>1, <2>3, <2>4, FragAssumption DEF SizeOf
<1> QED BY <1>3, <1>4

-----------------------------------------------------------------------------
\* Every way to abort: init_cb is called and nothing is under way any more.
LEMMA AbortStep ==
  ASSUME DownloadInv, event.op # "none", event' = NoEvent, cmd' = NoCmd,
         results' = Append(results, "FAIL"), UNCHANGED <<starts, c_got, c_frags>>,
         image' \in Nat, FragType(frag)'
  PROVE  DownloadInv'
<1>1. Len(results) < starts BY DEF DownloadInv, OneUnderWay
<1>2. results' \in Seq({"SUCCESS", "FAIL"}) /\ Len(results') = Len(results) + 1
      /\ Last(results)' = "FAIL"
  BY DEF DownloadInv, DataTypes, Last
<1>3. DataTypes' /\ Reported'
  BY <1>1, <1>2 DEF DownloadInv, DataTypes, Reported, NoEvent, NoCmd
<1> QED BY <1>1, <1>2, <1>3
  DEF DownloadInv, DataTypes, Sent, Acknowledged, NothingSent, OneUnderWay, NoEvent, NoCmd, EarlyOps

\* Sending one of the commands before the baud rate.
LEMMA EarlyStep ==
  ASSUME DownloadInv, event.op \in EarlyOps, event' = NoEvent, NEW op \in EarlyOps, cmd' = Command(op),
         UNCHANGED <<results, starts, c_got, c_frags, image, frag>>
  PROVE  DownloadInv'
<1>1. c_got = 0 /\ c_frags = 0 /\ Len(results) < starts
  BY DEF DownloadInv, NothingSent, OneUnderWay, EarlyOps
<1>2. cmd'.op = op BY DEF Command, NoCmd
<1> QED BY <1>1, <1>2
  DEF DownloadInv, DataTypes, Sent, Acknowledged, NothingSent, OneUnderWay, Reported, NoEvent, EarlyOps,
      Ops, FragType

\* Sending a fragment: the controller has what comes before it.
LEMMA DownloadStep ==
  ASSUME DownloadInv, event.op # "none", event' = NoEvent, NEW f, NEW rx,
         FragType(f), f.idx < f.cnt,
         frag' = [f EXCEPT !.len = fragment(f, rx).size], cmd' = fragment(f, rx),
         UNCHANGED <<results, starts, c_got, c_frags>>, image' \in Nat,
         c_frags = f.idx, c_got = f.idx * FragMax, CutUp(f, image')
  PROVE  DownloadInv'
<1>1. Len(results) < starts BY DEF DownloadInv, OneUnderWay
<1>2. frag' = [cnt |-> f.cnt, idx |-> f.idx, tail |-> f.tail, len |-> fragment(f, rx).size]
  BY DEF FragType
<1>3. FragType(frag)' /\ frag'.cnt = f.cnt /\ frag'.idx = f.idx /\ frag'.tail = f.tail
  BY <1>2 DEF FragType
<1>4. /\ cmd'.op = "DOWNLOAD" /\ cmd'.from = f.idx * FragMax /\ cmd'.size = SizeOf(f)
      /\ cmd'.bit7 = (IF f.idx = f.cnt - 1 THEN 128 ELSE 0) /\ cmd'.index = fragment_index(f.idx)
  BY DEF fragment, SizeOf
<1>5. DataTypes' /\ Reported'
  BY <1>1, <1>3, <1>4 DEF DownloadInv, DataTypes, Reported, NoEvent, Ops
<1>6. Sent' BY <1>3, <1>4 DEF Sent, CutUp, SizeOf, fragment_index
<1> QED BY <1>1, <1>4, <1>5, <1>6
  DEF DownloadInv, Acknowledged, NothingSent, OneUnderWay, NoEvent, EarlyOps

\* xmit_cb takes the command, or the callback aborts.
LEMMA XmitOrAbort ==
  ASSUME NEW c, NEW next, NEW b, NEW l, xmit_or_abort(c, next, b, l)
  PROVE  \/ cmd' = c /\ UNCHANGED results
         \/ cmd' = NoCmd /\ results' = Append(results, "FAIL")
BY DEF xmit_or_abort, abort, init_cb

-----------------------------------------------------------------------------
\* DownloadInv holds when the process starts.
LEMMA DownloadInit == Init => DownloadInv
BY DEF Init, DownloadInv, DataTypes, Sent, Acknowledged, NothingSent, OneUnderWay, Reported, NoEvent, NoCmd,
       NoFrag, FragType, EarlyOps

\* BT_OP_INIT: the previous initialisation is over, nothing has been sent.
LEMMA StartStep == ASSUME DownloadInv, hw_config_start PROVE DownloadInv'
<1>1. /\ Len(results) = starts /\ starts' = starts + 1 /\ event' = NoEvent /\ event = NoEvent
      /\ frag' = NoFrag /\ image' = 0 /\ c_got' = 0 /\ c_frags' = 0
  BY DEF hw_config_start
<1>2. FragType(frag)' BY <1>1 DEF NoFrag, FragType
<1>3. starts \in Nat /\ results \in Seq({"SUCCESS", "FAIL"}) BY DEF DownloadInv, DataTypes
<1>4. \/ cmd'.op \in EarlyOps /\ results' = results
      \/ cmd' = NoCmd /\ results' = results
      \/ cmd' = NoCmd /\ results' = Append(results, "FAIL")
  BY DEF hw_config_start, init_cb, Command, NoCmd, EarlyOps
<1>5. CASE (cmd'.op \in EarlyOps \/ cmd' = NoCmd) /\ results' = results
  BY <1>1, <1>2, <1>3, <1>5
  DEF DownloadInv, DataTypes, Sent, Acknowledged, NothingSent, OneUnderWay, Reported, NoEvent, NoCmd,
      EarlyOps, Ops
<1>6. CASE cmd' = NoCmd /\ results' = Append(results, "FAIL")
  <2>1. results' \in Seq({"SUCCESS", "FAIL"}) /\ Len(results') = starts + 1 /\ starts + 1 \in Nat
    BY <1>1, <1>3, <1>6
  <2> QED BY <1>1, <1>2, <1>3, <1>6, <2>1
    DEF DownloadInv, DataTypes, Sent, Acknowledged, NothingSent, OneUnderWay, Reported, NoEvent, NoCmd,
        EarlyOps
<1> QED BY <1>4, <1>5, <1>6

\* The callbacks before the download, and those that give up.
LEMMA EarlyCallbacks ==
  ASSUME DownloadInv,
         cback_h5_init_failed \/ cback_abort \/ cback_h5_init \/ cback_read_local_ver \/ cback_read_eco_ver
  PROVE  DownloadInv'
<1>0. FragType(frag) /\ image \in Nat BY DEF DownloadInv, DataTypes
<1>1. CASE cback_h5_init_failed
  <2>1. /\ event.op = "H5_INIT" /\ event' = NoEvent /\ event.status # 0
        /\ UNCHANGED <<cmd, starts, image, frag, c_got, c_frags>>
    BY <1>1 DEF cback_h5_init_failed, cfgvars, ctrlvars
  <2>2. cmd.op = "none" /\ Len(results) < starts
    BY <2>1 DEF DownloadInv, OneUnderWay
  <2>3. \/ UNCHANGED results
        \/ results' = Append(results, "FAIL")
    BY <1>1 DEF cback_h5_init_failed, init_cb
  <2>4. CASE UNCHANGED results
    BY <2>1, <2>2, <2>4
    DEF DownloadInv, DataTypes, Sent, Acknowledged, NothingSent, OneUnderWay, Reported, NoEvent, EarlyOps,
        FragType
  <2>5. CASE results' = Append(results, "FAIL")
    <3>1. results' \in Seq({"SUCCESS", "FAIL"}) /\ Len(results') = Len(results) + 1 /\ Last(results)' = "FAIL"
      BY <2>5 DEF DownloadInv, DataTypes, Last
    <3>2. DataTypes' /\ Reported'
      BY <2>1, <2>2, <3>1 DEF DownloadInv, DataTypes, Reported, NoEvent, FragType
    <3> QED BY <2>1, <2>2, <3>1, <3>2
      DEF DownloadInv, Sent, Acknowledged, NothingSent, OneUnderWay, NoEvent, EarlyOps
  <2> QED BY <2>3, <2>4, <2>5
<1>2. CASE cback_abort
  <2>1. FragType(frag)' /\ image' \in Nat BY <1>0, <1>2 DEF cback_abort, same, FragType
  <2> QED BY <1>2, <2>1, AbortStep DEF cback_abort, abort, init_cb, same, ctrlvars
<1>3. ASSUME NEW op \in EarlyOps, NEW sent \in EarlyOps, NEW st, NEW next,
             Handles(op, st), xmit_or_abort(Command(sent), next, buf, len), UNCHANGED <<frag, baudrate>>, same
      PROVE  DownloadInv'
  <2>1. FragType(frag)' /\ image' \in Nat BY <1>0, <1>3 DEF same, FragType
  <2>2. event.op = op /\ event' = NoEvent /\ op # "none" BY <1>3 DEF Handles, EarlyOps
  <2>3. UNCHANGED <<starts, c_got, c_frags, image>> BY <1>3 DEF same, ctrlvars
  <2>4. CASE cmd' = Command(sent) /\ UNCHANGED results
    BY <2>2, <2>3, <2>4, <1>3, EarlyStep
  <2>5. CASE cmd' = NoCmd /\ results' = Append(results, "FAIL")
    BY <2>1, <2>2, <2>3, <2>5, AbortStep
  <2> QED BY <2>4, <2>5, <1>3, XmitOrAbort
<1>4. CASE cback_h5_init
  BY <1>3, <1>4 DEF cback_h5_init, EarlyOps
<1>5. CASE cback_read_local_ver
  BY <1>3, <1>5 DEF cback_read_local_ver, EarlyOps
<1>6. CASE cback_read_eco_ver
  BY <1>3, <1>6 DEF cback_read_eco_ver, EarlyOps
<1> QED BY <1>1, <1>2, <1>4, <1>5, <1>6

\* CFG_START: the image is cut up and the controller asked for another speed or
\* given the first fragment.
LEMMA CfgStartStep == ASSUME DownloadInv, cfg_start PROVE DownloadInv'
<1>1. event.op \in EarlyOps /\ event.op # "none" /\ event' = NoEvent /\ UNCHANGED <<starts, c_got, c_frags>>
  BY DEF cfg_start, Handles, EarlyOps, ctrlvars
<1>2. c_got = 0 /\ c_frags = 0 /\ Len(results) < starts /\ cmd.op = "none"
  BY <1>1 DEF DownloadInv, NothingSent, OneUnderWay
<1>3. FragType(frag) BY DEF DownloadInv, DataTypes
<1>4. PICK outcome \in ConfigFiles, total \in PatchSizes :
        \/ UNCHANGED <<frag, cmd, results, image>>
        \/ \E i \in Images(config_buf_of(outcome), config_len_of(outcome), state = "READ_LOCAL_VER", total),
              code \in Codes \cup {"none"} : start_download(i, code)
  BY DEF cfg_start
<1>5. total \in Nat /\ total > 0 BY PatchAssumption
<1>6. CASE UNCHANGED <<frag, cmd, results, image>>
  BY <1>1, <1>2, <1>6
  DEF DownloadInv, DataTypes, Sent, Acknowledged, NothingSent, OneUnderWay, Reported, NoEvent, EarlyOps, FragType
<1>7. ASSUME NEW i \in Images(config_buf_of(outcome), config_len_of(outcome), state = "READ_LOCAL_VER", total),
             NEW code \in Codes \cup {"none"}, start_download(i, code)
      PROVE  DownloadInv'
  <2>1. i.len["total"] \in Nat BY <1>5, <1>7 DEF Images
  <2>2. image' = i.len["total"] /\ image' \in Nat BY <2>1, <1>7 DEF start_download
  <2>3. CASE abort(i.buf, i.len) /\ UNCHANGED frag
    <3>1. FragType(frag)' BY <1>3, <2>3 DEF FragType
    <3> QED BY <1>1, <2>2, <2>3, <3>1, AbortStep DEF abort, init_cb
  <2>4. CASE ~(abort(i.buf, i.len) /\ UNCHANGED frag)
    <3>1. i.len["total"] > 0 /\ i.len["total"] <= MaxPatch
      BY <2>1, <2>4, <1>7, PatchAssumption DEF start_download, patch_fits
    <3> DEFINE f == fragments(i.len["total"])
    <3>2. CutUp(f, image') /\ f.idx = 0 /\ FragType(f) /\ f.idx < f.cnt
      BY <2>1, <2>2, <3>1, FragmentsCutUp DEF CutUp
    <3>3. \/ frag' = f /\ xmit_or_abort(Command("UPDATE_BAUDRATE"), "SET_UART_BAUD_HOST", i.buf, i.len)
          \/ download(f, 0, i.buf, i.len)
      BY <2>4, <1>7 DEF start_download
    <3> HIDE DEF f
    <3>4. CASE frag' = f /\ xmit_or_abort(Command("UPDATE_BAUDRATE"), "SET_UART_BAUD_HOST", i.buf, i.len)
      <4>1. FragType(frag)' BY <3>2, <3>4 DEF FragType
      <4>2. CASE cmd' = Command("UPDATE_BAUDRATE") /\ UNCHANGED results
        <5>1. cmd'.op = "UPDATE_BAUDRATE" BY <4>2 DEF Command, NoCmd
        <5>2. CutUp(frag, image)' /\ frag'.idx = 0 BY <3>2, <3>4 DEF CutUp
        <5> QED BY <1>1, <1>2, <2>2, <4>1, <4>2, <5>1, <5>2
          DEF DownloadInv, DataTypes, Sent, Acknowledged, NothingSent, OneUnderWay, Reported, NoEvent,
              EarlyOps, Ops
      <4>3. CASE cmd' = NoCmd /\ results' = Append(results, "FAIL")
        BY <1>1, <2>2, <4>1, <4>3, AbortStep
      <4> QED BY <4>2, <4>3, <3>4, XmitOrAbort
    <3>5. CASE download(f, 0, i.buf, i.len)
      <4>1. frag' = [f EXCEPT !.len = fragment(f, 0).size] BY <3>5 DEF download
      <4>2. FragType(frag)' BY <4>1, <3>2 DEF FragType
      <4>3. CASE cmd' = fragment(f, 0) /\ UNCHANGED results
        <5>1. c_frags = f.idx /\ c_got = f.idx * FragMax BY <1>2, <3>2, FragAssumption
        <5> QED BY <1>1, <2>2, <3>2, <4>1, <4>3, <5>1, DownloadStep
      <4>4. CASE cmd' = NoCmd /\ results' = Append(results, "FAIL")
        BY <1>1, <2>2, <4>2, <4>4, AbortStep
      <4> QED BY <4>3, <4>4, <3>5, XmitOrAbort DEF download
    <3> QED BY <3>3, <3>4, <3>5
  <2> QED BY <2>3, <2>4
<1> QED BY <1>4, <1>6, <1>7

\* The host's own speed: the first fragment.
LEMMA BaudHostStep == ASSUME DownloadInv, cback_set_uart_baud_host PROVE DownloadInv'
<1>1. /\ event.op = "UPDATE_BAUDRATE" /\ event' = NoEvent
      /\ UNCHANGED <<starts, image, c_got, c_frags>> /\ download(frag, 0, buf, len)
  BY DEF cback_set_uart_baud_host, Handles, ctrlvars
<1>2. c_got = 0 /\ c_frags = 0 /\ CutUp(frag, image) /\ frag.idx = 0 /\ frag.idx < frag.cnt
  BY <1>1 DEF DownloadInv, NothingSent, CutUp
<1>3. FragType(frag) /\ image' \in Nat /\ CutUp(frag, image')
  BY <1>1, <1>2 DEF DownloadInv, DataTypes, CutUp
<1>4. frag' = [frag EXCEPT !.len = fragment(frag, 0).size] BY <1>1 DEF download
<1>5. FragType(frag)' BY <1>3, <1>4 DEF FragType
<1>6. c_frags = frag.idx /\ c_got = frag.idx * FragMax BY <1>2, FragAssumption
<1>7. CASE cmd' = fragment(frag, 0) /\ UNCHANGED results
  BY <1>1, <1>2, <1>3, <1>4, <1>6, <1>7, DownloadStep
<1>8. CASE cmd' = NoCmd /\ results' = Append(results, "FAIL")
  BY <1>1, <1>3, <1>5, <1>8, AbortStep
<1> QED BY <1>1, <1>7, <1>8, XmitOrAbort DEF download

\* What an acknowledged fragment says of the next.
LEMMA NextFragment ==
  ASSUME DownloadInv, event.op = "DOWNLOAD", event.status = 0
  PROVE  /\ event.bit7 = 0 => /\ next_idx.idx = frag.idx + 1 /\ next_idx.idx < next_idx.cnt
                              /\ CutUp(next_idx, image) /\ FragType(next_idx)
                              /\ c_frags = next_idx.idx /\ c_got = next_idx.idx * FragMax
         /\ event.bit7 # 0 => c_got = image /\ FragType(next_idx)
<1>1. /\ CutUp(frag, image) /\ frag.idx < frag.cnt /\ FragType(frag) /\ image \in Nat
      /\ c_frags = frag.idx + 1 /\ c_got = frag.idx * FragMax + SizeOf(frag)
      /\ event.bit7 = (IF frag.idx = frag.cnt - 1 THEN 128 ELSE 0)
  BY DEF DownloadInv, DataTypes, Acknowledged
<1>2. PICK i \in Nat, c \in Nat, t \in Nat : frag = [cnt |-> c, idx |-> i, tail |-> t, len |-> frag.len]
  BY <1>1 DEF FragType
<1>3. c \in 1..(CountMod - 1) /\ i < c BY <1>1, <1>2 DEF CutUp
<1>4. next_idx = [cnt |-> c, idx |-> (i + 1) % CountMod, tail |-> t, len |-> frag.len]
  BY <1>2 DEF next_idx
<1>5. (i + 1) % CountMod \in Nat BY FragAssumption
<1>6. FragType(next_idx) BY <1>4, <1>5 DEF FragType
<1>7. CASE event.bit7 # 0
  BY <1>1, <1>6, <1>7, FragmentFits
<1>8. CASE event.bit7 = 0
  <2>1. i # c - 1 BY <1>1, <1>2, <1>8
  <2>2. i + 1 < c /\ i + 1 < CountMod BY <1>3, <2>1, FragAssumption
  <2>3. (i + 1) % CountMod = i + 1 BY <2>2, FragAssumption
  <2>4. SizeOf(frag) = FragMax /\ i * FragMax + FragMax = (i + 1) * FragMax
    BY <1>1, <1>2, <2>1, FragmentFits DEF SizeOf
  <2>5. CutUp(next_idx, image) BY <1>1, <1>2, <1>4 DEF CutUp
  <2> QED BY <1>1, <1>2, <1>4, <1>6, <1>8, <2>2, <2>3, <2>4, <2>5
<1> QED BY <1>7, <1>8

\* An acknowledged fragment: the next one, or success.
LEMMA DlFwStep == ASSUME DownloadInv, cback_dl_fw_patch \/ cback_dl_fw_done PROVE DownloadInv'
<1>1. /\ event.op = "DOWNLOAD" /\ event.status = 0 /\ event' = NoEvent
      /\ UNCHANGED <<starts, image, c_got, c_frags>>
  BY DEF cback_dl_fw_patch, cback_dl_fw_done, Handles, same, ctrlvars
<1>2. image \in Nat /\ image' \in Nat BY <1>1 DEF DownloadInv, DataTypes
<1>3. CASE cback_dl_fw_patch
  <2>1. event.bit7 = 0 /\ download(next_idx, event.index, buf, len) BY <1>3 DEF cback_dl_fw_patch
  <2> DEFINE f == next_idx  rx == event.index
  <2>2. /\ f.idx < f.cnt /\ CutUp(f, image') /\ FragType(f) /\ c_frags = f.idx /\ c_got = f.idx * FragMax
    BY <1>1, <2>1, NextFragment
  <2>3. frag' = [f EXCEPT !.len = fragment(f, rx).size] /\ xmit_or_abort(fragment(f, rx), "DL_FW_PATCH", buf, len)
    BY <2>1 DEF download
  <2> HIDE DEF f, rx
  <2>4. FragType(frag)' BY <2>2, <2>3 DEF FragType
  <2>5. CASE cmd' = fragment(f, rx) /\ UNCHANGED results
    BY <1>1, <1>2, <2>2, <2>3, <2>5, DownloadStep
  <2>6. CASE cmd' = NoCmd /\ results' = Append(results, "FAIL")
    BY <1>1, <1>2, <2>4, <2>6, AbortStep
  <2> QED BY <2>3, <2>5, <2>6, XmitOrAbort
<1>4. CASE cback_dl_fw_done
  <2>1. /\ event.bit7 # 0 /\ frag' = next_idx /\ cmd' = NoCmd /\ results' = Append(results, "SUCCESS")
    BY <1>4 DEF cback_dl_fw_done, init_cb
  <2>2. c_got = image /\ FragType(next_idx) BY <1>1, <2>1, NextFragment
  <2>3. FragType(frag)' BY <2>1, <2>2 DEF FragType
  <2>4. Len(results) < starts BY <1>1 DEF DownloadInv, OneUnderWay
  <2>5. results' \in Seq({"SUCCESS", "FAIL"}) /\ Len(results') = Len(results) + 1
    BY <2>1 DEF DownloadInv, DataTypes
  <2>6. DataTypes' /\ Reported'
    BY <1>1, <1>2, <2>1, <2>2, <2>3, <2>4, <2>5 DEF DownloadInv, DataTypes, Reported, NoEvent, NoCmd
  <2> QED BY <1>1, <2>1, <2>6
    DEF DownloadInv, Sent, Acknowledged, NothingSent, OneUnderWay, NoEvent, NoCmd, EarlyOps
<1> QED BY <1>3, <1>4

\* The controller answers: a fragment it takes is added to what it has.
LEMMA AnswerStep == ASSUME DownloadInv, ctrl_answer PROVE DownloadInv'
<1>1. /\ cmd # NoCmd /\ event = NoEvent /\ cmd' = NoCmd
      /\ UNCHANGED <<frag, starts, results, image>>
  BY DEF ctrl_answer, cfgvars
<1>2. PICK status \in 0..2 :
        LET taken == status = 0 /\ cmd.op = "DOWNLOAD"
        IN /\ event' = [op |-> cmd.op, status |-> status, index |-> cmd.index, bit7 |-> cmd.bit7]
           /\ c_got' = IF taken /\ cmd.from = c_got THEN c_got + cmd.size ELSE c_got
           /\ c_frags' = IF taken THEN c_frags + 1 ELSE c_frags
  BY DEF ctrl_answer
<1>3. event'.op = cmd.op /\ event'.status = status /\ event'.bit7 = cmd.bit7 BY <1>2
<1>4. FragType(frag)' /\ FragType(frag) BY <1>1 DEF DownloadInv, DataTypes, FragType
<1>5. CASE cmd.op = "DOWNLOAD" /\ status = 0
  <2>1. /\ CutUp(frag, image) /\ frag.idx < frag.cnt /\ c_frags = frag.idx /\ c_got = frag.idx * FragMax
        /\ cmd.from = frag.idx * FragMax /\ cmd.size = SizeOf(frag) /\ image \in Nat
        /\ cmd.bit7 = (IF frag.idx = frag.cnt - 1 THEN 128 ELSE 0) /\ Len(results) < starts
    BY <1>5 DEF DownloadInv, DataTypes, Sent, OneUnderWay
  <2>2. c_got' = frag.idx * FragMax + SizeOf(frag) /\ c_frags' = frag.idx + 1 BY <1>2, <1>5, <2>1
  <2>3. SizeOf(frag) \in 1..FragMax BY <1>4, <2>1, FragmentFits
  <2>4. c_got' \in Nat /\ c_frags' \in Nat
    <3>1. c_got \in Nat /\ c_frags \in Nat BY DEF DownloadInv, DataTypes
    <3>2. c_got' = c_got + SizeOf(frag) /\ c_frags' = c_frags + 1 BY <2>1, <2>2
    <3> QED BY <2>3, <3>1, <3>2, FragAssumption
  <2>5. Acknowledged' BY <1>1, <1>3, <2>1, <2>2 DEF Acknowledged, CutUp, SizeOf
  <2>6. DataTypes' /\ Reported'
    BY <1>1, <1>3, <1>4, <2>1, <2>4 DEF DownloadInv, DataTypes, Reported, NoCmd
  <2> QED BY <1>1, <1>3, <1>5, <2>1, <2>5, <2>6
    DEF DownloadInv, Sent, NothingSent, OneUnderWay, NoCmd, EarlyOps
<1>6. CASE ~(cmd.op = "DOWNLOAD" /\ status = 0)
  <2>1. UNCHANGED <<c_got, c_frags>> BY <1>2, <1>6
  <2>2. cmd.op # "none" => Len(results) < starts BY DEF DownloadInv, OneUnderWay
  <2>3. NothingSent' BY <1>1, <1>3, <2>1 DEF DownloadInv, NothingSent, CutUp, NoCmd, EarlyOps
  <2>4. DataTypes' /\ Reported' BY <1>1, <1>3, <1>4, <2>1 DEF DownloadInv, DataTypes, Reported, NoCmd
  <2> QED BY <1>1, <1>3, <1>6, <2>2, <2>3, <2>4 DEF DownloadInv, Sent, Acknowledged, OneUnderWay, NoCmd
<1> QED BY <1>5, <1>6

-----------------------------------------------------------------------------
\* Every step keeps DownloadInv.
LEMMA DownloadNext == DownloadInv /\ [Next]_vars => DownloadInv'
<1> SUFFICES ASSUME DownloadInv, [Next]_vars PROVE DownloadInv'
  OBVIOUS
<1>1. CASE UNCHANGED vars
  BY <1>1 DEF vars, cfgvars, ctrlvars, DownloadInv, DataTypes, Sent, Acknowledged, NothingSent, OneUnderWay,
              Reported, FragType, CutUp, SizeOf, Last
<1>2. CASE hw_config_start
  BY <1>2, StartStep
<1>3. CASE Callback
  BY <1>3, EarlyCallbacks, CfgStartStep, BaudHostStep, DlFwStep DEF Callback
<1>4. CASE ctrl_answer
  BY <1>4, AnswerStep
<1> QED BY <1>1, <1>2, <1>3, <1>4 DEF Next

\* DownloadInv says what DownloadExact promises.
LEMMA DownloadInvExact == DownloadInv => DownloadExact
<1> SUFFICES ASSUME DownloadInv PROVE DownloadExact
  OBVIOUS
<1>1. ASSUME cmd.op = "DOWNLOAD"
      PROVE  /\ cmd.from = c_got /\ cmd.size > 0 /\ cmd.from + cmd.size <= image
             /\ cmd.bit7 # 0 <=> (cmd.from + cmd.size = image)
             /\ cmd.index = expected_index
  <2>1. /\ CutUp(frag, image) /\ frag.idx < frag.cnt /\ c_frags = frag.idx /\ c_got = frag.idx * FragMax
        /\ cmd.from = frag.idx * FragMax /\ cmd.size = SizeOf(frag) /\ image \in Nat /\ FragType(frag)
        /\ cmd.bit7 = (IF frag.idx = frag.cnt - 1 THEN 128 ELSE 0) /\ cmd.index = fragment_index(frag.idx)
    BY <1>1 DEF DownloadInv, DataTypes, Sent
  <2>2. cmd.index = expected_index BY <2>1 DEF fragment_index, expected_index
  <2> QED BY <2>1, <2>2, FragmentFits
<1> QED BY <1>1 DEF DownloadInv, Reported, DownloadExact

\* One answer to each BT_OP_INIT: after init_cb no command is under way, and so no
\* event can make hw_config_cback call it again.
THEOREM ReportedOnceCorrect == Spec => []ReportedOnce
<1>1. Spec => []DownloadInv
  BY DownloadInit, DownloadNext, PTL DEF Spec
<1>2. DownloadInv => ReportedOnce
  BY DEF DownloadInv, DataTypes, OneUnderWay, Reported, ReportedOnce
<1> QED BY <1>1, <1>2, PTL

\* The firmware arrives whole: whatever the fragment size, the widths of index and
\* counter and the patch, hw_config_cback sends every byte once and in order, and
\* reports success only when the controller has them all.
THEOREM DownloadCorrect == Spec => []DownloadExact
<1>1. Spec => []DownloadInv
  BY DownloadInit, DownloadNext, PTL DEF Spec
<1> QED BY <1>1, DownloadInvExact, PTL

-----------------------------------------------------------------------------
(* Buffers.                                                                *)

BufStates == {"null", "live", "freed"}

\* What may stay allocated without a length: the buffer of an empty configuration file.
Forgotten(x, file) == x = "config" /\ file = "empty"

\* Buffers and lengths: what is allocated has a length, what has been freed has none.
Sound(b, l, file) ==
  /\ b \in [Buffers -> BufStates] /\ l \in [Buffers -> Nat]
  /\ \A x \in Buffers :
       (l[x] > 0 => b[x] # "freed") /\ (b[x] = "live" => l[x] > 0 \/ Forgotten(x, file))
NoneLive(b, file) == \A x \in Buffers : b[x] = "live" => Forgotten(x, file)

LateOps == {"UPDATE_BAUDRATE", "DOWNLOAD"}

\* Nothing is allocated before CFG_START, the image is live from then on, and after a failure
\* nothing is but the buffer of an empty configuration file.
BufferInv ==
  /\ Sound(buf, len, config_file)
  /\ cmd.op \in EarlyOps \/ event.op \in EarlyOps => \A x \in Buffers : buf[x] = "null" /\ len[x] = 0
  /\ cmd.op \in LateOps \/ event.op \in LateOps => buf["total"] = "live"
  /\ starts = Len(results) /\ starts > 0 /\ Last(results) = "FAIL" /\ alive = "running" =>
       NoneLive(buf, config_file)

\* The frees of an abort leave nothing else allocated.
LEMMA FreeAll ==
  ASSUME NEW b, NEW l, NEW file, Sound(b, l, file)
  PROVE  /\ Sound(free_all(b, l), [x \in Buffers |-> 0], file)
         /\ NoneLive(free_all(b, l), file)
<1>1. \A x \in Buffers : /\ free_all(b, l)[x] \in BufStates
                         /\ free_all(b, l)[x] = "live" => Forgotten(x, file)
  BY DEF Sound, free_all, BufStates
<1>2. free_all(b, l) \in [Buffers -> BufStates] BY <1>1 DEF free_all
<1> QED BY <1>1, <1>2 DEF Sound, NoneLive

\* abort, after which nothing is under way.
LEMMA AbortFrees ==
  ASSUME DownloadInv, event.op # "none", event' = NoEvent, NEW b, NEW l,
         Sound(b, l, config_file'), abort(b, l)
  PROVE  BufferInv'
<1>1. Sound(buf', len', config_file') /\ NoneLive(buf', config_file') BY FreeAll DEF abort
<1>2. cmd'.op = "none" /\ event'.op = "none" BY DEF abort, NoCmd, NoEvent
<1> QED BY <1>1, <1>2 DEF BufferInv, EarlyOps, LateOps, NoneLive, Sound, Forgotten

\* A command that is sent, with the buffers as b and l.
LEMMA XmitKeeps ==
  ASSUME DownloadInv, event.op # "none", event' = NoEvent, UNCHANGED starts,
         NEW c, NEW next, NEW b, NEW l, Sound(b, l, config_file'), xmit_or_abort(c, next, b, l),
         c.op \in EarlyOps => \A x \in Buffers : b[x] = "null" /\ l[x] = 0,
         c.op \in LateOps => b["total"] = "live"
  PROVE  BufferInv'
<1>1. CASE abort(b, l) BY <1>1, AbortFrees
<1>2. CASE cmd' = c /\ buf' = b /\ len' = l /\ UNCHANGED results
  <2>1. Len(results) < starts /\ starts \in Nat /\ Len(results) \in Nat
    BY DEF DownloadInv, OneUnderWay, DataTypes
  <2>2. ~(starts' = Len(results')) BY <1>2, <2>1
  <2>3. event'.op = "none" BY DEF NoEvent
  <2> QED BY <1>2, <2>2, <2>3 DEF BufferInv, EarlyOps, LateOps, Sound, Forgotten
<1> QED BY <1>1, <1>2 DEF xmit_or_abort

\* What becomes of the configuration file.
LEMMA ConfigBuf ==
  ASSUME NEW outcome \in ConfigFiles
  PROVE  \/ /\ outcome = "loaded"
            /\ config_buf_of(outcome) = "live" /\ config_len_of(outcome) = 1
         \/ /\ outcome = "empty"
            /\ config_buf_of(outcome) = "live" /\ config_len_of(outcome) = 0
         \/ /\ config_buf_of(outcome) \in {"null", "freed"} /\ config_len_of(outcome) = 0
BY DEF ConfigFiles, config_buf_of, config_len_of

\* The buffers that loading the files leaves.
LEMMA ImageSound ==
  ASSUME NEW outcome \in ConfigFiles, NEW old, NEW total \in Nat, total > 0,
         NEW i \in Images(config_buf_of(outcome), config_len_of(outcome), old, total)
  PROVE  /\ Sound(i.buf, i.len, outcome)
         /\ i.download /\ i.len["total"] > 0 => i.buf["total"] = "live"
<1> DEFINE config == config_buf_of(outcome)
           clen == config_len_of(outcome)
<1>1. /\ config \in BufStates /\ clen \in Nat
      /\ clen > 0 => config = "live"
      /\ config = "live" => clen > 0 \/ outcome = "empty"
  BY ConfigBuf DEF BufStates
<1>2. i \in Images(config, clen, old, total) OBVIOUS
<1> HIDE DEF config, clen
<1> QED BY <1>1, <1>2 DEF Images, Sound, Buffers, BufStates, Forgotten

\* Nothing is allocated when the process starts.
LEMMA BufferInit == Init => BufferInv
  BY DEF Init, BufferInv, Sound, NoneLive, BufStates, NoCmd, NoEvent, EarlyOps, LateOps, Forgotten

\* CFG_START.
LEMMA BufferCfgStart == ASSUME DownloadInv, BufferInv, cfg_start PROVE BufferInv'
<1>1. /\ event.op \in EarlyOps /\ event.op # "none" /\ event' = NoEvent /\ UNCHANGED starts
  BY DEF cfg_start, Handles, EarlyOps
<1>2. \A x \in Buffers : buf[x] = "null" /\ len[x] = 0 BY <1>1 DEF BufferInv
<1>3. cmd.op = "none" /\ Len(results) < starts /\ starts \in Nat /\ Len(results) \in Nat
  BY <1>1 DEF DownloadInv, DataTypes, OneUnderWay
<1>4. PICK outcome \in ConfigFiles, total \in PatchSizes :
        LET config == config_buf_of(outcome)
            clen == config_len_of(outcome)
        IN /\ config_file' = outcome
           /\ \/ /\ config # "live" /\ buf' = [buf EXCEPT !["config"] = config]
                 /\ UNCHANGED <<len, cmd, results>>
              \/ \E i \in Images(config, clen, state = "READ_LOCAL_VER", total) :
                   \E code : start_download(i, code)
  BY DEF cfg_start
<1> DEFINE config == config_buf_of(outcome)
<1>5. total \in Nat /\ total > 0 BY PatchAssumption
<1>6. config \in BufStates
  BY ConfigBuf DEF BufStates
<1> HIDE DEF config
<1>7. CASE config # "live" /\ buf' = [buf EXCEPT !["config"] = config] /\ UNCHANGED <<len, cmd, results>>
  <2>1. Sound(buf', len', config_file')
    BY <1>2, <1>6, <1>7 DEF BufferInv, Sound, Buffers, BufStates
  <2>2. cmd'.op = "none" /\ event'.op = "none" /\ starts' # Len(results') BY <1>1, <1>3, <1>7 DEF NoEvent
  <2> QED BY <2>1, <2>2 DEF BufferInv, EarlyOps, LateOps, Sound, Forgotten
<1>8. ASSUME NEW code, config_file' = outcome,
             NEW i \in Images(config_buf_of(outcome), config_len_of(outcome),
                              state = "READ_LOCAL_VER", total),
             start_download(i, code)
      PROVE  BufferInv'
  <2>1. /\ Sound(i.buf, i.len, config_file')
        /\ i.download /\ i.len["total"] > 0 => i.buf["total"] = "live"
    BY <1>5, <1>8, ImageSound
  <2>2. i.len["total"] \in Nat BY <2>1 DEF Sound, Buffers
  <2>3. CASE abort(i.buf, i.len) BY <1>1, <2>1, <2>3, AbortFrees
  <2>4. CASE ~abort(i.buf, i.len)
    <3>1. i.download /\ i.len["total"] # 0 /\ i.len["total"] > 0 BY <1>8, <2>2, <2>4 DEF start_download
    <3>2. i.buf["total"] = "live" BY <2>1, <3>1
    <3>3. \E c, next : xmit_or_abort(c, next, i.buf, i.len) /\ c.op \in LateOps
      <4>1. Command("UPDATE_BAUDRATE").op \in LateOps BY DEF Command, NoCmd, LateOps
      <4>2. \A f, rx : fragment(f, rx).op \in LateOps BY DEF fragment, LateOps
      <4> QED BY <1>8, <2>4, <4>1, <4>2 DEF start_download, download
    <3>4. PICK c, next : xmit_or_abort(c, next, i.buf, i.len) /\ c.op \in LateOps BY <3>3
    <3>5. c.op \notin EarlyOps BY <3>4 DEF LateOps, EarlyOps
    <3> QED BY <1>1, <2>1, <3>2, <3>4, <3>5, XmitKeeps
  <2> QED BY <2>3, <2>4
<1> QED BY <1>4, <1>7, <1>8 DEF config

\* Every step keeps BufferInv.
LEMMA BufferStep == DownloadInv /\ BufferInv /\ [Next]_vars => BufferInv'
<1> SUFFICES ASSUME DownloadInv, BufferInv, [Next]_vars PROVE BufferInv'
  OBVIOUS
<1>0. Sound(buf, len, config_file) /\ starts \in Nat /\ results \in Seq({"SUCCESS", "FAIL"})
  BY DEF BufferInv, DownloadInv, DataTypes
<1>1. CASE UNCHANGED vars
  BY <1>1 DEF vars, cfgvars, BufferInv, Sound, NoneLive, Forgotten, Last
<1>2. CASE hw_config_start
  <2>1. /\ buf' = [b \in Buffers |-> "null"] /\ len' = [b \in Buffers |-> 0]
        /\ event = NoEvent /\ UNCHANGED event
        /\ \/ cmd'.op \in EarlyOps \cup {"none"}
           \/ UNCHANGED cmd /\ cmd = NoCmd
    BY <1>2 DEF hw_config_start, Command, NoCmd, EarlyOps
  <2> QED BY <2>1 DEF BufferInv, Sound, NoneLive, Forgotten, BufStates, EarlyOps, LateOps, NoEvent, NoCmd
<1>3. CASE cback_h5_init_failed
  <2>1. /\ event.op = "H5_INIT" /\ event' = NoEvent /\ UNCHANGED <<buf, len, config_file, cmd, starts>>
        /\ \/ alive' = "killed" \/ UNCHANGED results
    BY <1>3 DEF cback_h5_init_failed, cfgvars
  <2>2. cmd.op = "none" /\ Len(results) < starts BY <2>1 DEF DownloadInv, OneUnderWay
  <2>3. alive' # "running" \/ Len(results') # starts' BY <1>0, <2>1, <2>2
  <2> QED BY <2>1, <2>2, <2>3 DEF BufferInv, Sound, Forgotten, EarlyOps, LateOps, NoEvent
<1>4. CASE cback_abort
  <2>1. Sound(buf, len, config_file') BY <1>0, <1>4 DEF cback_abort, same
  <2> QED BY <1>4, <2>1, AbortFrees DEF cback_abort
<1>5. CASE cback_h5_init \/ cback_read_local_ver \/ cback_read_eco_ver
  <2>1. event.op \in EarlyOps /\ event.op # "none" /\ event' = NoEvent /\ UNCHANGED starts
    BY <1>5 DEF cback_h5_init, cback_read_local_ver, cback_read_eco_ver, Handles, EarlyOps, same
  <2>2. \A x \in Buffers : buf[x] = "null" /\ len[x] = 0 BY <2>1 DEF BufferInv
  <2>3. \A op \in EarlyOps : Command(op).op \in EarlyOps /\ Command(op).op \notin LateOps
    BY DEF Command, NoCmd, EarlyOps, LateOps
  <2>4. \E c, next : xmit_or_abort(c, next, buf, len) /\ c.op \notin LateOps
    BY <1>5, <2>3 DEF cback_h5_init, cback_read_local_ver, cback_read_eco_ver, EarlyOps
  <2>5. Sound(buf, len, config_file')
    BY <1>0, <1>5 DEF cback_h5_init, cback_read_local_ver, cback_read_eco_ver, same
  <2> QED BY <2>1, <2>2, <2>4, <2>5, XmitKeeps
<1>6. CASE cfg_start
  BY <1>6, BufferCfgStart
<1>7. CASE cback_set_uart_baud_host \/ cback_dl_fw_patch
  <2>1. event.op \in LateOps /\ event.op # "none" /\ event' = NoEvent /\ UNCHANGED starts
    BY <1>7 DEF cback_set_uart_baud_host, cback_dl_fw_patch, Handles, LateOps, same
  <2>2. buf["total"] = "live" BY <2>1 DEF BufferInv
  <2>3. \A f, rx : fragment(f, rx).op \notin EarlyOps BY DEF fragment, EarlyOps
  <2>4. \E c, next : xmit_or_abort(c, next, buf, len) /\ c.op \notin EarlyOps
    BY <1>7, <2>3 DEF cback_set_uart_baud_host, cback_dl_fw_patch, download
  <2>5. Sound(buf, len, config_file')
    BY <1>0, <1>7 DEF cback_set_uart_baud_host, cback_dl_fw_patch, same
  <2> QED BY <2>1, <2>2, <2>4, <2>5, XmitKeeps
<1>8. CASE cback_dl_fw_done
  <2>1. /\ buf' = [buf EXCEPT !["total"] = "freed"] /\ len' = [len EXCEPT !["total"] = 0]
        /\ results' = Append(results, "SUCCESS") /\ cmd' = NoCmd /\ event' = NoEvent
        /\ UNCHANGED config_file
    BY <1>8 DEF cback_dl_fw_done, Handles, init_cb, same
  <2>2. Last(results)' = "SUCCESS" BY <1>0, <2>1 DEF Last
  <2>3. Sound(buf', len', config_file') BY <1>0, <2>1 DEF Sound, Buffers, BufStates, Forgotten
  <2> QED BY <2>1, <2>2, <2>3 DEF BufferInv, Sound, Forgotten, NoCmd, NoEvent, EarlyOps, LateOps
<1>9. CASE ctrl_answer
  <2>1. /\ cmd' = NoCmd /\ event'.op = cmd.op /\ UNCHANGED <<buf, len, config_file, starts, results, alive>>
    BY <1>9 DEF ctrl_answer, cfgvars
  <2> QED BY <2>1 DEF BufferInv, Sound, NoneLive, Forgotten, NoCmd, EarlyOps, LateOps, Last
<1> QED BY <1>1, <1>2, <1>3, <1>4, <1>5, <1>6, <1>7, <1>8, <1>9 DEF Next, Callback

\* However the initialisation goes on or fails: nothing is freed twice, nothing stays allocated
\* after a failure but the buffer of an empty configuration file, and the image is there as long as
\* fragments are cut from it.
THEOREM BuffersCorrect == Spec => []BuffersKept
<1>1. Spec => []DownloadInv
  BY DownloadInit, DownloadNext, PTL DEF Spec
<1>2. Spec => []BufferInv
  BY <1>1, BufferInit, BufferStep, PTL DEF Spec
<1>3. BufferInv => BuffersKept
  BY DEF BufferInv, BuffersKept, Sound, NoneLive, Forgotten, LateOps
<1> QED BY <1>2, <1>3, PTL

-----------------------------------------------------------------------------
(* Speeds.                                                                 *)

\* The speed of the host after HCI_VSC_UPDATE_BAUDRATE.
HostSpeed(code) == userial_to_tcio_baud(line_speed_to_userial_baud(rtk_speed_to_uart_speed(code)))

\* Each code stands at one place of the table.
LEMMA OneHit ==
  ASSUME NEW k \in 1..Len(baudrates)
  PROVE  {i \in 1..Len(baudrates) : baudrates[i][1] = baudrates[k][1]} = {k}
  BY DEF baudrates

\* What the table says of a code in it.
LEMMA InTable ==
  ASSUME NEW k \in 1..Len(baudrates)
  PROVE  /\ rtk_speed_to_uart_speed(baudrates[k][1]) = baudrates[k][2]
         /\ ctrl_speed(baudrates[k][1]) = baudrates[k][2]
<1>1. (CHOOSE i \in {k} : TRUE) = k OBVIOUS
<1>2. (CHOOSE i \in {k} : \A j \in {k} : i <= j) = k OBVIOUS
<1>3. ctrl_speed(baudrates[k][1]) = baudrates[k][2] BY <1>1, OneHit DEF ctrl_speed
<1>4. rtk_speed_to_uart_speed(baudrates[k][1]) = baudrates[k][2]
  BY <1>2, OneHit DEF rtk_speed_to_uart_speed
<1> QED BY <1>3, <1>4

\* For a code the host knows it ends at the speed of the controller, for any other at 115200.
LEMMA SpeedsAgree ==
  ASSUME NEW code
  PROVE  HostSpeed(code) = IF HostKnows(code) THEN ctrl_speed(code) ELSE 115200
<1>1. CASE HostKnows(code)
  <2>1. PICK k \in 1..Len(baudrates) : baudrates[k][1] = code /\ baudrates[k][2] # 3500000
    BY <1>1 DEF HostKnows
  <2>2. baudrates[k][2] \in {921600, 1500000, 2000000, 3000000, 4000000, 115200}
    BY <2>1 DEF baudrates
  <2>3. \A v \in {921600, 1500000, 2000000, 3000000, 4000000, 115200} :
          userial_to_tcio_baud(line_speed_to_userial_baud(v)) = v
    BY DEF userial_to_tcio_baud, line_speed_to_userial_baud
  <2> QED BY <1>1, <2>1, <2>2, <2>3, InTable DEF HostSpeed
<1>2. CASE ~HostKnows(code)
  <2>1. rtk_speed_to_uart_speed(code) \in {115200, 3500000}
    <3>1. CASE {i \in 1..Len(baudrates) : baudrates[i][1] = code} = {}
      BY <3>1 DEF rtk_speed_to_uart_speed
    <3>2. CASE {i \in 1..Len(baudrates) : baudrates[i][1] = code} # {}
      <4>1. PICK k \in 1..Len(baudrates) : baudrates[k][1] = code BY <3>2
      <4> QED BY <1>2, <4>1, InTable DEF HostKnows
    <3> QED BY <3>1, <3>2
  <2>2. \A v \in {115200, 3500000} : userial_to_tcio_baud(line_speed_to_userial_baud(v)) = 115200
    BY DEF userial_to_tcio_baud, line_speed_to_userial_baud
  <2> QED BY <1>2, <2>1, <2>2 DEF HostSpeed
<1> QED BY <1>1, <1>2

\* What BaudAgree says of the speeds.
Agreed == host_baud = IF baudrate = "none" \/ HostKnows(baudrate) THEN c_baud ELSE 115200

\* The speeds agree until the controller changes its own, and are as Agreed says from the moment
\* the host has followed.
BaudInv ==
  /\ cmd.op \in EarlyOps \/ event.op \in EarlyOps => host_baud = c_baud
  /\ cmd.op = "UPDATE_BAUDRATE" \/ event.op = "UPDATE_BAUDRATE" => baudrate # "none"
  /\ event.op = "UPDATE_BAUDRATE" /\ event.status = 0 => c_baud = ctrl_speed(baudrate)
  /\ cmd.op = "DOWNLOAD" \/ event.op = "DOWNLOAD" => Agreed

\* A callback that aborts, or sends one of the first commands at the first speed, or a fragment.
LEMMA BaudSame ==
  ASSUME event' = NoEvent,
         \/ cmd'.op = "none"
         \/ cmd'.op \in EarlyOps /\ host_baud' = c_baud'
         \/ cmd'.op = "DOWNLOAD" /\ Agreed'
  PROVE  BaudInv'
BY DEF BaudInv, NoEvent, EarlyOps

\* Every step keeps BaudInv.
LEMMA BaudStep ==
  ASSUME DownloadInv, BaudInv, [Next]_vars
  PROVE  BaudInv'
<1>0. \A op \in Ops : Command(op).op = op BY DEF Command, NoCmd
<1>a. NoCmd.op = "none" /\ NoEvent.op = "none" BY DEF NoCmd, NoEvent
<1>b. \A f, rx : fragment(f, rx).op = "DOWNLOAD" BY DEF fragment
<1>1. CASE UNCHANGED vars
  BY <1>1 DEF vars, cfgvars, ctrlvars, BaudInv, Agreed
<1>2. CASE hw_config_start
  <2>1. /\ host_baud' = 115200 /\ c_baud' = 115200 /\ event' = NoEvent
        /\ cmd'.op \in EarlyOps \cup {"none"}
    BY <1>2, <1>0, <1>a DEF hw_config_start, EarlyOps, Ops
  <2> QED BY <2>1, BaudSame
<1>3. CASE cback_h5_init_failed
  <2>1. event.op = "H5_INIT" /\ event' = NoEvent /\ UNCHANGED cmd
    BY <1>3 DEF cback_h5_init_failed
  <2>2. cmd.op = "none" BY <2>1 DEF DownloadInv, OneUnderWay
  <2> QED BY <2>1, <2>2, BaudSame
<1>4. CASE cback_abort
  <2>1. event' = NoEvent /\ cmd' = NoCmd BY <1>4 DEF cback_abort, abort
  <2> QED BY <1>a, <2>1, BaudSame
<1>5. CASE cback_h5_init \/ cback_read_local_ver \/ cback_read_eco_ver
  <2>1. event.op \in EarlyOps /\ event' = NoEvent /\ UNCHANGED <<host_baud, c_baud>>
    BY <1>5 DEF cback_h5_init, cback_read_local_ver, cback_read_eco_ver, Handles, EarlyOps, same, ctrlvars
  <2>2. \E op \in EarlyOps, next \in States : xmit_or_abort(Command(op), next, buf, len)
    BY <1>5 DEF cback_h5_init, cback_read_local_ver, cback_read_eco_ver, EarlyOps, States
  <2>3. cmd'.op \in EarlyOps \cup {"none"} BY <1>0, <1>a, <2>2, XmitOrAbort DEF EarlyOps, Ops
  <2>4. host_baud' = c_baud' BY <2>1 DEF BaudInv
  <2> QED BY <2>1, <2>3, <2>4, BaudSame
<1>6. CASE cfg_start
  <2>1. event.op \in EarlyOps /\ event' = NoEvent /\ UNCHANGED <<host_baud, c_baud>>
    BY <1>6 DEF cfg_start, Handles, EarlyOps, ctrlvars
  <2>2. host_baud' = c_baud' /\ cmd.op = "none"
    BY <2>1 DEF BaudInv, EarlyOps, DownloadInv, OneUnderWay
  <2>3. \/ UNCHANGED cmd
        \/ \E i, code : start_download(i, code)
    BY <1>6 DEF cfg_start
  <2>4. CASE UNCHANGED cmd BY <2>1, <2>2, <2>4, BaudSame
  <2>5. ASSUME NEW i, NEW code, start_download(i, code) PROVE BaudInv'
    <3>1. \/ cmd' = NoCmd
          \/ cmd' = Command("UPDATE_BAUDRATE") /\ baudrate' # "none"
          \/ baudrate' = "none" /\ \E f : cmd' = fragment(f, 0)
      <4>1. CASE abort(i.buf, i.len) BY <4>1 DEF abort
      <4>2. CASE code # "none" /\ xmit_or_abort(Command("UPDATE_BAUDRATE"), "SET_UART_BAUD_HOST", i.buf, i.len)
        BY <2>5, <4>2, XmitOrAbort DEF start_download
      <4>3. CASE code = "none" /\ download(fragments(i.len["total"]), 0, i.buf, i.len)
        <5> DEFINE f == fragments(i.len["total"])
        <5>1. xmit_or_abort(fragment(f, 0), "DL_FW_PATCH", i.buf, i.len) /\ baudrate' = "none"
          BY <2>5, <4>3 DEF download, start_download
        <5> HIDE DEF f
        <5> QED BY <5>1, XmitOrAbort
      <4> QED BY <2>5, <4>1, <4>2, <4>3 DEF start_download
    <3>2. CASE cmd' = NoCmd BY <1>a, <2>1, <3>2, BaudSame
    <3>3. CASE cmd' = Command("UPDATE_BAUDRATE") /\ baudrate' # "none"
      <4>1. cmd'.op = "UPDATE_BAUDRATE" BY <1>0, <3>3 DEF Ops
      <4> QED BY <1>a, <2>1, <3>3, <4>1 DEF BaudInv, EarlyOps
    <3>4. CASE baudrate' = "none" /\ \E f : cmd' = fragment(f, 0)
      <4>1. cmd'.op = "DOWNLOAD" /\ Agreed' BY <1>b, <2>2, <3>4 DEF Agreed
      <4> QED BY <2>1, <4>1, BaudSame
    <3> QED BY <3>1, <3>2, <3>3, <3>4
  <2> QED BY <2>3, <2>4, <2>5
<1>7. CASE cback_set_uart_baud_host
  <2>1. /\ event.op = "UPDATE_BAUDRATE" /\ event.status = 0 /\ event' = NoEvent
        /\ host_baud' = HostSpeed(baudrate) /\ UNCHANGED <<c_baud, baudrate>>
        /\ download(frag, 0, buf, len)
    BY <1>7 DEF cback_set_uart_baud_host, Handles, userial_vendor_set_baud, HostSpeed, ctrlvars
  <2>2. baudrate # "none" /\ c_baud = ctrl_speed(baudrate) BY <2>1 DEF BaudInv
  <2>3. HostSpeed(baudrate) = IF HostKnows(baudrate) THEN ctrl_speed(baudrate) ELSE 115200
    BY SpeedsAgree
  <2>4. Agreed'
    <3>1. HostKnows(baudrate') <=> HostKnows(baudrate) BY <2>1 DEF HostKnows
    <3> QED BY <2>1, <2>2, <2>3, <3>1 DEF Agreed
  <2>5. cmd'.op \in {"DOWNLOAD", "none"} BY <1>a, <1>b, <2>1, XmitOrAbort DEF download
  <2> QED BY <2>1, <2>4, <2>5, BaudSame
<1>8. CASE cback_dl_fw_patch
  <2>1. event.op = "DOWNLOAD" /\ event' = NoEvent /\ UNCHANGED <<host_baud, c_baud, baudrate>>
        /\ download(next_idx, event.index, buf, len)
    BY <1>8 DEF cback_dl_fw_patch, Handles, same, ctrlvars
  <2>2. Agreed' BY <2>1 DEF BaudInv, Agreed, HostKnows
  <2>3. cmd'.op \in {"DOWNLOAD", "none"} BY <1>a, <1>b, <2>1, XmitOrAbort DEF download
  <2> QED BY <2>1, <2>2, <2>3, BaudSame
<1>9. CASE cback_dl_fw_done
  <2>1. cmd' = NoCmd /\ event' = NoEvent BY <1>9 DEF cback_dl_fw_done, Handles
  <2> QED BY <1>a, <2>1, BaudSame
<1>10. CASE ctrl_answer
  <2>1. PICK status \in 0..2 :
          /\ event'.op = cmd.op /\ event'.status = status
          /\ c_baud' = IF status = 0 /\ cmd.op = "UPDATE_BAUDRATE" THEN ctrl_speed(baudrate) ELSE c_baud
    BY <1>10 DEF ctrl_answer
  <2>2. cmd' = NoCmd /\ UNCHANGED <<host_baud, baudrate>> BY <1>10 DEF ctrl_answer, cfgvars
  <2> QED BY <1>a, <2>1, <2>2 DEF BaudInv, Agreed, HostKnows, EarlyOps
<1> QED BY <1>1, <1>2, <1>3, <1>4, <1>5, <1>6, <1>7, <1>8, <1>9, <1>10 DEF Next, Callback

\* Whenever a fragment is sent, the host is at the controller's speed if the configuration names
\* none or one the host knows, and at 115200 for any other code of 32 bits.
THEOREM BaudCorrect == Spec => []BaudAgree
<1>1. Spec => []DownloadInv
  BY DownloadInit, DownloadNext, PTL DEF Spec
<1>2. Init => BaudInv BY DEF Init, BaudInv, NoCmd, NoEvent, EarlyOps
<1>3. DownloadInv /\ BaudInv /\ [Next]_vars => BaudInv' BY BaudStep
<1>4. BaudInv => BaudAgree BY DEF BaudInv, BaudAgree, Agreed
<1> QED BY <1>1, <1>2, <1>3, <1>4, PTL DEF Spec

-----------------------------------------------------------------------------
(* Types.                                                                  *)

FragSet ==
  [cnt : 0..(CountMod - 1), idx : 0..(CountMod - 1), tail : 0..FragMax, len : 0..FragMax]

CmdType(c) ==
  c.index \in 0..IndexMod /\ c.bit7 \in {0, 128} /\ c.from \in Nat /\ c.size \in 0..FragMax

\* What DownloadInv and BufferInv leave open.
TypeInv ==
  /\ state \in States /\ alive \in {"running", "killed", "fault"}
  /\ frag \in FragSet /\ CmdType(cmd)
  /\ event.status \in 0..2 /\ event.bit7 \in {0, 128}
  /\ starts <= MaxStarts

\* A command without data.
LEMMA PlainType ==
  /\ CmdType(NoCmd)
  /\ \A op : CmdType(Command(op))
  /\ NoEvent.status \in 0..2 /\ NoEvent.bit7 \in {0, 128}
BY FragAssumption DEF CmdType, NoCmd, Command, NoEvent

\* Cutting up an image does not leave the bytes of the counters.
LEMMA FragmentsType ==
  ASSUME NEW total \in Nat, total > 0, total <= MaxPatch
  PROVE  fragments(total) \in FragSet /\ fragments(total).idx < fragments(total).cnt
<1>1. /\ CutUp(fragments(total), total) /\ fragments(total).idx = 0
      /\ FragType(fragments(total)) /\ fragments(total).len = 0
  BY FragmentsCutUp DEF fragments
<1> QED BY <1>1, FragAssumption DEF CutUp, FragType, FragSet

\* Nor does sending one of its fragments.
LEMMA FragmentType ==
  ASSUME NEW f \in FragSet, f.idx < f.cnt, NEW rx
  PROVE  CmdType(fragment(f, rx)) /\ [f EXCEPT !.len = fragment(f, rx).size] \in FragSet
<1>1. f.idx \in Nat /\ f.cnt \in Nat /\ f.tail \in 0..FragMax BY FragAssumption DEF FragSet
<1>2. f.idx * FragMax \in Nat BY <1>1, FragAssumption
<1>3. fragment_index(f.idx) \in 0..IndexMod
  <2>1. CASE f.idx = 0 BY <2>1, FragAssumption DEF fragment_index
  <2>2. CASE f.idx # 0
    <3>1. (f.idx - 1) % IndexMod \in 0..(IndexMod - 1) BY <1>1, <2>2, FragAssumption
    <3> QED BY <2>2, <3>1, FragAssumption DEF fragment_index
  <2> QED BY <2>1, <2>2
<1>4. CmdType(fragment(f, rx)) BY <1>1, <1>2, <1>3, FragAssumption DEF CmdType, fragment
<1>5. fragment(f, rx).size \in 0..FragMax BY <1>4 DEF CmdType
<1> QED BY <1>4, <1>5 DEF FragSet

\* A callback that ends by sending a command or aborting.
LEMMA XmitType ==
  ASSUME TypeInv, event' = NoEvent, UNCHANGED starts, alive' \in {"running", "killed", "fault"},
         NEW c, NEW next \in States, NEW b, NEW l, CmdType(c), xmit_or_abort(c, next, b, l), frag' \in FragSet
  PROVE  TypeInv'
<1>1. cmd' \in {c, NoCmd} /\ state' \in States BY DEF xmit_or_abort, abort, States
<1> QED BY <1>1, PlainType DEF TypeInv

\* A fragment.
LEMMA DownloadType ==
  ASSUME TypeInv, event' = NoEvent, UNCHANGED <<starts, alive>>,
         NEW f \in FragSet, f.idx < f.cnt, NEW rx, NEW b, NEW l, download(f, rx, b, l)
  PROVE  TypeInv'
<1>1. alive' \in {"running", "killed", "fault"} BY DEF TypeInv
<1>2. "DL_FW_PATCH" \in States BY DEF States
<1>3. CmdType(fragment(f, rx)) /\ frag' \in FragSet BY FragmentType DEF download
<1>4. xmit_or_abort(fragment(f, rx), "DL_FW_PATCH", b, l) BY DEF download
<1> QED BY <1>1, <1>2, <1>3, <1>4, XmitType

\* Every step keeps TypeInv.
LEMMA TypeStep == ASSUME DownloadInv, TypeInv, [Next]_vars PROVE TypeInv'
<1>1. CASE UNCHANGED vars
  BY <1>1 DEF vars, cfgvars, TypeInv, CmdType
<1>2. CASE hw_config_start
  <2>1. /\ starts < MaxStarts /\ starts' = starts + 1 /\ starts \in Nat /\ frag' = NoFrag
        /\ event' = NoEvent /\ UNCHANGED alive
    BY <1>2 DEF hw_config_start, DownloadInv, DataTypes
  <2>2. \/ (\E op : cmd' = Command(op)) /\ state' \in States
        \/ cmd' = NoCmd /\ state' \in States
    BY <1>2 DEF hw_config_start, States
  <2>3. NoFrag \in FragSet BY FragAssumption DEF NoFrag, FragSet
  <2> QED BY <2>1, <2>2, <2>3, PlainType, EnvAssumption DEF TypeInv
<1>3. CASE cback_h5_init_failed
  <2>1. /\ event' = NoEvent /\ alive' \in {"killed", alive} /\ UNCHANGED <<cmd, state, frag, starts>>
    BY <1>3 DEF cback_h5_init_failed, cfgvars
  <2> QED BY <2>1, PlainType DEF TypeInv
<1>4. CASE cback_abort
  <2>1. /\ event' = NoEvent /\ cmd' = NoCmd /\ state' = "0" /\ UNCHANGED <<frag, starts, alive>>
    BY <1>4 DEF cback_abort, abort, same
  <2> QED BY <2>1, PlainType DEF TypeInv, States
<1>5. CASE cback_h5_init \/ cback_read_local_ver \/ cback_read_eco_ver
  <2>1. event' = NoEvent /\ UNCHANGED <<starts, alive, frag>>
    BY <1>5 DEF cback_h5_init, cback_read_local_ver, cback_read_eco_ver, Handles, same
  <2>2. PICK op \in Ops, next \in States : xmit_or_abort(Command(op), next, buf, len)
    BY <1>5 DEF cback_h5_init, cback_read_local_ver, cback_read_eco_ver, States, Ops
  <2>3. alive' \in {"running", "killed", "fault"} /\ frag' \in FragSet BY <2>1 DEF TypeInv
  <2> DEFINE c == Command(op)
  <2>4. CmdType(c) /\ xmit_or_abort(c, next, buf, len) BY <2>2, PlainType
  <2> HIDE DEF c
  <2> QED BY <2>1, <2>3, <2>4, XmitType
<1>6. CASE cfg_start
  <2>1. event' = NoEvent /\ UNCHANGED starts BY <1>6 DEF cfg_start, Handles
  <2>2. \/ alive' = "fault" /\ UNCHANGED <<state, frag, cmd>>
        \/ /\ UNCHANGED alive
           /\ \E total \in PatchSizes : \E config, clen, old, code :
                \E i \in Images(config, clen, old, total) : start_download(i, code)
    BY <1>6 DEF cfg_start
  <2>3. CASE alive' = "fault" /\ UNCHANGED <<state, frag, cmd>>
    BY <2>1, <2>3, PlainType DEF TypeInv
  <2>4. ASSUME UNCHANGED alive, NEW total \in PatchSizes, NEW config, NEW clen, NEW old, NEW code,
               NEW i \in Images(config, clen, old, total), start_download(i, code)
        PROVE  TypeInv'
    <3>1. i.len["total"] \in Nat BY PatchAssumption DEF Images
    <3>2. CASE abort(i.buf, i.len) /\ UNCHANGED frag
      <4>1. cmd' = NoCmd /\ state' = "0" BY <3>2 DEF abort
      <4> QED BY <2>1, <2>4, <3>2, <4>1, PlainType DEF TypeInv, States
    <3>3. CASE ~(abort(i.buf, i.len) /\ UNCHANGED frag)
      <4>1. i.len["total"] > 0 /\ i.len["total"] <= MaxPatch
        BY <2>4, <3>1, <3>3, PatchAssumption DEF start_download, patch_fits
      <4> DEFINE f == fragments(i.len["total"])
      <4>2. f \in FragSet /\ f.idx < f.cnt BY <3>1, <4>1, FragmentsType
      <4>3. \/ frag' = f /\ xmit_or_abort(Command("UPDATE_BAUDRATE"), "SET_UART_BAUD_HOST", i.buf, i.len)
            \/ download(f, 0, i.buf, i.len)
        BY <2>4, <3>3 DEF start_download
      <4> HIDE DEF f
      <4>4. CASE frag' = f /\ xmit_or_abort(Command("UPDATE_BAUDRATE"), "SET_UART_BAUD_HOST", i.buf, i.len)
        <5>1. "SET_UART_BAUD_HOST" \in States BY DEF States
        <5>2. CmdType(Command("UPDATE_BAUDRATE")) BY PlainType
        <5>3. alive' \in {"running", "killed", "fault"} /\ frag' \in FragSet BY <2>4, <4>2, <4>4 DEF TypeInv
        <5> QED BY <2>1, <4>4, <5>1, <5>2, <5>3, XmitType
      <4>5. CASE download(f, 0, i.buf, i.len)
        BY <2>1, <2>4, <4>2, <4>5, DownloadType
      <4> QED BY <4>3, <4>4, <4>5
    <3> QED BY <3>2, <3>3
  <2> QED BY <2>2, <2>3, <2>4
<1>7. CASE cback_set_uart_baud_host
  <2>1. event.op = "UPDATE_BAUDRATE" /\ event' = NoEvent /\ UNCHANGED <<starts, alive>>
        /\ download(frag, 0, buf, len)
    BY <1>7 DEF cback_set_uart_baud_host, Handles
  <2>2. frag \in FragSet /\ frag.idx < frag.cnt
    BY <2>1 DEF DownloadInv, NothingSent, CutUp, TypeInv
  <2> QED BY <2>1, <2>2, DownloadType
<1>8. ASSUME cback_dl_fw_patch \/ cback_dl_fw_done PROVE TypeInv'
  <2>1. event.op = "DOWNLOAD" /\ event.status = 0 /\ event' = NoEvent /\ UNCHANGED <<starts, alive>>
    BY <1>8 DEF cback_dl_fw_patch, cback_dl_fw_done, Handles, same
  <2>2. (frag.idx + 1) % CountMod \in 0..(CountMod - 1)
    BY FragAssumption DEF TypeInv, FragSet
  <2>3. next_idx \in FragSet BY <2>2 DEF next_idx, TypeInv, FragSet
  <2>4. CASE cback_dl_fw_patch
    <3>1. event.bit7 = 0 /\ download(next_idx, event.index, buf, len) BY <2>4 DEF cback_dl_fw_patch
    <3>2. next_idx.idx < next_idx.cnt BY <2>1, <3>1, NextFragment
    <3> QED BY <2>1, <2>3, <3>1, <3>2, DownloadType
  <2>5. CASE cback_dl_fw_done
    <3>1. frag' = next_idx /\ cmd' = NoCmd /\ state' = "0" BY <2>5 DEF cback_dl_fw_done
    <3> QED BY <2>1, <2>3, <3>1, PlainType DEF TypeInv, States
  <2> QED BY <1>8, <2>4, <2>5
<1>9. CASE ctrl_answer
  <2>1. /\ event'.status \in 0..2 /\ event'.bit7 = cmd.bit7 /\ cmd' = NoCmd
        /\ UNCHANGED <<state, alive, frag, starts>>
    BY <1>9 DEF ctrl_answer, cfgvars
  <2> QED BY <2>1, PlainType DEF TypeInv, CmdType
<1> QED BY <1>1, <1>2, <1>3, <1>4, <1>5, <1>6, <1>7, <1>8, <1>9 DEF Next, Callback

\* config_file is what CFG_START met.
FileType == config_file \in ConfigFiles \cup {"none"}

\* Every step keeps it.
LEMMA FileStep == ASSUME FileType, [Next]_vars PROVE FileType'
<1>1. CASE UNCHANGED config_file BY <1>1 DEF FileType
<1>2. CASE cfg_start BY <1>2 DEF cfg_start, FileType
<1>3. CASE hw_config_start BY <1>3 DEF hw_config_start, FileType
<1> QED BY <1>1, <1>2, <1>3
  DEF Next, Callback, vars, cfgvars, same, cback_h5_init_failed, cback_abort, cback_h5_init,
      cback_read_local_ver, cback_read_eco_ver, cback_set_uart_baud_host, cback_dl_fw_patch,
      cback_dl_fw_done, ctrl_answer

\* Types: patch_frag_cnt and patch_frag_idx stay within their bytes and a fragment within the buffer
\* of its command, although the counters are computed modulo CountMod.
THEOREM TypeCorrect == Spec => []TypeOK
<1>1. Spec => []DownloadInv
  BY DownloadInit, DownloadNext, PTL DEF Spec
<1>2. Spec => []BufferInv
  BY <1>1, BufferInit, BufferStep, PTL DEF Spec
<1>3. Init => TypeInv
  BY PlainType, FragAssumption, EnvAssumption DEF Init, TypeInv, States, NoFrag, FragSet
<1>4. DownloadInv /\ TypeInv /\ [Next]_vars => TypeInv' BY TypeStep
<1>6. Spec => []FileType
  <2>1. Init => FileType BY DEF Init, FileType
  <2>2. FileType /\ [Next]_vars => FileType' BY FileStep
  <2> QED BY <2>1, <2>2, PTL DEF Spec
<1>5. DownloadInv /\ BufferInv /\ TypeInv /\ FileType => TypeOK
  BY EnvAssumption
  DEF FileType, DownloadInv, DataTypes, BufferInv, Sound, BufStates, TypeInv, CmdType, FragSet, TypeOK
<1> QED BY <1>1, <1>2, <1>3, <1>4, <1>5, <1>6, PTL DEF Spec
=============================================================================
