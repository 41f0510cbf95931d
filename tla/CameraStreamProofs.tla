------------------------- MODULE CameraStreamProofs -------------------------
(***************************************************************************)
(* Proofs about CameraStream, for any number of cameras and buffers: the   *)
(* types, that streams, thread and epoll set agree, that a buffer has one  *)
(* owner and is not lost, and that map and driver agree.                   *)
(***************************************************************************)
EXTENDS CameraStream, FiniteSetTheorems, SequenceTheorems, TLAPS

\* Every buffer is a buffer of the camera it is kept for: what TypeOK says of the indices,
\* for each camera.
BuffersOwn ==
  /\ queueBuffers_ \in [Cameras -> SUBSET Index] /\ app \in [Cameras -> SUBSET Index]
  /\ queued \in [Cameras -> SUBSET Index] /\ done \in [Cameras -> Seq(Index)]
  /\ asked \in [Callers -> Frames] /\ got \in Frames
  /\ \A c \in Cameras :
       /\ queueBuffers_[c] \subseteq Buffers[c] /\ app[c] \subseteq Buffers[c]
       /\ queued[c] \subseteq Buffers[c] /\ done[c] \in Seq(Buffers[c])

\* The places of StartStream and StopStream, and those of loopBuffers.
Busy == {"spawn", "count", "join", "off"}
CtlType ==
  \/ ctl = Idle
  \/ \E c \in Cameras :
       \/ ctl \in {In("start", c, "spawn"), In("start", c, "count")}
       \/ ctl \in {In("stop", c, "join"), In("stop", c, "off")}
Loops == {"none", "test", "wait", "events", "lookup", "erase", "exit"}

\* A caller holds the lock exactly while it queues, loopBuffers exactly during the callback.
LockHeld ==
  /\ bufferLock_ \in Callers \cup {"none", "loop"}
  /\ \A t \in Callers : asked[t] # NoFrame <=> bufferLock_ = t
  /\ loop = "erase" <=> bufferLock_ = "loop"

\* loopBuffers has a frame between VIDIOC_DQBUF and the erase.
FrameInHand == loop \in {"lookup", "erase"} => got \in Frame

\* Sets of cameras.
CamerasOk ==
  /\ fdMatch \subseteq Cameras /\ requested \subseteq Cameras /\ on \subseteq Cameras
  /\ events \subseteq Cameras
\* Streams, count, epoll set and thread at every place of StartStream and StopStream, also
\* after calls that have failed half-way.
StreamsInv ==
  /\ streams \subseteq Cameras
  /\ IsFiniteSet(streams) /\ streamNumber_ = Cardinality(streams)
  /\ epoll \subseteq on /\ streams \cap on \subseteq epoll
  /\ ctl.at \in {"spawn", "count"} => ctl.camera \in epoll
  /\ ctl # Idle => ctl.camera \notin streams
  /\ ctl.at \in {"spawn", "join"} => streams = {}
  /\ loop \in Loops
  /\ loop = "none" => streams = {} /\ ctl.at \in {"idle", "spawn"}
  /\ streams = {} /\ ctl.at \in {"idle", "spawn", "off"} => loop \in {"none", "exit"}

\* The flags of the thread, which exists exactly while streamThread_ is set.
Flags ==
  /\ streamThread_ \in BOOLEAN /\ myBuffers_ \in BOOLEAN /\ eventFd_ \in BOOLEAN
  /\ dequeueBuffer_ \in BOOLEAN
  /\ streamThread_ <=> loop # "none"

StreamPart == CtlType /\ CamerasOk /\ StreamsInv

\* During the callback the upper layer has the buffer.
HandedOver == loop = "erase" => got[2] \in app[got[1]]

\* The driver has a buffer once.
DriverOnce ==
  /\ \A c \in Cameras : queued[c] \cap Filled(c) = {}
  /\ \A c \in Cameras : \A i, j \in 1..Len(done[c]) : done[c][i] = done[c][j] => i = j

\* A buffer that loopBuffers has taken out of the driver is back there before its entry is
\* erased, or with the upper layer before its lookup, only if it was given back early.
HeldOnce ==
  /\ loop \in {"lookup", "erase"} /\ got[2] \in Has(got[1]) => got[2] \in early[got[1]]
  /\ loop = "lookup" /\ got[2] \in app[got[1]] /\ got[2] \notin Pending(got[1])
       => got[2] \in early[got[1]]

\* The inductive invariant of the types, the streams and the owners.
EarlyType == early \in [Cameras -> SUBSET Index]
OwnInv ==
  StreamPart /\ Flags /\ BuffersOwn /\ LockHeld /\ FrameInHand /\ HandedOver /\ OneOwner /\ EarlyType

-----------------------------------------------------------------------------
(* Streams, thread and epoll set.                                          *)

\* The places of StartStream and StopStream.
LEMMA Places ==
  ASSUME CtlType
  PROVE  /\ ctl.at \in {"idle"} \cup Busy
         /\ ctl = Idle <=> ctl.at = "idle"
         /\ ctl # Idle => ctl.camera \in Cameras
         /\ ctl.at \in {"spawn", "count"} => ctl = In("start", ctl.camera, ctl.at)
         /\ ctl.at \in {"join", "off"} => ctl = In("stop", ctl.camera, ctl.at)
  BY DEF CtlType, Idle, In, Busy

\* Steps that start and stop nothing and leave the thread running, if it runs.
LEMMA StreamQuiet ==
  ASSUME StreamPart, UNCHANGED <<streams, streamNumber_, epoll, on, ctl>>, CamerasOk',
         \/ UNCHANGED loop
         \/ loop \notin {"none", "exit"} /\ loop' \in Loops \ {"none"}
  PROVE  StreamPart'
<1>1. CtlType' BY DEF StreamPart, CtlType
<1> QED BY <1>1 DEF StreamPart, StreamsInv, Loops

\* Counting streams: none, one less, one more.
LEMMA Counting ==
  ASSUME NEW S, IsFiniteSet(S)
  PROVE  /\ Cardinality(S) \in Nat
         /\ Cardinality(S) = 0 <=> S = {}
         /\ \A c : c \notin S => /\ IsFiniteSet(S \cup {c})
                                 /\ Cardinality(S \cup {c}) = Cardinality(S) + 1
         /\ \A c \in S : /\ IsFiniteSet(S \ {c})
                         /\ Cardinality(S \ {c}) = Cardinality(S) - 1
                         /\ Cardinality(S) = 1 <=> S \ {c} = {}
<1>1. Cardinality(S) \in Nat /\ (Cardinality(S) = 0 <=> S = {})
  BY FS_CardinalityType, FS_EmptySet
<1>2. ASSUME NEW c, c \notin S
      PROVE  IsFiniteSet(S \cup {c}) /\ Cardinality(S \cup {c}) = Cardinality(S) + 1
  BY <1>2, FS_AddElement
<1>3. ASSUME NEW c \in S
      PROVE  /\ IsFiniteSet(S \ {c})
             /\ Cardinality(S \ {c}) = Cardinality(S) - 1
             /\ Cardinality(S) = 1 <=> S \ {c} = {}
  <2>1. IsFiniteSet(S \ {c}) /\ Cardinality(S \ {c}) = Cardinality(S) - 1
    BY FS_RemoveElement
  <2>2. Cardinality(S \ {c}) = 0 <=> S \ {c} = {}
    BY <2>1, FS_EmptySet
  <2> QED BY <1>1, <2>1, <2>2
<1> QED BY <1>1, <1>2, <1>3

\* What starting and stopping does to the streams.
LEMMA StreamStart == ASSUME StreamPart, NEW c \in Cameras, StartStream(c) PROVE StreamPart'
<1>1. /\ ctl = Idle /\ c \notin streams /\ on' = on \cup {c}
      /\ UNCHANGED <<fdMatch, requested, events, streams, streamNumber_, loop>>
  BY DEF StartStream, Free, Others, loop_vars
<1>2. CamerasOk' BY <1>1 DEF StreamPart, CamerasOk
<1>3. streamNumber_ = 0 <=> streams = {} BY Counting DEF StreamPart, StreamsInv
<1>4. CASE streamNumber_ = 0 /\ epoll' = {} /\ UNCHANGED ctl
  <2>1. CtlType' BY <1>4 DEF StreamPart, CtlType
  <2> QED BY <1>1, <1>2, <1>3, <1>4, <2>1 DEF StreamPart, StreamsInv, Idle
<1>5. CASE /\ epoll' = (IF streamNumber_ = 0 THEN {} ELSE epoll) \cup {c}
           /\ ctl' = In("start", c, IF streamNumber_ = 0 THEN "spawn" ELSE "count")
  <2>1. CtlType' BY <1>5 DEF CtlType
  <2>2. ctl' # Idle /\ ctl'.camera = c /\ ctl'.at = (IF streamNumber_ = 0 THEN "spawn" ELSE "count")
    BY <1>5 DEF Idle, In
  <2>3. epoll' \subseteq on' /\ streams' \cap on' \subseteq epoll' /\ c \in epoll'
    BY <1>1, <1>3, <1>5 DEF StreamPart, StreamsInv
  <2> QED BY <1>1, <1>2, <1>3, <2>1, <2>2, <2>3 DEF StreamPart, StreamsInv, Idle
<1> QED BY <1>4, <1>5 DEF StartStream, CreateEpoll

\* The first stream: the thread is created behind the epoll set, or it is not.
LEMMA StreamSpawn == ASSUME StreamPart, StartStream_spawn PROVE StreamPart'
<1>1. /\ ctl.at = "spawn" /\ events' = {}
      /\ \/ loop' = "test" /\ ctl' = [ctl EXCEPT !.at = "count"]
         \/ loop' = "none" /\ ctl' = Idle
      /\ UNCHANGED <<fdMatch, streamNumber_, epoll, streams, on, requested>>
  BY DEF StartStream_spawn, Others
<1>2. CamerasOk' BY <1>1 DEF StreamPart, CamerasOk
<1>3. ctl # Idle /\ ctl.camera \in Cameras /\ ctl = In("start", ctl.camera, "spawn") /\ streams = {}
  BY <1>1, Places DEF StreamPart, Idle, StreamsInv
<1>4. CASE loop' = "test" /\ ctl' = [ctl EXCEPT !.at = "count"]
  <2>1. ctl' = In("start", ctl.camera, "count") BY <1>3, <1>4 DEF In
  <2>2. CtlType' BY <1>3, <2>1 DEF CtlType
  <2>3. ctl' # Idle /\ ctl'.camera = ctl.camera /\ ctl'.at = "count" BY <2>1 DEF In, Idle
  <2> QED BY <1>1, <1>2, <1>3, <1>4, <2>2, <2>3 DEF StreamPart, StreamsInv, Loops
<1>5. CASE loop' = "none" /\ ctl' = Idle
  <2>1. CtlType' /\ ctl'.at = "idle" BY <1>5 DEF CtlType, Idle
  <2> QED BY <1>1, <1>2, <1>3, <1>5, <2>1 DEF StreamPart, StreamsInv, Loops
<1> QED BY <1>1, <1>4, <1>5

\* The count follows at the end of StartStream.
LEMMA StreamCount == ASSUME StreamPart, StartStream_count PROVE StreamPart'
<1>1. /\ ctl.at = "count" /\ streamNumber_' = streamNumber_ + 1 /\ streams' = streams \cup {ctl.camera}
      /\ ctl' = Idle /\ UNCHANGED <<fdMatch, epoll, loop, events, on, requested>>
  BY DEF StartStream_count, Others, loop_vars
<1>2. CamerasOk' BY <1>1 DEF StreamPart, CamerasOk
<1>3. ctl # Idle /\ ctl.camera \in Cameras /\ ctl.camera \notin streams /\ ctl.camera \in epoll
  BY <1>1, Places DEF StreamPart, Idle, StreamsInv
<1>4. CtlType' BY <1>1 DEF CtlType
<1>5. IsFiniteSet(streams') /\ Cardinality(streams') = Cardinality(streams) + 1
  BY <1>1, <1>3, Counting DEF StreamPart, StreamsInv
<1>6. ctl'.at = "idle" BY <1>1 DEF Idle
<1> QED BY <1>1, <1>2, <1>3, <1>4, <1>5, <1>6 DEF StreamPart, StreamsInv

\* StopStream counts down first.
LEMMA StreamStop == ASSUME StreamPart, NEW c \in Cameras, StopStream(c) PROVE StreamPart'
<1>1. /\ ctl = Idle /\ c \in streams /\ streamNumber_' = streamNumber_ - 1 /\ streams' = streams \ {c}
      /\ ctl' = In("stop", c, IF streamNumber_ = 1 THEN "join" ELSE "off")
      /\ UNCHANGED <<fdMatch, epoll, loop, events, on, requested>>
  BY DEF StopStream, Free, Others, loop_vars
<1>2. CamerasOk' BY <1>1 DEF StreamPart, CamerasOk
<1>3. CtlType' BY <1>1 DEF CtlType
<1>4. ctl' # Idle /\ ctl'.camera = c /\ ctl'.at = (IF streamNumber_ = 1 THEN "join" ELSE "off")
  BY <1>1 DEF Idle, In
<1>5. /\ IsFiniteSet(streams') /\ Cardinality(streams') = Cardinality(streams) - 1
      /\ streamNumber_ = 1 <=> streams' = {}
  BY <1>1, Counting DEF StreamPart, StreamsInv
<1>6. epoll' \subseteq on' /\ streams' \cap on' \subseteq epoll' BY <1>1 DEF StreamPart, StreamsInv
<1> QED BY <1>1, <1>2, <1>3, <1>4, <1>5, <1>6 DEF StreamPart, StreamsInv

\* The last stream: the thread is waited for.
LEMMA StreamJoin == ASSUME StreamPart, StopStream_join PROVE StreamPart'
<1>1. /\ ctl.at = "join" /\ loop = "exit" /\ ctl' = [ctl EXCEPT !.at = "off"]
      /\ UNCHANGED <<fdMatch, streamNumber_, epoll, loop, events, streams, on, requested>>
  BY DEF StopStream_join, Others, loop_vars
<1>2. CamerasOk' BY <1>1 DEF StreamPart, CamerasOk
<1>3. ctl # Idle /\ ctl.camera \in Cameras /\ ctl = In("stop", ctl.camera, "join")
  BY <1>1, Places DEF StreamPart, Idle
<1>4. ctl' = In("stop", ctl.camera, "off") BY <1>1, <1>3 DEF In
<1>5. CtlType' BY <1>3, <1>4 DEF CtlType
<1>6. ctl' # Idle /\ ctl'.camera = ctl.camera /\ ctl'.at = "off" BY <1>4 DEF In, Idle
<1> QED BY <1>1, <1>2, <1>3, <1>5, <1>6 DEF StreamPart, StreamsInv, Loops

\* The camera leaves the epoll set and the driver stops it, or nothing of that happens.
LEMMA StreamOff == ASSUME StreamPart, StopStream_off PROVE StreamPart'
<1>1. /\ ctl.at = "off" /\ ctl' = Idle
      /\ UNCHANGED <<fdMatch, streamNumber_, events, streams, requested>>
      /\ \/ UNCHANGED <<loop, epoll, on>>
         \/ /\ on' = on \ {ctl.camera}
            /\ IF streamNumber_ = 0 THEN loop' = "none" /\ epoll' = {}
               ELSE epoll' = epoll \ {ctl.camera} /\ UNCHANGED loop
  BY DEF StopStream_off, Others, EraseEpoll
<1>2. CamerasOk' BY <1>1 DEF StreamPart, CamerasOk
<1>3. ctl # Idle /\ ctl.camera \notin streams
  BY <1>1, Places DEF StreamPart, Idle, StreamsInv
<1>4. CtlType' BY <1>1 DEF CtlType
<1>5. streamNumber_ = 0 <=> streams = {} BY Counting DEF StreamPart, StreamsInv
<1>6. epoll' \subseteq on' /\ streams' \cap on' \subseteq epoll' BY <1>1, <1>3, <1>5 DEF StreamPart, StreamsInv
<1>7. ctl'.at = "idle" BY <1>1 DEF Idle
<1>8. /\ loop' \in Loops /\ (loop' = "none" => streams' = {})
      /\ streams' = {} => loop' \in {"none", "exit"}
  BY <1>1, <1>5 DEF StreamPart, StreamsInv, Loops
<1> QED BY <1>1, <1>2, <1>4, <1>6, <1>7, <1>8 DEF StreamPart, StreamsInv

\* The device is closed under a stream, or without one.
LEMMA StreamClose == ASSUME StreamPart, NEW c \in Cameras, stop(c) PROVE StreamPart'
<1>1. /\ ctl = Idle /\ fdMatch' = fdMatch \ {c} /\ requested' = requested \ {c}
      /\ on' = on \ {c} /\ epoll' = epoll \ {c}
      /\ UNCHANGED <<ctl, streamNumber_, streams, loop, events>>
  BY DEF stop, Free, Elsewhere, loop_vars
<1>2. CamerasOk' BY <1>1 DEF StreamPart, CamerasOk
<1>3. CtlType' BY <1>1 DEF CtlType
<1>4. ctl.at = "idle" BY <1>1 DEF Idle
<1> QED BY <1>1, <1>2, <1>3, <1>4 DEF StreamPart, StreamsInv

\* The steps of loopBuffers leave the streams alone and do not end the thread's record.
LEMMA LoopSteps ==
  ASSUME StreamPart, loopBuffers
  PROVE  /\ UNCHANGED <<dev_vars, ctl, streams, dequeueBuffer_, asked, requested, on, queued>>
         /\ CamerasOk'
         /\ loop \notin {"none", "exit"} /\ loop' \in Loops \ {"none"}
<1>0. CamerasOk /\ epoll \subseteq Cameras BY DEF StreamPart, StreamsInv, CamerasOk
<1>1. CASE loop_test
  BY <1>0, <1>1 DEF loop_test, buffer_vars, driver_vars, CamerasOk, Loops, dev_vars, client_vars
<1>2. CASE loop_wait
  <2>1. events' \subseteq epoll /\ loop = "wait" /\ loop' = "events" BY <1>2 DEF loop_wait, Ready
  <2>2. UNCHANGED <<dev_vars, ctl, streams, dequeueBuffer_, asked, requested, on, queued>>
    BY <1>2 DEF loop_wait, buffer_vars, driver_vars, client_vars
  <2> QED BY <1>0, <2>1, <2>2 DEF Loops, CamerasOk, dev_vars, client_vars
<1>3. CASE loop_next
  BY <1>0, <1>3 DEF loop_next, buffer_vars, driver_vars, CamerasOk, Loops, dev_vars, client_vars
<1>4. ASSUME NEW c \in Cameras, V4L2DequeueBuffer(c)
      PROVE  /\ UNCHANGED <<dev_vars, ctl, streams, dequeueBuffer_, asked, requested, on, queued>>
             /\ CamerasOk' /\ loop = "events" /\ loop' \in {"events", "lookup"}
  BY <1>0, <1>4 DEF V4L2DequeueBuffer, buffer_vars, CamerasOk, dev_vars, client_vars
<1>5. CASE V4L2DequeueBuffer_lookup
  <2>1. loop = "lookup" /\ loop' \in {"events", "erase"} BY <1>5 DEF V4L2DequeueBuffer_lookup
  <2> QED BY <1>0, <1>5, <2>1 DEF V4L2DequeueBuffer_lookup, driver_vars, CamerasOk, Loops, dev_vars, client_vars
<1>6. CASE V4L2DequeueBuffer_erase
  BY <1>0, <1>6 DEF V4L2DequeueBuffer_erase, driver_vars, CamerasOk, Loops, dev_vars, client_vars
<1> QED BY <1>1, <1>2, <1>3, <1>4, <1>5, <1>6 DEF loopBuffers, Loops

\* Calls and steps that have nothing to do with streams.
Aside ==
  \/ \E c \in Cameras : start(c) \/ ReqBuffers(c) \/ Flush(c) \/ ReleaseBuffers(c)
  \/ SetCallback
  \/ \E t \in Callers, f \in Frame : V4L2QueueBuffer(t, f[1], f[2])
  \/ \E t \in Callers : V4L2QueueBuffer_insert(t)
  \/ \E f \in Frame : driver_fills(f[1], f[2])

\* The disjuncts of Next, sorted by what they do to the streams.
LEMMA NextCases ==
  ASSUME Next
  PROVE  \/ \E c \in Cameras : StartStream(c)
         \/ StartStream_spawn
         \/ StartStream_count
         \/ \E c \in Cameras : StopStream(c)
         \/ StopStream_join
         \/ StopStream_off
         \/ \E c \in Cameras : stop(c)
         \/ loopBuffers
         \/ Aside
  BY Zenon DEF Next, Call, Starting, Stopping, Aside

\* The steps that have nothing to do with the streams.
LEMMA AsideSteps ==
  ASSUME CamerasOk, Aside
  PROVE  /\ UNCHANGED <<streams, streamNumber_, epoll, on, ctl, loop, got, streamThread_, eventFd_>>
         /\ CamerasOk'
<1>1. ASSUME NEW c \in Cameras, start(c) \/ ReqBuffers(c)
      PROVE  UNCHANGED <<streams, streamNumber_, epoll, on, ctl, loop, got, streamThread_, eventFd_>> /\ CamerasOk'
  BY <1>1 DEF start, ReqBuffers, Elsewhere, loop_vars, driver_vars, CamerasOk
<1>2. ASSUME NEW c \in Cameras, Flush(c) \/ ReleaseBuffers(c)
      PROVE  UNCHANGED <<streams, streamNumber_, epoll, on, ctl, loop, got, streamThread_, eventFd_>> /\ CamerasOk'
  BY <1>2 DEF Flush, ReleaseBuffers, dev_vars, client_vars, loop_vars, driver_vars, CamerasOk
<1>3. ASSUME SetCallback
      PROVE  UNCHANGED <<streams, streamNumber_, epoll, on, ctl, loop, got, streamThread_, eventFd_>> /\ CamerasOk'
  BY <1>3 DEF SetCallback, Elsewhere, loop_vars, driver_vars, CamerasOk
<1>4. ASSUME NEW t \in Callers, NEW f \in Frame,
             V4L2QueueBuffer(t, f[1], f[2]) \/ V4L2QueueBuffer_insert(t) \/ driver_fills(f[1], f[2])
      PROVE  UNCHANGED <<streams, streamNumber_, epoll, on, ctl, loop, got, streamThread_, eventFd_>> /\ CamerasOk'
  BY <1>4 DEF V4L2QueueBuffer, V4L2QueueBuffer_insert, driver_fills, dev_vars, client_vars, loop_vars, driver_vars, CamerasOk
<1>5. ASSUME NEW t \in Callers, V4L2QueueBuffer_insert(t)
      PROVE  UNCHANGED <<streams, streamNumber_, epoll, on, ctl, loop, got, streamThread_, eventFd_>> /\ CamerasOk'
  BY <1>5 DEF V4L2QueueBuffer_insert, dev_vars, client_vars, loop_vars, driver_vars, CamerasOk
<1>6. ASSUME NEW f \in Frame, driver_fills(f[1], f[2])
      PROVE  UNCHANGED <<streams, streamNumber_, epoll, on, ctl, loop, got, streamThread_, eventFd_>> /\ CamerasOk'
  BY <1>6 DEF driver_fills, dev_vars, client_vars, loop_vars, CamerasOk
<1> QED BY <1>1, <1>2, <1>3, <1>4, <1>5, <1>6 DEF Aside

\* Every step keeps StreamPart.
LEMMA StreamNext == ASSUME StreamPart, [Next]_vars PROVE StreamPart'
<1>0. CamerasOk BY DEF StreamPart
<1>1. CASE UNCHANGED vars
  <2>1. CamerasOk' BY <1>0, <1>1 DEF CamerasOk, vars, dev_vars, loop_vars, driver_vars
  <2> QED BY <1>1, <2>1, StreamQuiet DEF vars, dev_vars, loop_vars, client_vars, driver_vars
<1>2. CASE loopBuffers
  BY <1>0, <1>2, LoopSteps, StreamQuiet DEF dev_vars
<1>3. CASE Aside
  BY <1>0, <1>3, AsideSteps, StreamQuiet
<1> QED BY <1>1, <1>2, <1>3, NextCases, StreamStart, StreamSpawn, StreamCount, StreamStop, StreamJoin, StreamOff, StreamClose

-----------------------------------------------------------------------------
(* Flags.                                                                  *)

\* Every step keeps Flags: streamThread_ is set with the thread and reset with its end.
LEMMA FlagsNext == ASSUME StreamPart, Flags, [Next]_vars PROVE Flags'
<1>0. CamerasOk BY DEF StreamPart
<1>1. CASE UNCHANGED vars
  BY <1>1 DEF vars, Flags, dev_vars, buffer_vars, loop_vars
<1>2. CASE loopBuffers
  <2>1. /\ UNCHANGED <<streamThread_, myBuffers_, eventFd_, dequeueBuffer_>>
        /\ loop # "none" /\ loop' # "none"
    BY <1>2, LoopSteps DEF dev_vars
  <2> QED BY <2>1, Zenon DEF Flags
<1>3. CASE Aside
  <2>1. UNCHANGED <<streamThread_, eventFd_, loop>> BY <1>0, <1>3, AsideSteps
  <2>2. myBuffers_' \in {myBuffers_, TRUE} /\ dequeueBuffer_' \in {dequeueBuffer_, TRUE}
    BY <1>3 DEF Aside, start, ReqBuffers, Flush, ReleaseBuffers, SetCallback, V4L2QueueBuffer,
                V4L2QueueBuffer_insert, driver_fills, dev_vars, buffer_vars
  <2> QED BY <2>1, <2>2 DEF Flags
<1>4. ASSUME NEW c \in Cameras, StartStream(c) PROVE Flags'
  <2>1. UNCHANGED <<streamThread_, myBuffers_, dequeueBuffer_, loop>> /\ eventFd_' \in {eventFd_, FALSE}
    BY <1>4 DEF StartStream, CreateEpoll, Others, loop_vars, buffer_vars
  <2> QED BY <2>1 DEF Flags
<1>5. CASE StartStream_spawn
  <2>1. /\ \/ streamThread_' = TRUE /\ loop' = "test"
           \/ streamThread_' = FALSE /\ loop' = "none"
        /\ UNCHANGED <<myBuffers_, dequeueBuffer_, eventFd_>>
    BY <1>5 DEF StartStream_spawn, Others, buffer_vars
  <2> QED BY <2>1, Zenon DEF Flags
<1>6. CASE StartStream_count
  BY <1>6 DEF StartStream_count, Others, loop_vars, buffer_vars, Flags
<1>7. ASSUME NEW c \in Cameras, StopStream(c) PROVE Flags'
  <2>1. UNCHANGED <<streamThread_, myBuffers_, dequeueBuffer_, loop>> /\ eventFd_' \in {eventFd_, TRUE}
    BY <1>7 DEF StopStream, Others, loop_vars, buffer_vars
  <2> QED BY <2>1 DEF Flags
<1>8. CASE StopStream_join
  <2>1. UNCHANGED <<streamThread_, myBuffers_, dequeueBuffer_, loop>> /\ eventFd_' = FALSE
    BY <1>8 DEF StopStream_join, Others, loop_vars, buffer_vars
  <2> QED BY <2>1 DEF Flags
<1>9. CASE StopStream_off
  <2>1. UNCHANGED <<myBuffers_, dequeueBuffer_, eventFd_>> BY <1>9 DEF StopStream_off, Others, buffer_vars
  <2>2. \/ streamThread_' = FALSE /\ loop' = "none"
        \/ UNCHANGED <<streamThread_, loop>>
    BY <1>9 DEF StopStream_off
  <2>3. CASE streamThread_' = FALSE /\ loop' = "none" BY <2>1, <2>3, Zenon DEF Flags
  <2>4. CASE UNCHANGED <<streamThread_, loop>> BY <2>1, <2>4 DEF Flags
  <2> QED BY <2>2, <2>3, <2>4
<1>10. ASSUME NEW c \in Cameras, stop(c) PROVE Flags'
  BY <1>10 DEF stop, Elsewhere, loop_vars, Flags
<1> QED BY <1>1, <1>2, <1>3, <1>4, <1>5, <1>6, <1>7, <1>8, <1>9, <1>10, NextCases

-----------------------------------------------------------------------------
(* Who has a buffer.                                                       *)

BufferPart == BuffersOwn /\ LockHeld /\ FrameInHand /\ HandedOver /\ OneOwner
buffer_state == <<queueBuffers_, app, queued, done, asked, bufferLock_>>

\* A frame is a camera and one of its buffers; NoFrame is none.
LEMMA FrameFacts ==
  /\ \A f \in Frame : f = <<f[1], f[2]>> /\ f[1] \in Cameras /\ f[2] \in Buffers[f[1]] /\ f[2] \in Index /\ f # NoFrame
  /\ \A c \in Cameras : \A b \in Buffers[c] : <<c, b>> \in Frame /\ b \in Index
  /\ \A f \in Frames : f # NoFrame => f \in Frame
<1>1. \A c \in Cameras : \A b \in Buffers[c] : b \in Index BY DEF Index
<1>2. \A f \in Frame : f = <<f[1], f[2]>> /\ f[1] \in Cameras /\ f[2] \in Buffers[f[1]] /\ f[2] \in Index
  BY DEF Frame
<1>3. \A c, b : <<c, b>> # NoFrame BY DEF NoFrame
<1>4. \A c \in Cameras : \A b \in Buffers[c] : <<c, b>> \in Frame BY <1>1 DEF Frame
<1> QED BY <1>1, <1>2, <1>3, <1>4 DEF Frames

\* Steps that move no buffer.
LEMMA BufferQuiet ==
  ASSUME BufferPart, UNCHANGED buffer_state,
         \/ UNCHANGED <<loop, got>>
         \/ loop \notin {"lookup", "erase"} /\ loop' \notin {"lookup", "erase"} /\ got' \in {got, NoFrame}
  PROVE  BufferPart'
<1>1. BuffersOwn' BY DEF BufferPart, BuffersOwn, buffer_state, Frames
<1> QED BY <1>1 DEF BufferPart, LockHeld, FrameInHand, HandedOver, OneOwner, buffer_state

\* The two halves of V4L2QueueBuffer.
LEMMA BufferAsk ==
  ASSUME BufferPart, NEW t \in Callers, NEW c \in Cameras, NEW b \in Buffers[c], V4L2QueueBuffer(t, c, b)
  PROVE  BufferPart'
<1>1. /\ asked[t] = NoFrame /\ bufferLock_ = "none" /\ bufferLock_' = t
      /\ queued' = [queued EXCEPT ![c] = @ \cup {b}] /\ asked' = [asked EXCEPT ![t] = <<c, b>>]
      /\ UNCHANGED <<queueBuffers_, app, done, loop, got>>
  BY DEF V4L2QueueBuffer, loop_vars, client_vars
<1>2. <<c, b>> \in Frame /\ b \in Index /\ <<c, b>> # NoFrame BY FrameFacts
<1>3. BuffersOwn' BY <1>1, <1>2 DEF BufferPart, BuffersOwn, Frames
<1>4. LockHeld' BY <1>1, <1>2 DEF BufferPart, BuffersOwn, LockHeld, Callers
<1> QED BY <1>1, <1>3, <1>4 DEF BufferPart, FrameInHand, HandedOver, OneOwner

\* The second half: the entry is made and the lock given back.
LEMMA BufferInsert ==
  ASSUME BufferPart, NEW t \in Callers, V4L2QueueBuffer_insert(t)
  PROVE  BufferPart'
<1> DEFINE c == asked[t][1]  b == asked[t][2]
<1>1. /\ asked[t] # NoFrame /\ queueBuffers_' = [queueBuffers_ EXCEPT ![c] = @ \cup {b}]
      /\ app' = [app EXCEPT ![c] = @ \ {b}] /\ bufferLock_' = "none"
      /\ asked' = [asked EXCEPT ![t] = NoFrame] /\ UNCHANGED <<queued, done, loop, got>>
  BY DEF V4L2QueueBuffer_insert, loop_vars, driver_vars
<1>2. asked[t] \in Frame /\ bufferLock_ = t BY <1>1, FrameFacts DEF BufferPart, BuffersOwn, LockHeld
<1>3. c \in Cameras /\ b \in Buffers[c] /\ b \in Index BY <1>2, FrameFacts
<1> HIDE DEF c, b
<1>4. loop # "erase" BY <1>2 DEF BufferPart, LockHeld, Callers
<1>5. BuffersOwn' BY <1>1, <1>3 DEF BufferPart, BuffersOwn, Frames
<1>6. LockHeld' BY <1>1, <1>2, <1>4 DEF BufferPart, BuffersOwn, LockHeld, Callers
<1>7. OneOwner' BY <1>1, <1>3, <1>4 DEF BufferPart, BuffersOwn, OneOwner
<1> QED BY <1>1, <1>4, <1>5, <1>6, <1>7 DEF BufferPart, FrameInHand, HandedOver

\* V4L2DequeueBuffer.
LEMMA BufferDequeue ==
  ASSUME BufferPart, NEW c \in Cameras, V4L2DequeueBuffer(c)
  PROVE  BufferPart'
<1>1. /\ loop = "events" /\ UNCHANGED <<bufferLock_, queueBuffers_, asked, app, queued>>
      /\ \/ UNCHANGED <<loop, got, done>>
         \/ /\ done[c] # << >> /\ done' = [done EXCEPT ![c] = Tail(@)]
            /\ got' = <<c, Head(done[c])>> /\ loop' = "lookup"
  BY DEF V4L2DequeueBuffer, buffer_vars, client_vars
<1>2. CASE UNCHANGED <<loop, got, done>>
  BY <1>1, <1>2, BufferQuiet DEF buffer_state
<1>3. CASE /\ done[c] # << >> /\ done' = [done EXCEPT ![c] = Tail(@)]
           /\ got' = <<c, Head(done[c])>> /\ loop' = "lookup"
  <2>1. done[c] \in Seq(Buffers[c]) BY DEF BufferPart, BuffersOwn
  <2>2. Head(done[c]) \in Buffers[c] /\ Tail(done[c]) \in Seq(Buffers[c])
    BY <1>3, <2>1, HeadTailProperties
  <2>3. done[c] \in Seq(Index) BY DEF BufferPart, BuffersOwn
  <2>4. Tail(done[c]) \in Seq(Index) BY <1>3, <2>3, HeadTailProperties
  <2>5. got' \in Frame BY <1>3, <2>2, FrameFacts
  <2>6. BuffersOwn' BY <1>1, <1>3, <2>2, <2>4, <2>5 DEF BufferPart, BuffersOwn, Frames
  <2> QED BY <1>1, <1>3, <2>5, <2>6 DEF BufferPart, LockHeld, FrameInHand, HandedOver, OneOwner
<1> QED BY <1>1, <1>2, <1>3

\* The frame's entry is found under the lock and the callback given the buffer, or it is not found.
LEMMA BufferLookup == ASSUME BufferPart, V4L2DequeueBuffer_lookup PROVE BufferPart'
<1> DEFINE c == got[1]  b == got[2]
<1>1. /\ loop = "lookup" /\ bufferLock_ = "none" /\ UNCHANGED <<asked, queued, done>>
      /\ \/ loop' = "events" /\ got' = NoFrame /\ UNCHANGED <<bufferLock_, queueBuffers_, app>>
         \/ /\ queueBuffers_' = [queueBuffers_ EXCEPT ![c] = @ \ {b}]
            /\ loop' = "events" /\ got' = NoFrame /\ UNCHANGED <<bufferLock_, app>>
         \/ /\ bufferLock_' = "loop" /\ app' = [app EXCEPT ![c] = @ \cup {b}]
            /\ loop' = "erase" /\ UNCHANGED <<queueBuffers_, got>>
  BY DEF V4L2DequeueBuffer_lookup, driver_vars
<1>2. got \in Frame BY <1>1 DEF BufferPart, FrameInHand
<1>3. c \in Cameras /\ b \in Buffers[c] /\ b \in Index /\ got = <<c, b>> BY <1>2, FrameFacts
<1> HIDE DEF c, b
<1>4. \A d \in Cameras : app[d] \cap queueBuffers_[d] = {} BY <1>1 DEF BufferPart, OneOwner
<1>5. CASE loop' = "events" /\ got' = NoFrame /\ UNCHANGED <<bufferLock_, queueBuffers_, app>>
  <2>1. BuffersOwn' BY <1>1, <1>5 DEF BufferPart, BuffersOwn, Frames
  <2> QED BY <1>1, <1>4, <1>5, <2>1 DEF BufferPart, LockHeld, FrameInHand, HandedOver, OneOwner
<1>6. CASE /\ queueBuffers_' = [queueBuffers_ EXCEPT ![c] = @ \ {b}]
           /\ loop' = "events" /\ got' = NoFrame /\ UNCHANGED <<bufferLock_, app>>
  <2>1. BuffersOwn' BY <1>1, <1>3, <1>6 DEF BufferPart, BuffersOwn, Frames
  <2>2. OneOwner' BY <1>3, <1>4, <1>6 DEF BufferPart, BuffersOwn, OneOwner
  <2> QED BY <1>1, <1>6, <2>1, <2>2 DEF BufferPart, LockHeld, FrameInHand, HandedOver
<1>7. CASE /\ bufferLock_' = "loop" /\ app' = [app EXCEPT ![c] = @ \cup {b}]
           /\ loop' = "erase" /\ UNCHANGED <<queueBuffers_, got>>
  <2>1. BuffersOwn' BY <1>1, <1>3, <1>7 DEF BufferPart, BuffersOwn, Frames
  <2>2. OneOwner' BY <1>3, <1>4, <1>7 DEF BufferPart, BuffersOwn, OneOwner
  <2>3. HandedOver' BY <1>3, <1>7 DEF BufferPart, BuffersOwn, HandedOver, c, b
  <2>4. LockHeld' BY <1>1, <1>7 DEF BufferPart, LockHeld, Callers
  <2> QED BY <1>2, <1>7, <2>1, <2>2, <2>3, <2>4 DEF BufferPart, FrameInHand
<1> QED BY <1>1, <1>5, <1>6, <1>7

\* After the callback the entry goes, and the lock with it.
LEMMA BufferErase == ASSUME BufferPart, V4L2DequeueBuffer_erase PROVE BufferPart'
<1> DEFINE c == got[1]  b == got[2]
<1>1. /\ loop = "erase" /\ queueBuffers_' = [queueBuffers_ EXCEPT ![c] = @ \ {b}]
      /\ bufferLock_' = "none" /\ loop' = "events" /\ got' = NoFrame
      /\ UNCHANGED <<asked, app, queued, done>>
  BY DEF V4L2DequeueBuffer_erase, driver_vars, client_vars
<1>2. got \in Frame BY <1>1 DEF BufferPart, FrameInHand
<1>3. c \in Cameras /\ got = <<c, b>> BY <1>2, FrameFacts
<1> HIDE DEF c, b
<1>4. BuffersOwn' BY <1>1, <1>3 DEF BufferPart, BuffersOwn, Frames
<1>5. OneOwner' BY <1>1, <1>3 DEF BufferPart, BuffersOwn, OneOwner
<1>6. LockHeld' BY <1>1 DEF BufferPart, LockHeld, Callers
<1> QED BY <1>1, <1>4, <1>5, <1>6 DEF BufferPart, FrameInHand, HandedOver

\* Flush and ReleaseBuffers, which find the lock free.
LEMMA BufferFlush ==
  ASSUME BufferPart, NEW c \in Cameras, Flush(c) \/ ReleaseBuffers(c)
  PROVE  BufferPart'
<1>1. /\ bufferLock_ = "none" /\ queueBuffers_' = [queueBuffers_ EXCEPT ![c] = {}]
      /\ \/ app' = [app EXCEPT ![c] = @ \cup queueBuffers_[c]]
         \/ app' = [app EXCEPT ![c] = Buffers[c]]
      /\ UNCHANGED <<bufferLock_, asked, loop, got>>
      /\ \/ UNCHANGED <<queued, done>>
         \/ GivesUp(c)
  BY DEF Flush, ReleaseBuffers, loop_vars, driver_vars
<1>2. loop # "erase" BY <1>1 DEF BufferPart, LockHeld
<1>3. << >> \in Seq(Index) /\ \A d \in Cameras : << >> \in Seq(Buffers[d]) BY EmptySeq
<1>4. Buffers[c] \subseteq Index BY FrameFacts
<1>5. queued' \in [Cameras -> SUBSET Index] /\ done' \in [Cameras -> Seq(Index)]
      /\ \A d \in Cameras : queued'[d] \subseteq Buffers[d] /\ done'[d] \in Seq(Buffers[d])
  <2>1. CASE UNCHANGED <<queued, done>> BY <2>1 DEF BufferPart, BuffersOwn
  <2>2. CASE GivesUp(c)
    <3>1. queued \in [Cameras -> SUBSET Index] /\ done \in [Cameras -> Seq(Index)]
          /\ \A d \in Cameras : queued[d] \subseteq Buffers[d] /\ done[d] \in Seq(Buffers[d])
      BY DEF BufferPart, BuffersOwn
    <3>2. queued' = [queued EXCEPT ![c] = {}] /\ done' = [done EXCEPT ![c] = << >>] BY <2>2 DEF GivesUp
    <3>3. queued' \in [Cameras -> SUBSET Index] /\ \A d \in Cameras : queued'[d] \subseteq Buffers[d]
      BY <3>1, <3>2
    <3>4. done' \in [Cameras -> Seq(Index)] /\ \A d \in Cameras : done'[d] \in Seq(Buffers[d])
      BY <1>3, <3>1, <3>2
    <3> QED BY <3>3, <3>4
  <2> QED BY <1>1, <2>1, <2>2
<1>6. BuffersOwn'
  <2>1. /\ queueBuffers_ \in [Cameras -> SUBSET Index] /\ app \in [Cameras -> SUBSET Index]
        /\ asked' \in [Callers -> Frames] /\ got' \in Frames
        /\ \A d \in Cameras : queueBuffers_[d] \subseteq Buffers[d] /\ app[d] \subseteq Buffers[d]
    BY <1>1 DEF BufferPart, BuffersOwn
  <2>2. queueBuffers_' \in [Cameras -> SUBSET Index] /\ \A d \in Cameras : queueBuffers_'[d] \subseteq Buffers[d]
    BY <1>1, <2>1
  <2>3. app' \in [Cameras -> SUBSET Index] /\ \A d \in Cameras : app'[d] \subseteq Buffers[d]
    BY <1>1, <1>4, <2>1
  <2> QED BY <1>5, <2>1, <2>2, <2>3 DEF BuffersOwn
<1>7. OneOwner' BY <1>1, <1>2 DEF BufferPart, BuffersOwn, OneOwner
<1> QED BY <1>1, <1>2, <1>6, <1>7 DEF BufferPart, LockHeld, FrameInHand, HandedOver

\* The driver fills a buffer, or gives all of them up.
LEMMA BufferDriver ==
  ASSUME BufferPart, UNCHANGED <<queueBuffers_, app, asked, bufferLock_, got>>,
         UNCHANGED loop \/ (loop \notin {"lookup", "erase"} /\ loop' \notin {"lookup", "erase"}),
         NEW c \in Cameras, GivesUp(c) \/ \E b \in Buffers[c] : driver_fills(c, b)
  PROVE  BufferPart'
<1>1. BuffersOwn'
  <2>1. CASE GivesUp(c)
    <3>1. << >> \in Seq(Index) /\ \A d \in Cameras : << >> \in Seq(Buffers[d]) BY EmptySeq
    <3> QED BY <2>1, <3>1 DEF BufferPart, BuffersOwn, GivesUp
  <2>2. ASSUME NEW b \in Buffers[c], driver_fills(c, b) PROVE BuffersOwn'
    <3>1. b \in Index BY FrameFacts
    <3>2. done[c] \in Seq(Buffers[c]) /\ done[c] \in Seq(Index) BY DEF BufferPart, BuffersOwn
    <3>3. Append(done[c], b) \in Seq(Buffers[c]) /\ Append(done[c], b) \in Seq(Index)
      BY <3>1, <3>2, AppendProperties
    <3> QED BY <2>2, <3>3 DEF BufferPart, BuffersOwn, driver_fills
  <2> QED BY <2>1, <2>2
<1> QED BY <1>1 DEF BufferPart, LockHeld, FrameInHand, HandedOver, OneOwner

\* Every step keeps BufferPart; StreamPart says that a thread begins and ends without a frame.
LEMMA BufferNext == ASSUME StreamPart, BufferPart, [Next]_vars PROVE BufferPart'
<1>1. CASE UNCHANGED vars
  BY <1>1, BufferQuiet DEF vars, buffer_vars, driver_vars, loop_vars, client_vars, buffer_state
<1>2. CASE loopBuffers
  <2>1. CASE loop_test \/ loop_wait \/ loop_next
    <3>1. /\ UNCHANGED buffer_state /\ UNCHANGED got
          /\ loop \notin {"lookup", "erase"} /\ loop' \notin {"lookup", "erase"}
      BY <2>1 DEF loop_test, loop_wait, loop_next, buffer_vars, driver_vars, client_vars, buffer_state
    <3> QED BY <3>1, BufferQuiet
  <2> QED BY <1>2, <2>1, BufferDequeue, BufferLookup, BufferErase DEF loopBuffers
<1>3. CASE Aside
  <2>0. CamerasOk BY DEF StreamPart
  <2>1. ASSUME NEW c \in Cameras, start(c) \/ ReqBuffers(c) PROVE BufferPart'
    BY <2>1, BufferQuiet DEF start, ReqBuffers, Elsewhere, driver_vars, loop_vars, buffer_state
  <2>3. CASE SetCallback
    BY <2>3, BufferQuiet DEF SetCallback, Elsewhere, driver_vars, loop_vars, buffer_state
  <2>4. ASSUME NEW t \in Callers, NEW f \in Frame, V4L2QueueBuffer(t, f[1], f[2]) PROVE BufferPart'
    BY <2>4, FrameFacts, BufferAsk
  <2>5. ASSUME NEW f \in Frame, driver_fills(f[1], f[2]) PROVE BufferPart'
    <3>1. f[1] \in Cameras /\ f[2] \in Buffers[f[1]] BY FrameFacts
    <3>2. UNCHANGED <<queueBuffers_, app, asked, bufferLock_, got, loop>>
      BY <2>5 DEF driver_fills, buffer_vars, loop_vars, client_vars
    <3> QED BY <2>5, <3>1, <3>2, BufferDriver
  <2> QED BY <1>3, <2>1, <2>3, <2>4, <2>5, BufferFlush, BufferInsert DEF Aside
<1>4. ASSUME NEW c \in Cameras, StartStream(c) \/ StopStream(c) PROVE BufferPart'
  BY <1>4, BufferQuiet DEF StartStream, StopStream, Others, buffer_vars, loop_vars, buffer_state
<1>5. CASE StartStream_spawn
  <2>1. streams = {} /\ loop \in {"none", "exit"} BY <1>5 DEF StartStream_spawn, StreamPart, StreamsInv
  <2>2. loop' \in {"test", "none"} /\ got' = NoFrame /\ UNCHANGED buffer_state
    BY <1>5 DEF StartStream_spawn, Others, buffer_vars, buffer_state
  <2> QED BY <2>1, <2>2, BufferQuiet
<1>6. CASE StartStream_count \/ StopStream_join
  BY <1>6, BufferQuiet DEF StartStream_count, StopStream_join, Others, buffer_vars, loop_vars, buffer_state
<1>7. CASE StopStream_off
  <2>1. streamNumber_ = 0 <=> streams = {} BY Counting DEF StreamPart, StreamsInv
  <2>2. streamNumber_ = 0 => loop \in {"none", "exit"} BY <1>7, <2>1 DEF StopStream_off, StreamPart, StreamsInv
  <2>3. ctl.camera \in Cameras BY <1>7, Places DEF StopStream_off, StreamPart, Idle
  <2>4. /\ UNCHANGED <<queueBuffers_, app, asked, bufferLock_, got>>
        /\ UNCHANGED loop \/ (loop \notin {"lookup", "erase"} /\ loop' \notin {"lookup", "erase"})
        /\ (UNCHANGED <<loop, queued, done>>) \/ GivesUp(ctl.camera)
    BY <1>7, <2>2 DEF StopStream_off, Others, buffer_vars
  <2> QED BY <2>3, <2>4, BufferDriver, BufferQuiet DEF buffer_state
<1>8. ASSUME NEW c \in Cameras, stop(c) PROVE BufferPart'
  BY <1>8, BufferDriver DEF stop, Elsewhere, loop_vars
<1> QED BY <1>1, <1>2, <1>3, <1>4, <1>5, <1>6, <1>7, <1>8, NextCases

-----------------------------------------------------------------------------
(* Types, owners and streams.                                              *)

\* What was given back early stays a set of buffers.
LEMMA EarlyNext == ASSUME StreamPart, BufferPart, EarlyType, [Next]_vars PROVE EarlyType'
<1>1. \A c \in Cameras : Has(c) \subseteq Index
  <2>1. \A c \in Cameras : queued[c] \subseteq Index /\ done[c] \in Seq(Index) BY DEF BufferPart, BuffersOwn
  <2>2. \A c \in Cameras : Filled(c) \subseteq Index BY <2>1 DEF Filled
  <2> QED BY <2>1, <2>2 DEF Has
<1>2. \A c \in Cameras : InLoop(c) \subseteq Index /\ Out(c) \subseteq Index BY <1>1 DEF InLoop, Out
<1>3. \/ UNCHANGED early
      \/ \E c \in Cameras : early' = [early EXCEPT ![c] = @ \cap InLoop(c)]
      \/ \E c \in Cameras : early' = [early EXCEPT ![c] = Out(c)]
      \/ \E c \in Cameras : early' = [early EXCEPT ![c] = InLoop(c)]
      \/ early' = [early EXCEPT ![got[1]] = @ \cap Has(got[1])]
  <2>1. CASE UNCHANGED vars BY <2>1 DEF vars, client_vars
  <2>2. CASE loopBuffers
    BY <2>2 DEF loopBuffers, loop_test, loop_wait, loop_next, V4L2DequeueBuffer, V4L2DequeueBuffer_lookup,
                V4L2DequeueBuffer_erase, client_vars
  <2>3. CASE Aside
    BY <2>3 DEF Aside, start, ReqBuffers, Flush, ReleaseBuffers, SetCallback, V4L2QueueBuffer,
                V4L2QueueBuffer_insert, driver_fills, client_vars
  <2>4. ASSUME NEW c \in Cameras, StartStream(c) \/ StopStream(c) PROVE UNCHANGED early
    BY <2>4 DEF StartStream, StopStream
  <2>5. CASE StartStream_spawn \/ StartStream_count \/ StopStream_join
    BY <2>5 DEF StartStream_spawn, StartStream_count, StopStream_join
  <2>6. CASE StopStream_off
    <3>1. ctl.camera \in Cameras BY <2>6, Places DEF StopStream_off, StreamPart, Idle
    <3> QED BY <2>6, <3>1 DEF StopStream_off
  <2>7. ASSUME NEW c \in Cameras, stop(c) PROVE early' = [early EXCEPT ![c] = @ \cap InLoop(c)]
    BY <2>7 DEF stop
  <2> QED BY <2>1, <2>2, <2>3, <2>4, <2>5, <2>6, <2>7, NextCases
<1> QED BY <1>2, <1>3 DEF EarlyType

\* OwnInv holds before anything is called.
LEMMA OwnInit == Init => OwnInv
<1> SUFFICES ASSUME Init PROVE OwnInv
  OBVIOUS
<1>1. IsFiniteSet({}) /\ Cardinality({}) = 0 BY FS_EmptySet
<1>2. StreamPart BY <1>1 DEF Init, StreamPart, CtlType, CamerasOk, StreamsInv, Idle, Loops
<1>3. Flags BY DEF Init, Flags
<1>4. Buffers \in [Cameras -> SUBSET Index] BY BuffersAssumption, FrameFacts
<1>5. << >> \in Seq(Index) /\ \A d \in Cameras : << >> \in Seq(Buffers[d]) BY EmptySeq
<1>6. BuffersOwn BY <1>4, <1>5 DEF Init, BuffersOwn, Frames
<1> QED BY <1>2, <1>3, <1>6 DEF Init, OwnInv, LockHeld, FrameInHand, HandedOver, OneOwner, EarlyType, Callers

\* Every step keeps OwnInv.
LEMMA OwnNext == OwnInv /\ [Next]_vars => OwnInv'
  BY StreamNext, FlagsNext, BufferNext, EarlyNext DEF OwnInv, BufferPart

\* OwnInv is an invariant
LEMMA OwnAlways == Spec => []OwnInv
  BY OwnInit, OwnNext, PTL DEF Spec

\* and implies the types.
LEMMA OwnTypeOK == OwnInv => TypeOK
<1> SUFFICES ASSUME OwnInv PROVE TypeOK
  OBVIOUS
<1>1. ctl \in [call : {"none", "start", "stop"}, camera : Cameras \cup {"none"},
               at : {"idle", "spawn", "count", "join", "off"}]
  BY DEF OwnInv, StreamPart, CtlType, Idle, In
<1>2. streamNumber_ \in Nat BY Counting DEF OwnInv, StreamPart, StreamsInv
<1>3. epoll \subseteq Cameras BY DEF OwnInv, StreamPart, StreamsInv, CamerasOk
<1>4. /\ fdMatch \subseteq Cameras /\ events \subseteq Cameras /\ streams \subseteq Cameras
      /\ requested \subseteq Cameras /\ on \subseteq Cameras /\ loop \in Loops
  BY DEF OwnInv, StreamPart, StreamsInv, CamerasOk
<1>5. /\ bufferLock_ \in Callers \cup {"none", "loop"} /\ queueBuffers_ \in [Cameras -> SUBSET Index]
      /\ asked \in [Callers -> Frames] /\ got \in Frames /\ app \in [Cameras -> SUBSET Index]
      /\ queued \in [Cameras -> SUBSET Index] /\ done \in [Cameras -> Seq(Index)]
  BY DEF OwnInv, LockHeld, BuffersOwn
<1>6. streamThread_ \in BOOLEAN /\ myBuffers_ \in BOOLEAN /\ eventFd_ \in BOOLEAN /\ dequeueBuffer_ \in BOOLEAN
  BY DEF OwnInv, Flags
<1>7. early \in [Cameras -> SUBSET Index] BY DEF OwnInv, EarlyType
<1> QED BY <1>1, <1>2, <1>3, <1>4, <1>5, <1>6, <1>7 DEF TypeOK, Loops

\* Type correctness of the adapter, for any number of cameras and buffers.
THEOREM TypeCorrect == Spec => []TypeOK
  BY OwnAlways, OwnTypeOK, PTL

\* A buffer is with the upper layer or in the map of queued buffers, in both only while its
\* callback runs: V4L2DequeueBuffer erases the entry under the lock that V4L2QueueBuffer needs.
THEOREM OwnerCorrect == Spec => []OneOwner
<1>1. OwnInv => OneOwner BY DEF OwnInv
<1> QED BY <1>1, OwnAlways, PTL

\* Between calls, also after calls that failed half-way, streamNumber_ counts the streams
\* started and not stopped, a thread object exists for them and loopBuffers has ended without
\* them, and the epoll set has those whose device streams and no other.
THEOREM StreamsCorrect == Spec => []StreamsCounted
<1>1. OwnInv => StreamsCounted
  <2> SUFFICES ASSUME OwnInv PROVE StreamsCounted
    OBVIOUS
  <2>1. ctl = Idle => /\ streamNumber_ = Cardinality(streams)
                      /\ streams \cap on \subseteq epoll /\ epoll \subseteq on
                      /\ streams = {} => loop \in {"none", "exit"}
    BY DEF OwnInv, StreamPart, StreamsInv, Idle
  <2>2. streams # {} => loop # "none" BY DEF OwnInv, StreamPart, StreamsInv
  <2>3. streamThread_ <=> loop # "none" BY Zenon DEF OwnInv, Flags
  <2>4. streams # {} => streamThread_ BY <2>2, <2>3, Zenon
  <2>5. loop \notin {"none", "exit"} => streamThread_ BY <2>3, Zenon
  <2> QED BY <2>1, <2>4, <2>5, Zenon DEF StreamsCounted
<1> QED BY <1>1, OwnAlways, PTL

\* The steps that move buffers between upper layer and map, for NeverLost.
LEMMA KnownStep ==
  ASSUME OwnInv, [Next]_vars, dequeueBuffer_
  PROVE  \A d \in Cameras : Known(d) \subseteq Known(d)'
<1> DEFINE Kept == \A d \in Cameras : Known(d) \subseteq Known(d)'
<1>0. /\ queueBuffers_ \in [Cameras -> SUBSET Index] /\ app \in [Cameras -> SUBSET Index]
      /\ \A d \in Cameras : Known(d) \subseteq Buffers[d]
  BY DEF OwnInv, BuffersOwn, Known
<1>1. ASSUME UNCHANGED <<queueBuffers_, app>> PROVE Kept
  BY <1>1 DEF Known
<1>2. CASE UNCHANGED vars
  BY <1>1, <1>2 DEF vars, buffer_vars, client_vars
<1>3. CASE loopBuffers
  <2>1. CASE loop_test \/ loop_wait \/ loop_next
    BY <1>1, <2>1 DEF loop_test, loop_wait, loop_next, buffer_vars, client_vars
  <2>2. ASSUME NEW c \in Cameras, V4L2DequeueBuffer(c) PROVE Kept
    BY <1>1, <2>2 DEF V4L2DequeueBuffer, buffer_vars, client_vars
  <2>3. CASE V4L2DequeueBuffer_lookup
    <3>1. got[1] \in Cameras BY <2>3, FrameFacts DEF OwnInv, FrameInHand, V4L2DequeueBuffer_lookup
    <3>2. UNCHANGED queueBuffers_ /\ (UNCHANGED app \/ app' = [app EXCEPT ![got[1]] = @ \cup {got[2]}])
      BY <2>3 DEF V4L2DequeueBuffer_lookup
    <3> QED BY <1>0, <3>1, <3>2 DEF Known
  <2>4. CASE V4L2DequeueBuffer_erase
    <3>1. got[1] \in Cameras /\ got[2] \in app[got[1]]
      BY <2>4, FrameFacts DEF OwnInv, FrameInHand, HandedOver, V4L2DequeueBuffer_erase
    <3>2. UNCHANGED app /\ queueBuffers_' = [queueBuffers_ EXCEPT ![got[1]] = @ \ {got[2]}]
      BY <2>4 DEF V4L2DequeueBuffer_erase, client_vars
    <3> QED BY <1>0, <3>1, <3>2 DEF Known
  <2> QED BY <1>3, <2>1, <2>2, <2>3, <2>4 DEF loopBuffers
<1>4. CASE Aside
  <2>1. ASSUME NEW c \in Cameras, start(c) \/ ReqBuffers(c) PROVE Kept
    BY <1>1, <2>1 DEF start, ReqBuffers, Elsewhere
  <2>2. ASSUME NEW c \in Cameras, Flush(c) PROVE Kept
    <3>1. /\ app' = [app EXCEPT ![c] = @ \cup queueBuffers_[c]]
          /\ queueBuffers_' = [queueBuffers_ EXCEPT ![c] = {}]
      BY <2>2 DEF Flush
    <3> QED BY <1>0, <3>1 DEF Known
  <2>3. ASSUME NEW c \in Cameras, ReleaseBuffers(c) PROVE Kept
    <3>1. app' = [app EXCEPT ![c] = Buffers[c]] /\ queueBuffers_' = [queueBuffers_ EXCEPT ![c] = {}]
      BY <2>3 DEF ReleaseBuffers
    <3> QED BY <1>0, <3>1 DEF Known
  <2>4. CASE SetCallback
    BY <1>1, <2>4 DEF SetCallback, Elsewhere
  <2>5. ASSUME NEW t \in Callers, NEW f \in Frame, V4L2QueueBuffer(t, f[1], f[2]) PROVE Kept
    BY <1>1, <2>5 DEF V4L2QueueBuffer, client_vars
  <2>6. ASSUME NEW t \in Callers, V4L2QueueBuffer_insert(t) PROVE Kept
    <3> DEFINE c == asked[t][1]  b == asked[t][2]
    <3>1. asked[t] \in Frame BY <2>6, FrameFacts DEF V4L2QueueBuffer_insert, OwnInv, BuffersOwn
    <3>2. c \in Cameras BY <3>1, FrameFacts
    <3>3. queueBuffers_' = [queueBuffers_ EXCEPT ![c] = @ \cup {b}] /\ app' = [app EXCEPT ![c] = @ \ {b}]
      BY <2>6 DEF V4L2QueueBuffer_insert
    <3> HIDE DEF c, b
    <3> QED BY <1>0, <3>2, <3>3 DEF Known
  <2>7. ASSUME NEW f \in Frame, driver_fills(f[1], f[2]) PROVE Kept
    BY <1>1, <2>7 DEF driver_fills, buffer_vars, client_vars
  <2> QED BY <1>4, <2>1, <2>2, <2>3, <2>4, <2>5, <2>6, <2>7 DEF Aside
<1>5. ASSUME NEW c \in Cameras, StartStream(c) \/ StopStream(c) PROVE Kept
  BY <1>1, <1>5 DEF StartStream, StopStream, Others, buffer_vars
<1>6. CASE StartStream_spawn \/ StartStream_count \/ StopStream_join \/ StopStream_off
  BY <1>1, <1>6 DEF StartStream_spawn, StartStream_count, StopStream_join, StopStream_off, Others, buffer_vars
<1>7. ASSUME NEW c \in Cameras, stop(c) PROVE Kept
  BY <1>1, <1>7 DEF stop, Elsewhere
<1> QED BY <1>2, <1>3, <1>4, <1>5, <1>6, <1>7, NextCases

\* Once there is a callback no step of any thread loses a buffer: what leaves the map has been
\* handed to the upper layer, what leaves the upper layer is in the map.
THEOREM NeverLostCorrect == Spec => NeverLost
<1>1. OwnInv /\ [Next]_vars
        => [dequeueBuffer_ => \A c \in Cameras : Known(c) \subseteq Known(c)']_vars
  BY KnownStep
<1> QED BY <1>1, OwnAlways, PTL DEF Spec, NeverLost

-----------------------------------------------------------------------------
(* Map and driver.                                                         *)

\* What a frame more or less does to the buffers the driver has filled.
LEMMA FilledAppend ==
  ASSUME NEW S, NEW s \in Seq(S), NEW b \in S
  PROVE  /\ {Append(s, b)[i] : i \in 1..Len(Append(s, b))} = {s[i] : i \in 1..Len(s)} \cup {b}
         /\ (/\ b \notin {s[i] : i \in 1..Len(s)}
             /\ \A i, j \in 1..Len(s) : s[i] = s[j] => i = j)
              => \A i, j \in 1..Len(Append(s, b)) : Append(s, b)[i] = Append(s, b)[j] => i = j
<1>1. /\ Len(Append(s, b)) = Len(s) + 1 /\ Len(s) \in Nat
      /\ \A i \in 1..Len(s) : Append(s, b)[i] = s[i]
      /\ Append(s, b)[Len(s) + 1] = b
  BY AppendProperties
<1> QED BY <1>1

\* One less, the first: if no buffer is filled twice it is gone.
LEMMA FilledTail ==
  ASSUME NEW S, NEW s \in Seq(S), s # << >>
  PROVE  /\ {Tail(s)[i] : i \in 1..Len(Tail(s))} \subseteq {s[i] : i \in 1..Len(s)}
         /\ Head(s) \in {s[i] : i \in 1..Len(s)}
         /\ (\A i, j \in 1..Len(s) : s[i] = s[j] => i = j)
              => /\ Head(s) \notin {Tail(s)[i] : i \in 1..Len(Tail(s))}
                 /\ \A i, j \in 1..Len(Tail(s)) : Tail(s)[i] = Tail(s)[j] => i = j
<1>1. /\ Len(s) \in Nat /\ Len(s) > 0 /\ Len(Tail(s)) = Len(s) - 1
      /\ \A i \in 1..Len(Tail(s)) : Tail(s)[i] = s[i + 1]
      /\ Head(s) = s[1]
  BY HeadTailProperties, EmptySeq, LenProperties
<1> QED BY <1>1

\* What is added for the driver: its buffers, the map, and the frame in hand.
DriverPart == DriverOnce /\ MapMatchesDriver /\ HeldOnce

\* The frame loopBuffers has in hand, by its camera and its buffer.
LEMMA FrameOf ==
  ASSUME OwnInv, loop \in {"lookup", "erase"}
  PROVE  /\ got[1] \in Cameras /\ got[2] \in Index /\ got = <<got[1], got[2]>>
         /\ loop = "lookup" => InLoop(got[1]) = {got[2]}
         /\ \A c \in Cameras : c # got[1] => InLoop(c) = {}
<1>1. got \in Frame BY DEF OwnInv, FrameInHand
<1>2. got[1] \in Cameras /\ got[2] \in Index /\ got = <<got[1], got[2]>> BY <1>1, FrameFacts
<1>3. PICK g, h : got = <<g, h>> /\ h \in Index /\ g = got[1] /\ h = got[2] BY <1>2
<1>4. loop = "lookup" => InLoop(g) = {h} BY <1>3 DEF InLoop
<1>5. \A c \in Cameras : c # g => InLoop(c) = {} BY <1>3 DEF InLoop
<1> QED BY <1>2, <1>3, <1>4, <1>5

\* Steps that leave the driver's buffers alone and keep their entries.
LEMMA DriverQuiet ==
  ASSUME DriverPart, UNCHANGED <<queued, done>>, HeldOnce',
         \A c \in Cameras : Has(c) \subseteq queueBuffers_[c] \cup Pending(c) \cup early[c]
                              => Has(c) \subseteq queueBuffers_'[c] \cup Pending(c)' \cup early'[c]
  PROVE  DriverPart'
<1>1. \A c : Has(c)' = Has(c) /\ Filled(c)' = Filled(c) BY DEF Has, Filled
<1>2. MapMatchesDriver' BY <1>1 DEF DriverPart, MapMatchesDriver
<1>3. \A c \in Cameras : (queued[c] \cap Filled(c) = {})' BY <1>1 DEF DriverPart, DriverOnce
<1>4. DriverOnce' BY <1>3 DEF DriverPart, DriverOnce
<1> QED BY <1>2, <1>4 DEF DriverPart

\* The same without any change to entries, buffers and the frame in hand.
LEMMA DriverStill ==
  ASSUME DriverPart, UNCHANGED <<queued, done, queueBuffers_, asked, app, early>>,
         \/ loop' \notin {"lookup", "erase"}
         \/ UNCHANGED <<loop, got>>
  PROVE  DriverPart'
<1>1. \A c : Pending(c)' = Pending(c) BY DEF Pending
<1>2. \A c : Has(c)' = Has(c) BY DEF Has, Filled
<1>3. HeldOnce' BY <1>1, <1>2 DEF DriverPart, HeldOnce
<1> QED BY <1>1, <1>3, DriverQuiet

\* The driver gives up the buffers of a camera, and the upper layer may have got them back.
LEMMA DriverGivesUp ==
  ASSUME DriverPart, OwnInv, NEW c \in Cameras, GivesUp(c), UNCHANGED asked,
         \A d \in Cameras \ {c} : /\ queueBuffers_'[d] = queueBuffers_[d]
                                  /\ app'[d] = app[d] /\ early'[d] = early[d],
         \/ app'[c] = app[c] /\ early'[c] = early[c] \cap InLoop(c)
         \/ early'[c] = InLoop(c),
         \/ loop' \notin {"lookup", "erase"}
         \/ UNCHANGED <<loop, got>>
  PROVE  DriverPart'
<1>1. /\ queued' = [queued EXCEPT ![c] = {}] /\ done' = [done EXCEPT ![c] = << >>]
  BY DEF GivesUp
<1>2. queued'[c] = {} /\ done'[c] = << >> /\ \A d \in Cameras \ {c} : queued'[d] = queued[d] /\ done'[d] = done[d]
  BY <1>1 DEF OwnInv, BuffersOwn
<1>3. Filled(c)' = {} /\ Has(c)' = {} /\ Len(done'[c]) = 0 BY <1>2 DEF Filled, Has
<1>4. \A d \in Cameras \ {c} : Filled(d)' = Filled(d) /\ Has(d)' = Has(d) BY <1>2 DEF Filled, Has
<1>5. \A d : Pending(d)' = Pending(d) BY DEF Pending
<1>6. MapMatchesDriver' BY <1>3, <1>4, <1>5 DEF DriverPart, MapMatchesDriver
<1>7. \A d \in Cameras : (queued[d] \cap Filled(d) = {})' BY <1>2, <1>3, <1>4 DEF DriverPart, DriverOnce
<1>8. \A d \in Cameras : (\A i, j \in 1..Len(done[d]) : done[d][i] = done[d][j] => i = j)'
  BY <1>2, <1>3 DEF DriverPart, DriverOnce
<1>9. HeldOnce'
  <2>1. CASE loop' \notin {"lookup", "erase"} BY <2>1 DEF HeldOnce
  <2>2. CASE loop' \in {"lookup", "erase"}
    <3>0. PICK g, h : g = got[1] /\ h = got[2] OBVIOUS
    <3>1. UNCHANGED <<loop, got>> /\ loop \in {"lookup", "erase"} BY <2>2
    <3>2. g \in Cameras /\ (loop = "lookup" => InLoop(g) = {h}) BY <3>0, <3>1, FrameOf
    <3>3. got'[1] = g /\ got'[2] = h BY <3>0, <3>1
    <3>4. /\ h \in Has(g) => h \in early[g]
          /\ loop = "lookup" /\ h \in app[g] /\ h \notin Pending(g) => h \in early[g]
      BY <3>0, <3>1 DEF DriverPart, HeldOnce
    <3>5. /\ h \in Has(g)' => h \in early'[g]
          /\ loop = "lookup" /\ h \in app'[g] /\ h \notin Pending(g)' => h \in early'[g]
      BY <1>3, <1>4, <1>5, <3>2, <3>4
    <3> QED BY <3>1, <3>3, <3>5 DEF HeldOnce
  <2> QED BY <2>1, <2>2
<1> QED BY <1>6, <1>7, <1>8, <1>9 DEF DriverPart, DriverOnce

\* VIDIOC_QBUF: the buffer is not in the driver, and with loopBuffers only if it was given
\* back early.
LEMMA DriverAsk ==
  ASSUME DriverPart, OwnInv, NEW t \in Callers, NEW c \in Cameras, NEW b \in Buffers[c],
         V4L2QueueBuffer(t, c, b)
  PROVE  DriverPart'
<1>1. /\ asked[t] = NoFrame /\ bufferLock_ = "none" /\ b \notin Has(c) /\ b \in app[c]
      /\ queued' = [queued EXCEPT ![c] = @ \cup {b}] /\ asked' = [asked EXCEPT ![t] = <<c, b>>]
      /\ UNCHANGED <<queueBuffers_, done, loop, got, app, early>>
  BY DEF V4L2QueueBuffer, loop_vars, client_vars
<1>2. loop # "erase" /\ \A u \in Callers : asked[u] = NoFrame BY <1>1 DEF OwnInv, LockHeld, Callers
<1>3. queued \in [Cameras -> SUBSET Index] /\ asked \in [Callers -> Frames] BY DEF OwnInv, BuffersOwn
<1>4. b \in Index BY FrameFacts
<1>5. \A d : Filled(d)' = Filled(d) BY <1>1 DEF Filled
<1>6. Has(c)' = Has(c) \cup {b} /\ \A d \in Cameras \ {c} : Has(d)' = Has(d) BY <1>1, <1>3, <1>5 DEF Has
<1>7. \A d : Pending(d) = {}
  <2>1. \A d, e : <<d, e>> # NoFrame BY DEF NoFrame
  <2> QED BY <1>2, <2>1 DEF Pending
<1>8. b \in Pending(c)' BY <1>1, <1>3, <1>4 DEF Pending
<1>9. MapMatchesDriver' BY <1>1, <1>6, <1>7, <1>8 DEF DriverPart, MapMatchesDriver
<1>10. \A d \in Cameras : (queued[d] \cap Filled(d) = {})'
  BY <1>1, <1>3, <1>5 DEF DriverPart, DriverOnce, Has
<1>11. HeldOnce'
  <2> SUFFICES ASSUME loop = "lookup" PROVE HeldOnce'
    BY <1>1, <1>2 DEF HeldOnce
  <2>0. PICK g, h : g = got[1] /\ h = got[2] OBVIOUS
  <2>1. g \in Cameras BY <2>0, FrameOf
  <2>2. got'[1] = g /\ got'[2] = h BY <2>0, <1>1
  <2>3. /\ h \in Has(g) => h \in early[g]
        /\ h \in app[g] /\ h \notin Pending(g) => h \in early[g]
    BY <2>0 DEF DriverPart, HeldOnce
  <2>4. h \in Has(g)' => h \in early[g] BY <1>1, <1>6, <1>7, <2>1, <2>3
  <2>5. h \in app[g] => h \in early[g] BY <1>7, <2>3
  <2> QED BY <1>1, <2>2, <2>4, <2>5 DEF HeldOnce
<1> QED BY <1>1, <1>9, <1>10, <1>11 DEF DriverPart, DriverOnce

\* The entry in the map takes the place of the pending one.
LEMMA DriverInsert ==
  ASSUME DriverPart, OwnInv, NEW t \in Callers, V4L2QueueBuffer_insert(t)
  PROVE  DriverPart'
<1> DEFINE c == asked[t][1]  b == asked[t][2]
<1>1. /\ asked[t] # NoFrame /\ queueBuffers_' = [queueBuffers_ EXCEPT ![c] = @ \cup {b}]
      /\ app' = [app EXCEPT ![c] = @ \ {b}]
      /\ asked' = [asked EXCEPT ![t] = NoFrame] /\ UNCHANGED <<queued, done, loop, got, early>>
  BY DEF V4L2QueueBuffer_insert, loop_vars, driver_vars
<1>2. asked \in [Callers -> Frames] /\ queueBuffers_ \in [Cameras -> SUBSET Index] /\ app \in [Cameras -> SUBSET Index]
  BY DEF OwnInv, BuffersOwn
<1>3. asked[t] = <<c, b>> /\ c \in Cameras BY <1>1, <1>2, FrameFacts
<1> HIDE DEF c, b
<1>4. \A d \in Cameras : Pending(d) \subseteq Pending(d)' \cup (IF d = c THEN {b} ELSE {})
  <2> SUFFICES ASSUME NEW d \in Cameras, NEW e \in Index, NEW u \in Callers, asked[u] = <<d, e>>,
                      e \notin Pending(d)'
               PROVE  d = c /\ e = b
    BY DEF Pending
  <2>1. asked'[u] # <<d, e>> BY DEF Pending
  <2>2. u = t BY <1>1, <1>2, <2>1
  <2> QED BY <1>3, <2>2
<1>5. \A d \in Cameras : /\ queueBuffers_'[d] = queueBuffers_[d] \cup (IF d = c THEN {b} ELSE {})
                         /\ app'[d] = app[d] \ (IF d = c THEN {b} ELSE {})
  BY <1>1, <1>2, <1>3
<1>6. \A d \in Cameras : Has(d) \subseteq queueBuffers_[d] \cup Pending(d) \cup early[d]
                           => Has(d) \subseteq queueBuffers_'[d] \cup Pending(d)' \cup early'[d]
  BY <1>1, <1>4, <1>5
<1>7. HeldOnce'
  <2> SUFFICES ASSUME loop \in {"lookup", "erase"} PROVE HeldOnce'
    BY <1>1 DEF HeldOnce
  <2>0. PICK g, h : g = got[1] /\ h = got[2] OBVIOUS
  <2>1. g \in Cameras BY <2>0, FrameOf
  <2>2. got'[1] = g /\ got'[2] = h BY <2>0, <1>1
  <2>3. /\ h \in Has(g) => h \in early[g]
        /\ loop = "lookup" /\ h \in app[g] /\ h \notin Pending(g) => h \in early[g]
    BY <2>0 DEF DriverPart, HeldOnce
  <2>4. Has(g)' = Has(g) BY <1>1 DEF Has, Filled
  <2>5. loop = "lookup" /\ h \in app'[g] /\ h \notin Pending(g)' => h \in early[g]
    BY <1>4, <1>5, <2>1, <2>3
  <2> QED BY <1>1, <2>2, <2>3, <2>4, <2>5 DEF HeldOnce
<1> QED BY <1>1, <1>6, <1>7, DriverQuiet

\* A frame is complete.
LEMMA DriverFills ==
  ASSUME DriverPart, OwnInv, NEW c \in Cameras, NEW b \in Buffers[c], driver_fills(c, b)
  PROVE  DriverPart'
<1>1. /\ b \in queued[c] /\ queued' = [queued EXCEPT ![c] = @ \ {b}] /\ done' = [done EXCEPT ![c] = Append(@, b)]
      /\ UNCHANGED <<queueBuffers_, asked, loop, got, app, early>>
  BY DEF driver_fills, buffer_vars, loop_vars, client_vars
<1>2. /\ queued \in [Cameras -> SUBSET Index] /\ done \in [Cameras -> Seq(Index)] /\ done[c] \in Seq(Buffers[c])
  BY DEF OwnInv, BuffersOwn
<1>3. queued'[c] = queued[c] \ {b} /\ done'[c] = Append(done[c], b)
      /\ \A d \in Cameras \ {c} : queued'[d] = queued[d] /\ done'[d] = done[d]
  BY <1>1, <1>2
<1>4. Filled(c)' = Filled(c) \cup {b}
  <2> DEFINE s == done[c]
  <2>1. s \in Seq(Buffers[c]) BY <1>2
  <2> HIDE DEF s
  <2>2. {Append(s, b)[i] : i \in 1..Len(Append(s, b))} = {s[i] : i \in 1..Len(s)} \cup {b}
    BY <2>1, FilledAppend
  <2> QED BY <1>3, <2>2 DEF Filled, s
<1>5. \A d \in Cameras \ {c} : Filled(d)' = Filled(d) BY <1>3 DEF Filled
<1>6. \A d \in Cameras : Has(d)' = Has(d) BY <1>1, <1>3, <1>4, <1>5 DEF Has
<1>7. \A d : Pending(d)' = Pending(d) BY <1>1 DEF Pending
<1>8. MapMatchesDriver' BY <1>1, <1>6, <1>7 DEF DriverPart, MapMatchesDriver
<1>9. queued[c] \cap Filled(c) = {} BY DEF DriverPart, DriverOnce
<1>10. \A d \in Cameras : (queued[d] \cap Filled(d) = {})'
  BY <1>3, <1>4, <1>5, <1>9 DEF DriverPart, DriverOnce
<1>11. \A i, j \in 1..Len(done'[c]) : done'[c][i] = done'[c][j] => i = j
  <2>1. b \notin {done[c][i] : i \in 1..Len(done[c])} BY <1>1, <1>9 DEF Filled
  <2>2. \A i, j \in 1..Len(done[c]) : done[c][i] = done[c][j] => i = j BY DEF DriverPart, DriverOnce
  <2> QED BY <1>2, <1>3, <2>1, <2>2, FilledAppend
<1>12. \A d \in Cameras : (\A i, j \in 1..Len(done[d]) : done[d][i] = done[d][j] => i = j)'
  BY <1>3, <1>11 DEF DriverPart, DriverOnce
<1>13. HeldOnce'
  <2>1. loop \in {"lookup", "erase"} => got[1] \in Cameras BY FrameOf
  <2> QED BY <1>1, <1>6, <1>7, <2>1 DEF DriverPart, HeldOnce
<1> QED BY <1>8, <1>10, <1>12, <1>13 DEF DriverPart, DriverOnce

\* VIDIOC_DQBUF: loopBuffers has the frame, the driver not any more.
LEMMA DriverDequeue ==
  ASSUME DriverPart, OwnInv, NEW c \in Cameras, V4L2DequeueBuffer(c)
  PROVE  DriverPart'
<1>1. /\ loop = "events" /\ UNCHANGED <<queueBuffers_, asked, queued, app, early>>
      /\ \/ UNCHANGED <<loop, got, done>>
         \/ /\ done[c] # << >> /\ done' = [done EXCEPT ![c] = Tail(@)]
            /\ got' = <<c, Head(done[c])>> /\ loop' = "lookup"
  BY DEF V4L2DequeueBuffer, buffer_vars, client_vars
<1>2. CASE UNCHANGED <<loop, got, done>>
  BY <1>1, <1>2, DriverStill
<1>3. CASE /\ done[c] # << >> /\ done' = [done EXCEPT ![c] = Tail(@)]
           /\ got' = <<c, Head(done[c])>> /\ loop' = "lookup"
  <2>1. done \in [Cameras -> Seq(Index)] /\ done[c] \in Seq(Buffers[c]) BY DEF OwnInv, BuffersOwn
  <2>2. done'[c] = Tail(done[c]) /\ \A d \in Cameras \ {c} : done'[d] = done[d] BY <1>3, <2>1
  <2>3. \A i, j \in 1..Len(done[c]) : done[c][i] = done[c][j] => i = j BY DEF DriverPart, DriverOnce
  <2>4. /\ Filled(c)' \subseteq Filled(c) /\ Head(done[c]) \in Filled(c) /\ Head(done[c]) \notin Filled(c)'
        /\ \A i, j \in 1..Len(done'[c]) : done'[c][i] = done'[c][j] => i = j
    <3> DEFINE s == done[c]
    <3>1. s \in Seq(Buffers[c]) /\ s # << >> BY <1>3, <2>1
    <3>2. \A i, j \in 1..Len(s) : s[i] = s[j] => i = j BY <2>3
    <3> HIDE DEF s
    <3>3. /\ {Tail(s)[i] : i \in 1..Len(Tail(s))} \subseteq {s[i] : i \in 1..Len(s)}
          /\ Head(s) \in {s[i] : i \in 1..Len(s)}
          /\ Head(s) \notin {Tail(s)[i] : i \in 1..Len(Tail(s))}
          /\ \A i, j \in 1..Len(Tail(s)) : Tail(s)[i] = Tail(s)[j] => i = j
      BY <3>1, <3>2, FilledTail
    <3> QED BY <2>2, <3>3 DEF Filled, s
  <2>5. \A d \in Cameras \ {c} : Filled(d)' = Filled(d) BY <2>2 DEF Filled
  <2>6. \A d \in Cameras : Has(d)' \subseteq Has(d) BY <1>1, <2>4, <2>5 DEF Has
  <2>7. \A d : Pending(d)' = Pending(d) BY <1>1 DEF Pending
  <2>8. MapMatchesDriver' BY <1>1, <2>6, <2>7 DEF DriverPart, MapMatchesDriver
  <2>9. \A d \in Cameras : (queued[d] \cap Filled(d) = {})' BY <1>1, <2>4, <2>5 DEF DriverPart, DriverOnce
  <2>10. \A d \in Cameras : (\A i, j \in 1..Len(done[d]) : done[d][i] = done[d][j] => i = j)'
    BY <2>2, <2>4 DEF DriverPart, DriverOnce
  <2>11. HeldOnce'
    <3>0. PICK h : h = Head(done[c]) OBVIOUS
    <3>1. got'[1] = c /\ got'[2] = h BY <1>3, <3>0
    <3>2. h \notin queued[c] /\ h \in Has(c) BY <2>4, <3>0 DEF DriverPart, DriverOnce, Has
    <3>3. h \notin Has(c)' BY <1>1, <2>4, <3>0, <3>2 DEF Has
    <3>4. app[c] \cap queueBuffers_[c] = {} BY <1>1 DEF OwnInv, OneOwner
    <3>5. h \in queueBuffers_[c] \cup Pending(c) \cup early[c] BY <3>2 DEF DriverPart, MapMatchesDriver
    <3>6. h \in app'[c] /\ h \notin Pending(c)' => h \in early'[c] BY <1>1, <2>7, <3>4, <3>5
    <3> QED BY <3>1, <3>3, <3>6 DEF HeldOnce
  <2> QED BY <2>8, <2>9, <2>10, <2>11 DEF DriverPart, DriverOnce
<1> QED BY <1>1, <1>2, <1>3

\* The lookup, and the end of a frame whose entry goes: if the driver has the buffer again it
\* was given back early, which is remembered as long as the driver has it.
LEMMA DriverLooks ==
  ASSUME DriverPart, OwnInv, loop \in {"lookup", "erase"}, UNCHANGED <<queued, done, asked>>,
         \/ early' = [early EXCEPT ![got[1]] = @ \cap Has(got[1])]
         \/ UNCHANGED early,
         \/ UNCHANGED queueBuffers_
         \/ queueBuffers_' = [queueBuffers_ EXCEPT ![got[1]] = @ \ {got[2]}],
         loop' = "events" \/ (loop' = "erase" /\ UNCHANGED got)
  PROVE  DriverPart'
<1>0. PICK g, h : g = got[1] /\ h = got[2] OBVIOUS
<1>1. g \in Cameras BY <1>0, FrameOf
<1>2. h \in Has(g) => h \in early[g] BY <1>0 DEF DriverPart, HeldOnce
<1>3. queueBuffers_ \in [Cameras -> SUBSET Index] /\ early \in [Cameras -> SUBSET Index]
  BY DEF OwnInv, BuffersOwn, EarlyType
<1>4. \A d : Pending(d)' = Pending(d) /\ Has(d)' = Has(d) BY DEF Pending, Has, Filled
<1>5. /\ queueBuffers_'[g] \in {queueBuffers_[g], queueBuffers_[g] \ {h}}
      /\ early'[g] \in {early[g], early[g] \cap Has(g)}
      /\ \A d \in Cameras \ {g} : queueBuffers_'[d] = queueBuffers_[d] /\ early'[d] = early[d]
  BY <1>0, <1>1, <1>3
<1>6. loop' = "erase" => got'[1] = g /\ got'[2] = h BY <1>0
<1>7. \A d \in Cameras : Has(d) \subseteq queueBuffers_[d] \cup Pending(d) \cup early[d]
                           => Has(d) \subseteq queueBuffers_'[d] \cup Pending(d)' \cup early'[d]
  BY <1>1, <1>2, <1>4, <1>5
<1>8. h \in Has(g)' => h \in early'[g] BY <1>2, <1>4, <1>5
<1>9. HeldOnce' BY <1>6, <1>8 DEF HeldOnce
<1> QED BY <1>7, <1>9, DriverQuiet

\* Flush and a ReleaseBuffers that the driver refuses: what the driver and loopBuffers have is
\* given back early.
LEMMA DriverGivenBack ==
  ASSUME DriverPart, OwnInv, NEW c \in Cameras, UNCHANGED <<queued, done, asked, loop, got>>,
         loop # "erase", early' = [early EXCEPT ![c] = Out(c)],
         \A d \in Cameras \ {c} : queueBuffers_'[d] = queueBuffers_[d] /\ app'[d] = app[d]
  PROVE  DriverPart'
<1>1. early \in [Cameras -> SUBSET Index] BY DEF OwnInv, EarlyType
<1>2. \A d : Pending(d)' = Pending(d) /\ Has(d)' = Has(d) BY DEF Pending, Has, Filled
<1>3. early'[c] = Has(c) \cup InLoop(c) /\ \A d \in Cameras \ {c} : early'[d] = early[d] BY <1>1 DEF Out
<1>4. \A d \in Cameras : Has(d) \subseteq queueBuffers_[d] \cup Pending(d) \cup early[d]
                           => Has(d) \subseteq queueBuffers_'[d] \cup Pending(d)' \cup early'[d]
  BY <1>2, <1>3
<1>5. HeldOnce'
  <2> SUFFICES ASSUME loop = "lookup" PROVE HeldOnce'
    BY DEF HeldOnce
  <2>0. PICK g, h : g = got[1] /\ h = got[2] OBVIOUS
  <2>1. g \in Cameras /\ InLoop(g) = {h} BY <2>0, FrameOf
  <2>2. /\ h \in Has(g) => h \in early[g]
        /\ h \in app[g] /\ h \notin Pending(g) => h \in early[g]
    BY <2>0 DEF DriverPart, HeldOnce
  <2>3. got'[1] = g /\ got'[2] = h BY <2>0
  <2>4. /\ h \in Has(g)' => h \in early'[g]
        /\ h \in app'[g] /\ h \notin Pending(g)' => h \in early'[g]
    BY <1>2, <1>3, <2>1, <2>2
  <2> QED BY <2>3, <2>4 DEF HeldOnce
<1> QED BY <1>4, <1>5, DriverQuiet

\* Every step keeps DriverPart.
LEMMA DriverNext == ASSUME OwnInv, DriverPart, [Next]_vars PROVE DriverPart'
<1>0. /\ queueBuffers_ \in [Cameras -> SUBSET Index] /\ app \in [Cameras -> SUBSET Index]
      /\ early \in [Cameras -> SUBSET Index]
  BY DEF OwnInv, BuffersOwn, EarlyType
<1>1. CASE UNCHANGED vars
  BY <1>1, DriverStill DEF vars, buffer_vars, driver_vars, loop_vars, client_vars
<1>2. CASE loopBuffers
  <2>1. CASE loop_test \/ loop_wait \/ loop_next
    BY <2>1, DriverStill DEF loop_test, loop_wait, loop_next, buffer_vars, driver_vars, client_vars
  <2>2. CASE V4L2DequeueBuffer_lookup
    <3>1. /\ loop = "lookup" /\ UNCHANGED <<queued, done, asked>>
          /\ early' = [early EXCEPT ![got[1]] = @ \cap Has(got[1])]
          /\ \/ loop' = "events" /\ UNCHANGED queueBuffers_
             \/ loop' = "events" /\ queueBuffers_' = [queueBuffers_ EXCEPT ![got[1]] = @ \ {got[2]}]
             \/ loop' = "erase" /\ UNCHANGED <<queueBuffers_, got>>
      BY <2>2 DEF V4L2DequeueBuffer_lookup, driver_vars
    <3> QED BY <3>1, DriverLooks
  <2>3. CASE V4L2DequeueBuffer_erase
    BY <2>3, DriverLooks DEF V4L2DequeueBuffer_erase, driver_vars, client_vars
  <2> QED BY <1>2, <2>1, <2>2, <2>3, DriverDequeue DEF loopBuffers
<1>3. CASE Aside
  <2>1. ASSUME NEW c \in Cameras, start(c) \/ ReqBuffers(c) PROVE DriverPart'
    BY <2>1, DriverStill DEF start, ReqBuffers, Elsewhere, driver_vars, loop_vars
  <2>2. CASE SetCallback
    BY <2>2, DriverStill DEF SetCallback, Elsewhere, driver_vars, loop_vars
  <2>3. ASSUME NEW t \in Callers, NEW f \in Frame, V4L2QueueBuffer(t, f[1], f[2]) PROVE DriverPart'
    BY <2>3, FrameFacts, DriverAsk
  <2>4. ASSUME NEW f \in Frame, driver_fills(f[1], f[2]) PROVE DriverPart'
    BY <2>4, FrameFacts, DriverFills
  <2>5. ASSUME NEW c \in Cameras, Flush(c) PROVE DriverPart'
    <3>1. /\ bufferLock_ = "none" /\ queueBuffers_' = [queueBuffers_ EXCEPT ![c] = {}]
          /\ app' = [app EXCEPT ![c] = @ \cup queueBuffers_[c]] /\ early' = [early EXCEPT ![c] = Out(c)]
          /\ UNCHANGED <<queued, done, asked, loop, got>>
      BY <2>5 DEF Flush, driver_vars, loop_vars
    <3>2. loop # "erase" BY <3>1 DEF OwnInv, LockHeld
    <3>3. \A d \in Cameras \ {c} : queueBuffers_'[d] = queueBuffers_[d] /\ app'[d] = app[d] BY <1>0, <3>1
    <3> QED BY <3>1, <3>2, <3>3, DriverGivenBack
  <2>6. ASSUME NEW c \in Cameras, ReleaseBuffers(c) PROVE DriverPart'
    <3>1. /\ bufferLock_ = "none" /\ queueBuffers_' = [queueBuffers_ EXCEPT ![c] = {}]
          /\ app' = [app EXCEPT ![c] = Buffers[c]] /\ UNCHANGED <<asked, loop, got>>
          /\ \/ early' = [early EXCEPT ![c] = Out(c)] /\ UNCHANGED <<queued, done>>
             \/ early' = [early EXCEPT ![c] = InLoop(c)] /\ GivesUp(c)
      BY <2>6 DEF ReleaseBuffers, loop_vars
    <3>2. loop # "erase" BY <3>1 DEF OwnInv, LockHeld
    <3>3. \A d \in Cameras \ {c} : queueBuffers_'[d] = queueBuffers_[d] /\ app'[d] = app[d] BY <1>0, <3>1
    <3>4. CASE early' = [early EXCEPT ![c] = Out(c)] /\ UNCHANGED <<queued, done>>
      BY <3>1, <3>2, <3>3, <3>4, DriverGivenBack
    <3>5. CASE early' = [early EXCEPT ![c] = InLoop(c)] /\ GivesUp(c)
      <4>1. early'[c] = InLoop(c) /\ \A d \in Cameras \ {c} : early'[d] = early[d] BY <1>0, <3>5
      <4> QED BY <3>1, <3>3, <3>5, <4>1, DriverGivesUp
    <3> QED BY <3>1, <3>4, <3>5
  <2> QED BY <1>3, <2>1, <2>2, <2>3, <2>4, <2>5, <2>6, DriverInsert DEF Aside
<1>4. ASSUME NEW c \in Cameras, StartStream(c) \/ StopStream(c) PROVE DriverPart'
  BY <1>4, DriverStill DEF StartStream, StopStream, Others, buffer_vars, loop_vars
<1>5. CASE StartStream_spawn
  BY <1>5, DriverStill DEF StartStream_spawn, Others, buffer_vars
<1>6. CASE StartStream_count \/ StopStream_join
  BY <1>6, DriverStill DEF StartStream_count, StopStream_join, Others, buffer_vars, loop_vars
<1>7. CASE StopStream_off
  <2> DEFINE c == ctl.camera
  <2>1. c \in Cameras BY <1>7, Places DEF StopStream_off, OwnInv, StreamPart, Idle
  <2>2. /\ UNCHANGED <<queueBuffers_, asked, got, app>>
        /\ \/ UNCHANGED <<loop, early, queued, done>>
           \/ /\ GivesUp(c) /\ early' = [early EXCEPT ![c] = @ \cap InLoop(c)]
              /\ UNCHANGED loop \/ loop' = "none"
    BY <1>7 DEF StopStream_off, Others, buffer_vars
  <2> HIDE DEF c
  <2>3. CASE UNCHANGED <<loop, early, queued, done>> BY <2>2, <2>3, DriverStill
  <2>4. CASE /\ GivesUp(c) /\ early' = [early EXCEPT ![c] = @ \cap InLoop(c)]
             /\ UNCHANGED loop \/ loop' = "none"
    <3>1. early'[c] = early[c] \cap InLoop(c) /\ \A d \in Cameras \ {c} : early'[d] = early[d] BY <1>0, <2>1, <2>4
    <3> QED BY <2>1, <2>2, <2>4, <3>1, DriverGivesUp
  <2> QED BY <2>2, <2>3, <2>4
<1>8. ASSUME NEW c \in Cameras, stop(c) PROVE DriverPart'
  <2>1. /\ UNCHANGED <<queueBuffers_, asked, loop, got, app>> /\ GivesUp(c)
        /\ early' = [early EXCEPT ![c] = @ \cap InLoop(c)]
    BY <1>8 DEF stop, Elsewhere, loop_vars
  <2>2. early'[c] = early[c] \cap InLoop(c) /\ \A d \in Cameras \ {c} : early'[d] = early[d] BY <1>0, <2>1
  <2> QED BY <2>1, <2>2, DriverGivesUp
<1> QED BY <1>1, <1>2, <1>3, <1>4, <1>5, <1>6, <1>7, <1>8, NextCases

\* Every buffer the driver has is in the map, or will be before the lock is free, unless Flush
\* or ReleaseBuffers gave it back while the driver or loopBuffers had it: a frame that completes
\* finds its entry, however soon it comes and whatever callers, loopBuffers and the driver do in
\* between.
THEOREM MapCorrect == Spec => []MapMatchesDriver
<1>1. Init => DriverPart
  <2> SUFFICES ASSUME Init PROVE DriverPart
    OBVIOUS
  <2>1. \A c \in Cameras : queued[c] = {} /\ done[c] = << >> BY DEF Init
  <2>2. \A c \in Cameras : Len(done[c]) = 0 /\ Filled(c) = {} /\ Has(c) = {} BY <2>1 DEF Filled, Has
  <2>3. loop = "none" BY DEF Init
  <2> QED BY <2>2, <2>3 DEF DriverPart, DriverOnce, MapMatchesDriver, HeldOnce
<1>2. OwnInv /\ DriverPart /\ [Next]_vars => DriverPart'
  BY DriverNext
<1>3. DriverPart => MapMatchesDriver BY DEF DriverPart
<1> QED BY <1>1, <1>2, <1>3, OwnAlways, PTL DEF Spec
=============================================================================
