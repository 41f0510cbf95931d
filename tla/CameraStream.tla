---------------------------- MODULE CameraStream ----------------------------
(***************************************************************************)
(* Streaming in the camera adapter: hardware/camera/driver_adapter,        *)
(* v4l2_dev.cpp (streams, epoll set and the thread loopBuffers) and        *)
(* v4l2_buffer.cpp (the map of queued buffers, the callback).              *)
(*                                                                         *)
(* Threads: "ctl" calls start, ReqBuffers, CreatBuffer, SetCallback,       *)
(* StartStream, Flush, StopStream, ReleaseBuffers and stop; "app" returns  *)
(* the buffers it has been given with QueueBuffer; loopBuffers is the      *)
(* third.  bufferLock_ covers the map and VIDIOC_QBUF, not VIDIOC_DQBUF;   *)
(* streamNumber_ is a plain integer that two threads use.                  *)
(*                                                                         *)
(* The driver and epoll are external.  A buffer is its index.              *)
(***************************************************************************)
EXTENDS Naturals, Sequences, FiniteSets

CONSTANTS
  Cameras,
  Buffers    \* the indices of each camera's buffers

ASSUME BuffersAssumption == Buffers = [c \in Cameras |-> Buffers[c]]

Callers == {"ctl", "app"}
Index == UNION {Buffers[c] : c \in Cameras}
Frame == {f \in Cameras \X Index : f[2] \in Buffers[f[1]]}
NoFrame == << >>

VARIABLES
  \* v4l2_dev.cpp
  fdMatch,        \* cameras that have been started (opened)
  streamNumber_,
  streamThread_,  \* the pointer is not null
  myBuffers_,     \* nor is this one
  epoll,          \* cameras in the epoll set epollFd_
  eventFd_,       \* the event is open and has been written
  \* v4l2_buffer.cpp
  bufferLock_,
  queueBuffers_,  \* for each camera the indices in its FrameMap
  dequeueBuffer_, \* the callback is set
  \* threads
  ctl,            \* the call "ctl" is in, its camera and its place
  asked,          \* for each caller the frame it is queueing
  loop, events, got,
  \* external
  streams,        \* cameras "ctl" has started streaming and not stopped
  app,            \* for each camera the buffers of the upper layer
  requested, on, queued, done,  \* the driver
  \* history
  early           \* for each camera the buffers the upper layer has been given back by Flush or
                  \* ReleaseBuffers while the driver or loopBuffers had them, as long as they do

dev_vars == <<fdMatch, streamNumber_, streamThread_, myBuffers_, epoll, eventFd_>>
buffer_vars == <<bufferLock_, queueBuffers_, dequeueBuffer_>>
loop_vars == <<loop, events, got>>
driver_vars == <<requested, on, queued, done>>
client_vars == <<streams, app, early>>
vars == <<dev_vars, buffer_vars, ctl, asked, loop_vars, client_vars, driver_vars>>

Idle == [call |-> "none", camera |-> "none", at |-> "idle"]
In(call, c, at) == [call |-> call, camera |-> c, at |-> at]

Init ==
  /\ fdMatch = {} /\ streamNumber_ = 0 /\ streamThread_ = FALSE /\ myBuffers_ = FALSE
  /\ epoll = {} /\ eventFd_ = FALSE
  /\ bufferLock_ = "none" /\ queueBuffers_ = [c \in Cameras |-> {}] /\ dequeueBuffer_ = FALSE
  /\ ctl = Idle /\ asked = [t \in Callers |-> NoFrame]
  /\ loop = "none" /\ events = {} /\ got = NoFrame
  /\ streams = {} /\ app = Buffers /\ early = [c \in Cameras |-> {}]
  /\ requested = {} /\ on = {}
  /\ queued = [c \in Cameras |-> {}] /\ done = [c \in Cameras |-> << >>]

-----------------------------------------------------------------------------
(* The driver (external).                                                  *)

Filled(c) == {done[c][i] : i \in 1..Len(done[c])}
Has(c) == queued[c] \cup Filled(c)

\* A frame is complete.
driver_fills(c, b) ==
  /\ c \in on /\ b \in queued[c]
  /\ queued' = [queued EXCEPT ![c] = @ \ {b}]
  /\ done' = [done EXCEPT ![c] = Append(@, b)]
  /\ UNCHANGED <<dev_vars, buffer_vars, ctl, asked, loop_vars, client_vars, requested, on>>

\* What the driver has, and loopBuffers between VIDIOC_DQBUF and its lookup.
InLoop(c) == {b \in Index : loop = "lookup" /\ got = <<c, b>>}
Out(c) == Has(c) \cup InLoop(c)

\* VIDIOC_STREAMOFF, VIDIOC_REQBUFS with 0 and close: the driver gives up its buffers.
GivesUp(c) == queued' = [queued EXCEPT ![c] = {}] /\ done' = [done EXCEPT ![c] = << >>]

-----------------------------------------------------------------------------
(* v4l2_buffer.cpp.                                                        *)

\* V4L2QueueBuffer (QueueBuffer and, for "ctl", CreatBuffer) takes the lock; VIDIOC_QBUF
\* fails for a buffer that the driver has or has not got memory for.
V4L2QueueBuffer(t, c, b) ==
  /\ asked[t] = NoFrame
  /\ t = "ctl" => ctl = Idle
  /\ c \in fdMatch /\ b \in app[c]
  /\ bufferLock_ = "none"
  /\ c \in requested /\ b \notin Has(c)
  /\ bufferLock_' = t
  /\ queued' = [queued EXCEPT ![c] = @ \cup {b}]
  /\ asked' = [asked EXCEPT ![t] = <<c, b>>]
  /\ UNCHANGED <<dev_vars, queueBuffers_, dequeueBuffer_, ctl, loop_vars, client_vars, requested, on, done>>

\* The entry in the map, and the unlock.
V4L2QueueBuffer_insert(t) ==
  /\ asked[t] # NoFrame
  /\ LET c == asked[t][1]  b == asked[t][2] IN
     /\ queueBuffers_' = [queueBuffers_ EXCEPT ![c] = @ \cup {b}]
     /\ app' = [app EXCEPT ![c] = @ \ {b}]
  /\ bufferLock_' = "none"
  /\ asked' = [asked EXCEPT ![t] = NoFrame]
  /\ UNCHANGED <<dev_vars, dequeueBuffer_, ctl, loop_vars, streams, early, driver_vars>>

\* V4L2DequeueBuffer: VIDIOC_DQBUF of the next camera that epoll_wait has named, without
\* the lock; the stream may have been stopped in the meantime.
V4L2DequeueBuffer(c) ==
  /\ loop = "events" /\ c \in events
  /\ events' = events \ {c}
  /\ \/ /\ done[c] = << >>
        /\ UNCHANGED <<loop, got, done>>
     \/ /\ done[c] # << >>
        /\ done' = [done EXCEPT ![c] = Tail(@)]
        /\ got' = <<c, Head(done[c])>>
        /\ loop' = "lookup"
  /\ UNCHANGED <<dev_vars, buffer_vars, ctl, asked, client_vars, requested, on, queued>>

\* Mutant: the lock is given back before the callback and the erase.
V4L2DequeueBuffer_lookup_unlocked ==
  /\ loop = "lookup" /\ bufferLock_ = "none"
  /\ early' = [early EXCEPT ![got[1]] = @ \cap Has(got[1])]
  /\ LET c == got[1]  b == got[2] IN
     \/ /\ b \notin queueBuffers_[c]
        /\ loop' = "events" /\ got' = NoFrame
        /\ UNCHANGED <<bufferLock_, queueBuffers_, app>>
     \/ /\ b \in queueBuffers_[c] /\ ~dequeueBuffer_
        /\ queueBuffers_' = [queueBuffers_ EXCEPT ![c] = @ \ {b}]
        /\ loop' = "events" /\ got' = NoFrame
        /\ UNCHANGED <<bufferLock_, app>>
     \/ /\ b \in queueBuffers_[c] /\ dequeueBuffer_
        /\ app' = [app EXCEPT ![c] = @ \cup {b}]
        /\ loop' = "erase"
        /\ UNCHANGED <<bufferLock_, queueBuffers_, got>>
  /\ UNCHANGED <<dev_vars, dequeueBuffer_, ctl, asked, events, streams, driver_vars>>

\* The lookup under the lock, and the callback; without an entry the frame is dropped, and
\* without a callback the entry, too.
V4L2DequeueBuffer_lookup ==
  /\ loop = "lookup" /\ bufferLock_ = "none"
  /\ early' = [early EXCEPT ![got[1]] = @ \cap Has(got[1])]
  /\ LET c == got[1]  b == got[2] IN
     \/ /\ b \notin queueBuffers_[c]
        /\ loop' = "events" /\ got' = NoFrame
        /\ UNCHANGED <<bufferLock_, queueBuffers_, app>>
     \/ /\ b \in queueBuffers_[c] /\ ~dequeueBuffer_
        /\ queueBuffers_' = [queueBuffers_ EXCEPT ![c] = @ \ {b}]
        /\ loop' = "events" /\ got' = NoFrame
        /\ UNCHANGED <<bufferLock_, app>>
     \/ /\ b \in queueBuffers_[c] /\ dequeueBuffer_
        /\ bufferLock_' = "loop"
        /\ app' = [app EXCEPT ![c] = @ \cup {b}]
        /\ loop' = "erase"
        /\ UNCHANGED <<queueBuffers_, got>>
  /\ UNCHANGED <<dev_vars, dequeueBuffer_, ctl, asked, events, streams, driver_vars>>

\* bufferMap.erase after the callback, and the unlock
V4L2DequeueBuffer_erase ==
  /\ loop = "erase"
  /\ queueBuffers_' = [queueBuffers_ EXCEPT ![got[1]] = @ \ {got[2]}]
  /\ bufferLock_' = "none"
  /\ loop' = "events" /\ got' = NoFrame
  /\ UNCHANGED <<dev_vars, dequeueBuffer_, ctl, asked, events, client_vars, driver_vars>>

\* Mutant: the map is emptied without the callbacks.
Flush_drops(c) ==
  /\ ctl = Idle /\ asked["ctl"] = NoFrame /\ c \in fdMatch
  /\ bufferLock_ = "none"
  /\ dequeueBuffer_
  /\ queueBuffers_' = [queueBuffers_ EXCEPT ![c] = {}]
  /\ early' = [early EXCEPT ![c] = Out(c)]
  /\ UNCHANGED <<app, dev_vars, bufferLock_, dequeueBuffer_, ctl, asked, loop_vars, streams, driver_vars>>

\* Flush: the callback for every entry, then the map is empty.
Flush(c) ==
  /\ ctl = Idle /\ asked["ctl"] = NoFrame /\ c \in fdMatch
  /\ bufferLock_ = "none"
  /\ dequeueBuffer_
  /\ app' = [app EXCEPT ![c] = @ \cup queueBuffers_[c]]
  /\ queueBuffers_' = [queueBuffers_ EXCEPT ![c] = {}]
  /\ early' = [early EXCEPT ![c] = Out(c)]
  /\ UNCHANGED <<dev_vars, bufferLock_, dequeueBuffer_, ctl, asked, loop_vars, streams, driver_vars>>

\* Mutant: queueBuffers_.erase(fd) is missing.
ReleaseBuffers_keeps_map(c) ==
  /\ ctl = Idle /\ asked["ctl"] = NoFrame /\ c \in fdMatch /\ myBuffers_
  /\ bufferLock_ = "none"
  /\ app' = [app EXCEPT ![c] = Buffers[c]]
  /\ IF c \in on THEN early' = [early EXCEPT ![c] = Out(c)] /\ UNCHANGED <<requested, queued, done>>
     ELSE early' = [early EXCEPT ![c] = InLoop(c)] /\ requested' = requested \ {c} /\ GivesUp(c)
  /\ UNCHANGED <<dev_vars, queueBuffers_, bufferLock_, dequeueBuffer_, ctl, asked, loop_vars, streams, on>>

\* ReleaseBuffers: the map is dropped without a callback, after which the upper layer is
\* taken to have all its buffers again, then VIDIOC_REQBUFS with 0, which fails on a camera
\* that streams.
ReleaseBuffers(c) ==
  /\ ctl = Idle /\ asked["ctl"] = NoFrame /\ c \in fdMatch /\ myBuffers_
  /\ bufferLock_ = "none"
  /\ app' = [app EXCEPT ![c] = Buffers[c]]
  /\ queueBuffers_' = [queueBuffers_ EXCEPT ![c] = {}]
  /\ IF c \in on THEN early' = [early EXCEPT ![c] = Out(c)] /\ UNCHANGED <<requested, queued, done>>
     ELSE early' = [early EXCEPT ![c] = InLoop(c)] /\ requested' = requested \ {c} /\ GivesUp(c)
  /\ UNCHANGED <<dev_vars, bufferLock_, dequeueBuffer_, ctl, asked, loop_vars, streams, on>>

-----------------------------------------------------------------------------
(* v4l2_dev.cpp: calls that do not start or stop streams.                  *)

Free == ctl = Idle /\ asked["ctl"] = NoFrame
Elsewhere == UNCHANGED <<streamNumber_, streamThread_, eventFd_, bufferLock_, queueBuffers_, ctl, asked, loop_vars, streams, app>>

start(c) ==
  /\ Free /\ c \notin fdMatch
  /\ fdMatch' = fdMatch \cup {c}
  /\ Elsewhere /\ UNCHANGED <<myBuffers_, epoll, early, dequeueBuffer_, driver_vars>>

\* stop closes the device, whatever its stream and its buffers are: the driver forgets them
\* and the kernel takes the file out of the epoll set.  The map keeps its entry for the file
\* descriptor, which the next start gets again.
stop(c) ==
  /\ Free /\ c \in fdMatch
  /\ fdMatch' = fdMatch \ {c}
  /\ requested' = requested \ {c} /\ on' = on \ {c} /\ GivesUp(c)
  /\ epoll' = epoll \ {c}
  /\ early' = [early EXCEPT ![c] = @ \cap InLoop(c)]
  /\ Elsewhere /\ UNCHANGED <<myBuffers_, dequeueBuffer_>>

\* ReqBuffers; when it fails the driver has no buffers either.
ReqBuffers(c) ==
  /\ Free /\ c \in fdMatch \ (requested \cup on)
  /\ myBuffers_' = TRUE
  /\ requested' = requested \cup {c}
  /\ Elsewhere /\ UNCHANGED <<fdMatch, epoll, early, dequeueBuffer_, on, queued, done>>

\* SetCallback; before the first ReqBuffers it fails.
SetCallback ==
  /\ Free /\ myBuffers_ /\ ~dequeueBuffer_
  /\ dequeueBuffer_' = TRUE
  /\ Elsewhere /\ UNCHANGED <<fdMatch, myBuffers_, epoll, early, driver_vars>>

-----------------------------------------------------------------------------
(* StartStream and StopStream.                                             *)

Others == UNCHANGED <<myBuffers_, buffer_vars, asked, app, requested>>

\* For the first stream there is a new epoll set and a new event.
CreateEpoll(c) ==
  /\ epoll' = (IF streamNumber_ = 0 THEN {} ELSE epoll) \cup {c}
  /\ eventFd_' = IF streamNumber_ = 0 THEN FALSE ELSE eventFd_

EraseEpoll(c) == epoll' = epoll \ {c}

\* VIDIOC_STREAMON, CreateEpoll.
StartStream(c) ==
  /\ Free /\ c \in requested \ streams
  /\ on' = on \cup {c}
  /\ \/ /\ CreateEpoll(c)
        /\ ctl' = In("start", c, IF streamNumber_ = 0 THEN "spawn" ELSE "count")
     \/ /\ streamNumber_ = 0                       \* epoll_create fails
        /\ epoll' = {}
        /\ UNCHANGED <<eventFd_, ctl>>
  /\ Others /\ UNCHANGED <<fdMatch, streamNumber_, streamThread_, loop_vars, streams, early, queued, done>>

\* The thread is created, or there is no memory for it: the call returns and leaves the
\* device streaming and the epoll set behind ...
StartStream_spawn ==
  /\ ctl.at = "spawn"
  /\ \/ /\ streamThread_' = TRUE
        /\ loop' = "test"
        /\ ctl' = [ctl EXCEPT !.at = "count"]
     \/ /\ streamThread_' = FALSE
        /\ loop' = "none"
        /\ ctl' = Idle
  /\ events' = {} /\ got' = NoFrame
  /\ Others /\ UNCHANGED <<fdMatch, streamNumber_, epoll, eventFd_, streams, early, on, queued, done>>

\* Mutant: streamNumber_ is not counted up.
StartStream_count_not ==
  /\ ctl.at = "count"
  /\ streamNumber_' = streamNumber_
  /\ streams' = streams \cup {ctl.camera}
  /\ ctl' = Idle
  /\ Others /\ UNCHANGED <<fdMatch, streamThread_, epoll, eventFd_, loop_vars, early, on, queued, done>>

\* ... before the stream is counted.
StartStream_count ==
  /\ ctl.at = "count"
  /\ streamNumber_' = streamNumber_ + 1
  /\ streams' = streams \cup {ctl.camera}
  /\ ctl' = Idle
  /\ Others /\ UNCHANGED <<fdMatch, streamThread_, epoll, eventFd_, loop_vars, early, on, queued, done>>

\* The count, and for the last stream the event that wakes loopBuffers.
StopStream(c) ==
  /\ Free /\ c \in streams /\ streamThread_
  /\ streamNumber_' = streamNumber_ - 1
  /\ streams' = streams \ {c}
  /\ eventFd_' = IF streamNumber_ = 1 THEN TRUE ELSE eventFd_
  /\ ctl' = In("stop", c, IF streamNumber_ = 1 THEN "join" ELSE "off")
  /\ Others /\ UNCHANGED <<fdMatch, streamThread_, epoll, loop_vars, early, on, queued, done>>

\* streamThread_->join, and the event is closed
StopStream_join ==
  /\ ctl.at = "join" /\ loop = "exit"
  /\ eventFd_' = FALSE
  /\ ctl' = [ctl EXCEPT !.at = "off"]
  /\ Others /\ UNCHANGED <<fdMatch, streamNumber_, streamThread_, epoll, loop_vars, streams, early, on, queued, done>>

\* Mutant: EraseEpoll is missing.
StopStream_off_no_erase ==
  /\ ctl.at = "off"
  /\ \/ UNCHANGED <<streamThread_, loop, epoll, early, on, queued, done>>
     \/ /\ ctl.camera \in fdMatch
        /\ on' = on \ {ctl.camera}
        /\ GivesUp(ctl.camera)
        /\ early' = [early EXCEPT ![ctl.camera] = @ \cap InLoop(ctl.camera)]
        /\ IF streamNumber_ = 0 THEN streamThread_' = FALSE /\ loop' = "none" /\ epoll' = {}
           ELSE epoll' = epoll /\ UNCHANGED <<streamThread_, loop>>
  /\ ctl' = Idle
  /\ Others /\ UNCHANGED <<fdMatch, streamNumber_, eventFd_, events, got, streams>>

\* Mutant: epollFd_ is closed for every stream.
StopStream_off_closes ==
  /\ ctl.at = "off"
  /\ \/ UNCHANGED <<streamThread_, loop, epoll, early, on, queued, done>>
     \/ /\ ctl.camera \in fdMatch
        /\ on' = on \ {ctl.camera}
        /\ GivesUp(ctl.camera)
        /\ early' = [early EXCEPT ![ctl.camera] = @ \cap InLoop(ctl.camera)]
        /\ IF streamNumber_ = 0 THEN streamThread_' = FALSE /\ loop' = "none" /\ epoll' = {}
           ELSE epoll' = {} /\ UNCHANGED <<streamThread_, loop>>
  /\ ctl' = Idle
  /\ Others /\ UNCHANGED <<fdMatch, streamNumber_, eventFd_, events, got, streams>>

\* GetCurrentFd or VIDIOC_STREAMOFF fails and the call returns; or the device stops, EraseEpoll,
\* and for the last stream the end of epoll set and thread object.
StopStream_off ==
  /\ ctl.at = "off"
  /\ \/ UNCHANGED <<streamThread_, loop, epoll, early, on, queued, done>>
     \/ /\ ctl.camera \in fdMatch
        /\ on' = on \ {ctl.camera}
        /\ GivesUp(ctl.camera)
        /\ early' = [early EXCEPT ![ctl.camera] = @ \cap InLoop(ctl.camera)]
        /\ IF streamNumber_ = 0 THEN streamThread_' = FALSE /\ loop' = "none" /\ epoll' = {}
           ELSE EraseEpoll(ctl.camera) /\ UNCHANGED <<streamThread_, loop>>
  /\ ctl' = Idle
  /\ Others /\ UNCHANGED <<fdMatch, streamNumber_, eventFd_, events, got, streams>>

-----------------------------------------------------------------------------
(* loopBuffers.                                                            *)

\* Mutant: >= 0.
loop_test_ge ==
  /\ loop = "test"
  /\ loop' = IF streamNumber_ >= 0 THEN "wait" ELSE "exit"
  /\ UNCHANGED <<dev_vars, buffer_vars, ctl, asked, events, got, client_vars, driver_vars>>

loop_test ==
  /\ loop = "test"
  /\ loop' = IF streamNumber_ > 0 THEN "wait" ELSE "exit"
  /\ UNCHANGED <<dev_vars, buffer_vars, ctl, asked, events, got, client_vars, driver_vars>>

\* epoll_wait: frames or the event
Ready == {c \in epoll : done[c] # << >>}
loop_wait ==
  /\ loop = "wait"
  /\ Ready # {} \/ eventFd_
  /\ events' = Ready
  /\ loop' = "events"
  /\ UNCHANGED <<dev_vars, buffer_vars, ctl, asked, got, client_vars, driver_vars>>

loop_next ==
  /\ loop = "events" /\ events = {}
  /\ loop' = "test"
  /\ UNCHANGED <<dev_vars, buffer_vars, ctl, asked, events, got, client_vars, driver_vars>>

loopBuffers ==
  \/ loop_test \/ loop_wait \/ loop_next
  \/ \E c \in Cameras : V4L2DequeueBuffer(c)
  \/ V4L2DequeueBuffer_lookup \/ V4L2DequeueBuffer_erase

-----------------------------------------------------------------------------
Starting == StartStream_spawn \/ StartStream_count
Stopping == StopStream_join \/ StopStream_off
Call(c) ==
  \/ start(c) \/ stop(c) \/ ReqBuffers(c) \/ StartStream(c) \/ StopStream(c)
  \/ Flush(c) \/ ReleaseBuffers(c)

Next ==
  \/ \E c \in Cameras : Call(c)
  \/ SetCallback \/ Starting \/ Stopping
  \/ \E t \in Callers, f \in Frame : V4L2QueueBuffer(t, f[1], f[2])
  \/ \E t \in Callers : V4L2QueueBuffer_insert(t)
  \/ loopBuffers
  \/ \E f \in Frame : driver_fills(f[1], f[2])

Spec == Init /\ [][Next]_vars

\* Threads go on with what they have begun, loopBuffers runs and gets the lock although the
\* others take it again and again.  Nobody has to call anything and the driver may stall.
FairSpec ==
  /\ Spec
  /\ WF_vars(Starting) /\ WF_vars(Stopping)
  /\ \A t \in Callers : WF_vars(V4L2QueueBuffer_insert(t))
  /\ WF_vars(loopBuffers) /\ SF_vars(V4L2DequeueBuffer_lookup)

-----------------------------------------------------------------------------
(* Properties.                                                             *)

Frames == Frame \cup {NoFrame}
TypeOK ==
  /\ fdMatch \subseteq Cameras /\ streamNumber_ \in Nat /\ streamThread_ \in BOOLEAN
  /\ myBuffers_ \in BOOLEAN
  /\ epoll \subseteq Cameras /\ eventFd_ \in BOOLEAN
  /\ bufferLock_ \in Callers \cup {"none", "loop"}
  /\ queueBuffers_ \in [Cameras -> SUBSET Index] /\ dequeueBuffer_ \in BOOLEAN
  /\ ctl \in [call : {"none", "start", "stop"}, camera : Cameras \cup {"none"},
              at : {"idle", "spawn", "count", "join", "off"}]
  /\ asked \in [Callers -> Frames]
  /\ loop \in {"none", "test", "wait", "events", "lookup", "erase", "exit"}
  /\ events \subseteq Cameras /\ got \in Frames
  /\ streams \subseteq Cameras /\ app \in [Cameras -> SUBSET Index]
  /\ requested \subseteq Cameras /\ on \subseteq Cameras
  /\ queued \in [Cameras -> SUBSET Index] /\ done \in [Cameras -> Seq(Index)]
  /\ early \in [Cameras -> SUBSET Index]

\* A buffer is with the upper layer or in the map, and in both only while the callback that
\* hands it over has not returned: V4L2QueueBuffer, Flush and ReleaseBuffers of other threads
\* wait until the entry is erased.
OneOwner ==
  \A c \in Cameras : \A b \in app[c] \cap queueBuffers_[c] : loop = "erase" /\ got = <<c, b>>

\* Once there is a callback no step loses a buffer: one that the upper layer queues again
\* from another thread during the callback is not erased with the entry of the old frame.
Known(c) == app[c] \cup queueBuffers_[c]
NeverLost == [][dequeueBuffer_ => \A c \in Cameras : Known(c) \subseteq Known(c)']_vars

\* Every buffer the driver has, queued or filled, is in the map, or will be before the lock is
\* free: however soon a frame completes after VIDIOC_QBUF, loopBuffers finds its entry.  The
\* exception are the buffers that Flush or ReleaseBuffers gave back although the driver or
\* loopBuffers had them: until the frame in hand has been looked up they may be in the driver
\* and not in the map, queued again or not.
Pending(c) == {b \in Index : \E t \in Callers : asked[t] = <<c, b>>}
MapMatchesDriver ==
  \A c \in Cameras : Has(c) \subseteq queueBuffers_[c] \cup Pending(c) \cup early[c]

\* Between calls, also after one that failed half-way, streamNumber_ counts the streams started
\* and not stopped; while there is one there is a thread object, and without one loopBuffers
\* has ended; the epoll set has every such stream whose device streams and no camera whose
\* device does not.  loopBuffers never runs without its thread object.
StreamsCounted ==
  /\ ctl = Idle =>
       /\ streamNumber_ = Cardinality(streams)
       /\ streams # {} => streamThread_
       /\ streams = {} => loop \in {"none", "exit"}
       /\ streams \cap on \subseteq epoll /\ epoll \subseteq on
  /\ loop \notin {"none", "exit"} => streamThread_

\* StopStream returns: the last one wakes loopBuffers wherever that is, also when it is
\* between its test of streamNumber_ and epoll_wait without a timeout.
StopEnds == (ctl.call = "stop") ~> (ctl = Idle)

\* As long as loopBuffers runs it takes every frame of a started stream.
FramesTaken ==
  \A f \in Frame :
    (f[1] \in streams /\ f[2] \in Filled(f[1]) /\ loop # "exit")
      ~> (f[1] \notin streams \/ f[2] \notin Filled(f[1]) \/ loop = "exit")

\* The frames of a stream that StartStream has started reach the callback ("callback to up").
FramesDelivered ==
  \A f \in Frame :
    (f[1] \in streams /\ f[2] \in Filled(f[1])) ~> (f[1] \notin streams \/ f[2] \notin Filled(f[1]))
=============================================================================
