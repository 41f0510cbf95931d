SPECIFICATION FairSpec
CONSTANTS
  c1 = c1
  c2 = c2
  b1 = b1
  b2 = b2
  Cameras = {c1, c2}
  Indices = {b1}
  Buffers <- MCBuffers
INVARIANTS TypeOK OneOwner MapMatchesDriver StreamsCounted
PROPERTIES NeverLost StopEnds FramesTaken
