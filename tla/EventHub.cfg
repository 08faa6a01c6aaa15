SPECIFICATION FairSpec
CONSTANTS
    audio = audio
    video = video
    Publishers = {1, 2}
    Keys = {audio, video}
    Clients = {c1}
    Capacity = 2
    Buffer = 1
    MaxEvents = 3
    Writes <- ThreeEvents
INVARIANTS
  ViewCurrent
PROPERTIES
  NoRepeat
  Converges
