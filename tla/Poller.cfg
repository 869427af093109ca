SPECIFICATION Spec
CONSTANTS
  Addresses = {a1, a2, a3}
  Fds = {d1, d2, d3}
  kEpollEventListSize = 2
  Null = Null
SYMMETRY Symmetry
INVARIANTS
  TypeOK
  PollerMirror
  NoStaleEntry
  EpollCtlNeverFails
  ActiveChannelsLive
