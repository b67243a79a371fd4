SPECIFICATION FairSpec
CONSTANTS
  Probes = {p1, p2}
  Lifetime = 2
  Window = 5
  Refresh = 1
INVARIANTS TypeOK LossIsAProbes NoProbeForgotten
PROPERTIES SampleStands EveryProbeDecided
