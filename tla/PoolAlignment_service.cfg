SPECIFICATION Spec
CONSTANTS
  Sessions = {s1, s2}
  NoSession = NoSession
  Images = {i1, i2}
  Values = {v1, v2}
  None = None
  MinSamples = 2
  MaxEpoch = 3
  MaxBoots = 2
INVARIANTS OneSession EnvelopeIsOneFrame
PROPERTIES ImplementsService
