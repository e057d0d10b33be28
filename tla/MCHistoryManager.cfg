SPECIFICATION Spec
CONSTANTS
  s1 = s1
  s2 = s2
  m1 = m1
  m2 = m2
  m3 = m3
  Session = {s1, s2}
  Message = {m1, m2, m3}
  Nobody = Nobody
  NullOpt = NullOpt
  MaxClock = 1
  MaxFaults = 1
SYMMETRY MCSymmetry
INVARIANTS TypeOK LoadedIsBeginning
PROPERTY TranscriptSpec
