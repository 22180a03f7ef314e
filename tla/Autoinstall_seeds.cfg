SPECIFICATION FairSpec
CONSTANTS
  i1 = i1
  i2 = i2
  s1 = s1
  s2 = s2
  s3 = s3
  n = n
  Isos = {i1, i2}
  Scripts = {s1, s2, s3}
  IsoOf <- MCIsoOf
  NameOf <- MCNameOf
  MaxFaults = 2
  MaxChanges = 1
INVARIANTS TypeOK SucceededIsServable SharedIsWhole FailsAlone
PROPERTIES Converges
