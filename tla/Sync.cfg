SPECIFICATION FairSpec
CONSTANTS
  d1 = d1
  d2 = d2
  c1 = c1
  c2 = c2
  t1 = t1
  me = me
  Topics = {t1}
  Names = {me}
  OwnName = me
  Absent = Absent
  Devices = {d1, d2}
  Commands = {c1, c2}
  DeviceOf <- MCDeviceOf
  Changes <- MCChanges
  Seeds <- MCSeeds
  Times = {3}
  Created = 3
  NewHistories <- MCNewHistories
  Batches <- MCBatches
  NoProfile = NoProfile
  MaxProfileEvents = 3
  MaxSigned = 2
  MaxMishaps = 1
  FirstId = 2
INVARIANTS TypeOK HostedIsReplay FileIsReplay WithdrawalStands
PROPERTIES NeverRolledBack Converges
