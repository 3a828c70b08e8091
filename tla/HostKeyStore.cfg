\* Concurrent calls and restarts; now and then the store file cannot be read.
CONSTANTS
  NoKey = NoKey
  Absent = Absent
  BadSig = BadSig
  NoCall = NoCall
  Calls = {a, b, c}
  Hosts = {h1, h2}
  Keys = {k1, k2}
  Faults = {"storeUnreadable"}
SPECIFICATION Spec
INVARIANTS NoFalseTamperAlarm FirstSightPersisted
PROPERTY DeletedMeansRelearn
