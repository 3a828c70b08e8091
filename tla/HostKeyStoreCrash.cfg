\* The process dies between the two renames of _save().
CONSTANTS
  NoKey = NoKey
  Absent = Absent
  BadSig = BadSig
  NoCall = NoCall
  Calls = {a, b}
  Hosts = {h1, h2}
  Keys = {k1, k2}
  Faults = {"crashInSave"}
SPECIFICATION Spec
INVARIANT NoFalseTamperAlarm
