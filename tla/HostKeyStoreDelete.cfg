\* The operator deletes both files of a running process.
CONSTANTS
  NoKey = NoKey
  Absent = Absent
  BadSig = BadSig
  NoCall = NoCall
  Calls = {a, b}
  Hosts = {h1, h2}
  Keys = {k1, k2}
  Faults = {"deleteWhileUp"}
SPECIFICATION Spec
PROPERTY DeletedMeansRelearn
