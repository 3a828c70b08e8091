\* Every fault but an unreadable store file and files deleted under a running
\* process.
CONSTANTS
  NoKey = NoKey
  Absent = Absent
  BadSig = BadSig
  NoCall = NoCall
  Calls = {a, b, c}
  Hosts = {h1, h2}
  Keys = {k1, k2}
  Faults = {"storeUnwritable", "sigUnwritable", "sigUnreadable", "crashInSave",
            "signOut", "tornKey"}
SPECIFICATION FairSpec
PROPERTIES KnownKeysKept ImplementsTofu CallsReturn
