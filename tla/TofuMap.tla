------------------------------ MODULE TofuMap -------------------------------
(***************************************************************************)
(* Trust on first use, as utils/ssh_known_hosts.py promises it to a        *)
(* connection: a map from hosts to keys that, while the process lives,     *)
(* only grows, and verdicts that agree with it.  A restart may lose        *)
(* entries, never change one.                                              *)
(***************************************************************************)

CONSTANTS
  Calls,  \* the verification calls
  Hosts,
  Keys,
  NoKey   \* the host is not known

VARIABLES
  known,    \* what the process knows about each host
  request,  \* the host and key each call is about
  verdict   \* "none" while the call runs, then "accept", "reject" or "error"

vars == <<known, request, verdict>>

Forgotten(before, after) == \A h \in Hosts : after[h] \in {before[h], NoKey}

Init ==
  /\ known \in [Hosts -> Keys \union {NoKey}]
  /\ request \in [Calls -> [host : Hosts, key : Keys]]
  /\ verdict = [c \in Calls |-> "none"]

Ask(c) ==
  /\ verdict[c] = "none"
  /\ \E h \in Hosts, k \in Keys :
       request' = [request EXCEPT ![c] = [host |-> h, key |-> k]]
  /\ UNCHANGED <<known, verdict>>

Learn ==
  /\ \E h \in Hosts, k \in Keys :
       known[h] = NoKey /\ known' = [known EXCEPT ![h] = k]
  /\ UNCHANGED <<request, verdict>>

Answer(c, v) ==
  /\ verdict[c] = "none"
  /\ verdict' = [verdict EXCEPT ![c] = v]
  /\ UNCHANGED <<known, request>>

Accept(c) == known[request[c].host] = request[c].key /\ Answer(c, "accept")

Reject(c) ==
  /\ known[request[c].host] \notin {NoKey, request[c].key}
  /\ Answer(c, "reject")

\* A host that fails with an exception may have been learned on the way.
Fail(c) ==
  /\ verdict[c] = "none"
  /\ verdict' = [verdict EXCEPT ![c] = "error"]
  /\ \/ UNCHANGED known
     \/ known[request[c].host] = NoKey
        /\ known' = [known EXCEPT ![request[c].host] = request[c].key]
  /\ UNCHANGED request

\* The new process makes calls of its own.
Restart ==
  /\ Forgotten(known, known')
  /\ request' \in [Calls -> [host : Hosts, key : Keys]]
  /\ verdict' = [c \in Calls |-> "none"]

Next ==
  \/ Learn \/ Restart
  \/ \E c \in Calls : Ask(c) \/ Accept(c) \/ Reject(c) \/ Fail(c)

Spec == Init /\ [][Next]_vars
=============================================================================
