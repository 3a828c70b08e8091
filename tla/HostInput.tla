----------------------------- MODULE HostInput ------------------------------
(***************************************************************************)
(* utils/host_input.py: what becomes of the addresses that the operator    *)
(* types for a task.  An address is a spelling of four numbers.            *)
(***************************************************************************)
EXTENDS Integers, Sequences, SequencesExt

CONSTANTS
  Spellings,  \* addresses that _is_valid_ipv4() accepts
  Malformed,  \* one that it does not
  MaxHosts    \* MAX_HOSTS

ASSUME HostInputAssumption == Malformed \notin Spellings /\ MaxHosts \in Nat \ {0}

Typed == Spellings \union {Malformed}

\* Variant: duplicates are not looked for.
KnownNever(valid, h) == FALSE

Seen(valid, h) == Contains(valid, h)

\* The loop of _validate_hosts().
Accept(valid, h) ==
  IF h = Malformed \/ Seen(valid, h) THEN valid ELSE Append(valid, h)

\* _validate_hosts() without the list of invalid addresses, which is printed only.
ValidateHosts(raw) ==
  LET upTo[i \in 0 .. Len(raw)] ==
        IF i = 0 THEN <<>> ELSE Accept(upTo[i - 1], raw[i])
      valid == upTo[Len(raw)]
  IN SubSeq(valid, 1, IF Len(valid) > MaxHosts THEN MaxHosts ELSE Len(valid))
=============================================================================
