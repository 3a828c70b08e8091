------------------------------ MODULE SshSlots ------------------------------
(***************************************************************************)
(* What the global SSH semaphore of utils/ssh.py promises, whatever the    *)
(* steps that provide it: at most Limit clients hold a slot, a session is  *)
(* only ever open under a slot, and a slot goes back only after the        *)
(* session it covered is gone.                                             *)
(***************************************************************************)
EXTENDS Naturals, FiniteSets

CONSTANTS
  Clients,  \* the client objects that compete for slots
  Limit     \* how many slots there are

VARIABLES
  holders,  \* the clients that hold a slot
  live      \* the clients with an open, authenticated session

vars == <<holders, live>>

Init == holders = {} /\ live = {}

Take(c) ==
  /\ c \notin holders
  /\ Cardinality(holders) < Limit
  /\ holders' = holders \union {c}
  /\ UNCHANGED live

Open(c) ==
  /\ c \in holders \ live
  /\ live' = live \union {c}
  /\ UNCHANGED holders

Drop(c) ==
  /\ c \in live
  /\ live' = live \ {c}
  /\ UNCHANGED holders

Give(c) ==
  /\ c \in holders \ live
  /\ holders' = holders \ {c}
  /\ UNCHANGED live

Next == \E c \in Clients : Take(c) \/ Open(c) \/ Drop(c) \/ Give(c)

Spec == Init /\ [][Next]_vars
=============================================================================
