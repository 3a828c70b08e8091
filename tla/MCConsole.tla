----------------------------- MODULE MCConsole ------------------------------
EXTENDS Console
CONSTANTS u1, u2, r1, r2, x, y, z

\* z is x with a leading zero.
Machine == [s \in Spellings |-> IF s = z THEN x ELSE s]

\* No machine is visited twice by a task.
MachineOnce == MachinesDistinct(Machine)
=============================================================================
