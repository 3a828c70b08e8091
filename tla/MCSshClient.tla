---------------------------- MODULE MCSshClient -----------------------------
(* Instances of SshClient for TLC: three threads compete for two slots. *)
EXTENDS SshClient

\* Ctrl+C while close() waits for the session to end.
WhileClosing == {"close"}
=============================================================================
