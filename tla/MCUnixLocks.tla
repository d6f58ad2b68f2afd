----------------------------- MODULE MCUnixLocks -----------------------------
(* Two connections of one process and one of another: every case of        *)
(* unixLock and posixUnlock, sharing within a process and across.          *)
EXTENDS UnixLocks, TLC

CONSTANTS app, other, a, b, c

MCProc == a :> app @@ b :> app @@ c :> other
==============================================================================
