---------------------------- MODULE AdvisoryLock ----------------------------
(***************************************************************************)
(* What the PID file's advisory lock promises the launchers (spec section  *)
(* 5: "a cooperative, non-reentrant, process-scoped primitive, shared mode *)
(* for reads, exclusive for writes").  Each process's handle is in one     *)
(* mode; a handle takes a lock only when no other handle conflicts, and     *)
(* releases it at any time (unlock, close, exit, exec).                    *)
(***************************************************************************)
CONSTANT Holders

VARIABLE mode   \* mode[h]: "none", "sh" or "ex"

Init == mode = [h \in Holders |-> "none"]

(* flock(LOCK_SH) is granted while nobody holds the lock exclusively.      *)
LockShared(h) ==
  /\ mode[h] = "none"
  /\ \A g \in Holders : mode[g] # "ex"
  /\ mode' = [mode EXCEPT ![h] = "sh"]

(* flock(LOCK_EX) is granted while nobody else holds the lock at all.      *)
LockExclusive(h) ==
  /\ mode[h] = "none"
  /\ \A g \in Holders \ {h} : mode[g] = "none"
  /\ mode' = [mode EXCEPT ![h] = "ex"]

Release(h) ==
  /\ mode[h] # "none"
  /\ mode' = [mode EXCEPT ![h] = "none"]

Next == \E h \in Holders : LockShared(h) \/ LockExclusive(h) \/ Release(h)

Spec == Init /\ [][Next]_mode

(* Every holder is in one of the three modes.                              *)
ModeOK == mode \in [Holders -> {"none", "sh", "ex"}]

(* What the lock promises its holders (spec section 5): while one holder   *)
(* has the exclusive lock, no other holder has any lock.                   *)
Exclusion ==
  \A h \in Holders : mode[h] = "ex" => \A g \in Holders \ {h} : mode[g] = "none"
=============================================================================
