--------------------------- MODULE LauncherProofs ---------------------------
(***************************************************************************)
(* Proofs about Launcher for every set of pids, every set of commands and  *)
(* every bound: type correctness, and the soundness of the flock          *)
(* discipline (LockSound) that the launchers' lock steps rely on.          *)
(***************************************************************************)
EXTENDS Launcher, TLAPS

-----------------------------------------------------------------------------
(* Type correctness.                                                       *)

(* Every initial state of the launcher system is well typed.               *)
LEMMA TypeInit == Init => TypeOK
BY BoundAssumption DEF Init, TypeOK, ProcStates, Labels, LockModes

(* Every step of an operator invocation, a launcher, a signalled process, *)
(* a crash or an unrelated process keeps every variable in its type.       *)
LEMMA TypeStep == TypeOK /\ [Next]_vars => TypeOK'
<1> SUFFICES ASSUME TypeOK, [Next]_vars PROVE TypeOK'
  OBVIOUS
<1> USE DEF TypeOK, ProcStates, Labels, LockModes
<1>1. ASSUME NEW p \in Pid, NEW c \in Commands, Invoke(p, c) PROVE TypeOK'
  <2>1. Entry(c) \in Labels
    BY DEF Entry, Labels
  <2>. QED  BY <1>1, <2>1, BoundAssumption DEF Invoke, CallReadPid
<1>2. ASSUME NEW p \in Pid, LockStep(p) PROVE TypeOK'
  BY <1>2 DEF LockStep, ReadPidLock, WpLock, CpLock, StartLock, AcquireEx,
              Launcher, Goto
<1>3. ASSUME NEW p \in Pid, ReadPidRead(p) \/ WpTruncate(p) \/ WpWrite(p)
                              \/ CpTruncate(p)
      PROVE TypeOK'
  BY <1>3 DEF ReadPidRead, WpTruncate, WpWrite, CpTruncate, Launcher, Goto,
              Return
<1>4. ASSUME NEW p \in Pid, RunProbe(p) \/ RunCheck(p) \/ RunExec(p)
      PROVE TypeOK'
  BY <1>4 DEF RunProbe, RunCheck, RunExec, Launcher, CallReadPid,
              CallWritePid, Consume, Exit, Gone, ExecWorker
<1>5. ASSUME NEW p \in Pid, StartProbe(p) \/ StartCheck(p) \/ StartLock(p)
                              \/ StartDone(p) \/ StartExec(p)
      PROVE TypeOK'
  BY <1>5 DEF StartProbe, StartCheck, StartLock, StartDone, StartExec,
              Launcher, CallReadPid, Goto, Consume, Exit, Gone, ExecWorker,
              AcquireEx
<1>6. ASSUME NEW p \in Pid, StartFork(p) PROVE TypeOK'
  BY <1>6 DEF StartFork, Launcher, Exit, Gone
<1>7. ASSUME NEW p \in Pid, TermProbe(p) \/ TermSignal(p) \/ TermPoll(p)
                              \/ TermDone(p)
      PROVE TypeOK'
  BY <1>7 DEF TermProbe, TermSignal, TermPoll, TermDone, Launcher,
              CallReadPid, Goto, Consume, Exit, Gone
<1>8. ASSUME NEW p \in Pid, StatusProbe(p) \/ StatusCheck(p) PROVE TypeOK'
  BY <1>8 DEF StatusProbe, StatusCheck, Launcher, CallReadPid, Exit, Gone
<1>9. ASSUME NEW q \in Pid, Die(q) \/ Crash(q) \/ ForeignStart(q)
                              \/ ForeignExit(q)
      PROVE TypeOK'
  BY <1>9 DEF Die, Crash, ForeignStart, ForeignExit, Gone
<1>10. CASE Quiescent \/ UNCHANGED vars
  BY <1>10 DEF Quiescent, vars
<1>. QED
  BY <1>1, <1>2, <1>3, <1>4, <1>5, <1>6, <1>7, <1>8, <1>9, <1>10
     DEF Next, LocalStep

(* The launcher system is well typed in every reachable state.             *)
THEOREM TypeCorrect == Spec => []TypeOK
<1>1. Init => TypeOK  BY TypeInit
<1>2. TypeOK /\ [Next]_vars => TypeOK'  BY TypeStep
<1>. QED  BY <1>1, <1>2, PTL DEF Spec

-----------------------------------------------------------------------------
(* What an exit, crash, signal death or unrelated exit (Gone) does, pid by *)
(* pid: the process q's launcher state and flock are reset, every other    *)
(* pid keeps its own.  The invariant proofs below cite this instead of     *)
(* expanding Gone.                                                         *)
LEMMA GoneResets ==
  ASSUME TypeOK, NEW q \in Pid, Gone(q)
  PROVE  /\ proc'[q] = "free" /\ pc'[q] = "idle" /\ ret'[q] = "idle"
         /\ cmd'[q] = "none" /\ lk'[q] = "none"
         /\ rd'[q] = NoPid /\ tgt'[q] = NoPid
         /\ \A p \in Pid \ {q} :
               /\ proc'[p] = proc[p] /\ pc'[p] = pc[p] /\ ret'[p] = ret[p]
               /\ cmd'[p] = cmd[p] /\ lk'[p] = lk[p]
               /\ rd'[p] = rd[p] /\ tgt'[p] = tgt[p]
         /\ sigterm' = sigterm \ {q} /\ sigkill' = sigkill \ {q}
         /\ byOp' = byOp \ {q}
BY DEF Gone, TypeOK

-----------------------------------------------------------------------------
(* Lock soundness.  LockSound is inductive together with TypeOK: a shared  *)
(* lock is granted only when no other handle holds the exclusive one, an   *)
(* exclusive one only when no other handle holds any; every exit, crash    *)
(* and exec frees the handle; and only a free pid, which holds no lock,    *)
(* can become a forked child or an unrelated process.                      *)
IInv == TypeOK /\ LockSound

(* No lock is held initially.                                             *)
LEMMA LockInit == Init => LockSound
BY DEF Init, LockSound

(* Every step keeps the flock discipline.                                 *)
LEMMA LockStepSound == IInv /\ [Next]_vars => LockSound'
<1> SUFFICES ASSUME TypeOK, LockSound, [Next]_vars PROVE LockSound'
  BY DEF IInv
<1> USE DEF TypeOK, ProcStates, Labels, LockModes
<1>1. ASSUME NEW p \in Pid, NEW c \in Commands, Invoke(p, c) PROVE LockSound'
  BY <1>1 DEF Invoke, CallReadPid, LockSound
<1>2. ASSUME NEW p \in Pid, ReadPidLock(p) PROVE LockSound'
  BY <1>2 DEF ReadPidLock, Launcher, Goto, CanShare, LockSound
<1>3. ASSUME NEW p \in Pid, WpLock(p) \/ CpLock(p) \/ StartLock(p)
      PROVE LockSound'
  BY <1>3 DEF WpLock, CpLock, StartLock, AcquireEx, CanExcl, Launcher, Goto,
              LockSound
<1>4. ASSUME NEW p \in Pid, ReadPidRead(p) \/ WpTruncate(p) \/ WpWrite(p)
                              \/ CpTruncate(p)
      PROVE LockSound'
  BY <1>4 DEF ReadPidRead, WpTruncate, WpWrite, CpTruncate, Launcher, Goto,
              Return, LockSound
<1>5. ASSUME NEW p \in Pid, RunProbe(p) \/ RunCheck(p) \/ RunExec(p)
      PROVE LockSound'
  BY <1>5 DEF RunProbe, RunCheck, RunExec, Launcher, CallReadPid,
              CallWritePid, Consume, Exit, Gone, ExecWorker, LockSound
<1>6. ASSUME NEW p \in Pid, StartProbe(p) \/ StartCheck(p) \/ StartDone(p)
                              \/ StartExec(p)
      PROVE LockSound'
  BY <1>6 DEF StartProbe, StartCheck, StartDone, StartExec, Launcher,
              CallReadPid, Goto, Consume, Exit, Gone, ExecWorker, LockSound
<1>7. ASSUME NEW p \in Pid, StartFork(p) PROVE LockSound'
  BY <1>7 DEF StartFork, Launcher, Exit, Gone, LockSound
<1>8. ASSUME NEW p \in Pid, TermProbe(p) \/ TermSignal(p) \/ TermPoll(p)
                              \/ TermDone(p)
      PROVE LockSound'
  BY <1>8 DEF TermProbe, TermSignal, TermPoll, TermDone, Launcher,
              CallReadPid, Goto, Consume, Exit, Gone, LockSound
<1>9. ASSUME NEW p \in Pid, StatusProbe(p) \/ StatusCheck(p) PROVE LockSound'
  BY <1>9 DEF StatusProbe, StatusCheck, Launcher, CallReadPid, Exit, Gone,
              LockSound
<1>10. ASSUME NEW q \in Pid, Die(q) \/ Crash(q) \/ ForeignStart(q)
                               \/ ForeignExit(q)
       PROVE LockSound'
  BY <1>10 DEF Die, Crash, ForeignStart, ForeignExit, Gone, LockSound
<1>11. CASE Quiescent \/ UNCHANGED vars
  BY <1>11 DEF Quiescent, vars, LockSound
<1>. QED
  BY <1>1, <1>2, <1>3, <1>4, <1>5, <1>6, <1>7, <1>8, <1>9, <1>10, <1>11
     DEF Next, LocalStep, LockStep

(* In every reachable state an exclusive flock holder is alone, only live *)
(* launchers hold locks, and the exclusive lock is held only between       *)
(* AcquireLock and the truncate of WritePid or ClearPid.                   *)
THEOREM LockSoundness == Spec => []LockSound
<1>1. Init => IInv  BY TypeInit, LockInit DEF IInv
<1>2. IInv /\ [Next]_vars => IInv'  BY TypeStep, LockStepSound DEF IInv
<1>3. IInv => LockSound  BY DEF IInv
<1>. QED  BY <1>1, <1>2, <1>3, PTL DEF Spec

-----------------------------------------------------------------------------
(* The truncates run under the exclusive lock.  A launcher reaches the     *)
(* truncate of WritePid or ClearPid only through a Lock that granted it    *)
(* the exclusive lock, and only its own exit or exec takes that away; and  *)
(* WritePid is called with a pid (the own one, or the forked child's), so  *)
(* its write never empties the file.  No call returns into the middle of *)
(* WritePid or ClearPid.                                                   *)
TruncateInv ==
  /\ \A p \in Pid : pc[p] \in {"wp_truncate", "cp_truncate"} => lk[p] = "ex"
  /\ \A p \in Pid : pc[p] \in {"wp_lock", "wp_truncate", "wp_write"} =>
        tgt[p] \in Pid
  /\ \A p \in Pid : ret[p] \notin {"wp_lock", "wp_truncate", "wp_write",
                                 "cp_truncate"}

(* No launcher is inside WritePid or ClearPid initially.                   *)
LEMMA TruncateInit == Init => TruncateInv
BY DEF Init, TruncateInv

(* Only a Lock that grants the exclusive lock leads to a truncate, and     *)
(* every call of WritePid passes a pid.                                    *)
LEMMA TruncateStep == TypeOK /\ TruncateInv /\ [Next]_vars => TruncateInv'
<1> SUFFICES ASSUME TypeOK, TruncateInv, [Next]_vars PROVE TruncateInv'
  OBVIOUS
<1> USE DEF TypeOK, Labels, LockModes
<1>1. ASSUME NEW p \in Pid, NEW c \in Commands, Invoke(p, c) PROVE TruncateInv'
  BY <1>1 DEF Invoke, CallReadPid, Entry, TruncateInv
<1>2. ASSUME NEW p \in Pid, ReadPidLock(p) \/ ReadPidRead(p)
      PROVE TruncateInv'
  BY <1>2 DEF ReadPidLock, ReadPidRead, Launcher, Goto, Return, TruncateInv
<1>3. ASSUME NEW p \in Pid, WpLock(p) \/ CpLock(p) \/ StartLock(p)
      PROVE TruncateInv'
  BY <1>3 DEF WpLock, CpLock, StartLock, AcquireEx, Launcher, Goto,
              TruncateInv
<1>4. ASSUME NEW p \in Pid, WpTruncate(p) \/ WpWrite(p) \/ CpTruncate(p)
      PROVE TruncateInv'
  BY <1>4 DEF WpTruncate, WpWrite, CpTruncate, Launcher, Goto, Return,
              TruncateInv
<1>5. ASSUME NEW q \in Pid, Gone(q) PROVE TruncateInv'
  BY <1>5, GoneResets DEF TruncateInv
<1>6. ASSUME NEW p \in Pid, RunProbe(p) \/ RunCheck(p) \/ RunExec(p)
      PROVE TruncateInv'
  BY <1>6, <1>5 DEF RunProbe, RunCheck, RunExec, Launcher, CallReadPid,
                    CallWritePid, Consume, Exit, ExecWorker, TruncateInv
<1>7. ASSUME NEW p \in Pid, StartProbe(p) \/ StartCheck(p) \/ StartDone(p)
                              \/ StartExec(p)
      PROVE TruncateInv'
  BY <1>7, <1>5 DEF StartProbe, StartCheck, StartDone, StartExec, Launcher,
                    CallReadPid, Goto, Consume, Exit, ExecWorker, TruncateInv
<1>8. ASSUME NEW p \in Pid, StartFork(p) PROVE TruncateInv'
  BY <1>8, <1>5 DEF StartFork, Launcher, Exit, TruncateInv
<1>9. ASSUME NEW p \in Pid, TermProbe(p) \/ TermSignal(p) \/ TermPoll(p)
                              \/ TermDone(p)
      PROVE TruncateInv'
  BY <1>9, <1>5 DEF TermProbe, TermSignal, TermPoll, TermDone, Launcher,
                    CallReadPid, Goto, Consume, Exit, TruncateInv
<1>10. ASSUME NEW p \in Pid, StatusProbe(p) \/ StatusCheck(p)
       PROVE TruncateInv'
  BY <1>10, <1>5 DEF StatusProbe, StatusCheck, Launcher, CallReadPid, Exit,
                     TruncateInv
<1>11. ASSUME NEW q \in Pid, Die(q) \/ Crash(q) \/ ForeignExit(q)
                               \/ ForeignStart(q)
       PROVE TruncateInv'
  BY <1>11, <1>5 DEF Die, Crash, ForeignExit, ForeignStart, TruncateInv
<1>12. CASE Quiescent \/ UNCHANGED vars
  BY <1>12 DEF Quiescent, vars, TruncateInv
<1>. QED
  BY <1>1, <1>2, <1>3, <1>4, <1>6, <1>7, <1>8, <1>9, <1>10, <1>11, <1>12
     DEF Next, LocalStep, LockStep

(* Only the truncates empty the file, and they run under the lock; the     *)
(* write of WritePid writes a pid; every other step leaves the file alone. *)
LEMMA ClearedStep ==
  TypeOK /\ TruncateInv /\ [Next]_vars =>
    (pidFile # NoPid /\ pidFile' = NoPid => \E q \in Pid : lk[q] = "ex")
<1> SUFFICES ASSUME TypeOK, TruncateInv, [Next]_vars,
                    pidFile # NoPid, pidFile' = NoPid
             PROVE  \E q \in Pid : lk[q] = "ex"
  OBVIOUS
<1>1. ASSUME NEW p \in Pid, WpTruncate(p) \/ CpTruncate(p) PROVE lk[p] = "ex"
  BY <1>1 DEF WpTruncate, CpTruncate, Launcher, TruncateInv
<1>2. ASSUME NEW p \in Pid, WpWrite(p) PROVE FALSE
  BY <1>2, PidAssumption DEF WpWrite, Launcher, TruncateInv
<1>3. ~\E p \in Pid, c \in Commands : Invoke(p, c)
  BY DEF Invoke
<1>4. ~\E p \in Pid : \/ LockStep(p)
                      \/ ReadPidRead(p) \/ RunProbe(p) \/ RunCheck(p)
                      \/ RunExec(p) \/ StartProbe(p) \/ StartCheck(p)
                      \/ StartFork(p) \/ StartDone(p) \/ StartExec(p)
                      \/ TermProbe(p) \/ TermSignal(p) \/ TermPoll(p)
                      \/ TermDone(p) \/ StatusProbe(p) \/ StatusCheck(p)
  BY DEF LockStep, ReadPidLock, WpLock, CpLock, StartLock, ReadPidRead,
         RunProbe, RunCheck, RunExec, StartProbe, StartCheck, StartFork,
         StartDone, StartExec, TermProbe, TermSignal, TermPoll, TermDone,
         StatusProbe, StatusCheck, Exit, ExecWorker
<1>5. ~\E q \in Pid : Die(q) \/ Crash(q) \/ ForeignStart(q) \/ ForeignExit(q)
  BY DEF Die, Crash, ForeignStart, ForeignExit
<1>6. ~(Quiescent \/ UNCHANGED vars)
  BY DEF Quiescent, vars
<1>. QED
  BY <1>1, <1>2, <1>3, <1>4, <1>5, <1>6 DEF Next, LocalStep

(* ClearPid's truncate, whether terminate or WritePid calls it, runs under *)
(* the exclusive lock, for every set of pids and commands: the only step   *)
(* that changes the file without it is WritePid's final write.             *)
THEOREM ClearedUnderLockHolds == Spec => ClearedUnderLock
<1> DEFINE TInv == TypeOK /\ TruncateInv
<1>1. Init => TInv  BY TypeInit, TruncateInit
<1>2. TInv /\ [Next]_vars => TInv'  BY TypeStep, TruncateStep
<1>3. TInv /\ [Next]_vars =>
        [pidFile # NoPid /\ pidFile' = NoPid => \E q \in Pid : lk[q] = "ex"]_vars
  BY ClearedStep
<1>. QED  BY <1>1, <1>2, <1>3, PTL DEF Spec, ClearedUnderLock

-----------------------------------------------------------------------------
(* Refinement of the advisory lock.  With the flock discipline above every *)
(* step changes at most one handle: a release, or a grant that conflicts   *)
(* with no other handle.                                                   *)

(* Setting one handle to "none" is a release, or no change at all.         *)
LEMMA ReleaseStep ==
  ASSUME TypeOK, NEW q \in Pid, lk' = [lk EXCEPT ![q] = "none"]
  PROVE  [Lock!Next]_lk
<1>1. CASE lk[q] = "none"
  BY <1>1 DEF TypeOK
<1>2. CASE lk[q] # "none"
  <2>. Lock!Release(q)  BY <1>2 DEF Lock!Release
  <2>. QED  BY DEF Lock!Next
<1>. QED  BY <1>1, <1>2

(* The lock steps of the launchers: the acquisition of the exclusive lock  *)
(* is a grant, a no-op, or (on Linux conversion) the release of the shared *)
(* lock first.                                                             *)
LEMMA AcquireExStep ==
  ASSUME TypeOK, NEW p \in Pid, NEW l, AcquireEx(p, l)
  PROVE  [Lock!Next]_lk
<1>1. CASE lk[p] = "ex" /\ UNCHANGED lk
  BY <1>1
<1>2. CASE lk[p] = "sh" /\ lk' = [lk EXCEPT ![p] = "none"]
  BY <1>2, ReleaseStep
<1>3. CASE lk[p] = "none" /\ CanExcl(p) /\ lk' = [lk EXCEPT ![p] = "ex"]
  <2>. Lock!LockExclusive(p)  BY <1>3 DEF CanExcl, Lock!LockExclusive
  <2>. QED  BY DEF Lock!Next
<1>. QED  BY <1>1, <1>2, <1>3 DEF AcquireEx

(* Every step of the launcher system is a step of the advisory lock on lk. *)
LEMMA LockStepRefines == IInv /\ [Next]_vars => [Lock!Next]_lk
<1> SUFFICES ASSUME TypeOK, LockSound, [Next]_vars PROVE [Lock!Next]_lk
  BY DEF IInv
<1>1. ASSUME NEW p \in Pid, ReadPidLock(p) PROVE [Lock!Next]_lk
  <2>1. lk[p] # "ex"
    BY <1>1 DEF ReadPidLock, Launcher, LockSound
  <2>2. CASE lk[p] = "sh"
    BY <1>1, <2>2 DEF ReadPidLock, TypeOK
  <2>3. CASE lk[p] = "none"
    <3>. Lock!LockShared(p)
      BY <1>1, <2>3 DEF ReadPidLock, CanShare, Lock!LockShared
    <3>. QED  BY DEF Lock!Next
  <2>. QED  BY <2>1, <2>2, <2>3 DEF TypeOK, LockModes
<1>2. ASSUME NEW p \in Pid, WpLock(p) \/ CpLock(p) \/ StartLock(p)
      PROVE [Lock!Next]_lk
  BY <1>2, AcquireExStep DEF WpLock, CpLock, StartLock
<1>3. ASSUME NEW p \in Pid, ReadPidRead(p) PROVE [Lock!Next]_lk
  BY <1>3, ReleaseStep DEF ReadPidRead
<1>4. ASSUME NEW p \in Pid, WpTruncate(p) \/ CpTruncate(p) PROVE [Lock!Next]_lk
  BY <1>4, ReleaseStep DEF WpTruncate, CpTruncate
<1>5. ASSUME NEW p \in Pid, RunExec(p) \/ StartExec(p) PROVE [Lock!Next]_lk
  BY <1>5, ReleaseStep DEF RunExec, StartExec, ExecWorker
<1>6. ASSUME NEW q \in Pid, Gone(q) PROVE [Lock!Next]_lk
  BY <1>6, ReleaseStep DEF Gone
<1>7. ASSUME NEW p \in Pid, RunProbe(p) \/ RunCheck(p) \/ StartProbe(p)
                              \/ StartCheck(p) \/ StartFork(p) \/ StartDone(p)
                              \/ TermProbe(p) \/ TermSignal(p) \/ TermPoll(p)
                              \/ TermDone(p) \/ StatusProbe(p)
                              \/ StatusCheck(p) \/ WpWrite(p)
      PROVE [Lock!Next]_lk
  BY <1>7, <1>6 DEF WpWrite, RunProbe, RunCheck, StartProbe, StartCheck, StartFork,
                    StartDone, TermProbe, TermSignal, TermPoll, TermDone,
                    StatusProbe, StatusCheck, Exit, CallReadPid,
                    CallWritePid, Consume, Goto
<1>8. ASSUME NEW q \in Pid, Die(q) \/ Crash(q) \/ ForeignExit(q)
      PROVE [Lock!Next]_lk
  BY <1>8, <1>6 DEF Die, Crash, ForeignExit
<1>9. ASSUME NEW p \in Pid, NEW c \in Commands, Invoke(p, c)
      PROVE [Lock!Next]_lk
  BY <1>9 DEF Invoke
<1>10. ASSUME NEW q \in Pid, ForeignStart(q) PROVE [Lock!Next]_lk
  BY <1>10 DEF ForeignStart
<1>11. CASE Quiescent \/ UNCHANGED vars
  BY <1>11 DEF Quiescent, vars
<1>. QED
  BY <1>1, <1>2, <1>3, <1>4, <1>5, <1>6, <1>7, <1>8, <1>9, <1>10, <1>11
     DEF Next, LocalStep, LockStep

(* The launchers' use of go-flock implements the advisory lock of the spec *)
(* for every set of pids and commands: the lock variable lk of Launcher    *)
(* behaves as mode of AdvisoryLock.                                        *)
THEOREM LockRefinement == Spec => LockRefined
<1>1. Init => IInv  BY TypeInit, LockInit DEF IInv
<1>2. IInv /\ [Next]_vars => IInv'  BY TypeStep, LockStepSound DEF IInv
<1>3. Init => Lock!Init  BY DEF Init, Lock!Init
<1>4. IInv /\ [Next]_vars => [Lock!Next]_lk  BY LockStepRefines
<1>. QED  BY <1>1, <1>2, <1>3, <1>4, PTL DEF Spec, LockRefined, Lock!Spec
-----------------------------------------------------------------------------
(* What the abstract lock promises carries over to the launchers through   *)
(* the refinement: the theorems of AdvisoryLockProofs, for the holders Pid *)
(* and the modes lk.                                                       *)
LockP == INSTANCE AdvisoryLockProofs WITH Holders <- Pid, mode <- lk

(* In every behaviour of the launcher system, a go-flock handle holding   *)
(* the exclusive lock of the PID file is alone, derived from the abstract  *)
(* lock's guarantee and the refinement rather than from the launcher's    *)
(* own invariant.                                                          *)
THEOREM ExclusionByRefinement == Spec => []Lock!Exclusion
<1>1. Spec => LockP!Spec
  <2>1. Spec => Lock!Spec  BY LockRefinement DEF LockRefined
  <2>2. Lock!Spec <=> LockP!Spec
    BY DEF Lock!Spec, LockP!Spec, Lock!Init, LockP!Init, Lock!Next,
           LockP!Next, Lock!LockShared, LockP!LockShared, Lock!LockExclusive,
           LockP!LockExclusive, Lock!Release, LockP!Release
  <2>. QED  BY <2>1, <2>2
<1>2. LockP!Spec => [](LockP!ModeOK /\ LockP!Exclusion)
  BY LockP!ExclusionHolds
<1>3. LockP!Exclusion <=> Lock!Exclusion
  BY DEF LockP!Exclusion, Lock!Exclusion
<1>. QED  BY <1>1, <1>2, <1>3, PTL
=============================================================================
