------------------------------ MODULE Launcher ------------------------------
(***************************************************************************)
(* The process-lifecycle half of the airlift launcher (main.go and         *)
(* process/process.go): every invocation of the launcher is an OS process  *)
(* that opens the PID file, takes its advisory lock (go-flock: shared for  *)
(* ReadPid, exclusive for AcquireLock, WritePid and ClearPid), probes the  *)
(* recorded pid with signal 0, and runs one of the commands run, start,    *)
(* stop, kill, restart and status.  A start parent forks a detached copy   *)
(* of itself, which recognises itself as the child by finding its own pid  *)
(* in the file and then execs the Java worker.                             *)
(*                                                                         *)
(* A pid is an opaque value (nothing here compares pids by order); the OS *)
(* may hand a freed pid to any new process (pid reuse).  The PID file is   *)
(* abstracted to the pid on its first line, or NoPid when it is empty:     *)
(* every write seeks to offset 0 after a truncate, so whatever the         *)
(* interleaving of two writers the first line is the pid of the last       *)
(* write.  Every step below touches the shared state (the file, the lock, *)
(* the process table) at most once; the purely local work between two     *)
(* such steps (symlinks, mkdir, chdir, building the Java command line) is  *)
(* folded into the step before it, and its failure is an exit.             *)
(***************************************************************************)
EXTENDS Naturals, FiniteSets

CONSTANTS
  Pid,             \* the pids the OS can hand out
  NoPid,           \* an empty PID file; also what a failed ReadPid returns
  Commands,        \* the commands operators issue
  MaxInvocations,  \* bound on the number of operator invocations
  Concurrent,      \* may an operator start a command while another runs?
  Crashes,         \* may launchers and workers die at any moment?
  Foreign          \* may unrelated processes take (and reuse) pids?

ASSUME PidAssumption == NoPid \notin Pid
ASSUME CommandsAssumption ==
         Commands \subseteq {"run", "start", "stop", "kill", "restart", "status"}
ASSUME BoundAssumption == MaxInvocations \in Nat
ASSUME FlagsAssumption == {Concurrent, Crashes, Foreign} \subseteq BOOLEAN

VARIABLES
  pidFile,   \* first line of the PID file: a pid, or NoPid when empty
  proc,      \* proc[q]: "free", "launcher", "worker" (Java) or "foreign"
  pc,        \* pc[q]: the next step of launcher q
  ret,       \* ret[q]: where ReadPid / WritePid of q return to
  cmd,       \* cmd[q]: the command launcher q executes
  lk,        \* lk[q]: the lock q's go-flock handle holds: "none", "sh", "ex"
  rd,        \* rd[q]: the pid q's last ReadPid returned (NoPid: an error)
  tgt,       \* tgt[q]: pid q writes (WritePid) or signalled (terminate)
  sigterm,   \* processes that received SIGTERM and have not exited yet
  sigkill,   \* processes that received SIGKILL and have not exited yet
  byOp,      \* launchers an operator invoked (not forked by a start)
  invoked    \* number of operator invocations so far

vars == <<pidFile, proc, pc, ret, cmd, lk, rd, tgt, sigterm, sigkill, byOp,
          invoked>>

ProcStates == {"free", "launcher", "worker", "foreign"}
LockModes == {"none", "sh", "ex"}
Labels == {"idle", "readpid_lock", "readpid_read",
           "run_probe", "run_check", "run_exec",
           "start_probe", "start_check", "start_lock",
           "start_fork", "start_done", "start_exec",
           "term_probe", "term_signal", "term_poll", "term_done",
           "status_probe", "status_check",
           "wp_lock", "wp_truncate", "wp_write", "cp_lock", "cp_truncate"}

(* The label at which each command enters, after its first ReadPid.       *)
Entry(c) == CASE c = "run"    -> "run_probe"
              [] c = "start"  -> "start_probe"
              [] c = "status" -> "status_probe"
              [] OTHER        -> "term_probe"

-----------------------------------------------------------------------------
(* Helpers.                                                                *)

(* kill(q, 0) succeeds: some process has pid q.                            *)
Exists(q) == q # NoPid /\ proc[q] # "free"

(* Alive() after its ReadPid: the read succeeded and the pid exists.       *)
Alive(p) == Exists(rd[p])

(* flock(LOCK_SH) / flock(LOCK_EX) on p's handle can be granted now.      *)
(* Faulty variant: a shared lock is granted even beside an exclusive one.  *)
CanShareAlways(p) == p \in Pid

CanShare(p) == \A q \in Pid \ {p} : lk[q] # "ex"
CanExcl(p)  == \A q \in Pid \ {p} : lk[q] = "none"

Goto(p, l) == pc' = [pc EXCEPT ![p] = l]

(* Faulty variant: a held shared lock is upgraded in place, without       *)
(* waiting for the other shared holders to leave.                          *)
AcquireExUpgrade(p, l) ==
  \/ lk[p] = "ex" /\ Goto(p, l) /\ UNCHANGED lk
  \/ lk[p] = "sh" /\ lk' = [lk EXCEPT ![p] = "ex"] /\ Goto(p, l)
  \/ lk[p] = "none" /\ CanExcl(p) /\ lk' = [lk EXCEPT ![p] = "ex"] /\ Goto(p, l)

(* Faulty variant: the conversion of a held shared lock carries on as if  *)
(* the exclusive lock had been granted once the shared one is dropped.     *)
AcquireExNoWait(p, l) ==
  \/ lk[p] = "ex" /\ Goto(p, l) /\ UNCHANGED lk
  \/ lk[p] = "sh" /\ lk' = [lk EXCEPT ![p] = "none"] /\ Goto(p, l)
  \/ lk[p] = "none" /\ CanExcl(p) /\ lk' = [lk EXCEPT ![p] = "ex"] /\ Goto(p, l)

(* go-flock Lock(), then continue at l: a no-op when p's handle already    *)
(* holds the exclusive lock; a shared lock p holds is first dropped (Linux *)
(* flock removes the old lock before it waits for the conversion); then    *)
(* flock(LOCK_EX) blocks until no other handle holds a lock.               *)
AcquireEx(p, l) ==
  \/ lk[p] = "ex" /\ Goto(p, l) /\ UNCHANGED lk
  \/ lk[p] = "sh" /\ lk' = [lk EXCEPT ![p] = "none"] /\ UNCHANGED pc
  \/ lk[p] = "none" /\ CanExcl(p) /\ lk' = [lk EXCEPT ![p] = "ex"] /\ Goto(p, l)

(* Call ReadPid (directly or through Alive) and continue at label r.       *)
CallReadPid(p, r) == /\ pc' = [pc EXCEPT ![p] = "readpid_lock"]
                     /\ ret' = [ret EXCEPT ![p] = r]

(* Return from ReadPid or WritePid to the caller.                          *)
Return(p) == /\ pc' = [pc EXCEPT ![p] = ret[p]]
             /\ ret' = [ret EXCEPT ![p] = "idle"]

(* The caller has used the pid ReadPid returned.                           *)
Consume(p) == rd' = [rd EXCEPT ![p] = NoPid]

(* Call WritePid(v) and continue at label r.                              *)
CallWritePid(p, v, r) == /\ pc' = [pc EXCEPT ![p] = "wp_lock"]
                         /\ ret' = [ret EXCEPT ![p] = r]
                         /\ tgt' = [tgt EXCEPT ![p] = v]

(* Process q ends (exit, crash or signal); closing its descriptors         *)
(* releases its flock.                                                     *)
Gone(q) == /\ proc' = [proc EXCEPT ![q] = "free"]
           /\ pc' = [pc EXCEPT ![q] = "idle"]
           /\ ret' = [ret EXCEPT ![q] = "idle"]
           /\ cmd' = [cmd EXCEPT ![q] = "none"]
           /\ lk' = [lk EXCEPT ![q] = "none"]
           /\ rd' = [rd EXCEPT ![q] = NoPid]
           /\ tgt' = [tgt EXCEPT ![q] = NoPid]
           /\ sigterm' = sigterm \ {q}
           /\ sigkill' = sigkill \ {q}
           /\ byOp' = byOp \ {q}

(* Launcher p returns an error (or finishes) and exits.                    *)
Exit(p) == Gone(p) /\ UNCHANGED <<pidFile, invoked>>

(* Launcher p execs Java: same pid, descriptors (and flock) closed.        *)
ExecWorker(p) ==
  /\ proc' = [proc EXCEPT ![p] = "worker"]
  /\ pc' = [pc EXCEPT ![p] = "idle"]
  /\ lk' = [lk EXCEPT ![p] = "none"]
  /\ byOp' = byOp \ {p}
  /\ UNCHANGED <<pidFile, ret, cmd, rd, tgt, sigterm, sigkill, invoked>>

Launcher(p, l) == proc[p] = "launcher" /\ pc[p] = l

-----------------------------------------------------------------------------
(* Either nothing runs and the file is empty or holds a stale pid from an *)
(* earlier boot, or a worker started earlier runs and is recorded.         *)
Init ==
  /\ \E w \in Pid \cup {NoPid} :
       /\ proc = [q \in Pid |-> IF q = w THEN "worker" ELSE "free"]
       /\ pidFile \in IF w = NoPid THEN {NoPid} \cup Pid ELSE {w}
  /\ pc = [q \in Pid |-> "idle"]
  /\ ret = [q \in Pid |-> "idle"]
  /\ cmd = [q \in Pid |-> "none"]
  /\ lk = [q \in Pid |-> "none"]
  /\ rd = [q \in Pid |-> NoPid]
  /\ tgt = [q \in Pid |-> NoPid]
  /\ sigterm = {}
  /\ sigkill = {}
  /\ byOp = {}
  /\ invoked = 0

(* An operator runs `launcher <c>`; main() opens the PID file (proc.New)   *)
(* and handleCommand dispatches to a command whose first call is Alive.    *)
Invoke(p, c) ==
  /\ proc[p] = "free"
  /\ invoked < MaxInvocations
  /\ Concurrent \/ byOp = {}
  /\ proc' = [proc EXCEPT ![p] = "launcher"]
  /\ cmd' = [cmd EXCEPT ![p] = c]
  /\ CallReadPid(p, Entry(c))
  /\ byOp' = byOp \cup {p}
  /\ invoked' = invoked + 1
  /\ UNCHANGED <<pidFile, lk, rd, tgt, sigterm, sigkill>>

-----------------------------------------------------------------------------
(* ReadPid (process.go): RLock, then seek, ReadLine and Atoi.              *)

(* p.lock.RLock(): a no-op when p still holds the shared lock an earlier   *)
(* failed read leaked.                                                     *)
ReadPidLock(p) ==
  /\ Launcher(p, "readpid_lock")
  /\ lk[p] = "sh" \/ CanShare(p)
  /\ lk' = [lk EXCEPT ![p] = "sh"]
  /\ Goto(p, "readpid_read")
  /\ UNCHANGED <<pidFile, proc, ret, cmd, rd, tgt, sigterm, sigkill,
                 byOp, invoked>>

(* Faulty variant: the Atoi / pid <= 0 checks are dropped, so an empty    *)
(* file yields pid 0 with no error.                                        *)
ReadPidReadUnvalidated(p) ==
  /\ Launcher(p, "readpid_read")
  /\ rd' = [rd EXCEPT ![p] = IF pidFile = NoPid THEN 0 ELSE pidFile]
  /\ lk' = IF pidFile = NoPid THEN lk ELSE [lk EXCEPT ![p] = "none"]
  /\ Return(p)
  /\ UNCHANGED <<pidFile, proc, cmd, tgt, sigterm, sigkill, byOp, invoked>>

(* Reading an empty file fails with EOF and returns WITHOUT unlocking; a   *)
(* pid is returned after p.lock.Unlock().                                  *)
ReadPidRead(p) ==
  /\ Launcher(p, "readpid_read")
  /\ rd' = [rd EXCEPT ![p] = pidFile]
  /\ lk' = IF pidFile = NoPid THEN lk ELSE [lk EXCEPT ![p] = "none"]
  /\ Return(p)
  /\ UNCHANGED <<pidFile, proc, cmd, tgt, sigterm, sigkill,
                 byOp, invoked>>

(* WritePid (process.go): Lock; ClearPid (its Lock is a no-op, then seek,  *)
(* truncate and Unlock); then WriteString and Sync with no lock held.      *)
WpLock(p) ==
  /\ Launcher(p, "wp_lock")
  /\ AcquireEx(p, "wp_truncate")
  /\ UNCHANGED <<pidFile, proc, ret, cmd, rd, tgt, sigterm, sigkill,
                 byOp, invoked>>

WpTruncate(p) ==
  /\ Launcher(p, "wp_truncate")
  /\ pidFile' = NoPid
  /\ lk' = [lk EXCEPT ![p] = "none"]
  /\ Goto(p, "wp_write")
  /\ UNCHANGED <<proc, ret, cmd, rd, tgt, sigterm, sigkill, byOp, invoked>>

WpWrite(p) ==
  /\ Launcher(p, "wp_write")
  /\ pidFile' = tgt[p]
  /\ Return(p)
  /\ UNCHANGED <<proc, cmd, lk, rd, tgt, sigterm, sigkill, byOp, invoked>>

(* ClearPid (process.go) called by terminate: Lock, then seek, truncate    *)
(* and Unlock.                                                             *)
CpLock(p) ==
  /\ Launcher(p, "cp_lock")
  /\ AcquireEx(p, "cp_truncate")
  /\ UNCHANGED <<pidFile, proc, ret, cmd, rd, tgt, sigterm, sigkill,
                 byOp, invoked>>

CpTruncate(p) ==
  /\ Launcher(p, "cp_truncate")
  /\ pidFile' = NoPid
  /\ lk' = [lk EXCEPT ![p] = "none"]
  /\ Goto(p, "term_done")
  /\ UNCHANGED <<proc, ret, cmd, rd, tgt, sigterm, sigkill, byOp, invoked>>

-----------------------------------------------------------------------------
(* run (main.go): refuse when another live pid is recorded, then           *)
(* CreateAppSymlinks, MakeDirs, Chdir, WritePid(own pid) and exec Java.    *)

RunProbe(p) ==
  /\ Launcher(p, "run_probe")
  /\ \/ Alive(p) /\ CallReadPid(p, "run_check") /\ UNCHANGED <<rd, tgt>>
     \/ ~Alive(p) /\ CallWritePid(p, p, "run_exec") /\ Consume(p)
  /\ UNCHANGED <<pidFile, proc, cmd, lk, sigterm, sigkill, byOp, invoked>>

(* Faulty variant: "already running" retries the check instead of failing. *)
RunCheckRetry(p) ==
  /\ Launcher(p, "run_check")
  /\ \/ rd[p] = p /\ CallWritePid(p, p, "run_exec") /\ Consume(p)
                  /\ UNCHANGED <<pidFile, proc, cmd, lk, sigterm, sigkill,
                                 byOp, invoked>>
     \/ rd[p] # p /\ CallReadPid(p, "run_probe")
                  /\ UNCHANGED <<pidFile, proc, cmd, lk, rd, tgt, sigterm,
                                 sigkill, byOp, invoked>>

RunCheck(p) ==
  /\ Launcher(p, "run_check")
  /\ \/ rd[p] = p /\ CallWritePid(p, p, "run_exec") /\ Consume(p)
                  /\ UNCHANGED <<pidFile, proc, cmd, lk, sigterm, sigkill,
                                 byOp, invoked>>
     \/ rd[p] # p /\ Exit(p)   \* read error, or "already running as %d"

(* redirectStdinToDevNull, JavaExecution(false), syscall.Exec.             *)
RunExec(p) == Launcher(p, "run_exec") /\ ExecWorker(p)

-----------------------------------------------------------------------------
(* start (main.go): a live recorded pid equal to the own pid marks the     *)
(* forked child (child = true); any other live pid is "already running".   *)
(* The parent takes the exclusive lock, forks (RewriteArgs: restart -> start) and     *)
(* writes the child's pid; the child execs Java.                           *)

StartProbe(p) ==
  /\ Launcher(p, "start_probe")
  /\ \/ Alive(p) /\ CallReadPid(p, "start_check") /\ UNCHANGED rd
     \/ ~Alive(p) /\ Goto(p, "start_lock") /\ Consume(p) /\ UNCHANGED ret
  /\ UNCHANGED <<pidFile, proc, cmd, lk, tgt, sigterm, sigkill, byOp, invoked>>

StartCheck(p) ==
  /\ Launcher(p, "start_check")
  /\ \/ /\ rd[p] = p   \* child = true
        /\ Goto(p, "start_exec") /\ Consume(p)
        /\ UNCHANGED <<pidFile, proc, ret, cmd, lk, tgt, sigterm, sigkill,
                       byOp, invoked>>
     \/ rd[p] # p /\ Exit(p)   \* read error, or "already running as %d"

(* process.AcquireLock(), held across the fork.                            *)
StartLock(p) ==
  /\ Launcher(p, "start_lock")
  /\ AcquireEx(p, "start_fork")
  /\ UNCHANGED <<pidFile, proc, ret, cmd, rd, tgt, sigterm, sigkill,
                 byOp, invoked>>

(* proc.Fork: the child gets a free pid and starts in start(); with no     *)
(* free pid the fork fails (EAGAIN) and the parent exits with an error.    *)
StartFork(p) ==
  /\ Launcher(p, "start_fork")
  /\ \/ \E c \in Pid :
          /\ proc[c] = "free"
          /\ proc' = [proc EXCEPT ![c] = "launcher"]
          /\ cmd' = [cmd EXCEPT ![c] = "start"]
          /\ pc' = [pc EXCEPT ![c] = "readpid_lock", ![p] = "wp_lock"]
          /\ ret' = [ret EXCEPT ![c] = "start_probe", ![p] = "start_done"]
          /\ tgt' = [tgt EXCEPT ![p] = c]
          /\ UNCHANGED <<pidFile, lk, rd, sigterm, sigkill, byOp, invoked>>
     \/ (\A c \in Pid : proc[c] # "free") /\ Exit(p)

(* printInfo("started as %d"), return nil: the parent exits.               *)
StartDone(p) == Launcher(p, "start_done") /\ Exit(p)

(* OpenAppend(LauncherLog), redirectOutput, JavaExecution(true), Exec.     *)
StartExec(p) == Launcher(p, "start_exec") /\ ExecWorker(p)

-----------------------------------------------------------------------------
(* terminate (main.go), shared by stop (SIGTERM), kill (SIGKILL) and       *)
(* restart (stop, then start).                                             *)

(* Not alive: stop prints "Not running" and exits 0, kill exits 1 with the *)
(* same message, restart goes on to start.                                 *)
TermProbe(p) ==
  /\ Launcher(p, "term_probe")
  /\ \/ /\ Alive(p) /\ CallReadPid(p, "term_signal")
        /\ UNCHANGED <<pidFile, proc, cmd, lk, rd, tgt, sigterm, sigkill,
                       byOp, invoked>>
     \/ /\ ~Alive(p) /\ cmd[p] = "restart" /\ CallReadPid(p, "start_probe")
        /\ UNCHANGED <<pidFile, proc, cmd, lk, rd, tgt, sigterm, sigkill,
                       byOp, invoked>>
     \/ ~Alive(p) /\ cmd[p] # "restart" /\ Exit(p)

(* Faulty variant: the signal number is lost (kill(pid, 0) is sent).      *)
TermSignalZero(p) ==
  /\ Launcher(p, "term_signal")
  /\ \/ rd[p] = NoPid /\ Exit(p)
     \/ /\ rd[p] # NoPid
        /\ tgt' = [tgt EXCEPT ![p] = rd[p]]
        /\ CallReadPid(p, "term_poll")
        /\ UNCHANGED <<pidFile, proc, cmd, lk, rd, sigterm, sigkill, byOp,
                       invoked>>

(* syscall.Kill(pid, signal): ESRCH (no such process) is tolerated; the   *)
(* signal is delivered and the target exits later.  Then the poll loop.    *)
TermSignal(p) ==
  /\ Launcher(p, "term_signal")
  /\ \/ rd[p] = NoPid /\ Exit(p)
     \/ /\ rd[p] # NoPid
        /\ tgt' = [tgt EXCEPT ![p] = rd[p]]
        /\ sigterm' = IF Exists(rd[p]) /\ cmd[p] # "kill"
                        THEN sigterm \cup {rd[p]} ELSE sigterm
        /\ sigkill' = IF Exists(rd[p]) /\ cmd[p] = "kill"
                        THEN sigkill \cup {rd[p]} ELSE sigkill
        /\ CallReadPid(p, "term_poll")
        /\ UNCHANGED <<pidFile, proc, cmd, lk, rd, byOp, invoked>>

(* Faulty variant: ClearPid right after the signal, without polling.      *)
TermPollOnce(p) ==
  /\ Launcher(p, "term_poll")
  /\ Goto(p, "cp_lock") /\ Consume(p)
  /\ UNCHANGED <<pidFile, proc, ret, cmd, lk, tgt, sigterm, sigkill, byOp,
                 invoked>>

(* for { if Alive() { sleep; continue }; ClearPid(); break }: no timeout.  *)
TermPoll(p) ==
  /\ Launcher(p, "term_poll")
  /\ \/ Alive(p) /\ CallReadPid(p, "term_poll") /\ UNCHANGED rd
     \/ ~Alive(p) /\ Goto(p, "cp_lock") /\ Consume(p) /\ UNCHANGED ret
  /\ UNCHANGED <<pidFile, proc, cmd, lk, tgt, sigterm, sigkill, byOp, invoked>>

(* printInfo("Stopped %d"); restart goes on to start.                      *)
TermDone(p) ==
  /\ Launcher(p, "term_done")
  /\ \/ /\ cmd[p] = "restart" /\ CallReadPid(p, "start_probe")
        /\ tgt' = [tgt EXCEPT ![p] = NoPid]
        /\ UNCHANGED <<pidFile, proc, cmd, lk, rd, sigterm, sigkill, byOp, invoked>>
     \/ cmd[p] # "restart" /\ Exit(p)

-----------------------------------------------------------------------------
(* status (main.go): "Not running" exits 3, "Running as %d" exits 0.       *)

StatusProbe(p) ==
  /\ Launcher(p, "status_probe")
  /\ \/ /\ Alive(p) /\ CallReadPid(p, "status_check")
        /\ UNCHANGED <<pidFile, proc, cmd, lk, rd, tgt, sigterm, sigkill,
                       byOp, invoked>>
     \/ ~Alive(p) /\ Exit(p)

StatusCheck(p) == Launcher(p, "status_check") /\ Exit(p)

-----------------------------------------------------------------------------
(* The environment.                                                        *)

(* A signalled process exits: the Go launcher has no handler for SIGTERM,  *)
(* Java exits after its shutdown hooks; SIGKILL cannot be caught.          *)
Die(q) == q \in sigterm \cup sigkill /\ Gone(q) /\ UNCHANGED <<pidFile, invoked>>

(* A launcher or the worker dies unexpectedly, or a launcher's syscall     *)
(* fails and it exits with an error (every such exit has this effect).     *)
Crash(q) ==
  /\ Crashes
  /\ proc[q] \in {"launcher", "worker"}
  /\ Gone(q) /\ UNCHANGED <<pidFile, invoked>>

(* An unrelated process is created with, or releases, pid q.               *)
ForeignStart(q) ==
  /\ Foreign /\ proc[q] = "free"
  /\ proc' = [proc EXCEPT ![q] = "foreign"]
  /\ UNCHANGED <<pidFile, pc, ret, cmd, lk, rd, tgt, sigterm, sigkill,
                 byOp, invoked>>

ForeignExit(q) == proc[q] = "foreign" /\ Gone(q) /\ UNCHANGED <<pidFile, invoked>>

-----------------------------------------------------------------------------
(* The lock steps block: they are only intermittently enabled.             *)
LockStep(p) == ReadPidLock(p) \/ WpLock(p) \/ CpLock(p) \/ StartLock(p)

(* The other steps of launcher p.                                          *)
LocalStep(p) ==
  \/ ReadPidRead(p) \/ WpTruncate(p) \/ WpWrite(p) \/ CpTruncate(p)
  \/ RunProbe(p) \/ RunCheck(p) \/ RunExec(p)
  \/ StartProbe(p) \/ StartCheck(p) \/ StartFork(p) \/ StartDone(p)
  \/ StartExec(p)
  \/ TermProbe(p) \/ TermSignal(p) \/ TermPoll(p) \/ TermDone(p)
  \/ StatusProbe(p) \/ StatusCheck(p)

(* Every launcher has ended: nothing is left to do but wait.               *)
Quiescent == (\A q \in Pid : proc[q] # "launcher") /\ UNCHANGED vars

Next ==
  \/ \E p \in Pid, c \in Commands : Invoke(p, c)
  \/ \E p \in Pid : LockStep(p) \/ LocalStep(p)
  \/ \E q \in Pid : Die(q) \/ Crash(q) \/ ForeignStart(q) \/ ForeignExit(q)
  \/ Quiescent

(* Each launcher is scheduled (weakly fair) and eventually granted a lock  *)
(* that is free infinitely often (strongly fair: flock waiters are woken   *)
(* on every release); a signalled process eventually exits.                *)
Fairness ==
  \A p \in Pid : /\ WF_vars(LocalStep(p))
                 /\ SF_vars(LockStep(p))
                 /\ WF_vars(Die(p))

Spec == Init /\ [][Next]_vars /\ Fairness

-----------------------------------------------------------------------------
(* Properties.                                                             *)

TypeOK ==
  /\ pidFile \in {NoPid} \cup Pid
  /\ proc \in [Pid -> ProcStates]
  /\ pc \in [Pid -> Labels]
  /\ ret \in [Pid -> Labels]
  /\ cmd \in [Pid -> Commands \cup {"start", "none"}]
  /\ lk \in [Pid -> LockModes]
  /\ rd \in [Pid -> {NoPid} \cup Pid]
  /\ tgt \in [Pid -> {NoPid} \cup Pid]
  /\ sigterm \subseteq Pid
  /\ sigkill \subseteq Pid
  /\ byOp \subseteq Pid
  /\ invoked \in 0..MaxInvocations

(* The spec (section 8): two concurrent start commands never leave two     *)
(* live children; the supervisor runs at most one Java worker.             *)
AtMostOneWorker == Cardinality({q \in Pid : proc[q] = "worker"}) <= 1

(* The spec (section 3): the PID file content is written only under the   *)
(* exclusive lock.                                                         *)
WrittenUnderLock ==
  [][pidFile' # pidFile => \E q \in Pid : lk[q] = "ex"]_vars

(* The spec (section 3): the PID file is truncated only under the         *)
(* exclusive lock.  ClearPid's Seek/Truncate (process.go 62-68), whether    *)
(* terminate calls it or WritePid does, runs while some handle holds the    *)
(* exclusive lock, also when the caller entered Lock holding the shared    *)
(* lock a failed ReadPid leaked.                                           *)
ClearedUnderLock ==
  [][pidFile # NoPid /\ pidFile' = NoPid => \E q \in Pid : lk[q] = "ex"]_vars

(* Locks are sound: an exclusive holder excludes every other holder, only  *)
(* a live launcher holds a lock (exit and exec close the descriptor), and  *)
(* the exclusive lock is held only across AcquireLock..fork..WritePid and  *)
(* inside WritePid and ClearPid.                                           *)
LockSound ==
  /\ \A p, q \in Pid : p # q /\ lk[p] = "ex" => lk[q] = "none"
  /\ \A p \in Pid : lk[p] # "none" => proc[p] = "launcher"
  /\ \A p \in Pid : lk[p] = "ex" =>
        pc[p] \in {"start_fork", "wp_lock", "wp_truncate", "cp_truncate"}

(* Launchers other than stop/kill/restart always finish: the shared lock   *)
(* a failed ReadPid leaks never blocks anyone forever.                     *)
LauncherEnds ==
  \A p \in Pid :
    proc[p] = "launcher" /\ cmd[p] \in {"run", "start", "status"}
      ~> proc[p] # "launcher"

(* Whenever no launcher is running, a running worker is the recorded pid.  *)
RecordTracksWorker ==
  (\A q \in Pid : proc[q] # "launcher") =>
    \A w \in Pid : proc[w] = "worker" => pidFile = w

(* stop and kill finish: the worker they signal exits and the poll loop,  *)
(* which has no timeout, sees it gone.  This holds only while nothing      *)
(* rewrites the file and no unrelated process takes the signalled pid:    *)
(* the loop polls the recorded pid, not the process it signalled.         *)
TermEnds ==
  \A p \in Pid :
    proc[p] = "launcher" /\ cmd[p] \in {"stop", "kill"}
      ~> proc[p] # "launcher"

(* The spec (section 3): the record is "cleared after confirmed death".    *)
(* When terminate's ClearPid truncates the file (main.go 208, process.go   *)
(* 62-68), the pid the file names is not a running worker: the poll saw    *)
(* the signalled process gone, and nothing may have recorded a new worker  *)
(* since.                                                                  *)
ClearsOnlyDead ==
  \A p \in Pid :
    proc[p] = "launcher" /\ pc[p] = "cp_truncate" /\ pidFile # NoPid
      => proc[pidFile] # "worker"

(* When terminate leaves its poll loop to clear the record and print       *)
(* "Stopped <pid>", the worker it signalled has exited.                    *)
StoppedMeansDead ==
  \A p \in Pid :
    proc[p] = "launcher" /\ pc[p] \in {"cp_lock", "cp_truncate", "term_done"}
      => proc[tgt[p]] # "worker"


(* The go-flock handles the launchers use behave as the advisory lock of   *)
(* the spec: every step of ReadPid, AcquireLock, WritePid, ClearPid, exit, *)
(* exec and crash is a shared or exclusive grant without conflict, or a   *)
(* release, of one handle (module AdvisoryLock).                           *)
Lock == INSTANCE AdvisoryLock WITH Holders <- Pid, mode <- lk

LockRefined == Lock!Spec
=============================================================================
