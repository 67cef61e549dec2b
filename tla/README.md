# TLA+ models of the airlift launcher

This directory holds the TLA+ models of the Go launcher under
`src/launcher/src/main/go`, the TLC configurations that check them and the
TLAPS proofs about them. `PROJECT.json` lists, for every definition that models
code, the source lines it translates. It also lists every run, the mutants that
show each property can fail, the findings and the hazards.

## The system

The launcher is one binary, invoked once per command
(`launcher run|start|stop|kill|restart|status`). Invocations are separate OS
processes. They coordinate only through a PID file and its advisory lock.

| Part | Source | State | Operations |
|---|---|---|---|
| PID file lock | `process/process.go` | file content (first line), one go-flock handle per process (none / shared / exclusive) | `New`, `ReadPid`, `WritePid`, `ClearPid`, `AcquireLock`, `Alive` |
| Lifecycle supervisor | `main.go` | a local position in the command; the process table (launchers, Java worker, unrelated processes), signals | `run`, `start`, `stop`, `kill`, `restart`, `status`, `handleCommand` |
| Daemonizer | `process/fork.go`, `start` in `main.go` | the child pid | fork, child re-entry, exec |
| Logical line reader | `properties/properties.go` (`lineReader`) | read buffer, offsets, line buffer, flags | `readLine`, `readLines` |
| Property parser | `properties/properties.go` (`Load`, `loadConvert`) | map under construction | key/value split, escape decoding |
| Command names | `commands/commands.go` | none | `ParseCommand`, `IsCommand`, `RewriteArgs` |
| Options merger | `args/*.go` | none across calls | `ParseArgs`, `transformArgs`, `Resolve`, the PID-file part of `ParseOptions`; the rest of `ParseOptions` and `JavaExecution` are not modelled |
| Install path, directories | `directory/*.go` | filesystem | `FindInstallPath`, `MakeDirs`, `OpenAppend` (not modelled) |

How the parts interact:
- `main` resolves options, which reads properties files through `Load`.
- `handleCommand` opens the PID file.
- Each command then drives the lock:
  - `Alive` is `ReadPid` (shared lock) followed by `kill(pid, 0)`.
  - `run` writes its own pid and execs Java.
  - `start` takes the exclusive lock, forks a copy of itself with the command line `RewriteArgs` made from its own, and writes the child's pid. The child recognises itself by finding its own pid in the file, then execs Java.
  - `stop` and `kill` signal the recorded pid. They poll `Alive` with no timeout, then clear the file.
  - `restart` is `stop` followed by `start`.

### The hard behaviours

- **go-flock handle semantics.**
  - `Lock` and `RLock` do nothing when the handle already holds that lock.
  - `Unlock` releases the lock, so `ClearPid` inside `WritePid` releases the lock that `WritePid` took.
  - Linux converts a shared lock to an exclusive one by dropping the shared lock and then waiting.
  - The descriptors are close-on-exec, so exit and exec release the lock.
- **A failed `ReadPid`** (empty file, EOF) returns without `Unlock`. The shared lock leaks until the handle's next `Lock`, or until exit or exec.
- **Races between invocations:**
  - two `start`s;
  - a `start` parent against its own child;
  - `stop` against `start`.
- **Crashes and pid reuse.** Processes crash at any step, stale pids survive in the file, and unrelated processes may take a freed pid.
- **Reads in chunks.** `Read` may return the input in any chunks, so a CR LF or an escaped terminator can straddle a buffer refill.
- **Runes and bytes in `Load`.** Go's `range` over a string decodes UTF-8 runes, while `Load` indexes bytes.

## Modules

| Module | Models | Kind |
|---|---|---|
| `AdvisoryLock` | what the PID file's lock promises: per-holder modes none/shared/exclusive | abstract specification |
| `Launcher` | PID file lock, supervisor and daemonizer together; `LockRefined` instantiates `AdvisoryLock` | state machine; properties; refinement |
| `MCLauncher` | three model-value pids, symmetry | TLC instance |
| `LauncherProofs` | `TypeCorrect`, `LockSoundness`, `ClearedUnderLockHolds`, `LockRefinement`, `ExclusionByRefinement` | TLAPS |
| `LauncherStopProofs` | `StopSafety` (`StoppedMeansDead`) and `StopKeepsRecord` (`RecordTracksWorker`), both for stop, kill and status | TLAPS |
| `AdvisoryLockProofs` | `ExclusionHolds` for the abstract lock | TLAPS |
| `Args` | `transformArgs`, Go flag parsing, `ParseArgs`, command names, `RewriteArgs`, `Resolve`, the PID file of `ParseOptions` | pure operators; recursive |
| `MCArgs` | sets of command lines | TLC instance |
| `LineReader` | `readLine`/`readLines`, plus a reference grammar `Logical` | state machine; recursive reference |
| `MCLineReader` | byte alphabet | TLC instance |
| `PropertiesLoad` | `Load` on top of `LineReader` (EXTENDS), `loadConvert` as `Decode`/`LoadConvert`, plus the spec grammar `SpecLoad` | composition; recursive operators |
| `MCPropertiesLoad` | ASCII and UTF-8 alphabets | TLC instance |

### Launcher: state and actions

The variables and their code counterparts:
- `pidFile` is the first line of the file, a pid or `NoPid` when empty. Every write truncates and writes at offset 0, so the first line is all any reader sees.
- `proc[q]` is the process table: `free`, `launcher`, `worker` (Java after exec) or `foreign`.
- `lk[q]` is the lock held by q's go-flock handle.
- `pc[q]`/`ret[q]` are q's position in its command. `ret` holds the caller's label while q is inside `ReadPid` or `WritePid`.
- `rd[q]` is what the last `ReadPid` returned. `tgt[q]` is the pid being written or signalled.
- `sigterm`/`sigkill` are the processes signalled that have not yet exited.
- `byOp` and `invoked` bound the operator's invocations.

Each action is one step of a handler, and touches the shared state at most once:
- `ReadPidLock`/`ReadPidRead` model `process.go:117-139`.
- `WpLock`/`WpTruncate`/`WpWrite` model `WritePid` with its inner `ClearPid`, `process.go:57-93`.
- `CpLock`/`CpTruncate` model the `ClearPid` that `terminate` calls.
- `RunProbe`/`RunCheck`/`RunExec` model `main.go:23-64`.
- `StartProbe`/`StartCheck`/`StartLock`/`StartFork`/`StartDone`/`StartExec` model `main.go:81-152`.
- `TermProbe`/`TermSignal`/`TermPoll`/`TermDone` model `terminate`, `stop` and `restart`, `main.go:167-228`. The poll loop has no timeout and polls the pid the file names, not the process it signalled. `TermEnds` (stop and kill finish) is checked only in the stop_protocol run, where nothing rewrites the file and no pid is reused. When another launcher rewrites the file, or a live process takes the signalled pid, the loop can wait forever; no run checks that case.
- `StatusProbe`/`StatusCheck` model `main.go:230-242`.

Local work between two shared steps (symlinks, mkdir, chdir, building the Java command line) is folded into the step before it. If it fails, the process exits, and the `Crash` action covers that.

The environment actions:
- `Die`: a signalled process exits.
- `Crash`: any launcher or worker ends, enabled by the constant `Crashes`.
- `ForeignStart`/`ForeignExit`: unrelated processes take and free pids, enabled by `Foreign`. This is how pid reuse arises.
- `Quiescent`: stutters once every launcher has ended.

The constants:
- `Concurrent` says whether an operator may start a command while another one runs.
- `MaxInvocations` bounds the number of commands.

### LineReader and PropertiesLoad

`LineReader` follows `readLine`'s loop one byte, or one `Read`, per step:
- `LoopRead`, `LoopEof`: the refill at the top of the loop.
- `SkipByte`: the whitespace skip.
- `CommentOpen`, `CommentByte`, `CommentRead`, `CommentEof`: the comment loop.
- `AppendByte`: an ordinary byte.
- `EolBlank`, `EolSeen`, `EolRead`, `EolEof`, `Continuation`, `LineDone`: the terminator handling.

Init chooses an input of at most `MaxLen` bytes and a cut of it into at most `MaxReads` chunks. That covers every way `io.Reader.Read` can return the bytes.

`Logical(s, final)` is an independent recursive definition of the logical lines over the whole input.

`PropertiesLoad` extends `LineReader`. Once `readLines` has finished, `LoadLine` processes one line per step:
- `KeyScan` and `ValueScan` are the two loops, over runes as Go's `range` decodes them.
- `LoadConvert` and `Decode` are `loadConvert`.
- `Fail("panic")` is an out-of-range read.

`SpecLoad` is the grammar of spec section 4.1, one byte per character.

### AdvisoryLock and the refinement

`AdvisoryLock` is the lock as the spec (section 5) describes it: each holder is
in mode `none`, `sh` or `ex`; `LockShared` is granted while nobody holds `ex`,
`LockExclusive` while nobody else holds anything, and `Release` happens at any
time. `Launcher` defines `Lock == INSTANCE AdvisoryLock WITH Holders <- Pid,
mode <- lk` and `LockRefined == Lock!Spec`: every step of the launchers,
including the go-flock conversion that drops a shared lock, a leaked shared lock
and the release by exit, crash or exec, is an abstract lock step or leaves the
modes unchanged. A step may change at most one handle's mode, and none
changes a mode to another non-`none` mode directly.

### Args

`Args` holds the command line as pure operators; its only variable is the
command line (`os.Args[1:]`), chosen from the constant `Inputs`. An argument is
a sequence of atoms: `"-"`, `"="` and words that stand for runs of ordinary
characters, so `--pid-file=x` is `<<"-", "-", "pid-file", "=", "x">>`.
- `ParseCommand` lower-cases (`Lower`) and looks the word up in `CommandName`; `RewriteArgs` replaces every argument equal to `"restart"` by `"start"`.
- `TransformArgs`/`SplitDJ` split `-Dx`/`-Jx` into two arguments.
- `ParseFlagList` is `flag.FlagSet.Parse` with `ExitOnError` over the flags `help`, `v`, `pid-file` and `D`: it stops at the first non-flag or `--`; an undefined flag, a bad bool or a missing value exits 2, and `-h` exits 0.
- `ParseArgs` takes a command first, or flags followed by exactly one command.
- `Resolve` picks the first non-empty search path and makes it absolute (`Abs`, against the working directory, which `Fork` passes on to the child); its filesystem test is taken to pass, the same for parent and child. `PidFileOf` resolves the data directory (the install path) and then the PID file.

`ChildReentersStart` compares the parent's parse with the parse of
`RewriteArgs` of the same line: whenever the parent runs `start` or `restart`,
the child must run `start` on the same PID file, since it recognises itself only
by finding its own pid there.

## Runs

| Run | Cfg | Expect | Checks | Bounds |
|---|---|---|---|---|
| lifecycle_safety | `LauncherSafety.cfg` | pass | `TypeOK`, `LockSound`, `LockRefined`, `ClearedUnderLock` | 3 pids, all commands, 2 invocations, concurrent, crashes, foreign pids (661,173 states) |
| stop_protocol | `LauncherStop.cfg` | pass | `StoppedMeansDead`, `TermEnds` | stop/kill/status with a worker possibly running initially, crashes; no start, so nothing rewrites the file and no pid is reused |
| launcher_liveness | `LauncherLiveness.cfg` | pass | `LauncherEnds` | run/start/status, concurrent, 2 invocations |
| unlocked_write | `LauncherUnlockedWrite.cfg` | violation | `WrittenUnderLock` | one `run` |
| double_start | `LauncherDoubleStart.cfg` | violation | `AtMostOneWorker` | two concurrent `start`s |
| sequential_record | `LauncherSequentialRecord.cfg` | violation | `RecordTracksWorker` | up to 3 sequential commands, no crash (the trace needs one `start`) |
| line_reader_reference | `LineReaderReference.cfg` | pass | `LinesMatchReference` | inputs up to 5 bytes over {SP, LF, CR, `\`, `#`, `a`}, up to 5 Reads |
| load_ascii | `PropertiesLoadAscii.cfg` | pass | `LoadMatchesSpec` | lines up to 6 bytes over {SP, `=`, `\`, `u`, `0`, `a`} |
| load_utf8 | `PropertiesLoadUtf8.cfg` | violation | `LoadMatchesSpec` | 3 bytes over {`=`, `a`, 0xC3, 0xA9} |
| stop_clears_new_record | `LauncherStopClears.cfg` | violation | `ClearsOnlyDead` | stop and start, 2 concurrent invocations, no crash, no foreign pids |
| args_rewrite | `ArgsRewrite.cfg` | pass | `ChildReentersStart` | all lines of up to 3 of 12 lower-case arguments with `restart` at most once and not as the `--pid-file` value (1,827 lines) |
| args_restart | `ArgsRestart.cfg` | violation | `ChildReentersStart` | lines of up to 2 arguments including `RESTART` |

Why these bounds are enough:
- **Three pids** are enough for a launcher, its forked child and a third process: a second launcher, a worker or a reused pid. Two invocations give two racing commands, and each `start` forks one more process.
- **Five bytes** are enough for every shape the line reader distinguishes: an escaped CR LF split across two reads; a comment at EOF; a continuation followed by blanks; a backslash at EOF.
- **Three arguments** are enough for a flag with a separate value, a command and one more flag; the twelve words cover every branch of `parseOne` that the modelled flags reach.
- **Six bytes** are enough for a key with an escaped separator, and for a `\u` escape that is one digit short or complete.

Each passing property has a mutant in `PROJECT.json`, and TLC finds the property violated once that mutant replaces the real definition:
- an upgrade of the lock that does not wait (`LockSound`);
- a read that does not validate the pid (`TypeOK`);
- a poll loop that does not wait for the target to die (`StoppedMeansDead`);
- a lost signal (`TermEnds`);
- a shared lock granted next to an exclusive one (`LockRefined`);
- a lock conversion that carries on once the shared lock is dropped, without waiting for the exclusive one (`ClearedUnderLock`);
- a `RewriteArgs` that skips the first argument, as if it were `argv[0]` (`ChildReentersStart`);
- a retry instead of "already running" (`LauncherEnds`);
- a LF that is not skipped after an escaped CR (`LinesMatchReference`);
- an off-by-one in the `\u` bound (`LoadMatchesSpec`).

## Findings

1. **`WritePid` writes with no lock held** (`process.go:84`). `ClearPid` unlocks the shared handle. The spec (section 3) says the content is written only under the exclusive lock.
2. **Two concurrent `start`s leave two Java workers** (`main.go:83`, `main.go:117`). `Alive` is checked before the lock is taken and not re-checked under it. Both children then see their own pid and exec. This contradicts spec section 8.
3. **One `start` can lose track of its worker.** It needs no concurrency and no crash; the run's trace is a single `start`:
   1. The forked child reads the file between the parent's truncate and its unlocked write.
   2. The child finds the file empty, so it does not recognise itself as the child. It forks a grandchild, which becomes the worker.
   3. The file ends up naming the child, which has exited.
4. **Non-ASCII keys are cut short** (`properties.go:59`). `keyLen` counts runes but is used as a byte length.
5. **`stop` can erase the record of a running worker** (`main.go:208`). `terminate` leaves its poll loop as soon as `Alive` fails and then calls `ClearPid`, which truncates whatever the file names by then. Spec section 3 says the record is cleared after confirmed death. TLC's shortest trace (21 states):
   1. `stop` signals the worker, the worker exits, and the poll sees it gone.
   2. A concurrent `start` gets the freed pid. It reads its own pid from the file, takes itself for the child and execs Java.
   3. `stop` takes the lock and truncates the file, which named the running worker.
   With pid reuse ruled out, a 29-state trace does the same: the concurrent `start` forks a child, records it and the child execs, all between the stop's last poll and its truncate. Either way `status` then says not running and a later `stop` cannot find the worker.
6. **`RewriteArgs` does not turn every restart into start** (`commands.go:83`). It compares raw arguments with `"restart"` exactly, while `ParseCommand` lower-cases them. `launcher RESTART` forks a child that runs `restart` again, and `restart --pid-file restart` forks a child with `--pid-file start`. Spec section 4.2 says the child re-invokes the command line with RESTART rewritten to START.

One further difference is not a run: when an escaped terminator is the last byte of the input, `readLine` returns a possibly empty line without the backslash (`properties.go:373`). The spec's grammar gives no line there. The reference implementation behaves as the code does (`LinesMatchReference` checks the code against that reference).

## Fairness

`Fairness` assumes three things:
- **Weak fairness on each launcher's local steps.** A process that can run is eventually scheduled.
- **Strong fairness on each lock step.** The kernel wakes `flock` waiters when the lock is released, so a lock that is free infinitely often is eventually granted.
- **Weak fairness on `Die`.** A process sent SIGTERM or SIGKILL eventually exits. SIGKILL cannot be caught; the Go launcher has no SIGTERM handler, and Java exits after its shutdown hooks.

Crashes and unrelated processes carry no fairness.

## Proofs

`LauncherProofs`, `LauncherStopProofs` and `AdvisoryLockProofs` prove the theorems below for every set of pids, every set of commands and every bound. They rely on the assumptions `BoundAssumption` and `PidAssumption`; `StopSafety` and `StopKeepsRecord` also have the hypothesis that the operators issue only stop, kill and status.

The lemma `GoneResets` states, pid by pid, what an exit, crash, signal death or unrelated exit (`Gone`) does: the process's own launcher state and lock are reset and every other pid keeps its own. The invariant proofs cite it instead of expanding `Gone`.

- `TypeCorrect`: `Spec => []TypeOK`. It rests on `TypeInit` and on `TypeStep`, which has one step per group of actions.
- `LockSoundness`: `Spec => []LockSound`.
  - `LockSound` alone is not inductive. A `Gone` step or a fork depends on `TypeOK` to know that `lk` is a function to lock modes.
  - The inductive invariant is therefore `IInv == TypeOK /\ LockSound`.
  - `LockInit` shows `Init => LockSound`. `LockStepSound` shows that every action preserves `LockSound` given `IInv`, with one step per action group.
  - The argument: a shared lock is granted only when no other handle holds the exclusive lock, and an exclusive lock only when no other handle holds any lock. Exit, crash and exec release the handle. Fork and foreign start take only a free pid, which holds no lock.
- `ClearedUnderLockHolds`: `Spec => ClearedUnderLock`, an action property: a step that empties the PID file is taken while some handle holds the exclusive lock.
  - The inductive invariant is `TypeOK /\ TruncateInv`. `TruncateInv` says three things:
    - a launcher at the truncate of `WritePid` or `ClearPid` holds the exclusive lock;
    - a launcher inside `WritePid` writes a pid;
    - no call returns into the middle of `WritePid` or `ClearPid`.
  - The third conjunct is needed because `ReadPid` and `WritePid` return to `ret[p]`. Without it the first proof attempt failed: a return into a truncate label would skip the lock.
  - `ClearedStep` then shows that only `WpTruncate`/`CpTruncate` empty the file, and `WpWrite` writes a pid. So the only unlocked change of the file is the write of finding 1.
- `StopSafety`: under the hypothesis `Commands \subseteq {"stop", "kill", "status"}`, `Spec => []StoppedMeansDead`.
  - The inductive invariant `StopInv` has these conjuncts:
    - `TypeOK`;
    - `StopOnly`: launchers stay at the labels of stop, kill, status, `ReadPid` and `ClearPid`, and return only to the labels those commands call from;
    - `RecordNamesWorker`: a running worker is the recorded pid;
    - `PollSawWorker`: a launcher in the poll loop has just read the file, so a running worker is the pid it read;
    - `LoopLeftNoWorker`: once a launcher has left the loop, no worker runs;
    - `TargetRead`: from the signal on, the target is a pid, because `StoppedMeansDead` reads `proc[tgt[p]]`.
  - The argument: no step execs Java, so the only worker is one that ran before. `ClearPid` runs only when no worker runs, so the file names that worker until it dies. The poll loop ends only when the pid it read is free or the file was empty, and then no worker runs.
  - TLC checked `StopInv` as an invariant of the stop_protocol instance, and of one with three invocations and unrelated processes, before the proof.
  - The hypothesis is needed: with run, start or restart, a new launcher can get the signalled worker's freed pid and exec Java (pid reuse), and TLC finds `StoppedMeansDead` violated.
- `StopKeepsRecord`: under the same hypothesis, `Spec => []RecordTracksWorker`. It follows from `StopInv` (its conjunct `RecordNamesWorker`) with no further strengthening. The sequential_record run shows that with run and start among the commands the property fails, even without concurrency or crashes (finding 3). So a worker loses its record through run or start, never through stop, kill or status alone.
- `ExclusionHolds` (`AdvisoryLockProofs`): the abstract lock keeps an exclusive holder alone. `ModeOK /\ Exclusion` is inductive.
- `ExclusionByRefinement`: `Spec => []Lock!Exclusion`. It is obtained from `LockRefinement` and the instance `LockP` of `AdvisoryLockProofs`, not from the launcher's own invariant. The proof shows that `Lock!Spec` and `LockP!Spec` (two instances of the same module under the same substitution) are the same formula, then combines the two by PTL. This shows the refinement carries the abstract guarantee down to the code's model.
- `LockRefinement`: `Spec => LockRefined`, the refinement of `AdvisoryLock` under the mapping `mode <- lk`.
  - The initial states map to `Lock!Init` (no handle holds a lock).
  - `LockStepRefines`: `IInv /\ [Next]_vars => [Lock!Next]_lk`, one step per action group. The lemmas `ReleaseStep` (a step that sets one handle to `none`) and `AcquireExStep` (an exclusive acquisition, with the conversion that drops a shared lock) are cited wherever those steps occur.
  - `ReadPidLock` needs `LockSound` from `IInv`: a handle that takes the shared lock itself holds nothing, so no handle can go straight from `ex` to `sh`.
  - The temporal step combines these with `TypeStep` and `LockStepSound`.

TLC checks the following, but they are not proved:
- **The liveness properties** (`LauncherEnds`, `TermEnds`). Fairness and ENABLED are beyond TLAPS.
- **The violated properties** (`WrittenUnderLock`, `AtMostOneWorker`, `RecordTracksWorker`, `ClearsOnlyDead`, `LoadMatchesSpec` on UTF-8, `ChildReentersStart` on upper case): TLC's counterexamples are the evidence.
- **Everything about `LineReader`, `PropertiesLoad` and `Args`.** Their reference definitions are RECURSIVE operators, and what a recursive definition computes for every input cannot be proved with the installed provers.

## Not modelled

- **The rest of `ParseOptions`** (etc, config, node, JVM, log and secrets paths, the merge of node properties into system properties), `CreateAppSymlinks` and `JavaExecution`. The file and environment lookups of `properties.go` are not modelled either. These are single-pass computations whose results no property of the launcher depends on.
- **The flags that no resolved value depends on** (`verbose`, `J`, and the path flags other than `pid-file`). They parse the way `v`, `D` and `pid-file` do.
- **`directory/*.go`**: filesystem calls. Their failures appear only as the exits folded into the supervisor's steps.
- **Console output and the wording of messages.**
- **Surrogate pairs in `\uXXXX`.** The spec states no reference behaviour for them.

## Plan for later work

1. Model the precedence of the options sources in the rest of `ParseOptions` against a reference function.
2. Add `Resolve`/`decodeEnvProperty` to `PropertiesLoad`.
3. Widen `load_ascii` to multi-line inputs.
4. Write an abstract supervisor spec, with at most one worker and the record naming it. The fixed protocol would refine it, and the current code is shown not to.
5. Track worker identity apart from its pid (a generation per exec), so that a `StoppedMeansDead` that survives pid reuse can be stated and proved with run, start and restart among the commands.
