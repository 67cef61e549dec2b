-------------------------------- MODULE Args --------------------------------
(***************************************************************************)
(* The command line of the launcher: transformArgs and ParseArgs           *)
(* (args/args.go) over Go's flag package, the command names                *)
(* (commands/commands.go), RewriteArgs, which turns the parent's command   *)
(* line into the forked child's, and the part of ParseOptions that         *)
(* resolves the PID file (args.go, args/paths.go).                         *)
(*                                                                         *)
(* An argument is a sequence of atoms: "-", "=" and words that stand for   *)
(* runs of ordinary characters, so "--pid-file=x" is                       *)
(* <<"-", "-", "pid-file", "=", "x">>.  Two arguments are the same string  *)
(* exactly when they are the same sequence.  The flags are the ones whose  *)
(* values reach the PID file and the command (help, v, pid-file) and a     *)
(* repeated one (D); the others parse like pid-file.                       *)
(***************************************************************************)
EXTENDS Naturals, Sequences, SequencesExt

CONSTANT Inputs   \* the command lines (os.Args[1:]) an operator may type

VARIABLE args

DASH == "-"
EQ == "="

(* strings.ToLower on the words that have upper-case letters.              *)
Lower(w) == CASE w = "RESTART" -> "restart"
              [] w = "START" -> "start"
              [] w = "D" -> "d"
              [] OTHER -> w

-----------------------------------------------------------------------------
(* commands.go *)

CommandName == [RUN |-> "run", START |-> "start", STOP |-> "stop",
                RESTART |-> "restart", KILL |-> "kill", STATUS |-> "status",
                HELP |-> "help"]

(* ParseCommand: the lower-cased argument against the command names.       *)
ParseCommand(a) ==
  LET named == {c \in DOMAIN CommandName : <<CommandName[c]>> = [i \in DOMAIN a |-> Lower(a[i])]}
  IN IF named = {} THEN "UNKNOWN" ELSE CHOOSE c \in named : TRUE

IsCommand(a) == ParseCommand(a) # "UNKNOWN"

(* A RewriteArgs that skips the first argument, taking it for argv[0].    *)
RewriteArgsSkipFirst(as) ==
  [i \in DOMAIN as |-> IF i > 1 /\ as[i] = <<CommandName.RESTART>>
                         THEN <<CommandName.START>> ELSE as[i]]

(* RewriteArgs: every argument equal to "restart" becomes "start".         *)
RewriteArgs(as) ==
  [i \in DOMAIN as |-> IF as[i] = <<CommandName.RESTART>>
                         THEN <<CommandName.START>> ELSE as[i]]

-----------------------------------------------------------------------------
(* transformArgs: an argument longer than two bytes that starts with -D or *)
(* -J is split into the flag and its value.                                *)
SplitDJ(a) ==
  IF Len(a) > 2 /\ a[1] = DASH /\ a[2] \in {"D", "J"}
    THEN <<<<DASH, a[2]>>, SubSeq(a, 3, Len(a))>>
    ELSE <<a>>

TransformArgs(as) == FlattenSeq([i \in DOMAIN as |-> SplitDJ(as[i])])

(* The flags newParseFlags defines, by kind.                               *)
BoolFlags == {<<"help">>, <<"v">>}
StringFlags == {<<"pid-file">>}
ListFlags == {<<"D">>}

NoFlags == [help |-> FALSE, v |-> FALSE, pidFile |-> <<>>, D |-> <<>>]

Parsed(fl, rest) == [status |-> "ok", flags |-> fl, rest |-> rest]
Exit(code) == [status |-> code]

(* FlagSet.Set of one flag.                                                *)
SetFlag(fl, name, value) ==
  CASE name = <<"help">> -> [fl EXCEPT !.help = value]
    [] name = <<"v">> -> [fl EXCEPT !.v = value]
    [] name = <<"pid-file">> -> [fl EXCEPT !.pidFile = value]
    [] name = <<"D">> -> [fl EXCEPT !.D = Append(@, value)]

(* flag.FlagSet.Parse with ExitOnError: parseOne until the first non-flag  *)
(* argument or "--"; a syntax error, an undefined flag, a bad bool or a    *)
(* missing value exits 2; -h (undefined) prints the usage and exits 0.     *)
RECURSIVE ParseFlagList(_, _)
ParseFlagList(as, fl) ==
  IF as = <<>> THEN Parsed(fl, as) ELSE
  LET s == Head(as) IN
  IF s[1] # DASH \/ s = <<DASH>> THEN Parsed(fl, as)
  ELSE IF s = <<DASH, DASH>> THEN Parsed(fl, Tail(as))
  ELSE
  LET body == IF s[2] = DASH THEN SubSeq(s, 3, Len(s)) ELSE Tail(s)
      eq == SelectInSeq(body, LAMBDA x : x = EQ)
      name == IF eq = 0 THEN body ELSE SubSeq(body, 1, eq - 1)
      value == SubSeq(body, eq + 1, Len(body))
  IN
  IF body = <<>> \/ body[1] \in {DASH, EQ} THEN Exit("exit2")
  ELSE IF name \in BoolFlags
    THEN IF eq = 0 THEN ParseFlagList(Tail(as), SetFlag(fl, name, TRUE))
         ELSE IF value \in {<<"true">>, <<"false">>}
           THEN ParseFlagList(Tail(as), SetFlag(fl, name, value = <<"true">>))
         ELSE Exit("exit2")
  ELSE IF name \in StringFlags \cup ListFlags
    THEN IF eq # 0 THEN ParseFlagList(Tail(as), SetFlag(fl, name, value))
         ELSE IF Tail(as) = <<>> THEN Exit("exit2")
         ELSE ParseFlagList(Tail(Tail(as)), SetFlag(fl, name, Head(Tail(as))))
  ELSE IF name = <<"h">> THEN Exit("exit0")
  ELSE Exit("exit2")

(* ParseArgs: a command first, then flags (what follows the first         *)
(* non-flag is ignored); or flags, then exactly one command.              *)
ParseArgs(as) ==
  IF as = <<>> THEN Exit("exit1") ELSE
  LET t == TransformArgs(as) IN
  IF IsCommand(t[1])
    THEN LET r == ParseFlagList(Tail(t), NoFlags) IN
         IF r.status # "ok" THEN r
         ELSE [status |-> "ok", cmd |-> ParseCommand(t[1]), flags |-> r.flags]
    ELSE LET r == ParseFlagList(t, NoFlags) IN
         IF r.status # "ok" THEN r
         ELSE IF r.flags.help
           THEN [status |-> "ok", cmd |-> "HELP", flags |-> r.flags]
         ELSE IF Len(r.rest) = 1 /\ IsCommand(r.rest[1])
           THEN [status |-> "ok", cmd |-> ParseCommand(r.rest[1]),
                 flags |-> r.flags]
         ELSE Exit("unknown_command")

-----------------------------------------------------------------------------
(* Path resolution (paths.go).  Paths are atom sequences; an absolute one  *)
(* starts with a root atom.  Every invocation of one start runs in the     *)
(* same working directory: Fork passes the parent's original cwd.          *)
Roots == {"/opt", "/cwd"}
InstallPath == <<"/opt">>

(* filepath.Abs: a relative path is joined to the working directory.       *)
Abs(p) == IF p[1] \in Roots THEN p ELSE <<"/cwd">> \o p

(* Resolve: the first non-empty search path, made absolute; it must pass  *)
(* the test (the filesystem is the same for parent and child, and the      *)
(* writability test is taken to pass).                                     *)
Resolve(paths) ==
  LET given == SelectSeq(paths, LAMBDA p : p # <<>>)
  IN IF given = <<>> THEN [ok |-> FALSE]
     ELSE [ok |-> TRUE, path |-> Abs(Head(given))]

(* DataDir from --data-dir, node.data-dir or the install path (the first  *)
(* two are not given here), then PidFile from --pid-file or                *)
(* DataDir/var/run/launcher.pid.                                           *)
PidFileOf(fl) ==
  LET dataDir == Resolve(<<<<>>, <<>>, InstallPath>>).path
  IN Resolve(<<fl.pidFile, dataDir \o <<"var/run/launcher.pid">>>>).path

(* ParseOptions: ParseArgs, usage and exit 0 on --help, then the options.  *)
ParseOptions(as) ==
  LET r == ParseArgs(as) IN
  IF r.status # "ok" THEN r
  ELSE IF r.flags.help THEN Exit("exit0")
  ELSE [status |-> "ok", cmd |-> r.cmd, pidFile |-> PidFileOf(r.flags)]

-----------------------------------------------------------------------------
Init == args \in Inputs
Next == UNCHANGED args
Spec == Init /\ [][Next]_args

(* The spec (section 4.2): start forks a child that re-invokes "the same   *)
(* command line with RESTART rewritten to START"; the child must run start *)
(* on the same PID file, where it finds its own pid.                       *)
ChildReentersStart ==
  LET parent == ParseOptions(args)
      child == ParseOptions(RewriteArgs(args))
  IN parent.status = "ok" /\ parent.cmd \in {"START", "RESTART"} =>
       /\ child.status = "ok"
       /\ child.cmd = "START"
       /\ child.pidFile = parent.pidFile
=============================================================================
