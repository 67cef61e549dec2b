------------------------------- MODULE MCArgs -------------------------------
EXTENDS Args

(* Command lines of at most two arguments, the command word in any case.   *)
MCCaseInputs ==
  BoundedSeq({<<"restart">>, <<"RESTART">>, <<"start">>, <<DASH, "v">>}, 2)

(* Arguments of lower-case command lines: commands, a non-command, the     *)
(* pid-file flag with and without "=", -D split by transformArgs and not,  *)
(* bool flags with and without a value, the terminator "--" and -h.        *)
MCWords ==
  {<<"restart">>, <<"start">>, <<"stop">>, <<"x">>, <<DASH, DASH, "pid-file">>,
   <<DASH, DASH, "pid-file", EQ, "x">>, <<DASH, "D", "x">>, <<DASH, "D">>,
   <<DASH, "v">>, <<DASH, DASH, "v", EQ, "false">>, <<DASH, DASH>>, <<DASH, "h">>}

(* The command lines of at most three of them on which RewriteArgs is      *)
(* meant to work: "restart" at most once and never the value of            *)
(* --pid-file.                                                             *)
MCSoundInputs ==
  {a \in BoundedSeq(MCWords, 3) :
     \A i, j \in DOMAIN a :
       a[i] = <<"restart">> =>
         /\ a[j] = <<"restart">> => i = j
         /\ i > 1 => a[i - 1] # <<DASH, DASH, "pid-file">>}
=============================================================================
