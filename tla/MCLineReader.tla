---------------------------- MODULE MCLineReader ----------------------------
(* Inputs for LineReader: blanks, both terminators, the backslash, the    *)
(* comment mark and one ordinary byte ('a').                               *)
EXTENDS LineReader

MCAlphabet == {SP, LF, CR, BSL, 35, 97}
=============================================================================
