---------------------------- MODULE MCLauncher ----------------------------
(* Small instances of Launcher for TLC.                                    *)
EXTENDS Launcher, TLC

CONSTANTS p1, p2, p3

MCPid == {p1, p2, p3}
MCSymmetry == Permutations(MCPid)
=============================================================================
