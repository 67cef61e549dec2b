------------------------- MODULE AdvisoryLockProofs -------------------------
(***************************************************************************)
(* The advisory lock keeps its promise for every set of holders: an        *)
(* exclusive holder is alone.  Exclusion is inductive together with the    *)
(* type of mode.                                                           *)
(***************************************************************************)
EXTENDS AdvisoryLock, TLAPS

(* Every grant and release keeps the modes typed and the exclusive holder  *)
(* alone: a shared grant needs no exclusive holder, an exclusive grant no  *)
(* other holder at all.                                                    *)
LEMMA ExclusionStep ==
  ModeOK /\ Exclusion /\ [Next]_mode => ModeOK' /\ Exclusion'
<1> SUFFICES ASSUME ModeOK, Exclusion, [Next]_mode
             PROVE  ModeOK' /\ Exclusion'
  OBVIOUS
<1>1. ASSUME NEW h \in Holders, LockShared(h) PROVE ModeOK' /\ Exclusion'
  BY <1>1 DEF LockShared, ModeOK, Exclusion
<1>2. ASSUME NEW h \in Holders, LockExclusive(h) PROVE ModeOK' /\ Exclusion'
  BY <1>2 DEF LockExclusive, ModeOK, Exclusion
<1>3. ASSUME NEW h \in Holders, Release(h) PROVE ModeOK' /\ Exclusion'
  BY <1>3 DEF Release, ModeOK, Exclusion
<1>4. CASE UNCHANGED mode
  BY <1>4 DEF ModeOK, Exclusion
<1>. QED  BY <1>1, <1>2, <1>3, <1>4 DEF Next

(* In every behaviour of the lock an exclusive holder is alone.            *)
THEOREM ExclusionHolds == Spec => [](ModeOK /\ Exclusion)
<1>1. Init => ModeOK /\ Exclusion  BY DEF Init, ModeOK, Exclusion
<1>2. ModeOK /\ Exclusion /\ [Next]_mode => ModeOK' /\ Exclusion'
  BY ExclusionStep
<1>. QED  BY <1>1, <1>2, PTL DEF Spec
=============================================================================
