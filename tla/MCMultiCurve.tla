---------------------------- MODULE MCMultiCurve ----------------------------
(* Two contributors, one of them moving, and a spreaded curve on the first, *)
(* with a quote each; user code makes at most MaxCalls calls in all.        *)
EXTENDS MultiCurve

CONSTANTS A, B, N, hA, hB, qA, qB, qN, kN, MaxCalls

ASSUME CallsAssumption == MaxCalls \in Nat

VARIABLE calls

MCFits == [h \in Helpers |-> IF h = hA THEN A ELSE B]
MCBase == [n \in Passives |-> A]
MCFeeds == [q \in Quotes |-> IF q = qA THEN {hA} ELSE IF q = qB THEN {hB} ELSE {N}]
MCConsumes == [k \in Consumers |-> N]

mcvars == <<vars, calls>>

MCInit == Init /\ calls = 0 /\ quote = [q \in Quotes |-> 1]
UserTurn == calls < MaxCalls /\ ~panicked /\ calls' = calls + 1 /\ UserStep
ProgramTurn == UNCHANGED calls /\ ProgramStep

MCSpec == MCInit /\ [][UserTurn \/ ProgramTurn]_mcvars

\* The thread keeps running: a call under way goes on until it returns.
MCFairSpec == MCSpec /\ WF_mcvars(ProgramTurn)
=============================================================================
