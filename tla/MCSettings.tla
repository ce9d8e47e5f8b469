---------------------------- MODULE MCSettings ----------------------------
(* Two indexes, one under two spellings; two dates; 3 rates, neighbours    *)
(* close to each other; user code makes at most MaxCalls calls in all.     *)
EXTENDS Settings

CONSTANTS euribor, EURIBOR, BMA, past, latest, MaxCalls

ASSUME CallsAssumption == MaxCalls \in Nat

VARIABLE calls

mcvars == <<vars, calls>>

MCUppercase == [n \in Names |-> IF n = euribor THEN EURIBOR ELSE n]
MCRates == {11, 12, 13}
MCClose == {p \in Rates \X Rates : p[1] - p[2] \in {-1, 0, 1}}
MCBatches == {<<>>, <<<<1, 11>>>>, <<<<1, 12>>>>, <<<<1, 13>>>>, <<<<2, 11>>>>, <<<<2, 13>>, <<1, 13>>>>}
MCReads == [r \in Readers |->
    IF r = past THEN [name |-> EURIBOR, date |-> 1, forecast |-> FALSE]
    ELSE [name |-> BMA, date |-> Null, forecast |-> FALSE]]

MCInit == Init /\ calls = 0
UserTurn == calls < MaxCalls /\ calls' = calls + 1 /\ UserStep
ProgramTurn == UNCHANGED calls /\ ProgramStep

MCSpec == MCInit /\ [][UserTurn \/ ProgramTurn]_mcvars

\* The thread keeps running: a call under way goes on until it returns.
MCFairSpec == MCSpec /\ WF_mcvars(ProgramTurn)
=============================================================================
