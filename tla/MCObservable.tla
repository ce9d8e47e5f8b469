---------------------------- MODULE MCObservable ----------------------------
(* Two observables and three observers, one of which (l) declines deferral; *)
(* the updates and the top level make at most MaxCalls calls in all.        *)
EXTENDS Observable

CONSTANTS a, b, l, x, y, MaxCalls

ASSUME CallsAssumption == MaxCalls \in Nat

VARIABLE calls

MCObservers == {a, b, l}
MCObservables == {x, y}
MCDefer == [o \in MCObservers |-> o # l]

\* Two or three of the observers registered with x, one of them with y.
MCWirings == {w \in [MCObservables -> SUBSET MCObservers] :
                  /\ Cardinality(w[x]) >= 2
                  /\ Cardinality(w[y]) = 1}

MCInit == Init /\ calls = 0

UserTurn == calls < MaxCalls /\ calls' = calls + 1 /\ UserStep
EngineTurn == UNCHANGED calls /\ EngineStep

MCSpec == MCInit /\ [][UserTurn \/ EngineTurn]_<<vars, calls>>

\* The thread keeps running: a call under way goes on until it returns.
MCFairSpec == MCSpec /\ WF_<<vars, calls>>(EngineTurn)
=============================================================================
