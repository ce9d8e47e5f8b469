---------------------------- MODULE MCGoSession ----------------------------
(* The program makes at most MaxCalls calls and the library at most         *)
(* MaxCallbacks callbacks, in all.                                          *)
EXTENDS GoSession, Naturals

CONSTANTS MaxCalls, MaxCallbacks

ASSUME BoundsAssumption == MaxCalls \in Nat /\ MaxCallbacks \in Nat

VARIABLES calls, callbacks

mcvars == <<vars, calls, callbacks>>

MCInit == Init /\ calls = 0 /\ callbacks = 0

MCCall ==
    /\ calls < MaxCalls
    /\ calls' = calls + 1
    /\ \E t \in Threads, s \in Sessions, op \in Operation : Call(t, s, op)
    /\ UNCHANGED callbacks

MCCaller(t) == CallerStep(t) /\ UNCHANGED <<calls, callbacks>>
MCExecutes(s) == Executes(s) /\ UNCHANGED <<calls, callbacks>>
MCEndCallback(s) == EndCallback(s) /\ UNCHANGED <<calls, callbacks>>
MCStartCallback(s) ==
    /\ callbacks < MaxCallbacks
    /\ callbacks' = callbacks + 1
    /\ StartCallback(s)
    /\ UNCHANGED calls

MCNext ==
    \/ MCCall
    \/ \E t \in Threads : MCCaller(t)
    \/ \E s \in Sessions : MCExecutes(s) \/ MCStartCallback(s) \/ MCEndCallback(s)

MCSpec == MCInit /\ [][MCNext]_mcvars

\* Goroutines and workers run, and callbacks end.
MCFairSpec ==
    /\ MCSpec
    /\ \A t \in Threads : WF_mcvars(MCCaller(t))
    /\ \A s \in Sessions : WF_mcvars(MCExecutes(s)) /\ WF_mcvars(MCEndCallback(s))
=============================================================================
