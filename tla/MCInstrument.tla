---------------------------- MODULE MCInstrument ----------------------------
(* Two quotes of two values, two engines; the top level, the writers and   *)
(* the calculations make at most MaxCalls calls in all, or MaxCallsRead if *)
(* a reader prices the instrument.                                         *)
EXTENDS Instrument, TLC

CONSTANTS MaxCalls, MaxCallsRead, Watching, Forwarding

ASSUME CallsAssumption == MaxCalls \in Nat /\ MaxCallsRead \in Nat

VARIABLE calls   \* the calls left

\* Readers and writers observe what is in Watching, forwarders what is in Forwarding.
MCTogether == {[x \in Observables |->
    (IF x \in Watching THEN Readers \cup Writers ELSE {}) \cup
    (IF x \in Forwarding THEN Forwarders ELSE {})]}

\* Either the readers observe the instrument, or the writers and forwarders what they do.
MCApart ==
    {[x \in Observables |-> IF x = "instrument" THEN Readers ELSE {}],
     [x \in Observables |->
        (IF x \in Watching THEN Writers ELSE {}) \cup
        (IF x \in Forwarding THEN Forwarders ELSE {})]}

ASSUME ApartAssumption == Wirings = MCTogether \/ ReadersApart

MCInit == Init /\ calls = (IF Unread THEN MaxCalls ELSE MaxCallsRead)

UserTurn ==
    /\ calls > 0
    /\ calls' = calls - 1
    /\ UserStep
ProgramTurn == UNCHANGED calls /\ ProgramStep

mcvars == <<vars, calls>>
MCSpec == MCInit /\ [][UserTurn \/ ProgramTurn]_mcvars

\* The thread keeps running: a call under way goes on until it returns.
MCFairSpec == MCSpec /\ WF_mcvars(ProgramTurn)
==============================================================================
