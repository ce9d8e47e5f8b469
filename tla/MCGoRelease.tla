---------------------------- MODULE MCGoRelease ----------------------------
(* Two required platforms and Windows; builds a and b are sound, c is not.  *)
(* The release starts with the assets of at most one platform.              *)
EXTENDS GoRelease, FiniteSets

CONSTANTS linux, darwin, windows, a, b, c, MaxRuns

ASSUME RunsAssumption == MaxRuns \in Nat

VARIABLE runs

mcvars == <<vars, runs>>

MCRequired == <<linux, darwin>>

\* One build of everything, or one in which a package is missing or not sound.
MCLocals ==
    LET built(x) == [p \in Platforms |-> x]
    IN  {built(a), built(b)} \cup
        {[built(b) EXCEPT ![p] = x] : p \in {darwin, windows}, x \in {c, None}}

MCInit ==
    /\ Init
    /\ Cardinality({p \in Platforms : archive[p] # None \/ checksum[p] # None}) <= 1
    /\ runs = 0

MCBegin(local) == runs < MaxRuns /\ runs' = runs + 1 /\ Begin(local)

MCNext ==
    \/ \E local \in Locals : MCBegin(local)
    \/ UNCHANGED runs /\ (Stop \/ RunStep)

MCSpec == MCInit /\ [][MCNext]_mcvars /\ WF_mcvars(UNCHANGED runs /\ RunStep)
=============================================================================
