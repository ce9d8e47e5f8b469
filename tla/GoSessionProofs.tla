--------------------------- MODULE GoSessionProofs ---------------------------
(***************************************************************************)
(* Theorems about GoSession, for any sets of sessions, goroutines and      *)
(* handles: the variables have their types, the native context is freed    *)
(* alone, callbacks never wait for each other in a circle, and what the    *)
(* callers see is a serial server (SerialSession).                         *)
(***************************************************************************)
EXTENDS GoSession, TLAPS

-----------------------------------------------------------------------------
(* The inductive invariant.                                                *)

\* The calls under way: not answered yet, and answered but not returned.
Asking == [step : Steps, session : Sessions, op : Operation]
Returning == [step : {"answered"}, session : Sessions, op : Operation, result : Result]

\* A worker's flag is up exactly while it runs a callback, and only then does
\* its thread make calls.
FlagsHonest ==
    /\ callbackActive = inCallback
    /\ \A s \in Sessions : call[s] # Idle => s \in inCallback

\* A worker serves a thread that awaits its answer.
ServesAwaiting ==
    \A s \in Sessions : serving[s] # None =>
        call[serving[s]].step = "await" /\ call[serving[s]].session = s

\* The gate is held for writing by a thread that is closing the session.
WriterCloses ==
    \A s \in Sessions : writer[s] # None =>
        LET t == writer[s] IN
        /\ call[t].step \in {"gate", "send", "await", "answered"}
        /\ call[t].session = s
        /\ call[t].op.kind = "close"

\* A call that is sent or served holds the gate: for reading, or, when it is
\* Close, for writing, with no reader inside and closed set.
Admitted(t) == call[t].step \in {"send", "await"}
HoldsGate ==
    \A t \in Threads : Admitted(t) =>
        LET s == call[t].session IN
        IF IsClose(t) THEN writer[s] = t /\ readers[s] = {} /\ s \in closed
        ELSE t \in readers[s]

IInv ==
    /\ TypeOK
    /\ FlagsHonest
    /\ ServesAwaiting
    /\ WriterCloses
    /\ HoldsGate
    /\ FreedAlone
    /\ NoWaitCycle

-----------------------------------------------------------------------------
(* What a step does to the call of one thread.                             *)

\* Nothing but the call of t changes, and t is then at the given step.
Moves(t, step) ==
    /\ \A u \in Threads \ {t} : call'[u] = call[u]
    /\ call'[t].step = step
    /\ call'[t].session = call[t].session
    /\ call'[t].op = call[t].op
    /\ call'[t] # Idle

\* A call of the given step has a session and an operation.
LEMMA AskingTyped ==
    ASSUME TypeOK, NEW t \in Threads, call[t].step \in Steps
    PROVE  call[t] \in Asking /\ call[t] # Idle
BY SMT DEF TypeOK, Asking, Steps, Idle

\* Going on in invoke or Close keeps the session and the operation.
LEMMA GoesMoves ==
    ASSUME TypeOK, NEW t \in Threads, call[t].step \in Steps,
           NEW step \in Steps, Goes(t, step)
    PROVE  Moves(t, step) /\ call' \in [Threads -> {Idle} \cup Asking \cup Returning]
<1>1. call[t] \in Asking BY AskingTyped
<1>2. call' = [call EXCEPT ![t].step = step] BY DEF Goes
<1>3. call \in [Threads -> {Idle} \cup Asking \cup Returning]
  BY DEF TypeOK, Asking, Returning
<1>4. call'[t] = [call[t] EXCEPT !.step = step] BY <1>2, <1>3
<1>5. call'[t] \in Asking /\ call'[t].step = step /\ call'[t].session = call[t].session
      /\ call'[t].op = call[t].op
  BY <1>1, <1>4 DEF Asking
<1>6. call'[t] # Idle BY <1>5 DEF Asking, Idle, Steps
<1>. QED BY <1>2, <1>3, <1>5, <1>6 DEF Moves

\* Answering keeps them too.
LEMMA AnsweredMoves ==
    ASSUME TypeOK, NEW t \in Threads, call[t].step \in Steps,
           NEW r \in Result, Answered(t, r)
    PROVE  Moves(t, "answered") /\ call' \in [Threads -> {Idle} \cup Asking \cup Returning]
<1>1. call[t] \in Asking BY AskingTyped
<1>2. call \in [Threads -> {Idle} \cup Asking \cup Returning]
  BY DEF TypeOK, Asking, Returning
<1> DEFINE a == [step |-> "answered", session |-> call[t].session,
                 op |-> call[t].op, result |-> r]
<1>3. call' = [call EXCEPT ![t] = a] BY DEF Answered
<1>4. a \in Returning BY <1>1 DEF Asking, Returning
<1>5. a.step = "answered" /\ a.session = call[t].session /\ a.op = call[t].op
  OBVIOUS
<1>6. a # Idle BY <1>5 DEF Idle
<1> HIDE DEF a
<1>7. call'[t] = a BY <1>2, <1>3
<1>. QED BY <1>2, <1>3, <1>4, <1>5, <1>6, <1>7 DEF Moves

-----------------------------------------------------------------------------
(* Circles of waiting callbacks.                                           *)

\* Steps that add no wait close no circle.
LEMMA FewerWaits ==
    ASSUME NoWaitCycle,
           \A s, x \in Sessions : WaitsFor(s, x)' => WaitsFor(s, x)
    PROVE  NoWaitCycle'
<1>. SUFFICES ASSUME NEW S \in (SUBSET Sessions) \ {{}}
              PROVE  \E s \in S : \A x \in S : ~WaitsFor(s, x)'
  BY DEF NoWaitCycle
<1>1. PICK s \in S : \A x \in S : ~WaitsFor(s, x) BY DEF NoWaitCycle
<1>. QED BY <1>1

\* The wait that a successful look at the flag adds leads to a session whose own
\* thread makes no call.
LEMMA CheckClosesNoCircle ==
    ASSUME IInv, NEW t \in Threads, Check(t)
    PROVE  NoWaitCycle'
<1>1. call[t].step \in Steps /\ call[t] # Idle
  BY AskingTyped DEF Check, At, Steps, IInv, Idle
<1>2. \A u \in Threads \ {t} : call'[u] = call[u]
  <2>1. CASE Goes(t, "gate")
    BY <1>1, <2>1, GoesMoves DEF Moves, IInv, Steps
  <2>2. CASE Answered(t, "reentry")
    BY <1>1, <2>2, AnsweredMoves DEF Moves, IInv, Result
  <2>. QED BY <2>1, <2>2 DEF Check
<1>. PICK y \in Sessions : y = call[t].session
  BY <1>1, AskingTyped DEF Asking, IInv
<1>3. CASE Answered(t, "reentry")
  <2>1. call'[t].step = "answered"
    BY <1>1, <1>3, AnsweredMoves DEF Moves, IInv, Result
  <2>2. \A s, x \in Sessions : WaitsFor(s, x)' => WaitsFor(s, x)
    BY <1>2, <2>1 DEF WaitsFor, Steps, Threads
  <2>. QED BY <2>2, FewerWaits DEF IInv
<1>4. CASE Goes(t, "gate") /\ y \notin callbackActive
  <2>2. call[y] = Idle BY <1>4 DEF IInv, FlagsHonest
  <2>3. y # t BY <1>1, <2>2
  <2>4. \A x \in Sessions : ~WaitsFor(y, x)'
    <3>1. call'[y].step = "idle" BY <1>2, <2>2, <2>3 DEF Idle, Threads
    <3>. QED BY <3>1 DEF WaitsFor, Steps
  <2>5. call'[t].session = y
    BY <1>1, <1>4, GoesMoves DEF Moves, IInv, Steps
  <2>6. \A s, x \in Sessions : x # y /\ WaitsFor(s, x)' => WaitsFor(s, x)
    BY <1>2, <2>5 DEF WaitsFor, Threads
  <2>. SUFFICES ASSUME NEW S \in (SUBSET Sessions) \ {{}}
                PROVE  \E s \in S : \A x \in S : ~WaitsFor(s, x)'
    BY DEF NoWaitCycle
  <2>7. CASE y \in S BY <2>4, <2>7
  <2>8. CASE y \notin S
    <3>1. PICK s \in S : \A x \in S : ~WaitsFor(s, x) BY DEF NoWaitCycle, IInv
    <3>. QED BY <2>6, <2>8, <3>1
  <2>. QED BY <2>7, <2>8
<1>. QED BY <1>3, <1>4 DEF Check, Reentrant

-----------------------------------------------------------------------------
(* The initial states, and the steps one after the other.                  *)

LEMMA InitHolds == Init => IInv
<1>. SUFFICES ASSUME Init PROVE IInv OBVIOUS
<1>1. \A t \in Threads : call[t].step = "idle" BY DEF Init, Idle
<1>2. TypeOK BY DEF Init, TypeOK
<1>3. NoWaitCycle BY <1>1 DEF NoWaitCycle, WaitsFor, Steps, Threads
<1>4. FreedAlone BY DEF Init, FreedAlone
<1>. QED
  BY <1>1, <1>2, <1>3, <1>4
     DEF Init, IInv, FlagsHonest, ServesAwaiting, WriterCloses, HoldsGate, Admitted, Threads

\* A new call: from a goroutine, or from a worker that runs a callback.
LEMMA CallKeeps ==
    ASSUME IInv, NEW t \in Threads, NEW s \in Sessions, NEW op \in Operation, Call(t, s, op)
    PROVE  IInv'
<1> DEFINE c == [step |-> "check", session |-> s, op |-> op]
<1>1. TypeOK /\ call[t] = Idle BY DEF IInv, Call
<1>2. call' = [call EXCEPT ![t] = c] BY DEF Call
<1>3. c \in Asking /\ c.step = "check" BY DEF Asking, Steps
<1> HIDE DEF c
<1>4. call'[t] = c /\ \A u \in Threads \ {t} : call'[u] = call[u]
  BY <1>1, <1>2 DEF TypeOK
<1>5. call' \in [Threads -> {Idle} \cup Asking \cup Returning]
  BY <1>1, <1>2, <1>3 DEF TypeOK, Asking, Returning
<1>6. TypeOK' BY <1>1, <1>5 DEF TypeOK, Call, gate, native, worker, Asking, Returning
<1>7. FlagsHonest'
  BY ThreadsAssumption, <1>4 DEF FlagsHonest, IInv, Call, worker, Threads
<1>8. \A u \in Threads : call'[u].step # "check" => call'[u] = call[u]
  BY <1>3, <1>4
<1>9. call[t].step = "idle" BY <1>1 DEF Idle
<1>10. ServesAwaiting'
  BY <1>4, <1>9 DEF ServesAwaiting, IInv, Call, worker, TypeOK
<1>11. WriterCloses'
  BY <1>4, <1>9 DEF WriterCloses, IInv, Call, gate, TypeOK
<1>12. HoldsGate'
  BY <1>8 DEF HoldsGate, Admitted, IsClose, IInv, Call, gate
<1>13. FreedAlone'
  BY <1>8 DEF FreedAlone, IInv, Call, native, worker
<1>14. \A z, x \in Sessions : WaitsFor(z, x)' => WaitsFor(z, x)
  BY <1>8 DEF WaitsFor, Steps, Threads
<1>15. NoWaitCycle' BY <1>14, FewerWaits DEF IInv
<1>. QED BY <1>6, <1>7, <1>10, <1>11, <1>12, <1>13, <1>15 DEF IInv

\* The flag is looked at.
LEMMA CheckKeeps ==
    ASSUME IInv, NEW t \in Threads, Check(t)
    PROVE  IInv'
<1>1. TypeOK /\ call[t].step \in Steps /\ call[t].step = "check" /\ call[t] # Idle
  BY AskingTyped DEF Check, At, Steps, IInv
<1>2. /\ Moves(t, "gate") \/ Moves(t, "answered")
      /\ call' \in [Threads -> {Idle} \cup Asking \cup Returning]
  <2>1. CASE Goes(t, "gate") BY <1>1, <2>1, GoesMoves DEF Steps
  <2>2. CASE Answered(t, "reentry") BY <1>1, <2>2, AnsweredMoves DEF Result
  <2>. QED BY <2>1, <2>2 DEF Check
<1>3. TypeOK' BY <1>1, <1>2 DEF TypeOK, Check, gate, native, worker, Asking, Returning
<1>4. FlagsHonest' BY <1>1, <1>2 DEF FlagsHonest, IInv, Check, worker, Moves, Threads
<1>5. ServesAwaiting'
  BY <1>1, <1>2 DEF ServesAwaiting, IInv, Check, worker, TypeOK, Moves
<1>6. WriterCloses'
  BY <1>1, <1>2 DEF WriterCloses, IInv, Check, gate, TypeOK, Moves
<1>7. HoldsGate'
  BY <1>1, <1>2 DEF HoldsGate, Admitted, IsClose, IInv, Check, gate, Moves
<1>8. FreedAlone'
  BY <1>1, <1>2 DEF FreedAlone, IInv, Check, native, worker, Moves
<1>9. NoWaitCycle' BY CheckClosesNoCircle
<1>. QED BY <1>3, <1>4, <1>5, <1>6, <1>7, <1>8, <1>9 DEF IInv

\* A thread that already waits goes on waiting, or is answered.
LEMMA GoingOnClosesNoCircle ==
    ASSUME IInv, NEW t \in Threads, call[t].step \in Steps \ {"check"},
           NEW step \in Steps \cup {"answered"}, Moves(t, step)
    PROVE  NoWaitCycle'
<1>1. \A s, x \in Sessions : WaitsFor(s, x)' => WaitsFor(s, x)
  BY DEF WaitsFor, Moves, Threads
<1>. QED BY <1>1, FewerWaits DEF IInv

\* A call enters the gate, or is told that the session is closed.
LEMMA EnterGateKeeps ==
    ASSUME IInv, NEW t \in Threads, EnterGate(t)
    PROVE  IInv'
<1>1. TypeOK /\ call[t].step \in Steps /\ call[t].step = "gate" /\ call[t] # Idle
  BY AskingTyped DEF EnterGate, At, Steps, IInv
<1>. PICK s \in Sessions : s = call[t].session BY <1>1, AskingTyped DEF Asking
<1>2. writer[s] = None /\ writer' = writer BY DEF EnterGate
<1>3. /\ \/ Moves(t, "answered") /\ readers' = readers
         \/ /\ Moves(t, "send") /\ s \notin closed
            /\ readers' = [readers EXCEPT ![s] = @ \cup {t}]
      /\ call' \in [Threads -> {Idle} \cup Asking \cup Returning]
  <2>1. CASE s \in closed \/ queue[s] = "none"
    <3>1. PICK r \in Result : Answered(t, r)
      BY <2>1 DEF EnterGate, Result
    <3>2. readers' = readers BY <2>1 DEF EnterGate
    <3>. QED BY <1>1, <3>1, <3>2, AnsweredMoves
  <2>2. CASE s \notin closed /\ queue[s] # "none"
    <3>1. Goes(t, "send") /\ readers' = [readers EXCEPT ![s] = @ \cup {t}]
      BY <2>2 DEF EnterGate
    <3>. QED BY <1>1, <2>2, <3>1, GoesMoves DEF Steps
  <2>. QED BY <2>1, <2>2
<1>4. UNCHANGED <<callbackActive, writer, closed, queue, ctx, poisoned, issued, objects,
                  serving, inCallback>>
  BY DEF EnterGate, native, worker
<1>5. TypeOK' BY <1>1, <1>3, <1>4 DEF TypeOK, Asking, Returning
<1>6. FlagsHonest' BY <1>1, <1>3, <1>4 DEF FlagsHonest, IInv, Moves, Threads
<1>7. ServesAwaiting' BY <1>1, <1>3, <1>4 DEF ServesAwaiting, IInv, TypeOK, Moves
<1>8. WriterCloses' BY <1>1, <1>2, <1>3 DEF WriterCloses, IInv, TypeOK, Moves
<1>9. HoldsGate'
  <2>1. call[t].op.kind # "close" BY DEF EnterGate, IsClose
  <2>. SUFFICES ASSUME NEW u \in Threads, Admitted(u)'
                PROVE  LET x == call'[u].session IN
                       IF call'[u].op.kind = "close"
                       THEN writer'[x] = u /\ readers'[x] = {} /\ x \in closed'
                       ELSE u \in readers'[x]
    BY DEF HoldsGate, IsClose
  <2>2. CASE u = t BY <1>1, <1>3, <2>1, <2>2 DEF Admitted, Moves, TypeOK
  <2>3. CASE u # t
    <3>1. call'[u] = call[u] BY <1>3, <2>3 DEF Moves
    <3>2. Admitted(u) BY <3>1 DEF Admitted
    <3>3. call[u].session \in Sessions BY <1>1, <3>2, AskingTyped DEF Asking, Admitted, Steps
    <3>4. u # None BY ThreadsAssumption
    <3>. QED BY <1>1, <1>2, <1>3, <1>4, <3>1, <3>2, <3>3, <3>4 DEF HoldsGate, IsClose, IInv, TypeOK
  <2>. QED BY <2>2, <2>3
<1>10. FreedAlone' BY <1>1, <1>3, <1>4 DEF FreedAlone, IInv, Moves
<1>11. NoWaitCycle' BY <1>1, <1>3, GoingOnClosesNoCircle DEF Steps
<1>. QED BY <1>5, <1>6, <1>7, <1>8, <1>9, <1>10, <1>11 DEF IInv

\* Close announces itself at the gate.
LEMMA AnnounceWriterKeeps ==
    ASSUME IInv, NEW t \in Threads, AnnounceWriter(t)
    PROVE  IInv'
<1>1. TypeOK /\ call[t].step \in Steps /\ call[t].step = "gate" /\ call[t] # Idle
  BY AskingTyped DEF AnnounceWriter, At, Steps, IInv
<1>. PICK s \in Sessions : s = call[t].session BY <1>1, AskingTyped DEF Asking
<1>2. writer[s] = None /\ writer' = [writer EXCEPT ![s] = t] /\ call[t].op.kind = "close"
  BY DEF AnnounceWriter, IsClose
<1>3. UNCHANGED <<callbackActive, readers, closed, queue, ctx, poisoned, issued, objects,
                  serving, inCallback, call>>
  BY DEF AnnounceWriter, native, worker
<1>4. TypeOK' BY <1>1, <1>2, <1>3 DEF TypeOK
<1>5. FlagsHonest' /\ ServesAwaiting' /\ FreedAlone' /\ NoWaitCycle'
  BY <1>3 DEF FlagsHonest, ServesAwaiting, FreedAlone, NoWaitCycle, WaitsFor, IInv
<1>6. WriterCloses' BY <1>1, <1>2, <1>3 DEF WriterCloses, IInv, TypeOK
<1>7. HoldsGate'
  BY ThreadsAssumption, <1>1, <1>2, <1>3 DEF HoldsGate, Admitted, IsClose, IInv, TypeOK
<1>. QED BY <1>4, <1>5, <1>6, <1>7 DEF IInv

\* Close has the gate when the last reader has left.
LEMMA HoldGateKeeps ==
    ASSUME IInv, NEW t \in Threads, HoldGate(t)
    PROVE  IInv'
<1>1. TypeOK /\ call[t].step \in Steps /\ call[t].step = "gate" /\ call[t] # Idle
  BY AskingTyped DEF HoldGate, At, Steps, IInv
<1>. PICK s \in Sessions : s = call[t].session BY <1>1, AskingTyped DEF Asking
<1>2. writer[s] = t /\ readers[s] = {} /\ closed' = closed \cup {s} BY DEF HoldGate, NoReaders
<1>3. call[t].op.kind = "close"
  BY ThreadsAssumption, <1>2 DEF IInv, WriterCloses
<1>4. /\ \/ Moves(t, "answered")
         \/ Moves(t, "send") /\ s \notin closed
      /\ call' \in [Threads -> {Idle} \cup Asking \cup Returning]
  <2>1. CASE Goes(t, "send") /\ s \notin closed BY <1>1, <2>1, GoesMoves DEF Steps
  <2>2. CASE Answered(t, "ok") BY <1>1, <2>2, AnsweredMoves DEF Result
  <2>. QED BY <2>1, <2>2 DEF HoldGate
<1>5. UNCHANGED <<callbackActive, readers, writer, queue, ctx, poisoned, issued, objects,
                  serving, inCallback>>
  BY DEF HoldGate, gate, native, worker
<1>6. TypeOK' BY <1>1, <1>2, <1>4, <1>5 DEF TypeOK, Asking, Returning
<1>7. FlagsHonest' BY <1>1, <1>4, <1>5 DEF FlagsHonest, IInv, Moves, Threads
<1>8. ServesAwaiting' BY <1>1, <1>4, <1>5 DEF ServesAwaiting, IInv, TypeOK, Moves
<1>9. WriterCloses' BY <1>1, <1>4, <1>5 DEF WriterCloses, IInv, TypeOK, Moves
<1>10. HoldsGate'
  BY <1>1, <1>2, <1>3, <1>4, <1>5 DEF HoldsGate, Admitted, IsClose, IInv, Moves, TypeOK
<1>11. FreedAlone' BY <1>1, <1>2, <1>4, <1>5 DEF FreedAlone, IInv, Moves
<1>12. NoWaitCycle' BY <1>1, <1>4, GoingOnClosesNoCircle DEF Steps
<1>. QED BY <1>6, <1>7, <1>8, <1>9, <1>10, <1>11, <1>12 DEF IInv

\* The worker takes a request as it is sent.
LEMMA SendKeeps ==
    ASSUME IInv, NEW t \in Threads, Send(t)
    PROVE  IInv'
<1>1. TypeOK /\ call[t].step \in Steps /\ call[t].step = "send" /\ call[t] # Idle
  BY AskingTyped DEF Send, At, Steps, IInv
<1>. PICK s \in Sessions : s = call[t].session BY <1>1, AskingTyped DEF Asking
<1>2. serving[s] = None /\ serving' = [serving EXCEPT ![s] = t] BY DEF Send
<1>3. Moves(t, "await") /\ call' \in [Threads -> {Idle} \cup Asking \cup Returning]
  BY <1>1, GoesMoves DEF Send, Steps
<1>4. UNCHANGED <<callbackActive, readers, writer, closed, queue, ctx, poisoned, issued,
                  objects, inCallback>>
  BY DEF Send, gate, native
<1>5. TypeOK' BY <1>1, <1>2, <1>3, <1>4 DEF TypeOK, Asking, Returning
<1>6. FlagsHonest' BY <1>1, <1>3, <1>4 DEF FlagsHonest, IInv, Moves, Threads
<1>7. ServesAwaiting' BY <1>1, <1>2, <1>3 DEF ServesAwaiting, IInv, TypeOK, Moves
<1>8. WriterCloses' BY <1>1, <1>3, <1>4 DEF WriterCloses, IInv, TypeOK, Moves
<1>9. HoldsGate' BY <1>1, <1>3, <1>4 DEF HoldsGate, Admitted, IsClose, IInv, Moves, TypeOK
<1>10. FreedAlone' BY <1>1, <1>2, <1>3, <1>4 DEF FreedAlone, IInv, Moves, TypeOK
<1>11. NoWaitCycle' BY <1>1, <1>3, GoingOnClosesNoCircle DEF Steps
<1>. QED BY <1>5, <1>6, <1>7, <1>8, <1>9, <1>10, <1>11 DEF IInv

\* An answered call gives the gate back.
LEMMA ReturnKeeps ==
    ASSUME IInv, NEW t \in Threads, Return(t)
    PROVE  IInv'
<1>1. TypeOK /\ call[t].step = "answered" BY DEF Return, At, IInv
<1>. PICK s \in Sessions : s = call[t].session
  <2>1. call[t] \in Returning BY <1>1 DEF TypeOK, Idle, Steps, Returning
  <2>. QED BY <2>1 DEF Returning
<1>2. /\ readers' = [readers EXCEPT ![s] = @ \ {t}]
      /\ writer' = [writer EXCEPT ![s] = IF @ = t THEN None ELSE @]
      /\ queue' = [queue EXCEPT ![s] = IF @ = "open" /\ ctx[s] = "freed" THEN "closed" ELSE @]
  BY DEF Return, Unlock
<1>3. call' = [call EXCEPT ![t] = Idle] BY DEF Return
<1>4. call'[t] = Idle /\ \A u \in Threads \ {t} : call'[u] = call[u]
  BY <1>1, <1>3 DEF TypeOK
<1>5. UNCHANGED <<callbackActive, closed, ctx, poisoned, issued, objects, serving, inCallback>>
  BY DEF Return, native, worker
<1>6. call'[t].step = "idle" BY <1>4 DEF Idle
<1>7. TypeOK' BY <1>1, <1>2, <1>3, <1>5 DEF TypeOK
<1>8. FlagsHonest' BY <1>4, <1>5 DEF FlagsHonest, IInv, Threads
<1>9. ServesAwaiting' BY <1>1, <1>4, <1>5 DEF ServesAwaiting, IInv, TypeOK
<1>10. WriterCloses'
  <2>. SUFFICES ASSUME NEW x \in Sessions, writer'[x] # None
                PROVE  /\ call'[writer'[x]].step \in {"gate", "send", "await", "answered"}
                       /\ call'[writer'[x]].session = x
                       /\ call'[writer'[x]].op.kind = "close"
    BY DEF WriterCloses
  <2>1. writer'[x] = writer[x] /\ writer[x] \in Threads BY <1>1, <1>2 DEF TypeOK
  <2>2. call[writer[x]].session = x BY <2>1 DEF WriterCloses, IInv
  <2>3. writer[x] # t BY <1>1, <1>2, <2>1, <2>2 DEF TypeOK
  <2>. QED BY <1>4, <2>1, <2>3 DEF WriterCloses, IInv
<1>11. HoldsGate'
  <2>. SUFFICES ASSUME NEW u \in Threads, Admitted(u)'
                PROVE  LET x == call'[u].session IN
                       IF call'[u].op.kind = "close"
                       THEN writer'[x] = u /\ readers'[x] = {} /\ x \in closed'
                       ELSE u \in readers'[x]
    BY DEF HoldsGate, IsClose
  <2>1. u # t BY <1>6 DEF Admitted
  <2>2. call'[u] = call[u] /\ Admitted(u) BY <1>4, <2>1 DEF Admitted
  <2>3. call[u].session \in Sessions BY <1>1, <2>2, AskingTyped DEF Asking, Admitted, Steps
  <2>. QED BY <1>1, <1>2, <1>5, <2>1, <2>2, <2>3 DEF HoldsGate, IsClose, IInv, TypeOK
<1>12. FreedAlone' BY <1>4, <1>5, <1>6 DEF FreedAlone, IInv
<1>13. NoWaitCycle'
  <2>1. \A z, x \in Sessions : WaitsFor(z, x)' => WaitsFor(z, x)
    BY <1>4, <1>6 DEF WaitsFor, Threads, Steps
  <2>. QED BY <2>1, FewerWaits DEF IInv
<1>. QED BY <1>7, <1>8, <1>9, <1>10, <1>11, <1>12, <1>13 DEF IInv

-----------------------------------------------------------------------------
(* The worker's steps.                                                     *)

\* Every entry of the C boundary answers the thread that is served, and leaves
\* gates and flags alone; only the free frees.
LEMMA ExecutesAnswers ==
    ASSUME IInv, NEW s \in Sessions, NEW t \in Threads,
           \/ FreeContext(s, t) \/ RefusePoisoned(s, t) \/ ContainPanic(s, t) \/ ReportError(s, t)
           \/ InsertObject(s, t) \/ UseObject(s, t) \/ ReleaseObject(s, t)
    PROVE  /\ serving[s] = t /\ serving' = [serving EXCEPT ![s] = None]
           /\ \E r \in Result : Answered(t, r)
           /\ \/ ctx' = ctx
              \/ call[t].op.kind = "close" /\ ctx' = [ctx EXCEPT ![s] = "freed"]
           /\ poisoned' \in SUBSET Sessions
           /\ issued' \in [Sessions -> SUBSET Handles]
           /\ objects' \in [Sessions -> SUBSET Handles]
           /\ UNCHANGED <<callbackActive, readers, writer, closed, queue, inCallback>>
<1>. USE DEF Serving, Finishes, IsClose, gate
<1>1. TypeOK BY DEF IInv
<1>2. CASE FreeContext(s, t) BY <1>1, <1>2 DEF FreeContext, Result, TypeOK
<1>3. CASE RefusePoisoned(s, t) BY <1>1, <1>3 DEF RefusePoisoned, Result, TypeOK, native
<1>4. CASE ContainPanic(s, t) BY <1>1, <1>4 DEF ContainPanic, Result, TypeOK
<1>5. CASE InsertObject(s, t) BY <1>1, <1>5 DEF InsertObject, FreshHandles, Result, TypeOK
<1>6. CASE UseObject(s, t) BY <1>1, <1>6 DEF UseObject, Result, TypeOK, native
<1>7. CASE ReleaseObject(s, t) BY <1>1, <1>7 DEF ReleaseObject, ReleaseResult, Result, TypeOK
<1>8. CASE ReportError(s, t) BY <1>1, <1>8 DEF ReportError, Result, TypeOK, native
<1>. QED BY <1>2, <1>3, <1>4, <1>5, <1>6, <1>7, <1>8

\* An entry of the C boundary is executed.
LEMMA ExecutesKeeps ==
    ASSUME IInv, NEW s \in Sessions, Executes(s)
    PROVE  IInv'
<1>. PICK t \in Threads :
        \/ FreeContext(s, t) \/ RefusePoisoned(s, t) \/ ContainPanic(s, t) \/ ReportError(s, t)
        \/ InsertObject(s, t) \/ UseObject(s, t) \/ ReleaseObject(s, t)
  BY DEF Executes
<1>1. /\ serving[s] = t /\ serving' = [serving EXCEPT ![s] = None]
      /\ \E r \in Result : Answered(t, r)
      /\ \/ ctx' = ctx
         \/ call[t].op.kind = "close" /\ ctx' = [ctx EXCEPT ![s] = "freed"]
      /\ poisoned' \in SUBSET Sessions
      /\ issued' \in [Sessions -> SUBSET Handles]
      /\ objects' \in [Sessions -> SUBSET Handles]
      /\ UNCHANGED <<callbackActive, readers, writer, closed, queue, inCallback>>
  BY ExecutesAnswers
<1>2. TypeOK /\ t # None BY ThreadsAssumption DEF IInv
<1>3. call[t].step = "await" /\ call[t].session = s
  BY <1>1, <1>2 DEF IInv, ServesAwaiting
<1>4. Moves(t, "answered") /\ call' \in [Threads -> {Idle} \cup Asking \cup Returning]
  BY <1>1, <1>2, <1>3, AnsweredMoves DEF Steps
<1>5. call[t] # Idle BY <1>3 DEF Idle
<1>6. TypeOK' BY <1>1, <1>2, <1>4 DEF TypeOK, Asking, Returning
<1>7. FlagsHonest' BY <1>1, <1>4, <1>5 DEF FlagsHonest, IInv, Moves, Threads
<1>8. ServesAwaiting' BY <1>1, <1>2, <1>3, <1>4 DEF ServesAwaiting, IInv, TypeOK, Moves
<1>9. WriterCloses' BY <1>1, <1>2, <1>4 DEF WriterCloses, IInv, TypeOK, Moves
<1>10. HoldsGate'
  BY <1>1, <1>2, <1>4 DEF HoldsGate, Admitted, IsClose, IInv, Moves, TypeOK
<1>11. FreedAlone'
  <2>1. CASE ctx' = ctx
    BY <1>1, <1>2, <1>4, <2>1 DEF FreedAlone, IInv, Moves, TypeOK
  <2>2. CASE call[t].op.kind = "close" /\ ctx' = [ctx EXCEPT ![s] = "freed"]
    <3>1. writer[s] = t /\ readers[s] = {} /\ s \in closed
      BY <1>3, <2>2 DEF HoldsGate, IInv, Admitted, IsClose
    <3>2. \A u \in Threads \ {t} : Admitted(u) => call[u].session # s
      BY <3>1 DEF HoldsGate, IInv, IsClose
    <3>3. \A u \in Threads : call'[u].step \in {"send", "await"} => call'[u].session # s
      BY <1>4, <3>2 DEF Moves, Admitted
    <3>4. serving'[s] = None BY <1>1, <1>2 DEF TypeOK
    <3>. QED BY <1>1, <1>2, <1>4, <2>2, <3>1, <3>3, <3>4 DEF FreedAlone, IInv, Moves, TypeOK
  <2>. QED BY <1>1, <2>1, <2>2
<1>12. NoWaitCycle' BY <1>3, <1>4, GoingOnClosesNoCircle DEF Steps
<1>. QED BY <1>6, <1>7, <1>8, <1>9, <1>10, <1>11, <1>12 DEF IInv

\* A callback starts or ends: its flag and its right to call go together.
LEMMA CallbackKeeps ==
    ASSUME IInv, NEW s \in Sessions, StartCallback(s) \/ EndCallback(s)
    PROVE  IInv'
<1>1. UNCHANGED <<readers, writer, closed, queue, ctx, poisoned, issued, objects, serving, call>>
  BY DEF StartCallback, EndCallback, gate, native
<1>2. TypeOK' BY <1>1 DEF TypeOK, IInv, StartCallback, EndCallback
<1>3. FlagsHonest' BY <1>1 DEF FlagsHonest, IInv, StartCallback, EndCallback
<1>4. ServesAwaiting' /\ WriterCloses' /\ FreedAlone' /\ NoWaitCycle'
  BY <1>1 DEF ServesAwaiting, WriterCloses, FreedAlone, NoWaitCycle, WaitsFor, IInv
<1>5. HoldsGate' BY <1>1 DEF HoldsGate, Admitted, IsClose, IInv
<1>. QED BY <1>2, <1>3, <1>4, <1>5 DEF IInv

-----------------------------------------------------------------------------
(* The theorems.                                                           *)

LEMMA Inductive == IInv /\ [Next]_vars => IInv'
<1>. SUFFICES ASSUME IInv, [Next]_vars PROVE IInv' OBVIOUS
<1>1. CASE UNCHANGED vars
  BY <1>1 DEF IInv, TypeOK, FlagsHonest, ServesAwaiting, WriterCloses, HoldsGate, Admitted,
              IsClose, FreedAlone, NoWaitCycle, WaitsFor, vars, gate, native, worker
<1>2. CASE \E t \in Threads, s \in Sessions, op \in Operation : Call(t, s, op)
  BY <1>2, CallKeeps
<1>3. CASE \E t \in Threads : CallerStep(t)
  BY <1>3, CheckKeeps, EnterGateKeeps, AnnounceWriterKeeps, HoldGateKeeps, SendKeeps,
     ReturnKeeps DEF CallerStep
<1>4. CASE \E s \in Sessions : WorkerStep(s)
  BY <1>4, ExecutesKeeps, CallbackKeeps DEF WorkerStep
<1>. QED BY <1>1, <1>2, <1>3, <1>4 DEF Next

\* The invariant the others follow from: flags, gates and workers agree on who is
\* where in invoke and Close.
THEOREM InvAlways == Spec => []IInv
BY InitHolds, Inductive, PTL DEF Spec

\* The variables have their types in every reachable state: no handle is the
\* zero that marks no object, whatever NEXT_HANDLE hands out.
THEOREM TypeCorrect == Spec => []TypeOK
<1>1. IInv => TypeOK BY DEF IInv
<1>. QED BY <1>1, InvAlways, PTL

\* Close frees the native context alone: no call is admitted, sent or served on
\* it then or later, whatever the number of goroutines.
THEOREM ContextFreedAlone == Spec => []FreedAlone
<1>1. IInv => FreedAlone BY DEF IInv
<1>. QED BY <1>1, InvAlways, PTL

\* One look at one flag per call keeps callbacks of any number of sessions from
\* waiting for each other in a circle of any length.
THEOREM CallbacksNeverWaitInACircle == Spec => []NoWaitCycle
<1>1. IInv => NoWaitCycle BY DEF IInv
<1>. QED BY <1>1, InvAlways, PTL

-----------------------------------------------------------------------------
(* The sessions implement the serial server.                               *)

\* A session that is closed has no live context, but for the Close that is about
\* to free it; only one that NewSession made has a queue and a context.
ClosedIsFreed ==
    \A s \in Sessions : s \in closed =>
        \/ ctx[s] # "live"
        \/ writer[s] # None /\ Admitted(writer[s])
QueuesMatch == \A s \in Sessions : queue[s] = "none" <=> ctx[s] = "none"
AdmittedQueued == \A t \in Threads : Admitted(t) => queue[call[t].session] # "none"

RInv == IInv /\ ClosedIsFreed /\ QueuesMatch /\ AdmittedQueued

LEMMA RInit == Init => ClosedIsFreed /\ QueuesMatch /\ AdmittedQueued
BY DEF Init, ClosedIsFreed, QueuesMatch, AdmittedQueued, Admitted, Idle

\* A step of one thread on the gate of its session.
LEMMA CallerKeepsClosed ==
    ASSUME RInv, NEW t \in Threads, CallerStep(t)
    PROVE  ClosedIsFreed' /\ QueuesMatch' /\ AdmittedQueued'
<1>1. TypeOK BY DEF RInv, IInv
<1>2. UNCHANGED ctx
  BY DEF CallerStep, Check, EnterGate, AnnounceWriter, HoldGate, Send, Return, native
<1>3. call[t].step \in Steps \cup {"answered"} /\ call[t].session \in Sessions
      /\ call[t].op \in Operation /\ call[t] # Idle
  BY <1>1 DEF TypeOK, CallerStep, Check, EnterGate, AnnounceWriter, HoldGate, Send, Return,
              At, Steps, Idle
<1> DEFINE s == call[t].session
<1>4. CASE Check(t)
  <2>1. \A u \in Threads : Admitted(u)' => Admitted(u) /\ call'[u].session = call[u].session
    BY <1>1, <1>4, GoesMoves, AnsweredMoves DEF Check, At, Moves, Admitted, Steps, Result
  <2>2. \A u \in Threads : Admitted(u) => Admitted(u)'
    BY <1>1, <1>4, GoesMoves, AnsweredMoves DEF Check, At, Moves, Admitted, Steps, Result
  <2>3. UNCHANGED <<writer, closed, queue>> BY <1>4 DEF Check, gate
  <2>. QED
    BY <1>1, <1>2, <2>1, <2>2, <2>3 DEF RInv, ClosedIsFreed, QueuesMatch, AdmittedQueued, TypeOK
<1>5. CASE EnterGate(t)
  <2>1. \A u \in Threads \ {t} : call'[u] = call[u]
    BY <1>1, <1>5, GoesMoves, AnsweredMoves DEF EnterGate, At, Moves, Steps, Result
  <2>2. call'[t].session = s /\ (Admitted(t)' => queue[s] # "none")
    BY <1>1, <1>5, GoesMoves, AnsweredMoves
    DEF EnterGate, At, Moves, Steps, Result, Admitted
  <2>3. UNCHANGED <<writer, closed, queue>> BY <1>5 DEF EnterGate
  <2>4. ~Admitted(t) BY <1>5 DEF EnterGate, At, Admitted
  <2>5. \A u \in Threads : Admitted(u) => Admitted(u)' BY <2>1, <2>4 DEF Admitted
  <2>. QED
    BY <1>1, <1>2, <2>1, <2>2, <2>3, <2>5
    DEF RInv, ClosedIsFreed, QueuesMatch, AdmittedQueued, Admitted, TypeOK
<1>6. CASE AnnounceWriter(t)
  <2>1. UNCHANGED <<call, closed, queue>> BY <1>6 DEF AnnounceWriter
  <2>2. \A x \in Sessions : writer[x] # None => writer'[x] = writer[x]
    BY <1>1, <1>6 DEF AnnounceWriter, TypeOK
  <2>. QED
    BY <1>2, <2>1, <2>2 DEF RInv, ClosedIsFreed, QueuesMatch, AdmittedQueued, Admitted
<1>7. CASE HoldGate(t)
  <2>1. UNCHANGED <<writer, queue>> BY <1>7 DEF HoldGate, gate
  <2>2. writer[s] = t /\ call[t].step = "gate" /\ closed' = closed \cup {s}
    BY <1>7 DEF HoldGate, At
  <2>3. CASE (s \in closed \/ queue[s] = "none") /\ Answered(t, "ok")
    <3>1. Moves(t, "answered") BY <1>1, <2>2, <2>3, AnsweredMoves DEF Steps, Result
    <3>2. ctx[s] # "live"
      BY <1>3, <2>2, <2>3 DEF RInv, ClosedIsFreed, QueuesMatch, Admitted
    <3>3. \A u \in Threads : Admitted(u)' <=> Admitted(u)
      BY <2>2, <3>1 DEF Moves, Admitted
    <3>4. \A u \in Threads : call'[u].session = call[u].session BY <3>1 DEF Moves
    <3>. QED
      BY <1>1, <1>2, <2>1, <2>2, <3>2, <3>3, <3>4
      DEF RInv, ClosedIsFreed, QueuesMatch, AdmittedQueued, TypeOK
  <2>4. CASE ~(s \in closed \/ queue[s] = "none") /\ Goes(t, "send")
    <3>1. Moves(t, "send") BY <1>1, <2>2, <2>4, GoesMoves DEF Steps
    <3>2. Admitted(t)' /\ (\A u \in Threads \ {t} : Admitted(u)' <=> Admitted(u))
      BY <3>1 DEF Moves, Admitted
    <3>3. \A u \in Threads : call'[u].session = call[u].session BY <3>1 DEF Moves
    <3>4. \A u \in Threads : Admitted(u) => Admitted(u)' BY <3>2
    <3>. QED
      BY <1>1, <1>2, <1>3, ThreadsAssumption, <2>1, <2>2, <2>4, <3>2, <3>3, <3>4
      DEF RInv, ClosedIsFreed, QueuesMatch, AdmittedQueued, TypeOK
  <2>. QED BY <1>7, <2>3, <2>4 DEF HoldGate
<1>8. CASE Send(t)
  <2>1. Moves(t, "await") BY <1>1, <1>8, GoesMoves DEF Send, At, Steps
  <2>2. \A u \in Threads : Admitted(u)' <=> Admitted(u)
    BY <1>8, <2>1 DEF Send, At, Moves, Admitted
  <2>3. \A u \in Threads : call'[u].session = call[u].session BY <2>1 DEF Moves
  <2>4. UNCHANGED <<writer, closed, queue>> BY <1>8 DEF Send, gate
  <2>. QED
    BY <1>1, <1>2, <2>2, <2>3, <2>4 DEF RInv, ClosedIsFreed, QueuesMatch, AdmittedQueued, TypeOK
<1>9. CASE Return(t)
  <2>1. call' = [call EXCEPT ![t] = Idle] /\ UNCHANGED closed BY <1>9 DEF Return
  <2>2. \A u \in Threads \ {t} : call'[u] = call[u] BY <1>1, <2>1 DEF TypeOK
  <2>3. ~Admitted(t) /\ ~Admitted(t)'
    BY <1>1, <1>9, <2>1 DEF Return, At, Admitted, TypeOK, Idle
  <2>4. \A x \in Sessions : writer'[x] = writer[x] \/ writer[x] = t
    BY <1>1, <1>9 DEF Return, Unlock, TypeOK
  <2>5. \A x \in Sessions : queue'[x] = queue[x]
                            \/ (queue[x] = "open" /\ queue'[x] = "closed")
    BY <1>1, <1>9 DEF Return, TypeOK
  <2>6. \A u \in Threads : Admitted(u)' <=> Admitted(u) BY <2>2, <2>3 DEF Admitted
  <2>7. ClosedIsFreed'
    BY <1>1, <1>2, <2>1, <2>3, <2>4, <2>6 DEF RInv, ClosedIsFreed, TypeOK
  <2>8. QueuesMatch' BY <1>2, <2>5 DEF RInv, QueuesMatch
  <2>9. AdmittedQueued'
    BY <1>1, <2>2, <2>3, <2>5, <2>6 DEF RInv, AdmittedQueued, TypeOK, Admitted, Idle, Steps
  <2>. QED BY <2>7, <2>8, <2>9
<1>. QED BY <1>4, <1>5, <1>6, <1>7, <1>8, <1>9 DEF CallerStep

LEMMA CallKeepsClosed ==
    ASSUME RInv, NEW t \in Threads, NEW s \in Sessions, NEW op \in Operation, Call(t, s, op)
    PROVE  ClosedIsFreed' /\ QueuesMatch' /\ AdmittedQueued'
<1>1. TypeOK BY DEF RInv, IInv
<1>2. call[t].step = "idle" BY DEF Call, Idle
<1>3. call' = [call EXCEPT ![t] = [step |-> "check", session |-> s, op |-> op]] BY DEF Call
<1>4. \A u \in Threads \ {t} : call'[u] = call[u] BY <1>1, <1>3 DEF TypeOK
<1>5. call'[t].step = "check" BY <1>1, <1>3 DEF TypeOK
<1>6. \A u \in Threads : /\ Admitted(u)' <=> Admitted(u)
                         /\ Admitted(u) => call'[u].session = call[u].session
  BY <1>2, <1>4, <1>5 DEF Admitted
<1>7. UNCHANGED <<writer, closed, queue, ctx>> BY DEF Call, gate, native
<1>. QED BY <1>1, <1>6, <1>7 DEF RInv, ClosedIsFreed, QueuesMatch, AdmittedQueued, TypeOK

LEMMA WorkerKeepsClosed ==
    ASSUME RInv, NEW s \in Sessions, WorkerStep(s)
    PROVE  ClosedIsFreed' /\ QueuesMatch' /\ AdmittedQueued'
<1>1. TypeOK /\ IInv BY DEF RInv, IInv
<1>2. CASE Executes(s)
  <2>. PICK t \in Threads :
        \/ FreeContext(s, t) \/ RefusePoisoned(s, t) \/ ContainPanic(s, t) \/ ReportError(s, t)
        \/ InsertObject(s, t) \/ UseObject(s, t) \/ ReleaseObject(s, t)
    BY <1>2 DEF Executes
  <2>1. serving[s] = t /\ UNCHANGED <<writer, closed, queue>> BY <1>1, ExecutesAnswers
  <2>2. PICK r \in Result : Answered(t, r) BY <1>1, ExecutesAnswers
  <2>3. call[t].step = "await" /\ call[t].session = s
    BY <2>1, ThreadsAssumption, <1>1 DEF ServesAwaiting, IInv
  <2>4. Moves(t, "answered") BY <1>1, <2>2, <2>3, AnsweredMoves DEF Steps
  <2>5. Admitted(t) /\ ~Admitted(t)' BY <2>3, <2>4 DEF Admitted, Moves
  <2>6. \A u \in Threads \ {t} : /\ Admitted(u)' <=> Admitted(u)
                                 /\ call'[u].session = call[u].session
    BY <2>4 DEF Admitted, Moves
  <2>7. \/ ctx' = ctx /\ call[t].op.kind # "close"
        \/ ctx' = [ctx EXCEPT ![s] = "freed"]
    BY <1>1 DEF FreeContext, RefusePoisoned, ContainPanic, ReportError, InsertObject,
                UseObject, ReleaseObject, IsClose, native
  <2>8. ctx[s] # "none" BY <2>3, <2>5, <1>1 DEF RInv, QueuesMatch, AdmittedQueued
  <2>9. \A x \in Sessions : (ctx'[x] = "none" <=> ctx[x] = "none")
                            /\ (ctx'[x] = ctx[x] \/ (x = s /\ ctx'[x] = "freed"))
    BY <1>1, <2>7, <2>8 DEF TypeOK
  <2>10. \A x \in Sessions : writer[x] = t => x = s /\ ctx'[s] # "live"
    BY <1>1, <2>3, <2>7, ThreadsAssumption DEF WriterCloses, IInv, TypeOK
  <2>11. ClosedIsFreed'
    <3>. SUFFICES ASSUME NEW x \in Sessions, x \in closed, ctx'[x] = "live"
                  PROVE  writer[x] # None /\ Admitted(writer[x])'
      BY <2>1 DEF ClosedIsFreed, Admitted
    <3>1. ctx[x] = "live" BY <2>9
    <3>2. writer[x] # None /\ Admitted(writer[x]) BY <3>1 DEF RInv, ClosedIsFreed
    <3>3. writer[x] # t BY <2>10
    <3>. QED BY <1>1, <2>1, <2>6, <3>2, <3>3 DEF TypeOK, Admitted
  <2>12. QueuesMatch' BY <2>1, <2>9 DEF RInv, QueuesMatch
  <2>13. AdmittedQueued' BY <2>1, <2>5, <2>6 DEF RInv, AdmittedQueued
  <2>. QED BY <2>11, <2>12, <2>13
<1>3. CASE StartCallback(s) \/ EndCallback(s)
  BY <1>3 DEF StartCallback, EndCallback, gate, native, RInv, ClosedIsFreed, QueuesMatch,
              AdmittedQueued, Admitted
<1>. QED BY <1>2, <1>3 DEF WorkerStep

LEMMA RInductive == RInv /\ [Next]_vars => RInv'
<1>. SUFFICES ASSUME RInv, [Next]_vars PROVE RInv' OBVIOUS
<1>1. IInv' BY Inductive DEF RInv
<1>2. CASE UNCHANGED vars
  BY <1>1, <1>2
  DEF RInv, ClosedIsFreed, QueuesMatch, AdmittedQueued, Admitted, vars, gate, native
<1>3. CASE Next
  BY <1>1, <1>3, CallKeepsClosed, CallerKeepsClosed, WorkerKeepsClosed DEF Next, RInv
<1>. QED BY <1>2, <1>3

-----------------------------------------------------------------------------
(* Each step of a session is one of the serial server, or none that shows.  *)

LEMMA ShownAsking ==
    ASSUME NEW t \in Threads, call[t].step \in Steps
    PROVE  Shown[t].state = "called" /\ Shown[t].session = call[t].session
           /\ Shown[t].op = call[t].op
BY DEF Shown, At, Steps

LEMMA ShownIdle ==
    ASSUME TypeOK, NEW t \in Threads
    PROVE  Shown[t] = Serial!Idle <=> call[t] = Idle
BY DEF Shown, At, Idle, Serial!Idle, TypeOK, Steps

\* Going on does not show.
LEMMA GoesUnseen ==
    ASSUME TypeOK, NEW t \in Threads, call[t].step \in Steps, NEW step \in Steps, Goes(t, step)
    PROVE  Shown' = Shown
<1>1. Moves(t, step) BY GoesMoves
<1>2. \A u \in Threads \ {t} : call'[u] = call[u] BY <1>1 DEF Moves
<1>3. At(t, "idle") = FALSE /\ At(t, "answered") = FALSE
      /\ At(t, "idle")' = FALSE /\ At(t, "answered")' = FALSE
  BY <1>1 DEF At, Steps, Moves
<1>. QED BY <1>1, <1>2, <1>3 DEF Shown, At, Moves

\* An answer shows as the serial server's.
LEMMA AnsweredShows ==
    ASSUME TypeOK, NEW t \in Threads, call[t].step \in Steps, NEW r \in Result, Answered(t, r)
    PROVE  Serial!Answer(t, r)
<1>1. Shown[t].session = call[t].session /\ Shown[t].op = call[t].op BY ShownAsking
<1> DEFINE a == [step |-> "answered", session |-> call[t].session,
                 op |-> call[t].op, result |-> r]
           b == [state |-> "answered", session |-> call[t].session,
                 op |-> call[t].op, result |-> r]
<1>2. call' = [call EXCEPT ![t] = a] BY DEF Answered
<1>3. call'[t] = a /\ \A u \in Threads \ {t} : call'[u] = call[u] BY <1>2 DEF TypeOK
<1>4. Shown'[t] = b BY <1>3 DEF Shown, At
<1>5. \A u \in Threads \ {t} : Shown'[u] = Shown[u] BY <1>3 DEF Shown, At
<1> HIDE DEF a, b
<1>6. Shown' = [Shown EXCEPT ![t] = b] BY <1>4, <1>5 DEF Shown
<1>. QED BY <1>1, <1>6 DEF Serial!Answer, b

LEMMA CallerImplements ==
    ASSUME RInv, NEW t \in Threads, CallerStep(t)
    PROVE  [Serial!Next]_Serial!vars
<1>1. TypeOK BY DEF RInv, IInv
<1>2. UNCHANGED <<ctx, poisoned, issued, objects, inCallback>>
  BY DEF CallerStep, Check, EnterGate, AnnounceWriter, HoldGate, Send, Return, native, worker
<1>3. Opened' = Opened BY <1>2 DEF Opened
<1>4. t \in Serial!Threads BY DEF Threads, Serial!Threads
<1>5. ASSUME call[t].step \in Steps
      PROVE  Shown[t].state = "called" /\ Shown[t].session = call[t].session
             /\ Shown[t].op = call[t].op /\ call[t].session \in Sessions
  BY <1>1, <1>5, ShownAsking, AskingTyped DEF Asking
<1>6. ASSUME call[t].step \in Steps, Answered(t, "reentry"), call[t].session \in inCallback,
             UNCHANGED serving
      PROVE  Serial!Refused(t)
  BY <1>1, <1>2, <1>3, <1>5, <1>6, AnsweredShows DEF Serial!Refused, Result
<1>7. ASSUME call[t].step \in Steps, ctx[call[t].session] # "live", UNCHANGED serving,
             Answered(t, IF call[t].op.kind \in {"close", "release"} THEN "ok" ELSE "closed")
      PROVE  Serial!TooLate(t)
  <2>1. call[t].session \notin Opened BY <1>7 DEF Opened
  <2>. QED BY <1>1, <1>2, <1>3, <1>5, <1>7, <2>1, AnsweredShows DEF Serial!TooLate, Result
<1>8. ASSUME call[t].step \in Steps, NEW step \in Steps, Goes(t, step), UNCHANGED serving
      PROVE  UNCHANGED Serial!vars
  BY <1>1, <1>2, <1>3, <1>8, GoesUnseen DEF Serial!vars
<1>9. CASE Check(t)
  <2>1. call[t].step \in Steps /\ UNCHANGED serving BY <1>9 DEF Check, At, Steps, worker
  <2>2. callbackActive = inCallback BY DEF RInv, IInv, FlagsHonest
  <2>3. CASE Reentrant(t)
    BY <1>6, <1>9, <1>4, <2>1, <2>2, <2>3 DEF Check, Reentrant, Serial!Next
  <2>4. CASE ~Reentrant(t) BY <1>8, <1>9, <2>1, <2>4 DEF Check, Steps
  <2>. QED BY <2>3, <2>4
<1>10. CASE EnterGate(t)
  <2>1. call[t].step \in Steps /\ UNCHANGED serving BY <1>10 DEF EnterGate, At, Steps, worker
  <2> DEFINE s == call[t].session
  <2>2. CASE s \in closed \/ queue[s] = "none"
    <3>1. ctx[s] # "live"
      BY <1>5, <1>10, <2>1, <2>2 DEF EnterGate, RInv, ClosedIsFreed, QueuesMatch
    <3>2. Answered(t, IF call[t].op.kind \in {"close", "release"} THEN "ok" ELSE "closed")
      <4>1. Answered(t, IF call[t].op.kind = "release" THEN "ok" ELSE "closed")
        BY <1>10, <2>2 DEF EnterGate
      <4>2. call[t].op.kind # "close" BY <1>10 DEF EnterGate, IsClose
      <4>3. CASE call[t].op.kind = "release" BY <4>1, <4>3
      <4>4. CASE call[t].op.kind # "release" BY <4>1, <4>2, <4>4
      <4>. QED BY <4>3, <4>4
    <3>. QED BY <1>4, <1>7, <2>1, <3>1, <3>2 DEF Serial!Next
  <2>3. CASE ~(s \in closed \/ queue[s] = "none")
    BY <1>8, <1>10, <2>1, <2>3 DEF EnterGate, Steps
  <2>. QED BY <2>2, <2>3
<1>11. CASE AnnounceWriter(t)
  <2>1. UNCHANGED <<call, serving>> BY <1>11 DEF AnnounceWriter, worker
  <2>2. Shown' = Shown BY <2>1 DEF Shown, At
  <2>. QED BY <1>2, <1>3, <2>1, <2>2 DEF Serial!vars
<1>12. CASE HoldGate(t)
  <2> DEFINE s == call[t].session
  <2>1. call[t].step \in Steps /\ UNCHANGED serving /\ writer[s] = t /\ call[t].step = "gate"
    BY <1>12 DEF HoldGate, At, Steps, worker
  <2>2. CASE s \in closed \/ queue[s] = "none"
    <3>1. ctx[s] # "live"
      BY <1>5, <2>1, <2>2 DEF RInv, ClosedIsFreed, QueuesMatch, Admitted
    <3>2. call[t].op.kind = "close"
      BY <1>5, <2>1, ThreadsAssumption DEF RInv, IInv, WriterCloses
    <3>3. Answered(t, "ok") BY <1>12, <2>2 DEF HoldGate
    <3>4. Answered(t, IF call[t].op.kind \in {"close", "release"} THEN "ok" ELSE "closed")
      BY <3>2, <3>3
    <3>. QED BY <1>4, <1>7, <2>1, <3>1, <3>4 DEF Serial!Next
  <2>3. CASE ~(s \in closed \/ queue[s] = "none")
    BY <1>8, <1>12, <2>1, <2>3 DEF HoldGate, Steps
  <2>. QED BY <2>2, <2>3
<1>13. CASE Send(t)
  <2> DEFINE s == call[t].session
  <2>1. call[t].step = "send" /\ serving[s] = None /\ serving' = [serving EXCEPT ![s] = t]
        /\ Goes(t, "await")
    BY <1>13 DEF Send, At
  <2>2. Shown' = Shown BY <1>1, <2>1, GoesUnseen DEF Steps
  <2>3. Shown[t].state = "called" /\ Shown[t].session = s /\ s \in Sessions
    BY <1>5, <2>1 DEF Steps
  <2>4. ctx[s] = "live"
    BY <1>1, <2>1, <2>3
    DEF RInv, IInv, FreedAlone, AdmittedQueued, QueuesMatch, Admitted, TypeOK
  <2>5. Serial!TakeTurn(t)
    BY <1>2, <1>3, <2>1, <2>2, <2>3, <2>4 DEF Serial!TakeTurn, Opened
  <2>. QED BY <1>4, <2>5 DEF Serial!Next
<1>14. CASE Return(t)
  <2>1. call' = [call EXCEPT ![t] = Idle] /\ UNCHANGED serving /\ At(t, "answered")
    BY <1>14 DEF Return, worker
  <2>2. \A u \in Threads \ {t} : call'[u] = call[u] BY <1>1, <2>1 DEF TypeOK
  <2>3. call'[t] = Idle BY <1>1, <2>1 DEF TypeOK
  <2>4. Shown'[t] = Serial!Idle BY <2>3 DEF Shown, At, Idle, Serial!Idle
  <2>5. \A u \in Threads \ {t} : Shown'[u] = Shown[u] BY <2>2 DEF Shown, At
  <2>6. Shown' = [Shown EXCEPT ![t] = Serial!Idle] BY <2>4, <2>5 DEF Shown
  <2>7. Shown[t].state = "answered" BY <2>1 DEF Shown, At
  <2>8. Serial!Return(t) BY <1>2, <1>3, <2>1, <2>6, <2>7 DEF Serial!Return
  <2>. QED BY <1>4, <2>8 DEF Serial!Next
<1>. QED BY <1>9, <1>10, <1>11, <1>12, <1>13, <1>14 DEF CallerStep

LEMMA ExecutesImplements ==
    ASSUME RInv, NEW s \in Sessions, NEW t \in Threads,
           \/ FreeContext(s, t) \/ RefusePoisoned(s, t) \/ ContainPanic(s, t) \/ ReportError(s, t)
           \/ InsertObject(s, t) \/ UseObject(s, t) \/ ReleaseObject(s, t)
    PROVE  Serial!Execute(s, t)
<1>1. TypeOK /\ IInv BY DEF RInv, IInv
<1>2. serving[s] = t /\ serving' = [serving EXCEPT ![s] = None] /\ UNCHANGED inCallback
  BY <1>1, ExecutesAnswers
<1>3. call[t].step = "await" BY <1>2, ThreadsAssumption, <1>1 DEF ServesAwaiting, IInv
<1>4. call[t].step \in Steps BY <1>3 DEF Steps
<1>5. Shown[t].op = call[t].op BY <1>4, ShownAsking
<1>6. s \notin inCallback
  BY DEF FreeContext, RefusePoisoned, ContainPanic, ReportError, InsertObject, UseObject,
         ReleaseObject, Serving
<1>7. \A r \in Result : Answered(t, r) => Serial!Answer(t, r)
  BY <1>1, <1>4, AnsweredShows
<1>8. ctx' = ctx => Opened' = Opened BY DEF Opened
<1>9. CASE FreeContext(s, t)
  <2>1. Opened' = Opened \ {s} BY <1>1, <1>9 DEF FreeContext, Opened, TypeOK
  <2>2. Serial!Answer(t, "ok") BY <1>7, <1>9 DEF FreeContext, Result
  <2>. QED
    BY <1>2, <1>5, <1>6, <1>9, <2>1, <2>2 DEF FreeContext, IsClose, Serial!Execute
<1>10. CASE RefusePoisoned(s, t)
  <2>1. Serial!Answer(t, "poisoned") BY <1>7, <1>10 DEF RefusePoisoned, Result
  <2>. QED
    BY <1>2, <1>5, <1>6, <1>8, <1>10, <2>1 DEF RefusePoisoned, IsClose, native, Serial!Execute
<1>11. CASE ContainPanic(s, t)
  <2>1. Serial!Answer(t, "panic") BY <1>7, <1>11 DEF ContainPanic, Result
  <2>. QED
    BY <1>2, <1>5, <1>6, <1>8, <1>11, <2>1 DEF ContainPanic, Serial!Execute
<1>12. CASE ReportError(s, t)
  <2>1. Serial!Answer(t, "error") BY <1>7, <1>12 DEF ReportError, Result
  <2>. QED
    BY <1>2, <1>5, <1>6, <1>8, <1>12, <2>1 DEF ReportError, native, Serial!Execute
<1>13. CASE InsertObject(s, t)
  <2>1. \A h \in Handles : Answered(t, h) => Serial!Answer(t, h) BY <1>7 DEF Result
  <2>. QED
    BY <1>2, <1>5, <1>6, <1>8, <1>13, <2>1 DEF InsertObject, FreshHandles, Serial!Execute
<1>14. CASE UseObject(s, t)
  <2>1. Serial!Answer(t, IF call[t].op.handle \in objects[s] THEN "ok" ELSE "unknown")
    BY <1>7, <1>14 DEF UseObject, Result
  <2>. QED
    BY <1>2, <1>5, <1>6, <1>8, <1>14, <2>1 DEF UseObject, native, Serial!Execute
<1>15. CASE ReleaseObject(s, t)
  <2>1. Serial!Answer(t, "ok") BY <1>7, <1>15 DEF ReleaseObject, ReleaseResult, Result
  <2>. QED
    BY <1>2, <1>5, <1>6, <1>8, <1>15, <2>1 DEF ReleaseObject, Serial!Execute
<1>. QED BY <1>9, <1>10, <1>11, <1>12, <1>13, <1>14, <1>15

LEMMA CallImplements ==
    ASSUME RInv, NEW t \in Threads, NEW s \in Sessions, NEW op \in Operation, Call(t, s, op)
    PROVE  Serial!Call(t, s, op)
<1>1. TypeOK BY DEF RInv, IInv
<1> DEFINE a == [step |-> "check", session |-> s, op |-> op]
           b == [state |-> "called", session |-> s, op |-> op]
<1>2. call' = [call EXCEPT ![t] = a] BY DEF Call
<1>3. call'[t] = a /\ \A u \in Threads \ {t} : call'[u] = call[u] BY <1>1, <1>2 DEF TypeOK
<1>4. Shown'[t] = b BY <1>3 DEF Shown, At
<1>5. \A u \in Threads \ {t} : Shown'[u] = Shown[u] BY <1>3 DEF Shown, At
<1> HIDE DEF a, b
<1>6. Shown' = [Shown EXCEPT ![t] = b] BY <1>4, <1>5 DEF Shown
<1>7. Shown[t] = Serial!Idle BY <1>1, ShownIdle DEF Call
<1>8. Opened' = Opened BY DEF Opened, Call, native
<1>. QED BY <1>6, <1>7, <1>8 DEF Call, Serial!Call, native, worker, b

LEMMA CallbackImplements ==
    ASSUME RInv, NEW s \in Sessions, StartCallback(s) \/ EndCallback(s)
    PROVE  Serial!StartCallback(s) \/ Serial!EndCallback(s)
<1>1. TypeOK /\ IInv BY DEF RInv, IInv
<1>2. UNCHANGED <<ctx, poisoned, issued, objects, serving, call>>
  BY DEF StartCallback, EndCallback, native
<1>3. Opened' = Opened /\ Shown' = Shown BY <1>2 DEF Opened, Shown, At
<1>4. CASE StartCallback(s)
  <2>1. serving[s] \in Threads /\ serving[s] # None BY <1>1, <1>4 DEF StartCallback, TypeOK
  <2>2. call[serving[s]].step = "await" BY <1>1, <2>1 DEF IInv, ServesAwaiting
  <2>3. Shown[serving[s]].op = call[serving[s]].op BY <2>1, <2>2, ShownAsking DEF Steps
  <2>. QED BY <1>2, <1>3, <1>4, <2>1, <2>3 DEF StartCallback, Serial!StartCallback
<1>5. CASE EndCallback(s)
  <2>1. Shown[s] = Serial!Idle BY <1>1, <1>5, ShownIdle DEF EndCallback, Threads
  <2>. QED BY <1>2, <1>3, <1>5, <2>1 DEF EndCallback, Serial!EndCallback
<1>. QED BY <1>4, <1>5

LEMMA InitImplements == Init => Serial!Init
<1>. SUFFICES ASSUME Init PROVE Serial!Init OBVIOUS
<1>1. Opened \subseteq Sessions BY DEF Opened
<1>2. Shown = [t \in Threads |-> Serial!Idle] BY DEF Init, Shown, At, Idle, Serial!Idle
<1>. QED BY <1>1, <1>2 DEF Init, Serial!Init, Threads, Serial!Threads

LEMMA StepImplements == RInv /\ [Next]_vars => [Serial!Next]_Serial!vars
<1>. SUFFICES ASSUME RInv, [Next]_vars PROVE [Serial!Next]_Serial!vars OBVIOUS
<1>1. CASE UNCHANGED vars
  <2>1. Opened' = Opened /\ Shown' = Shown BY <1>1 DEF vars, native, Opened, Shown, At
  <2>. QED BY <1>1, <2>1 DEF vars, native, worker, Serial!vars
<1>2. CASE \E t \in Threads, s \in Sessions, op \in Operation : Call(t, s, op)
  BY <1>2, CallImplements DEF Serial!Next, Serial!Threads, Threads, Operation, Serial!Operation
<1>3. CASE \E t \in Threads : CallerStep(t)
  BY <1>3, CallerImplements
<1>4. CASE \E s \in Sessions : WorkerStep(s)
  BY <1>4, ExecutesImplements, CallbackImplements
  DEF WorkerStep, Executes, Serial!Next, Serial!Threads, Threads
<1>. QED BY <1>1, <1>2, <1>3, <1>4 DEF Next

\* Flags, gates, unbuffered queues and workers together behave as one serial server
\* per session: every call is answered as if it were executed alone on the handle
\* table, refused during a callback or told that the session is closed.
THEOREM SessionsAreSerial == Spec => ImplementsSerial
<1>1. Init => RInv BY InitHolds, RInit DEF RInv
<1>. QED
  BY <1>1, RInductive, InitImplements, StepImplements, PTL DEF Spec, ImplementsSerial, Serial!Spec
=============================================================================
