------------------------------ MODULE GoSession ------------------------------
(***************************************************************************)
(* The sessions of the Go binding (sdk/go/session.go) over the native      *)
(* contexts of the C boundary (libitofin-ffi/src/boundary.rs): the flag of *)
(* a running callback, the read-write gate, the unbuffered queue to the    *)
(* one OS thread of each session, Close, and the handle table a contained  *)
(* panic poisons.                                                          *)
(*                                                                         *)
(* Callbacks run the program's code on the session's own thread, and that  *)
(* code may call this session or any other: that a chain of such calls     *)
(* cannot close on itself rests on one atomic flag per session, read       *)
(* before the gate is entered and not again.                               *)
(***************************************************************************)
EXTENDS FiniteSets

CONSTANTS Sessions, Clients, Handles, None

Threads == Clients \cup Sessions

ASSUME ThreadsAssumption == Clients \cap Sessions = {} /\ None \notin Threads \cup Handles

VARIABLES
    callbackActive,  \* sessions whose callbackActive is set
    readers,         \* threads holding the gate for reading
    writer,          \* the thread that has, or is acquiring, the gate for writing
    closed,          \* sessions whose closed is set
    queue,           \* whether the queue exists: "none", "open", "closed"
    ctx,             \* the native context: "none", "live", "freed"
    poisoned,        \* sessions whose Context is poisoned
    issued,          \* the ids drawn from NEXT_HANDLE, by session
    objects,         \* Context::objects
    serving,         \* the thread whose request the worker executes
    inCallback,      \* sessions whose request is running a callback
    call             \* where each thread is in invoke or Close

gate == <<readers, writer>>
native == <<ctx, poisoned, issued, objects>>
worker == <<serving, inCallback>>
vars == <<callbackActive, gate, closed, queue, native, worker, call>>

Operation == [kind : {"create", "close"}, handle : {None}]
             \cup [kind : {"use", "release"}, handle : Handles]
Steps == {"check", "gate", "send", "await"}
Idle == [step |-> "idle"]
Result == {"ok", "closed", "reentry", "unknown", "panic", "poisoned", "error"} \cup Handles

At(t, step) == call[t].step = step
Goes(t, step) == call' = [call EXCEPT ![t].step = step]
Answered(t, r) ==
    call' = [call EXCEPT ![t] = [step |-> "answered", session |-> @.session,
                                 op |-> @.op, result |-> r]]
IsClose(t) == call[t].op.kind = "close"

-----------------------------------------------------------------------------
(* The caller's side.                                                      *)

\* Goroutines and callbacks call sessions, with handles these have given them.
Call(t, s, op) ==
    /\ call[t] = Idle
    /\ t \in Clients \cup inCallback
    /\ op.handle \in issued[s] \cup {None}
    /\ call' = [call EXCEPT ![t] = [step |-> "check", session |-> s, op |-> op]]
    /\ UNCHANGED <<callbackActive, gate, closed, queue, native, worker>>

\* Mutant of Reentrant: Close does not look at the flag.
Reentrant_NotOnClose(t) == call[t].session \in callbackActive /\ ~IsClose(t)

\* callbackActive.Load(), on entry to invoke and Close.
Reentrant(t) == call[t].session \in callbackActive

Check(t) ==
    /\ At(t, "check")
    /\ IF Reentrant(t) THEN Answered(t, "reentry") ELSE Goes(t, "gate")
    /\ UNCHANGED <<callbackActive, gate, closed, queue, native, worker>>

\* invoke: RLock, which waits for a writer that has announced itself; then the
\* test under the lock.
EnterGate(t) ==
    /\ At(t, "gate")
    /\ ~IsClose(t)
    /\ LET s == call[t].session IN
           /\ writer[s] = None
           /\ \/ /\ s \in closed \/ queue[s] = "none"
                 /\ Answered(t, IF call[t].op.kind = "release" THEN "ok" ELSE "closed")
                 /\ UNCHANGED readers
              \/ /\ s \notin closed /\ queue[s] # "none"
                 /\ Goes(t, "send")
                 /\ readers' = [readers EXCEPT ![s] = @ \cup {t}]
    /\ UNCHANGED <<callbackActive, writer, closed, queue, native, worker>>

\* Close: Lock announces the writer, which keeps new readers out ...
AnnounceWriter(t) ==
    /\ At(t, "gate")
    /\ IsClose(t)
    /\ LET s == call[t].session IN
           /\ writer[s] = None
           /\ writer' = [writer EXCEPT ![s] = t]
    /\ UNCHANGED <<callbackActive, readers, closed, queue, native, worker, call>>

\* Mutant of NoReaders: the writer does not wait.
NoReaders_Unasked(s) == TRUE

NoReaders(s) == readers[s] = {}

\* ... and waits for the readers inside; then closed is set, once.
HoldGate(t) ==
    /\ At(t, "gate")
    /\ LET s == call[t].session IN
           /\ writer[s] = t
           /\ NoReaders(s)
           /\ closed' = closed \cup {s}
           /\ IF s \in closed \/ queue[s] = "none" THEN Answered(t, "ok") ELSE Goes(t, "send")
    /\ UNCHANGED <<callbackActive, gate, queue, native, worker>>

\* s.queue <- r: unbuffered, so the worker takes it as it is sent.
Send(t) ==
    /\ At(t, "send")
    /\ LET s == call[t].session IN
           /\ queue[s] = "open"
           /\ serving[s] = None
           /\ serving' = [serving EXCEPT ![s] = t]
    /\ Goes(t, "await")
    /\ UNCHANGED <<callbackActive, gate, closed, queue, native, inCallback>>

\* Mutant of Unlock: the read lock is kept.
Unlock_KeepsReadLock(t, s) ==
    /\ writer' = [writer EXCEPT ![s] = IF @ = t THEN None ELSE @]
    /\ UNCHANGED readers

Unlock(t, s) ==
    /\ writer' = [writer EXCEPT ![s] = IF @ = t THEN None ELSE @]
    /\ readers' = [readers EXCEPT ![s] = @ \ {t}]

\* The deferred unlock, after close(s.queue) and <-s.stopped where the context
\* was freed.
Return(t) ==
    /\ At(t, "answered")
    /\ LET s == call[t].session IN
           /\ Unlock(t, s)
           /\ queue' = [queue EXCEPT ![s] = IF @ = "open" /\ ctx[s] = "freed"
                                            THEN "closed" ELSE @]
    /\ call' = [call EXCEPT ![t] = Idle]
    /\ UNCHANGED <<callbackActive, closed, native, worker>>

-----------------------------------------------------------------------------
(* The worker's side: one request at a time, on the session's OS thread.   *)

Serving(s, t) == serving[s] = t /\ t # None /\ s \notin inCallback
Finishes(s) == serving' = [serving EXCEPT ![s] = None]

\* itofin_context_free, a poisoned context included.
FreeContext(s, t) ==
    /\ Serving(s, t)
    /\ IsClose(t)
    /\ ctx' = [ctx EXCEPT ![s] = "freed"]
    /\ objects' = [objects EXCEPT ![s] = {}]
    /\ Finishes(s)
    /\ Answered(t, "ok")
    /\ UNCHANGED <<callbackActive, gate, closed, queue, poisoned, issued, inCallback>>

\* Context::check refuses every entry but the free after a panic.
RefusePoisoned(s, t) ==
    /\ Serving(s, t)
    /\ ~IsClose(t)
    /\ s \in poisoned
    /\ Finishes(s)
    /\ Answered(t, "poisoned")
    /\ UNCHANGED <<callbackActive, gate, closed, queue, native, inCallback>>

\* with_context contains a panic of the library and poisons the context.
ContainPanic(s, t) ==
    /\ Serving(s, t)
    /\ call[t].op.kind \in {"create", "use"}
    /\ s \notin poisoned
    /\ poisoned' = poisoned \cup {s}
    /\ Finishes(s)
    /\ Answered(t, "panic")
    /\ UNCHANGED <<callbackActive, gate, closed, queue, ctx, issued, objects, inCallback>>

\* Any other failure of the library leaves the context as it was.
ReportError(s, t) ==
    /\ Serving(s, t)
    /\ call[t].op.kind \in {"create", "use"}
    /\ s \notin poisoned
    /\ Finishes(s)
    /\ Answered(t, "error")
    /\ UNCHANGED <<callbackActive, gate, closed, queue, native, inCallback>>

\* What NEXT_HANDLE may hand out.
FreshHandles == Handles \ UNION {issued[x] : x \in Sessions}

\* Context::insert: NEXT_HANDLE is one counter for all contexts.
InsertObject(s, t) ==
    /\ Serving(s, t)
    /\ call[t].op.kind = "create"
    /\ s \notin poisoned
    /\ \E h \in FreshHandles :
          /\ issued' = [issued EXCEPT ![s] = @ \cup {h}]
          /\ objects' = [objects EXCEPT ![s] = @ \cup {h}]
          /\ Answered(t, h)
    /\ Finishes(s)
    /\ UNCHANGED <<callbackActive, gate, closed, queue, ctx, poisoned, inCallback>>

\* Context::get, and whatever the method does with the object.
UseObject(s, t) ==
    /\ Serving(s, t)
    /\ call[t].op.kind = "use"
    /\ s \notin poisoned
    /\ Finishes(s)
    /\ Answered(t, IF call[t].op.handle \in objects[s] THEN "ok" ELSE "unknown")
    /\ UNCHANGED <<callbackActive, gate, closed, queue, native, inCallback>>

\* Mutant of ReleaseResult: an unknown handle is reported to the caller.
ReleaseResult_Strict(s, h) == IF h \in objects[s] THEN "ok" ELSE "unknown"

ReleaseResult(s, h) == "ok"

\* itofin_handle_release, whose INVALID_HANDLE object.Close takes for success.
ReleaseObject(s, t) ==
    /\ Serving(s, t)
    /\ call[t].op.kind = "release"
    /\ s \notin poisoned
    /\ objects' = [objects EXCEPT ![s] = @ \ {call[t].op.handle}]
    /\ Finishes(s)
    /\ Answered(t, ReleaseResult(s, call[t].op.handle))
    /\ UNCHANGED <<callbackActive, gate, closed, queue, ctx, poisoned, issued, inCallback>>

\* runBootstrap raises the flag around the program's code, and lowers it
\* however that code ends.
StartCallback(s) ==
    /\ serving[s] # None
    /\ \/ call[serving[s]].op.kind = "create"
       \/ call[serving[s]].op.kind = "use" /\ call[serving[s]].op.handle \in objects[s]
    /\ s \notin poisoned \cup inCallback
    /\ inCallback' = inCallback \cup {s}
    /\ callbackActive' = callbackActive \cup {s}
    /\ UNCHANGED <<gate, closed, queue, native, serving, call>>

EndCallback(s) ==
    /\ s \in inCallback
    /\ call[s] = Idle
    /\ inCallback' = inCallback \ {s}
    /\ callbackActive' = callbackActive \ {s}
    /\ UNCHANGED <<gate, closed, queue, native, serving, call>>

-----------------------------------------------------------------------------
\* Sessions made by NewSession, and zero values of the struct.
Init ==
    /\ callbackActive = {}
    /\ readers = [s \in Sessions |-> {}]
    /\ writer = [s \in Sessions |-> None]
    /\ closed = {}
    /\ queue \in [Sessions -> {"none", "open"}]
    /\ ctx = [s \in Sessions |-> IF queue[s] = "open" THEN "live" ELSE "none"]
    /\ poisoned = {}
    /\ issued = [s \in Sessions |-> {}]
    /\ objects = [s \in Sessions |-> {}]
    /\ serving = [s \in Sessions |-> None]
    /\ inCallback = {}
    /\ call = [t \in Threads |-> Idle]

CallerStep(t) ==
    Check(t) \/ EnterGate(t) \/ AnnounceWriter(t) \/ HoldGate(t) \/ Send(t) \/ Return(t)

Executes(s) ==
    \E t \in Threads :
        \/ FreeContext(s, t) \/ RefusePoisoned(s, t) \/ ContainPanic(s, t) \/ ReportError(s, t)
        \/ InsertObject(s, t) \/ UseObject(s, t) \/ ReleaseObject(s, t)

WorkerStep(s) == Executes(s) \/ StartCallback(s) \/ EndCallback(s)

Next ==
    \/ \E t \in Threads, s \in Sessions, op \in Operation : Call(t, s, op)
    \/ \E t \in Threads : CallerStep(t)
    \/ \E s \in Sessions : WorkerStep(s)

Spec == Init /\ [][Next]_vars

-----------------------------------------------------------------------------
(* What the sessions promise.                                              *)

TypeOK ==
    /\ callbackActive \subseteq Sessions
    /\ readers \in [Sessions -> SUBSET Threads]
    /\ writer \in [Sessions -> Threads \cup {None}]
    /\ closed \subseteq Sessions
    /\ queue \in [Sessions -> {"none", "open", "closed"}]
    /\ ctx \in [Sessions -> {"none", "live", "freed"}]
    /\ poisoned \subseteq Sessions
    /\ issued \in [Sessions -> SUBSET Handles]
    /\ objects \in [Sessions -> SUBSET Handles]
    /\ serving \in [Sessions -> Threads \cup {None}]
    /\ inCallback \subseteq Sessions
    /\ call \in [Threads ->
           {Idle} \cup [step : Steps, session : Sessions, op : Operation]
           \cup [step : {"answered"}, session : Sessions, op : Operation, result : Result]]

\* A thread that has passed the check and waits for a session's gate or worker.
WaitsFor(t, s) == call[t].step \in Steps \ {"check"} /\ call[t].session = s

\* The native context is freed once, on an idle worker, when every call admitted
\* before has been answered, and no call is admitted after: none ever reaches
\* freed memory or a closed channel (Close "waits for every previously admitted
\* call").
FreedAlone ==
    \A s \in Sessions : ctx[s] = "freed" =>
        /\ serving[s] = None
        /\ s \in closed
        /\ \A t \in Threads : call[t].step \in {"send", "await"} => call[t].session # s

\* Callbacks that call sessions never wait for each other in a circle, of any
\* length, although each reads only the flag of the session it calls, and only
\* once, before it queues (invoke and Close return ErrCallbackReentry).
NoWaitCycle ==
    \A S \in (SUBSET Sessions) \ {{}} :
        \E s \in S : \A x \in S : ~WaitsFor(s, x)

\* Every call is answered as by a serial server of the handle table: where a call is
\* in invoke or Close does not show before it is answered.
Opened == {s \in Sessions : ctx[s] = "live"}
Shown == [t \in Threads |->
    IF At(t, "idle") THEN [state |-> "idle"]
    ELSE IF At(t, "answered")
    THEN [state |-> "answered", session |-> call[t].session,
          op |-> call[t].op, result |-> call[t].result]
    ELSE [state |-> "called", session |-> call[t].session, op |-> call[t].op]]

Serial == INSTANCE SerialSession WITH open <- Opened, turn <- serving, call <- Shown

ImplementsSerial == Serial!Spec

\* Every call returns, Close included, however calls, closes, callbacks and the
\* calls they make are interleaved, as long as callbacks end.
EveryCallReturns == \A t \in Threads : call[t] # Idle ~> call[t] = Idle
=============================================================================
