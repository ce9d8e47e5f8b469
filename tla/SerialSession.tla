---------------------------- MODULE SerialSession ----------------------------
(***************************************************************************)
(* What the sessions of the Go binding promise their callers               *)
(* (sdk/go/session.go: "Its methods may be called concurrently; calls      *)
(* execute serially"): each session is a serial server of calls on a table *)
(* of handles.  A call is answered once, by its turn on the session, by a  *)
(* refusal while a callback runs there, or because the session is closed.  *)
(***************************************************************************)
CONSTANTS
    Sessions,
    Clients,    \* the goroutines of the program
    Handles,    \* the ids NEXT_HANDLE still has to give
    None

\* A session's worker thread is named by its session: during a callback it runs
\* code of the program, which may call sessions too.
Threads == Clients \cup Sessions

VARIABLES
    open,       \* sessions with a live native context
    poisoned,   \* sessions whose context a panic has invalidated
    issued,     \* the handles each session has given out
    objects,    \* those that are still live
    turn,       \* whose call each session is executing
    inCallback, \* sessions whose call is running a callback
    call        \* each thread's call

vars == <<open, poisoned, issued, objects, turn, inCallback, call>>

Operation == [kind : {"create", "close"}, handle : {None}]
             \cup [kind : {"use", "release"}, handle : Handles]
Result == {"ok", "closed", "reentry", "unknown", "panic", "poisoned", "error"} \cup Handles
Idle == [state |-> "idle"]
Called == [state : {"called"}, session : Sessions, op : Operation]
Answered == [state : {"answered"}, session : Sessions, op : Operation, result : Result]

Answer(t, r) ==
    call' = [call EXCEPT ![t] = [state |-> "answered", session |-> @.session,
                                 op |-> @.op, result |-> r]]

-----------------------------------------------------------------------------
Call(t, s, op) ==
    /\ call[t] = Idle
    /\ t \in Clients \cup inCallback
    /\ op.handle \in issued[s] \cup {None}
    /\ call' = [call EXCEPT ![t] = [state |-> "called", session |-> s, op |-> op]]
    /\ UNCHANGED <<open, poisoned, issued, objects, turn, inCallback>>

\* Calls during a callback, Close included, return ErrCallbackReentry.
Refused(t) ==
    /\ call[t].state = "called"
    /\ call[t].session \in inCallback
    /\ Answer(t, "reentry")
    /\ UNCHANGED <<open, poisoned, issued, objects, turn, inCallback>>

\* Closing what is closed succeeds; anything else is ErrClosed.
TooLate(t) ==
    /\ call[t].state = "called"
    /\ call[t].session \notin open
    /\ Answer(t, IF call[t].op.kind \in {"close", "release"} THEN "ok" ELSE "closed")
    /\ UNCHANGED <<open, poisoned, issued, objects, turn, inCallback>>

TakeTurn(t) ==
    /\ call[t].state = "called"
    /\ LET s == call[t].session IN
           /\ s \in open
           /\ turn[s] = None
           /\ turn' = [turn EXCEPT ![s] = t]
    /\ UNCHANGED <<open, poisoned, issued, objects, inCallback, call>>

StartCallback(s) ==
    /\ turn[s] # None
    /\ call[turn[s]].op.kind \in {"create", "use"}
    /\ s \notin inCallback \cup poisoned
    /\ inCallback' = inCallback \cup {s}
    /\ UNCHANGED <<open, poisoned, issued, objects, turn, call>>

EndCallback(s) ==
    /\ s \in inCallback
    /\ call[s] = Idle
    /\ inCallback' = inCallback \ {s}
    /\ UNCHANGED <<open, poisoned, issued, objects, turn, call>>

\* The call of thread t on session s is executed and answered.
Execute(s, t) ==
    /\ turn[s] = t
    /\ s \notin inCallback
    /\ turn' = [turn EXCEPT ![s] = None]
    /\ UNCHANGED inCallback
    /\ LET op == call[t].op IN
       \/ /\ op.kind = "close"
          /\ open' = open \ {s}
          /\ objects' = [objects EXCEPT ![s] = {}]
          /\ Answer(t, "ok")
          /\ UNCHANGED <<poisoned, issued>>
       \/ /\ op.kind # "close" /\ s \in poisoned
          /\ Answer(t, "poisoned")
          /\ UNCHANGED <<open, poisoned, issued, objects>>
       \/ /\ op.kind \in {"create", "use"} /\ s \notin poisoned
          /\ poisoned' = poisoned \cup {s}
          /\ Answer(t, "panic")
          /\ UNCHANGED <<open, issued, objects>>
       \/ /\ op.kind \in {"create", "use"} /\ s \notin poisoned
          /\ Answer(t, "error")
          /\ UNCHANGED <<open, poisoned, issued, objects>>
       \/ /\ op.kind = "create" /\ s \notin poisoned
          /\ \E h \in Handles \ UNION {issued[x] : x \in Sessions} :
                /\ issued' = [issued EXCEPT ![s] = @ \cup {h}]
                /\ objects' = [objects EXCEPT ![s] = @ \cup {h}]
                /\ Answer(t, h)
          /\ UNCHANGED <<open, poisoned>>
       \/ /\ op.kind = "use" /\ s \notin poisoned
          /\ Answer(t, IF op.handle \in objects[s] THEN "ok" ELSE "unknown")
          /\ UNCHANGED <<open, poisoned, issued, objects>>
       \/ /\ op.kind = "release" /\ s \notin poisoned
          /\ objects' = [objects EXCEPT ![s] = @ \ {op.handle}]
          /\ Answer(t, "ok")
          /\ UNCHANGED <<open, poisoned, issued>>

Return(t) ==
    /\ call[t].state = "answered"
    /\ call' = [call EXCEPT ![t] = Idle]
    /\ UNCHANGED <<open, poisoned, issued, objects, turn, inCallback>>

-----------------------------------------------------------------------------
Init ==
    /\ open \subseteq Sessions
    /\ poisoned = {}
    /\ issued = [s \in Sessions |-> {}]
    /\ objects = [s \in Sessions |-> {}]
    /\ turn = [s \in Sessions |-> None]
    /\ inCallback = {}
    /\ call = [t \in Threads |-> Idle]

Next ==
    \/ \E t \in Threads : \/ \E s \in Sessions, op \in Operation : Call(t, s, op)
                          \/ Refused(t) \/ TooLate(t) \/ TakeTurn(t) \/ Return(t)
    \/ \E s \in Sessions : StartCallback(s) \/ EndCallback(s)
                           \/ \E t \in Threads : Execute(s, t)

Spec == Init /\ [][Next]_vars
=============================================================================
