--------------------------- MODULE BrowserRuntime ---------------------------
(***************************************************************************)
(* The Promise runtime over the browser bridge                              *)
(* (wasm/browser-runtime/index.mjs).                                        *)
(*                                                                         *)
(* There is one JavaScript thread.  The user's code runs in turns; between  *)
(* them the event loop empties the microtask queue in order, and only then  *)
(* fires a timer or begins another event.  A call is a Promise: settleTask  *)
(* polls its bridge task, runTask resumes one microtask after settleTask's  *)
(* Promise has settled, next and open* unwrap one microtask after runTask's,*)
(* and the user hears of it one microtask after that.  Whatever the user's  *)
(* code does in between is what the code has to survive.                    *)
(*                                                                         *)
(* The bridge is what the runtime uses of it: live handles, and tasks that  *)
(* become ready at any moment outside the user's turn (external).           *)
(***************************************************************************)
EXTENDS Sequences, FiniteSets, SequencesExt

CONSTANTS
    Calls,              \* Promises; each is used once
    Operators,
    Streams, Listers, Writers,   \* child resources
    None                \* no call, no child, no operator

Cursors  == Streams \cup Listers
Children == Cursors \cup Writers

ASSUME NamesAssumption ==
    /\ Streams \cap Listers = {} /\ Cursors \cap Writers = {}
    /\ Calls \cap Operators = {} /\ (Calls \cup Operators) \cap Children = {}
    /\ None \notin Calls \cup Operators \cup Children

VARIABLES
    operators,    \* BrowserOperator: Absent, Open, or Closed (its handle is 0)
    closed,       \* OpenDalBrowserRuntime.closed
    activeTasks,  \* calls in the activeTasks of their operator
    operator,     \* BrowserChildResource.operator
    state,        \* BrowserChildResource.state
    held,         \* children whose handle is not 0
    registered,   \* children in the set of their operator
    active,       \* BrowserChildResource.active
    place,        \* where the Promise of each call stands
    call,         \* what it is: operation, operator, child
    result,       \* what it has settled to so far
    live,         \* bridge: handles that have not been released
    task,         \* bridge: Pending, or the completion that waits to be taken
    ended,        \* bridge: cursors at their end, which refuse to start
    queue,        \* microtasks
    timers,       \* calls with a poll timer
    running       \* the user's code has the thread

lifecycle == <<operators, closed, activeTasks, operator, state, held, registered, active>>
promises  == <<place, call, result>>
bridge    == <<live, task, ended>>
loop      == <<queue, timers, running>>
vars      == <<lifecycle, promises, bridge, loop>>

Good     == {"Ok", "End"}
Outcomes == Good \cup {"Pending", "Err", "Cancelled", "Closed", "Busy"}
NoEntry  == [what |-> "none", by |-> None, on |-> None]

CallsOf(r)    == IF r \in Cursors THEN {"next"} ELSE {"write", "finish", "abort"}
OnChild(p)    == call[p].what \in {"next", "write", "finish", "abort"}
IsOpen(p)     == call[p].what = "open"
Unwraps(what) == what \in {"open", "next"}   \* async methods that await runTask

Fresh(r) ==
    /\ state[r] = "Absent"
    /\ \A p \in Calls : call[p].on = r => place[p] \in {"Told", "Done"}
Polling(p) == place[p] = "Polling"

\* Nothing is under way.  Some operators and children may be open, left so by
\* calls whose Promises are forgotten.
Init ==
    /\ operators \in [Operators -> {"Absent", "Open"}] /\ closed = FALSE
    /\ activeTasks = {}
    /\ operator \in [Children -> {o \in Operators : operators[o] = "Open"} \cup {None}]
    /\ registered = {r \in Children : operator[r] # None} /\ held = registered
    /\ state = [r \in Children |-> IF operator[r] = None THEN "Absent" ELSE "Open"]
    /\ live = registered \cup {o \in Operators : operators[o] = "Open"}
    /\ active = [r \in Children |-> None]
    /\ place = [p \in Calls |-> "Unused"]
    /\ call = [p \in Calls |-> NoEntry]
    /\ result = [p \in Calls |-> "Pending"]
    /\ task = [p \in Calls |-> "Pending"] /\ ended = {}
    /\ queue = <<>> /\ timers = {} /\ running = FALSE

-----------------------------------------------------------------------------
(* Promises *)

Poll(p) == <<"poll", p>>
Go(p)   == <<"go", p>>

\* The Promise of call p moves on: it settles to res, and whoever awaits it
\* runs as the last microtask of q.
Moves(p, where, res, q) ==
    /\ place' = [place EXCEPT ![p] = where]
    /\ result' = [result EXCEPT ![p] = res]
    /\ queue' = Append(q, Go(p))

\* Where the Promise that runTask returned is awaited.
Awaited(what) == IF Unwraps(what) THEN "Unwrapping" ELSE "Told"

\* Mutant of Cancelled: the task is cancelled and not released.
CancelledNotReleased(S, gone) ==
    /\ place' = [p \in Calls |-> IF p \in S THEN "Settled" ELSE place[p]]
    /\ result' = [p \in Calls |-> IF p \in S THEN "Cancelled" ELSE result[p]]
    /\ timers' = timers \ S
    /\ live' = live \ gone
    /\ \E order \in SetToSeqs(S) :
        queue' = queue \o [i \in DOMAIN order |-> Go(order[i])]

\* onAbort for the calls of S that have not settled; gone are the other handles
\* the same step releases.
Cancelled(S, gone) ==
    /\ place' = [p \in Calls |-> IF p \in S THEN "Settled" ELSE place[p]]
    /\ result' = [p \in Calls |-> IF p \in S THEN "Cancelled" ELSE result[p]]
    /\ timers' = timers \ S
    /\ live' = (live \ S) \ gone
    /\ \E order \in SetToSeqs(S) :
        queue' = queue \o [i \in DOMAIN order |-> Go(order[i])]

-----------------------------------------------------------------------------
(* Child resources *)

\* The test runTask makes before it starts.
Usable(r) ==
    /\ state[r] = "Open" /\ r \in held
    /\ operators[operator[r]] = "Open" /\ ~closed

\* release(): what leaves the bridge.
Released(r) == {r} \cap held

\* finishState: the new state, and the handle is given back.
FinishState(r, s) ==
    /\ state' = [state EXCEPT ![r] = s]
    /\ held' = held \ {r}
    /\ registered' = registered \ {r}

KeepsState == UNCHANGED <<state, held, registered>>

-----------------------------------------------------------------------------
(* The user's turn *)

NewOperator(o) ==
    /\ running /\ ~closed
    /\ operators[o] = "Absent"
    /\ operators' = [operators EXCEPT ![o] = "Open"]
    /\ live' = live \cup {o}
    /\ UNCHANGED <<closed, activeTasks, operator, state, held, registered, active,
                   promises, task, ended, loop>>

\* Call p is made.
Made(p, what, o, r) ==
    /\ running
    /\ place[p] = "Unused"
    /\ call' = [call EXCEPT ![p] = [what |-> what, by |-> o, on |-> r]]

\* Its start export returned a task, which settleTask polls in a microtask.
Started(p) ==
    /\ place' = [place EXCEPT ![p] = "Polling"]
    /\ live' = live \cup {p}
    /\ queue' = Append(queue, Poll(p))
    /\ UNCHANGED result

\* BrowserOperator.runTask up to its first await.  The operator may be closed,
\* the start may fail, and the signal may be aborted already.
OperatorCall(p, o, what, r) ==
    /\ operators[o] # "Absent"
    /\ Made(p, what, o, r)
    /\ \/ /\ operators[o] = "Closed" \/ closed
          /\ Moves(p, Awaited(what), "Closed", queue)
          /\ UNCHANGED <<activeTasks, live>>
       \/ /\ operators[o] = "Open" /\ ~closed
          /\ Moves(p, Awaited(what), "Err", queue)
          /\ UNCHANGED <<activeTasks, live>>
       \/ /\ operators[o] = "Open" /\ ~closed
          /\ Started(p) \/ (Moves(p, "Settled", "Cancelled", queue) /\ UNCHANGED live)
          /\ activeTasks' = activeTasks \cup {p}
    /\ UNCHANGED <<operators, closed, operator, state, held, registered, active,
                   task, ended, timers, running>>

\* What a terminal child answers without a task.
Stable(r, what) ==
    \/ what = "next" /\ state[r] = "End"
    \/ what = "abort" /\ state[r] = "Aborted"

\* One operation at a time.
Admits(r) == Usable(r) /\ active[r] = None

\* next, write, finish and abort up to their first await.
ChildCall(p, r, what) ==
    /\ state[r] # "Absent"
    /\ Made(p, what, operator[r], r)
    /\ \/ /\ Stable(r, what)
          /\ Moves(p, "Told", IF what = "next" THEN "End" ELSE "Ok", queue)
          /\ KeepsState /\ UNCHANGED <<active, live>>
       \/ /\ ~Stable(r, what) /\ ~Admits(r)
          /\ Moves(p, Awaited(what), IF Usable(r) THEN "Busy" ELSE "Closed", queue)
          /\ KeepsState /\ UNCHANGED <<active, live>>
       \/ /\ Admits(r) /\ r \notin ended
          /\ Started(p)
          /\ active' = [active EXCEPT ![r] = p]
          /\ KeepsState
       \/ /\ Admits(r)   \* the arguments are refused
          /\ Moves(p, Awaited(what), "Err", queue)
          /\ KeepsState /\ UNCHANGED <<active, live>>
       \/ /\ Admits(r)   \* the signal is aborted, or the bridge says ResourceClosed
          /\ \E res \in {"Cancelled"} \cup (IF r \in ended THEN {"Closed"} ELSE {}) :
                Moves(p, Awaited(what), res, queue)
          /\ FinishState(r, "Failed")
          /\ live' = live \ Released(r)
          /\ UNCHANGED active
    /\ UNCHANGED <<operators, closed, activeTasks, operator, task, ended, timers, running>>

\* An AbortSignal fires.
AbortSignal(p) ==
    /\ running
    /\ Polling(p)
    /\ Cancelled({p}, {})
    /\ UNCHANGED <<lifecycle, call, task, ended, running>>

\* The operations of the children R that a cancel still reaches.
ActiveOf(R) == {p \in Calls : Polling(p) /\ \E r \in R : active[r] = p}

\* closeResource
CloseChild(r) ==
    /\ running
    /\ state[r] \notin {"Absent", "Closed"}
    /\ FinishState(r, "Closed")
    /\ Cancelled(ActiveOf({r}), Released(r))
    /\ UNCHANGED <<operators, closed, activeTasks, operator, active, call, task, ended, running>>

\* BrowserOperator.close for every operator of O: children, tasks, handle.
CloseAll(O, all) ==
    LET kids == {r \in registered : operator[r] \in O}
        mine == {p \in activeTasks : call[p].by \in O}
    IN  /\ operators' = [o \in Operators |-> IF o \in O THEN "Closed" ELSE operators[o]]
        /\ state' = [r \in Children |-> IF r \in kids THEN "Closed" ELSE state[r]]
        /\ held' = held \ kids
        /\ registered' = registered \ kids
        /\ activeTasks' = activeTasks \ mine
        /\ Cancelled(ActiveOf(kids) \cup {p \in mine : Polling(p)},
                     IF all THEN live ELSE O \cup UNION {Released(r) : r \in kids})
        /\ UNCHANGED <<operator, active, call, task, ended, running>>

CloseOperator(o) ==
    /\ running
    /\ operators[o] = "Open"
    /\ CloseAll({o}, FALSE)
    /\ UNCHANGED closed

\* Closes what is open, then tears the bridge down.
CloseRuntime ==
    /\ running /\ ~closed
    /\ CloseAll({o \in Operators : operators[o] = "Open"}, TRUE)
    /\ closed' = TRUE

\* A call makes a Promise of its own; which identity it gets does not matter.
NewPromise ==
    LET unused == {p \in Calls : place[p] = "Unused"}
    IN  IF unused = {} THEN {} ELSE {CHOOSE p \in unused : TRUE}

UserStep ==
    \/ \E o \in Operators : NewOperator(o) \/ CloseOperator(o)
    \/ \E p \in NewPromise, o \in Operators :
        \/ OperatorCall(p, o, "read", None)
        \/ \E r \in Children : Fresh(r) /\ OperatorCall(p, o, "open", r)
    \/ \E p \in NewPromise, r \in Children : \E what \in CallsOf(r) : ChildCall(p, r, what)
    \/ \E p \in Calls : AbortSignal(p)
    \/ \E r \in Children : CloseChild(r)
    \/ CloseRuntime

-----------------------------------------------------------------------------
(* The event loop *)

BeginEvent ==
    /\ ~running /\ queue = <<>>
    /\ running' = TRUE
    /\ UNCHANGED <<lifecycle, promises, bridge, queue, timers>>

EndTurn ==
    /\ running
    /\ running' = FALSE
    /\ UNCHANGED <<lifecycle, promises, bridge, queue, timers>>

\* Microtask m is next.
Runs(m) == ~running /\ queue # <<>> /\ Head(queue) = m

\* Mutant of Rearm: a pending task is not polled again.
RearmNot(p) == {}

\* A pending task is polled again by a timer.
Rearm(p) == {p}

\* poll: a ready task is taken, its completion turned into an outcome, and both
\* are released.  The outcome of an open owns the new resource.
PollBody(p, q) ==
    \/ /\ task[p] = "Pending"
       /\ timers' = (timers \ {p}) \cup Rearm(p)
       /\ queue' = q
       /\ UNCHANGED <<place, result, live>>
    \/ /\ task[p] # "Pending"
       /\ timers' = timers \ {p}
       /\ Moves(p, "Settled", task[p], q)
       /\ live' = (live \ {p}) \cup IF IsOpen(p) /\ task[p] = "Ok" THEN {call[p].on} ELSE {}

PollTask(p) ==
    /\ Runs(Poll(p))
    /\ \/ Polling(p) /\ PollBody(p, Tail(queue))
       \/ /\ ~Polling(p)
          /\ queue' = Tail(queue)
          /\ UNCHANGED <<place, result, live, timers>>
    /\ UNCHANGED <<lifecycle, call, task, ended, running>>

Timer(p) ==
    /\ ~running /\ queue = <<>>
    /\ p \in timers
    /\ PollBody(p, <<>>)
    /\ UNCHANGED <<lifecycle, call, task, ended, running>>

\* BrowserOperator.runTask after its await.
ResumeOperator(p) ==
    /\ Runs(Go(p)) /\ place[p] = "Settled" /\ ~OnChild(p)
    /\ activeTasks' = activeTasks \ {p}
    /\ Moves(p, Awaited(call[p].what), result[p], Tail(queue))
    /\ UNCHANGED <<operators, closed, operator, state, held, registered, active,
                   call, bridge, timers, running>>

\* The state a successful operation leads to, if it ends the child.
SuccessState(what) == IF what = "finish" THEN "Finished" ELSE "Aborted"

\* Mutant of Breaks: a cancelled operation leaves the child open.
BreaksOnError(r, res) == res = "Err" /\ state[r] = "Open"

\* An operation that did not succeed is the last one.
Breaks(r, res) == res \notin Good /\ state[r] = "Open"

\* Mutant of StillUsable: only the operator is looked at.
StillUsableParent(r) == operators[operator[r]] = "Open" /\ ~closed

\* The same test, made again after a successful operation.
StillUsable(r) == Usable(r)

\* BrowserChildResource.runTask after its await.
ResumeChild(p) ==
    LET r == call[p].on
        what == call[p].what
    IN  /\ Runs(Go(p)) /\ place[p] = "Settled" /\ OnChild(p)
        /\ active' = [active EXCEPT ![r] = IF @ = p THEN None ELSE @]
        /\ \/ /\ Breaks(r, result[p])
              /\ FinishState(r, "Failed")
              /\ live' = live \ Released(r)
              /\ Moves(p, Awaited(what), result[p], Tail(queue))
           \/ /\ result[p] \notin Good /\ ~Breaks(r, result[p])
              /\ KeepsState /\ UNCHANGED live
              /\ Moves(p, Awaited(what), result[p], Tail(queue))
           \/ /\ result[p] \in Good /\ ~StillUsable(r)
              /\ KeepsState /\ UNCHANGED live
              /\ Moves(p, Awaited(what), "Closed", Tail(queue))
           \/ /\ result[p] \in Good /\ StillUsable(r) /\ what \in {"finish", "abort"}
              /\ FinishState(r, SuccessState(what))
              /\ live' = live \ Released(r)
              /\ Moves(p, "Told", result[p], Tail(queue))
           \/ /\ result[p] \in Good /\ StillUsable(r) /\ what \notin {"finish", "abort"}
              /\ KeepsState /\ UNCHANGED live
              /\ Moves(p, Awaited(what), result[p], Tail(queue))
        /\ UNCHANGED <<operators, closed, activeTasks, operator, call, task, ended,
                       timers, running>>

\* Mutant of Orphaned: the operator is not looked at again.
OrphanedNever(p) == FALSE

\* The operator was closed while the outcome of the open was on its way.
Orphaned(p) == operators[call[p].by] # "Open" \/ closed

\* open* after its await: a wrapper is made, or the resource is given back.
UnwrapOpen(p) ==
    LET r == call[p].on
    IN  /\ Runs(Go(p)) /\ place[p] = "Unwrapping" /\ IsOpen(p)
        /\ \/ /\ result[p] # "Ok"
              /\ Moves(p, "Told", result[p], Tail(queue))
              /\ KeepsState /\ UNCHANGED <<operator, live>>
           \/ /\ result[p] = "Ok" /\ Orphaned(p)
              /\ Moves(p, "Told", "Closed", Tail(queue))
              /\ live' = live \ {r}
              /\ KeepsState /\ UNCHANGED operator
           \/ /\ result[p] = "Ok" /\ ~Orphaned(p)
              /\ Moves(p, "Told", "Ok", Tail(queue))
              /\ operator' = [operator EXCEPT ![r] = call[p].by]
              /\ state' = [state EXCEPT ![r] = "Open"]
              /\ held' = held \cup {r}
              /\ registered' = registered \cup {r}
              /\ UNCHANGED live
        /\ UNCHANGED <<operators, closed, activeTasks, active, call, task, ended,
                       timers, running>>

\* next after its await: the end of the data ends the cursor.
UnwrapNext(p) ==
    LET r == call[p].on
    IN  /\ Runs(Go(p)) /\ place[p] = "Unwrapping" /\ ~IsOpen(p)
        /\ \/ result[p] # "End" /\ KeepsState /\ UNCHANGED live
           \/ result[p] = "End" /\ FinishState(r, "End") /\ live' = live \ Released(r)
        /\ Moves(p, "Told", result[p], Tail(queue))
        /\ UNCHANGED <<operators, closed, activeTasks, operator, active, call, task,
                       ended, timers, running>>

\* The user's code continues with the outcome.
Tell(p) ==
    /\ Runs(Go(p)) /\ place[p] = "Told"
    /\ place' = [place EXCEPT ![p] = "Done"]
    /\ queue' = Tail(queue)
    /\ running' = TRUE
    /\ UNCHANGED <<lifecycle, call, result, bridge, timers>>

\* What settleCompletion can make of a completion.  A contract failure, which
\* rejects the Promise, ends a child as an error does.
Completions(p) ==
    {"Ok", "Err"} \cup (IF call[p].what = "next" THEN {"End"} ELSE {})

\* The bridge publishes the completion of a task that is still there.
Publish(p) ==
    /\ ~running
    /\ p \in live /\ task[p] = "Pending"
    /\ \E res \in Completions(p) :
        /\ task' = [task EXCEPT ![p] = res]
        /\ ended' = IF res = "End" THEN ended \cup {call[p].on} ELSE ended
    /\ UNCHANGED <<lifecycle, promises, live, loop>>

Microtask(p) ==
    \/ PollTask(p) \/ ResumeOperator(p) \/ ResumeChild(p)
    \/ UnwrapOpen(p) \/ UnwrapNext(p) \/ Tell(p)

Next ==
    \/ UserStep \/ BeginEvent \/ EndTurn
    \/ \E p \in Calls : Microtask(p) \/ Timer(p) \/ Publish(p)

Spec == Init /\ [][Next]_vars

\* The user's code returns, microtasks run, and a due timer fires in the end.
\* Storage need not answer.
LiveSpec ==
    /\ Spec
    /\ WF_vars(EndTurn \/ \E p \in Calls : Microtask(p))
    /\ \A p \in Calls : SF_vars(Timer(p))

-----------------------------------------------------------------------------
(* Properties *)

States == {"Absent", "Open", "End", "Failed", "Finished", "Aborted", "Closed"}
Places == {"Unused", "Polling", "Settled", "Unwrapping", "Told", "Done"}

\* The state variables have their types.
TypeOK ==
    /\ operators \in [Operators -> {"Absent", "Open", "Closed"}]
    /\ closed \in BOOLEAN /\ running \in BOOLEAN
    /\ activeTasks \subseteq Calls /\ timers \subseteq Calls
    /\ operator \in [Children -> Operators \cup {None}]
    /\ state \in [Children -> States]
    /\ held \subseteq Children /\ registered \subseteq Children /\ ended \subseteq Children
    /\ active \in [Children -> Calls \cup {None}]
    /\ place \in [Calls -> Places]
    /\ call \in [Calls -> [what : {"none", "read", "open", "next", "write", "finish", "abort"},
                           by : Operators \cup {None},
                           on : Children \cup {None}]]
    /\ result \in [Calls -> Outcomes] /\ task \in [Calls -> Outcomes]
    /\ live \subseteq Calls \cup Operators \cup Children
    /\ queue \in Seq({"poll", "go"} \X Calls)

\* An open has been answered, and its resource has no wrapper yet.
InTransit(r) ==
    /\ ~closed
    /\ \E p \in Calls :
        /\ IsOpen(p) /\ call[p].on = r /\ result[p] = "Ok"
        /\ place[p] \in {"Settled", "Unwrapping"}

\* "every owned ... task, ... operator, stream, writer, lister ... has a matching
\* release operation" (docs/design/browser-runtime.md): every live bridge handle
\* has exactly the owner that will release it, and no owner holds a dead one,
\* whatever is cancelled or closed while answers are on their way.  The variables
\* keep their types.
NothingLeaks ==
    /\ TypeOK
    /\ \A p \in Calls : p \in live <=> Polling(p)
    /\ \A r \in Children : r \in live <=> r \in held \/ InTransit(r)
    /\ \A o \in Operators : o \in live <=> operators[o] = "Open"
    /\ held = registered /\ held = {r \in Children : state[r] = "Open"}

\* close reaches everything: a call that still polls belongs to an open operator
\* and, on a child, is the one that a close of the child would cancel; no
\* child is open under a closed operator.
ClosedIsQuiet ==
    /\ \A p \in Calls : Polling(p) =>
        /\ operators[call[p].by] = "Open" /\ ~closed
        /\ OnChild(p) => active[call[p].on] = p /\ state[call[p].on] # "Closed"
        /\ ~OnChild(p) => p \in activeTasks
    /\ \A r \in Children : state[r] = "Open" => operators[operator[r]] = "Open" /\ ~closed

\* What a user was told of a child stays true of it: a finished or aborted
\* Writer, the end of a cursor, and that a cancelled operation is the last one.
VerdictHolds ==
    \A p \in Calls : OnChild(p) /\ place[p] \in {"Told", "Done"} =>
        LET s == state[call[p].on]
            what == call[p].what
        IN  /\ what = "finish" /\ result[p] = "Ok" => s \in {"Finished", "Closed"}
            /\ what = "abort" /\ result[p] = "Ok" => s \in {"Aborted", "Closed"}
            /\ result[p] = "End" => s \in {"End", "Closed"}
            /\ result[p] = "Cancelled" => s # "Open"

\* A Writer that was closed, finished, aborted or failed before its answer was
\* unwrapped keeps that state; only a close may follow.
WriterSticks == [][\A r \in Writers :
    state[r] \notin {"Absent", "Open"} => state'[r] \in {state[r], "Closed"}]_vars

\* A Promise settles once storage has answered, or its signal, its child, its
\* operator or the runtime has cancelled it, even if storage never answers.
Settles == \A p \in Calls :
    (place[p] # "Unused" /\ ~(Polling(p) /\ task[p] = "Pending")) ~> place[p] = "Done"

-----------------------------------------------------------------------------
(* The inductive invariant *)

\* A call that was made is one, and a result is the completion or a cancel.
\* An operation on a child is one the child has.
CallInv == \A p \in Calls :
    /\ place[p] = "Unused" => call[p].what = "none"
    /\ place[p] # "Unused" => call[p].by \in Operators
    /\ place[p] = "Unwrapping" => Unwraps(call[p].what)
    /\ place[p] = "Settled" => result[p] \in {task[p], "Cancelled"}
    /\ IsOpen(p) => call[p].on \in Children
    /\ OnChild(p) => /\ call[p].on \in Children /\ call[p].what \in CallsOf(call[p].on)
                     /\ state[call[p].on] # "Absent"
    /\ ~OnChild(p) /\ ~IsOpen(p) => call[p].on = None
    /\ task[p] # "Pending" => task[p] \in Completions(p)

\* The resource of an open has no wrapper until the open is told, and no second
\* open: it is made once.
OpenInv == \A p \in Calls :
    IsOpen(p) /\ place[p] \in {"Polling", "Settled", "Unwrapping"} =>
        /\ state[call[p].on] = "Absent"
        /\ \A q \in Calls : q # p /\ call[q].on = call[p].on => place[q] \in {"Told", "Done"}

\* The operation of a child is its active one until it resumes, and the child
\* is open for as long as it polls.
ChildInv ==
    /\ \A r \in Children : state[r] # "Absent" => operator[r] \in Operators
    /\ \A p \in Calls : OnChild(p) =>
        /\ place[p] \in {"Polling", "Settled"} => active[call[p].on] = p
        /\ Polling(p) => state[call[p].on] = "Open" /\ operator[call[p].on] = call[p].by

\* The end of a cursor is published once, and no operation begins after it.
EndInv ==
    /\ \A p \in Calls : task[p] = "End" => call[p].on \in ended
    /\ \A p, q \in Calls : task[p] = "End" /\ task[q] = "End" /\ call[p].on = call[q].on => p = q
    /\ \A p \in Calls : OnChild(p) /\ Polling(p) /\ call[p].on \in ended => task[p] = "End"
    /\ \A p \in Calls : place[p] = "Unwrapping" /\ result[p] = "End" => task[p] = "End"

\* A cursor whose next was cancelled is not open while the answer is unwrapped.
CancelInv == \A p \in Calls :
    OnChild(p) /\ place[p] = "Unwrapping" /\ result[p] = "Cancelled" => state[call[p].on] # "Open"

\* Timers belong to calls that poll, of which there are finitely many.
PollInv == timers \subseteq {p \in Calls : Polling(p)} /\ IsFiniteSet({p \in Calls : Polling(p)})

IInv ==
    /\ NothingLeaks /\ ClosedIsQuiet /\ VerdictHolds
    /\ CallInv /\ OpenInv /\ ChildInv /\ EndInv /\ CancelInv /\ PollInv
=============================================================================
