------------------------ MODULE BrowserRuntimeProofs ------------------------
(***************************************************************************)
(* The Promise runtime of the browser, for any calls, operators and child   *)
(* resources: every bridge handle has one owner, a close reaches everything,*)
(* and what a user was told of a child stays true of it.                    *)
(***************************************************************************)
EXTENDS BrowserRuntime, FiniteSetTheorems, TLAPS

\* What the queue holds.
Microtasks == {"poll", "go"} \X Calls

\* The calls a cancel can reach.
PollingCalls == {p \in Calls : Polling(p)}

\* The two kinds of entries of the queue.
LEMMA MicrotaskType ==
    \A p \in Calls : Poll(p) \in Microtasks /\ Go(p) \in Microtasks
BY DEF Microtasks, Poll, Go

\* The queue stays one of microtasks when one runs or is added.
LEMMA QueueType ==
    ASSUME NEW q \in Seq(Microtasks)
    PROVE  /\ q # <<>> => Tail(q) \in Seq(Microtasks)
           /\ \A m \in Microtasks : Append(q, m) \in Seq(Microtasks)
OBVIOUS

\* What a call that settles or moves on changes.
LEMMA MovesFacts ==
    ASSUME TypeOK, NEW p \in Calls, NEW where \in Places, NEW res \in Outcomes,
           NEW q \in Seq(Microtasks), Moves(p, where, res, q)
    PROVE  /\ place' \in [Calls -> Places] /\ result' \in [Calls -> Outcomes]
           /\ queue' \in Seq({"poll", "go"} \X Calls)
           /\ \A x \in Calls : place'[x] = IF x = p THEN where ELSE place[x]
           /\ \A x \in Calls : result'[x] = IF x = p THEN res ELSE result[x]
<1>1. place \in [Calls -> Places] /\ result \in [Calls -> Outcomes]
    BY DEF TypeOK
<1>2. queue' \in Seq({"poll", "go"} \X Calls)
    BY MicrotaskType, QueueType DEF Moves, Microtasks
<1>3. QED
    BY <1>1, <1>2 DEF Moves

\* The cancelled calls settle together, in some order.
LEMMA CancelledFacts ==
    ASSUME TypeOK, NEW S \in SUBSET Calls, IsFiniteSet(S), NEW gone, Cancelled(S, gone)
    PROVE  /\ place' \in [Calls -> Places] /\ result' \in [Calls -> Outcomes]
           /\ queue' \in Seq({"poll", "go"} \X Calls)
           /\ \A x \in Calls : place'[x] = IF x \in S THEN "Settled" ELSE place[x]
           /\ \A x \in Calls : result'[x] = IF x \in S THEN "Cancelled" ELSE result[x]
           /\ timers' = timers \ S /\ live' = (live \ S) \ gone
<1>1. place \in [Calls -> Places] /\ result \in [Calls -> Outcomes]
      /\ queue \in Seq({"poll", "go"} \X Calls)
    BY DEF TypeOK
<1>2. PICK order \in SetToSeqs(S) : queue' = queue \o [i \in DOMAIN order |-> Go(order[i])]
    BY DEF Cancelled
<1>3. order \in [1..Cardinality(S) -> S] /\ Cardinality(S) \in Nat
    BY FS_CardinalityType DEF SetToSeqs
<1>4. [i \in DOMAIN order |-> Go(order[i])] \in Seq({"poll", "go"} \X Calls)
  <2>1. \A i \in 1..Cardinality(S) : Go(order[i]) \in {"poll", "go"} \X Calls
      BY <1>3, MicrotaskType DEF Microtasks
  <2>2. QED
      BY <1>3, <2>1
<1>5. queue' \in Seq({"poll", "go"} \X Calls)
    BY <1>1, <1>2, <1>4
<1>6. "Settled" \in Places /\ "Cancelled" \in Outcomes
    BY DEF Places, Outcomes
<1>7. QED
    BY <1>1, <1>5, <1>6 DEF Cancelled

-----------------------------------------------------------------------------
(* Cancelling *)

\* The calls S are cancelled, the children K closed, and the operators O with
\* them: abort signals and every close are of this form.
Closes(S, K, O) ==
    /\ S \subseteq PollingCalls /\ K \subseteq Children /\ O \subseteq Operators
    /\ \A r \in K : state[r] # "Absent"
    /\ \A p \in PollingCalls \ S :
          /\ call[p].by \notin O /\ ~closed'
          /\ OnChild(p) => call[p].on \notin K
          /\ ~OnChild(p) => p \in activeTasks'
    /\ \A r \in Children \ K : state[r] = "Open" => operator[r] \notin O /\ ~closed'
    /\ \A x \in Calls : place'[x] = IF x \in S THEN "Settled" ELSE place[x]
    /\ \A x \in Calls : result'[x] = IF x \in S THEN "Cancelled" ELSE result[x]
    /\ timers' = timers \ S
    /\ \A r \in Children : state'[r] = IF r \in K THEN "Closed" ELSE state[r]
    /\ held' = held \ K /\ registered' = registered \ K
    /\ \A o \in Operators : operators'[o] = IF o \in O THEN "Closed" ELSE operators[o]
    /\ \/ closed' = closed /\ live' = live \ (S \cup O \cup (K \cap held))
       \/ closed' = TRUE /\ live' = {} /\ \A o \in Operators : operators'[o] # "Open"
    /\ UNCHANGED <<operator, active, call, task, ended>>

\* Every step of that form keeps the invariant.
LEMMA ClosesInv ==
    ASSUME IInv, NEW S, NEW K, NEW O, Closes(S, K, O), TypeOK'
    PROVE  IInv'
<1>1. /\ \A p \in Calls : Polling(p)' <=> Polling(p) /\ p \notin S
      /\ \A p \in Calls : place[p] # "Polling" => place'[p] = place[p] /\ result'[p] = result[p]
      /\ \A p \in S : Polling(p) /\ place'[p] = "Settled" /\ result'[p] = "Cancelled"
    BY DEF Closes, PollingCalls, Polling
<1>2. /\ call' = call /\ task' = task /\ operator' = operator /\ active' = active /\ ended' = ended
      /\ \A p \in Calls : (OnChild(p)' <=> OnChild(p)) /\ (IsOpen(p)' <=> IsOpen(p))
    BY DEF Closes, OnChild, IsOpen
<1>3. NothingLeaks'
  <2>1. \A p \in Calls : p \in live' <=> Polling(p)'
    <3>1. CASE live' = live \ (S \cup O \cup (K \cap held))
        BY <1>1, <3>1, NamesAssumption DEF Closes, IInv, NothingLeaks
    <3>2. CASE closed' = TRUE /\ live' = {}
        BY <1>1, <3>2 DEF Closes, PollingCalls
    <3>3. QED
        BY <3>1, <3>2 DEF Closes
  <2>2. held' = registered' /\ held' = {r \in Children : state'[r] = "Open"}
    <3>1. held = registered /\ held = {r \in Children : state[r] = "Open"}
        BY DEF IInv, NothingLeaks
    <3>2. \A r \in Children : state'[r] = "Open" <=> state[r] = "Open" /\ r \notin K
        BY DEF Closes
    <3>3. QED
        BY <3>1, <3>2 DEF Closes
  <2>3. \A o \in Operators : o \in live' <=> operators'[o] = "Open"
    <3>1. CASE live' = live \ (S \cup O \cup (K \cap held))
        BY <3>1, NamesAssumption DEF Closes, IInv, NothingLeaks, PollingCalls
    <3>2. CASE closed' = TRUE /\ live' = {} /\ \A o \in Operators : operators'[o] # "Open"
        BY <3>2
    <3>3. QED
        BY <3>1, <3>2 DEF Closes
  <2>4. \A r \in Children : r \in live' <=> r \in held' \/ InTransit(r)'
    <3>1. CASE closed' = closed /\ live' = live \ (S \cup O \cup (K \cap held))
      <4>1. \A r \in Children : InTransit(r)' <=> InTransit(r)
          BY <1>1, <1>2, <3>1 DEF InTransit, Polling
      <4>2. \A r \in Children : InTransit(r) => state[r] = "Absent"
          BY DEF InTransit, IInv, OpenInv
      <4>3. \A r \in Children : r \notin S \cup O
          BY NamesAssumption DEF Closes, PollingCalls
      <4>4. QED
          BY <3>1, <4>1, <4>2, <4>3 DEF Closes, IInv, NothingLeaks
    <3>2. CASE closed' = TRUE /\ live' = {}
      <4>1. held' = {}
          BY <2>2, <3>2 DEF Closes
      <4>2. QED
          BY <3>2, <4>1 DEF InTransit
    <3>3. QED
        BY <3>1, <3>2 DEF Closes
  <2>5. QED
      BY <2>1, <2>2, <2>3, <2>4 DEF NothingLeaks
<1>4. ClosedIsQuiet'
  <2>1. \A p \in Calls : Polling(p)' =>
            /\ operators'[call'[p].by] = "Open" /\ ~closed'
            /\ OnChild(p)' => active'[call'[p].on] = p /\ state'[call'[p].on] # "Closed"
            /\ ~OnChild(p)' => p \in activeTasks'
    <3>1. SUFFICES ASSUME NEW p \in Calls, Polling(p)'
          PROVE  /\ operators'[call[p].by] = "Open" /\ ~closed'
                 /\ OnChild(p) => active[call[p].on] = p /\ state'[call[p].on] # "Closed"
                 /\ ~OnChild(p) => p \in activeTasks'
        BY <1>2
    <3>2. p \in PollingCalls \ S /\ Polling(p) /\ call[p].by \in Operators
        BY <1>1, <3>1 DEF PollingCalls, IInv, CallInv, Polling
    <3>3. operators[call[p].by] = "Open" /\ (OnChild(p) =>
              call[p].on \in Children /\ active[call[p].on] = p /\ state[call[p].on] # "Closed")
        BY <3>2 DEF IInv, ClosedIsQuiet, CallInv
    <3>4. QED
        BY <3>2, <3>3 DEF Closes
  <2>2. \A r \in Children : state'[r] = "Open" =>
            operators'[operator'[r]] = "Open" /\ ~closed'
    <3>1. SUFFICES ASSUME NEW r \in Children, state'[r] = "Open"
          PROVE  operators'[operator[r]] = "Open" /\ ~closed'
        BY <1>2
    <3>2. r \notin K /\ state[r] = "Open"
        BY <3>1 DEF Closes
    <3>3. operators[operator[r]] = "Open" /\ operator[r] \in Operators
        BY <3>2 DEF IInv, ClosedIsQuiet, ChildInv
    <3>4. QED
        BY <3>2, <3>3 DEF Closes
  <2>3. QED
      BY <2>1, <2>2 DEF ClosedIsQuiet, Polling, OnChild
<1>5. VerdictHolds'
  <2>1. \A p \in Calls : place'[p] \in {"Told", "Done"} => place[p] = place'[p] /\ result'[p] = result[p]
      BY <1>1 DEF Polling
  <2>2. \A p \in Calls : OnChild(p) => call[p].on \in Children
      BY DEF IInv, CallInv
  <2>3. QED
      BY <1>2, <2>1, <2>2 DEF Closes, IInv, VerdictHolds
<1>6. CallInv'
  <2>1. \A p \in Calls : /\ place'[p] = "Unused" <=> place[p] = "Unused"
                         /\ place'[p] = "Unwrapping" <=> place[p] = "Unwrapping"
                         /\ place'[p] = "Settled" => result'[p] \in {task[p], "Cancelled"}
      BY <1>1 DEF IInv, CallInv, Polling
  <2>2. \A r \in Children : state[r] # "Absent" => state'[r] # "Absent"
      BY DEF Closes
  <2>3. QED
      BY <1>2, <2>1, <2>2 DEF IInv, CallInv, Completions
<1>7. OpenInv'
  <2>1. \A p \in Calls : place'[p] \in {"Polling", "Settled", "Unwrapping"} =>
                             place[p] \in {"Polling", "Settled", "Unwrapping"}
      BY <1>1 DEF Polling
  <2>2. \A p \in Calls : place[p] \in {"Told", "Done"} => place'[p] \in {"Told", "Done"}
      BY <1>1
  <2>3. \A r \in Children : state[r] = "Absent" => state'[r] = "Absent"
      BY DEF Closes
  <2>4. \A p \in Calls : IsOpen(p) => call[p].on \in Children
      BY DEF IInv, CallInv
  <2>5. QED
      BY <1>2, <2>1, <2>2, <2>3, <2>4 DEF IInv, OpenInv
<1>8. ChildInv'
  <2>1. \A r \in Children : state'[r] # "Absent" => state[r] # "Absent"
      BY DEF Closes
  <2>2. \A p \in Calls : place'[p] \in {"Polling", "Settled"} => place[p] \in {"Polling", "Settled"}
      BY <1>1 DEF Polling
  <2>3. ASSUME NEW p \in Calls, OnChild(p), Polling(p)'
        PROVE  state'[call[p].on] = "Open"
    <3>1. p \in PollingCalls \ S /\ Polling(p)
        BY <1>1, <2>3 DEF PollingCalls
    <3>2. state[call[p].on] = "Open" /\ call[p].on \in Children
        BY <2>3, <3>1 DEF IInv, ChildInv, CallInv
    <3>3. QED
        BY <2>3, <3>1, <3>2 DEF Closes
  <2>4. QED
      BY <1>1, <1>2, <2>1, <2>2, <2>3 DEF IInv, ChildInv
<1>9. EndInv'
  <2>1. \A p \in Calls : place'[p] = "Unwrapping" => place[p] = "Unwrapping" /\ result'[p] = result[p]
      BY <1>1 DEF Polling
  <2>2. QED
      BY <1>1, <1>2, <2>1 DEF IInv, EndInv
<1>10. CancelInv'
  <2>1. \A p \in Calls : place'[p] = "Unwrapping" => place[p] = "Unwrapping" /\ result'[p] = result[p]
      BY <1>1 DEF Polling
  <2>2. \A r \in Children : state'[r] = "Open" => state[r] = "Open"
      BY DEF Closes
  <2>3. \A p \in Calls : OnChild(p) => call[p].on \in Children
      BY DEF IInv, CallInv
  <2>4. QED
      BY <1>2, <2>1, <2>2, <2>3 DEF IInv, CancelInv
<1>11. PollInv'
  <2>1. {p \in Calls : Polling(p)'} \subseteq {p \in Calls : Polling(p)}
      BY <1>1
  <2>2. IsFiniteSet({p \in Calls : Polling(p)'})
      BY <2>1, FS_Subset DEF IInv, PollInv
  <2>3. timers' \subseteq {p \in Calls : Polling(p)'}
      BY <1>1 DEF Closes, IInv, PollInv
  <2>4. QED
      BY <2>2, <2>3 DEF PollInv
<1>12. QED
    BY <1>3, <1>4, <1>5, <1>6, <1>7, <1>8, <1>9, <1>10, <1>11 DEF IInv

\* The types of what a step that cancels changes.
LEMMA ClosesType ==
    ASSUME IInv, NEW S \in SUBSET PollingCalls, NEW gone, Cancelled(S, gone),
           operators' \in [Operators -> {"Absent", "Open", "Closed"}], closed' \in BOOLEAN,
           activeTasks' \subseteq activeTasks, state' \in [Children -> States],
           held' \subseteq held, registered' \subseteq registered,
           UNCHANGED <<operator, active, call, task, ended, running>>
    PROVE  /\ TypeOK' /\ timers' = timers \ S /\ live' = (live \ S) \ gone
           /\ \A x \in Calls : place'[x] = IF x \in S THEN "Settled" ELSE place[x]
           /\ \A x \in Calls : result'[x] = IF x \in S THEN "Cancelled" ELSE result[x]
<1>1. TypeOK /\ S \in SUBSET Calls /\ IsFiniteSet(S)
  <2>1. IsFiniteSet(PollingCalls)
      BY DEF IInv, PollInv, PollingCalls
  <2>2. IsFiniteSet(S)
      BY <2>1, FS_Subset
  <2>3. QED
      BY <2>2 DEF IInv, NothingLeaks, PollingCalls
<1>2. /\ place' \in [Calls -> Places] /\ result' \in [Calls -> Outcomes]
      /\ queue' \in Seq({"poll", "go"} \X Calls)
      /\ \A x \in Calls : place'[x] = IF x \in S THEN "Settled" ELSE place[x]
      /\ \A x \in Calls : result'[x] = IF x \in S THEN "Cancelled" ELSE result[x]
      /\ timers' = timers \ S /\ live' = (live \ S) \ gone
    BY <1>1, CancelledFacts
<1>3. /\ activeTasks' \subseteq Calls /\ timers' \subseteq Calls
      /\ held' \subseteq Children /\ registered' \subseteq Children /\ ended' \subseteq Children
      /\ live' \subseteq Calls \cup Operators \cup Children
    BY <1>1, <1>2 DEF TypeOK
<1>4. /\ operator' \in [Children -> Operators \cup {None}]
      /\ active' \in [Children -> Calls \cup {None}]
      /\ call' \in [Calls -> [what : {"none", "read", "open", "next", "write", "finish", "abort"},
                              by : Operators \cup {None}, on : Children \cup {None}]]
      /\ task' \in [Calls -> Outcomes] /\ running' \in BOOLEAN
    BY <1>1, Zenon DEF TypeOK
<1>5. TypeOK'
    BY <1>2, <1>3, <1>4, Zenon DEF TypeOK
<1>6. QED
    BY <1>2, <1>5

\* The parts of the type invariant that most steps need.
LEMMA Types ==
    ASSUME IInv
    PROVE  /\ TypeOK /\ closed \in BOOLEAN
           /\ operators \in [Operators -> {"Absent", "Open", "Closed"}]
           /\ state \in [Children -> States] /\ operator \in [Children -> Operators \cup {None}]
           /\ active \in [Children -> Calls \cup {None}] /\ place \in [Calls -> Places]
           /\ result \in [Calls -> Outcomes] /\ task \in [Calls -> Outcomes]
           /\ call \in [Calls -> [what : {"none", "read", "open", "next", "write", "finish", "abort"},
                                  by : Operators \cup {None}, on : Children \cup {None}]]
           /\ held \subseteq Children /\ registered \subseteq Children
BY Zenon DEF IInv, NothingLeaks, TypeOK

\* NothingLeaks follows from how the owners of live handles change.
LEMMA LeaksStep ==
    ASSUME IInv, TypeOK', held' = registered',
           \A x \in Calls : (x \in live' <=> Polling(x)') \/
                             ((x \in live' <=> x \in live) /\ (Polling(x)' <=> Polling(x))),
           \A r \in Children : (r \in live' <=> r \in held' \/ InTransit(r)') \/
                                /\ r \in live' <=> r \in live
                                /\ r \in held' <=> r \in held
                                /\ InTransit(r)' <=> InTransit(r),
           \A o \in Operators : (o \in live' <=> operators'[o] = "Open") \/
                                 /\ o \in live' <=> o \in live
                                 /\ operators'[o] = operators[o],
           \A r \in Children : (r \in held' <=> state'[r] = "Open") \/
                                /\ r \in held' <=> r \in held
                                /\ state'[r] = state[r]
    PROVE  NothingLeaks'
<1>1. /\ \A x \in Calls : x \in live <=> Polling(x)
      /\ \A r \in Children : r \in live <=> r \in held \/ InTransit(r)
      /\ \A o \in Operators : o \in live <=> operators[o] = "Open"
      /\ \A r \in Children : r \in held <=> state[r] = "Open"
    BY DEF IInv, NothingLeaks
<1>2. /\ \A x \in Calls : x \in live' <=> Polling(x)'
      /\ \A r \in Children : r \in live' <=> r \in held' \/ InTransit(r)'
      /\ \A o \in Operators : o \in live' <=> operators'[o] = "Open"
      /\ \A r \in Children : r \in held' <=> state'[r] = "Open"
    BY <1>1
<1>3. held' \subseteq Children
    BY DEF TypeOK
<1>4. held' = {r \in Children : state'[r] = "Open"}
    BY <1>2, <1>3
<1>5. QED
    BY <1>2, <1>4 DEF NothingLeaks

\* An AbortSignal cancels its call.
LEMMA AbortSignalInv ==
    ASSUME IInv, NEW p \in Calls, AbortSignal(p)
    PROVE  IInv'
<1>1. /\ Cancelled({p}, {}) /\ {p} \in SUBSET PollingCalls
      /\ operators' = operators /\ closed' = closed /\ activeTasks' = activeTasks
      /\ state' = state /\ held' = held /\ registered' = registered
      /\ UNCHANGED <<operator, active, call, task, ended, running>>
    BY DEF AbortSignal, lifecycle, PollingCalls
<1>2. /\ TypeOK' /\ timers' = timers \ {p} /\ live' = (live \ {p}) \ {}
      /\ \A x \in Calls : place'[x] = IF x \in {p} THEN "Settled" ELSE place[x]
      /\ \A x \in Calls : result'[x] = IF x \in {p} THEN "Cancelled" ELSE result[x]
  <2>1. /\ operators' \in [Operators -> {"Absent", "Open", "Closed"}] /\ closed' \in BOOLEAN
        /\ state' \in [Children -> States]
      BY <1>1, Types, Zenon
  <2>2. QED
      BY <1>1, <2>1, ClosesType
<1>3. ASSUME NEW q \in PollingCalls \ {p}
      PROVE  /\ call[q].by \notin {} /\ ~closed'
             /\ OnChild(q) => call[q].on \notin {}
             /\ ~OnChild(q) => q \in activeTasks'
    BY <1>1 DEF PollingCalls, IInv, ClosedIsQuiet
<1>4. \A r \in Children \ {} : state[r] = "Open" => operator[r] \notin {} /\ ~closed'
    BY <1>1 DEF IInv, ClosedIsQuiet
<1>5. Closes({p}, {}, {})
  <2>1. /\ live' = live \ ({p} \cup {} \cup ({} \cap held))
        /\ held' = held \ {} /\ registered' = registered \ {}
        /\ {p} \subseteq PollingCalls /\ {} \subseteq Children /\ {} \subseteq Operators
      BY <1>1, <1>2
  <2>2. /\ \A o \in Operators : operators'[o] = IF o \in {} THEN "Closed" ELSE operators[o]
        /\ \A r \in Children : state'[r] = IF r \in {} THEN "Closed" ELSE state[r]
        /\ \A r \in {} : state[r] # "Absent"
      BY <1>1
  <2>3. closed' = closed /\ UNCHANGED <<operator, active, call, task, ended>>
      BY <1>1
  <2>4. QED
      BY <1>2, <1>3, <1>4, <2>1, <2>2, <2>3 DEF Closes
<1>6. QED
    BY <1>2, <1>5, ClosesInv

\* A child that is closed takes its operation with it.
LEMMA CloseChildInv ==
    ASSUME IInv, NEW r \in Children, CloseChild(r)
    PROVE  IInv'
<1> DEFINE S == ActiveOf({r})
<1>1. /\ Cancelled(S, Released(r)) /\ S \in SUBSET PollingCalls
      /\ operators' = operators /\ closed' = closed /\ activeTasks' = activeTasks
      /\ state' = [state EXCEPT ![r] = "Closed"] /\ state[r] # "Absent"
      /\ held' = held \ {r} /\ registered' = registered \ {r}
      /\ UNCHANGED <<operator, active, call, task, ended, running>>
    BY DEF CloseChild, FinishState, PollingCalls, ActiveOf
<1>2. /\ operators' \in [Operators -> {"Absent", "Open", "Closed"}] /\ closed' \in BOOLEAN
    BY <1>1, Types, Zenon
<1>3. /\ state' \in [Children -> States]
      /\ \A x \in Children : state'[x] = IF x \in {r} THEN "Closed" ELSE state[x]
    BY <1>1, Types DEF States
<1>4. \A q \in PollingCalls \ S : OnChild(q) => call[q].on \notin {r}
    BY DEF PollingCalls, ActiveOf, IInv, ClosedIsQuiet
<1>5. Released(r) = {r} \cap held
    BY DEF Released
<1> HIDE DEF S
<1>6. /\ TypeOK' /\ timers' = timers \ S /\ live' = (live \ S) \ Released(r)
      /\ \A x \in Calls : place'[x] = IF x \in S THEN "Settled" ELSE place[x]
      /\ \A x \in Calls : result'[x] = IF x \in S THEN "Cancelled" ELSE result[x]
    BY <1>1, <1>2, <1>3, ClosesType
<1>7. ASSUME NEW q \in PollingCalls \ S
      PROVE  /\ call[q].by \notin {} /\ ~closed'
             /\ ~OnChild(q) => q \in activeTasks'
    BY <1>1 DEF PollingCalls, IInv, ClosedIsQuiet
<1>8. \A x \in Children \ {r} : state[x] = "Open" => operator[x] \notin {} /\ ~closed'
    BY <1>1 DEF IInv, ClosedIsQuiet
<1>9. live' = live \ (S \cup {} \cup ({r} \cap held))
    BY <1>5, <1>6
<1>10. Closes(S, {r}, {})
  <2>1. /\ S \subseteq PollingCalls /\ {r} \subseteq Children /\ {} \subseteq Operators
        /\ \A x \in {r} : state[x] # "Absent"
        /\ \A o \in Operators : operators'[o] = IF o \in {} THEN "Closed" ELSE operators[o]
      BY <1>1
  <2>2. closed' = closed /\ UNCHANGED <<operator, active, call, task, ended>>
      BY <1>1
  <2>3. held' = held \ {r} /\ registered' = registered \ {r}
      BY <1>1
  <2>4. QED
      BY <1>3, <1>4, <1>6, <1>7, <1>8, <1>9, <2>1, <2>2, <2>3 DEF Closes
<1>11. QED
    BY <1>6, <1>10, ClosesInv

\* What a close of operators closes: their children and tasks.
LEMMA CloseAllInv ==
    ASSUME IInv, NEW O \in SUBSET Operators, NEW all \in BOOLEAN, CloseAll(O, all),
           \/ closed' = closed /\ all = FALSE
           \/ closed' = TRUE /\ all = TRUE /\ \A o \in Operators \ O : operators[o] # "Open"
    PROVE  IInv'
<1> DEFINE K == {r \in registered : operator[r] \in O}
           mine == {p \in activeTasks : call[p].by \in O}
           S == ActiveOf(K) \cup {p \in mine : Polling(p)}
           gone == IF all THEN live ELSE O \cup UNION {Released(r) : r \in K}
<1>1. /\ operators' = [o \in Operators |-> IF o \in O THEN "Closed" ELSE operators[o]]
      /\ state' = [r \in Children |-> IF r \in K THEN "Closed" ELSE state[r]]
      /\ held' = held \ K /\ registered' = registered \ K
      /\ activeTasks' = activeTasks \ mine /\ Cancelled(S, gone)
      /\ UNCHANGED <<operator, active, call, task, ended, running>>
    BY DEF CloseAll
<1>2. held \subseteq Children /\ registered = held /\ registered = {r \in Children : state[r] = "Open"}
      /\ activeTasks \subseteq Calls
    BY DEF IInv, NothingLeaks, TypeOK
<1>3. S \in SUBSET PollingCalls /\ K \in SUBSET Children /\ \A r \in K : state[r] # "Absent"
    BY <1>2 DEF ActiveOf, PollingCalls
<1>4. closed' \in BOOLEAN
    BY Types, Zenon
<1>5. /\ operators' \in [Operators -> {"Absent", "Open", "Closed"}]
      /\ \A o \in Operators : operators'[o] = IF o \in O THEN "Closed" ELSE operators[o]
    BY <1>1, Types
<1>6. /\ state' \in [Children -> States]
      /\ \A r \in Children : state'[r] = IF r \in K THEN "Closed" ELSE state[r]
    BY <1>1, Types DEF States
<1>7. UNION {Released(r) : r \in K} = K \cap held
    BY DEF Released
<1>8. ASSUME NEW q \in PollingCalls \ S
      PROVE  /\ q \in Calls /\ call[q].by \in Operators \ O /\ operators[call[q].by] = "Open"
             /\ OnChild(q) => call[q].on \notin K
             /\ ~OnChild(q) => q \in activeTasks'
  <2>1. /\ q \in Calls /\ Polling(q) /\ operators[call[q].by] = "Open" /\ call[q].by \in Operators
        /\ ~OnChild(q) => q \in activeTasks
        /\ OnChild(q) => /\ active[call[q].on] = q /\ call[q].on \in Children
                         /\ state[call[q].on] = "Open" /\ operator[call[q].on] = call[q].by
      BY <1>8 DEF PollingCalls, IInv, ClosedIsQuiet, CallInv, ChildInv, Polling
  <2>2. OnChild(q) => call[q].on \notin K
      BY <1>8, <2>1 DEF ActiveOf
  <2>3. OnChild(q) => call[q].by \notin O
      BY <1>2, <2>1, <2>2
  <2>4. ~OnChild(q) => call[q].by \notin O
      BY <1>8, <2>1
  <2>5. QED
      BY <1>1, <2>1, <2>2, <2>3, <2>4
<1>9. ASSUME NEW r \in Children \ K, state[r] = "Open"
      PROVE  operator[r] \in Operators \ O /\ operators[operator[r]] = "Open"
  <2>1. operator[r] \in Operators /\ operators[operator[r]] = "Open"
      BY <1>9 DEF IInv, ChildInv, ClosedIsQuiet
  <2>2. QED
      BY <1>2, <1>9, <2>1
<1>10. \A q \in Calls : Polling(q) => ~closed
    BY DEF IInv, ClosedIsQuiet
<1>11. \A r \in Children : state[r] = "Open" => ~closed
    BY DEF IInv, ClosedIsQuiet
<1> HIDE DEF S, K, gone, mine
<1>12. /\ TypeOK' /\ timers' = timers \ S /\ live' = (live \ S) \ gone
       /\ \A x \in Calls : place'[x] = IF x \in S THEN "Settled" ELSE place[x]
       /\ \A x \in Calls : result'[x] = IF x \in S THEN "Cancelled" ELSE result[x]
    BY <1>1, <1>2, <1>3, <1>4, <1>5, <1>6, ClosesType
<1>13. CASE closed' = closed /\ all = FALSE
  <2>1. live' = live \ (S \cup O \cup (K \cap held))
      BY <1>7, <1>12, <1>13 DEF gone
  <2>2. Closes(S, K, O)
      BY <1>1, <1>3, <1>5, <1>6, <1>8, <1>9, <1>10, <1>11, <1>12, <1>13, <2>1
         DEF Closes, PollingCalls
  <2>3. QED
      BY <1>12, <2>2, ClosesInv
<1>14. CASE closed' = TRUE /\ all = TRUE /\ \A o \in Operators \ O : operators[o] # "Open"
  <2>1. live' = {}
      BY <1>12, <1>14 DEF gone
  <2>2. \A q \in PollingCalls : q \in S
      BY <1>8, <1>14
  <2>3. \A r \in Children \ K : state[r] # "Open"
      BY <1>9, <1>14
  <2>4. \A o \in Operators : operators'[o] # "Open"
      BY <1>5, <1>14
  <2>5. Closes(S, K, O)
      BY <1>1, <1>3, <1>5, <1>6, <1>12, <1>14, <2>1, <2>2, <2>3, <2>4 DEF Closes
  <2>6. QED
      BY <1>12, <2>5, ClosesInv
<1>15. QED
    BY <1>13, <1>14

\* BrowserOperator.close and OpenDalBrowserRuntime.close.
LEMMA CloseOperatorInv ==
    ASSUME IInv, NEW o \in Operators, CloseOperator(o)
    PROVE  IInv'
<1>1. CloseAll({o}, FALSE) /\ closed' = closed /\ {o} \in SUBSET Operators
    BY DEF CloseOperator
<1>2. QED
    BY <1>1, CloseAllInv

\* The close of the runtime closes what is open and tears the bridge down.
LEMMA CloseRuntimeInv ==
    ASSUME IInv, CloseRuntime
    PROVE  IInv'
<1> DEFINE O == {o \in Operators : operators[o] = "Open"}
<1>1. CloseAll(O, TRUE) /\ closed' = TRUE /\ O \in SUBSET Operators
    BY DEF CloseRuntime
<1>2. \A o \in Operators \ O : operators[o] # "Open"
    OBVIOUS
<1> HIDE DEF O
<1>3. QED
    BY <1>1, <1>2, CloseAllInv

-----------------------------------------------------------------------------
(* Steps that touch no child *)

\* Nothing but the event loop moves.
LEMMA LoopInv ==
    ASSUME IInv, TypeOK', timers' \subseteq PollingCalls,
           UNCHANGED <<operators, closed, activeTasks, operator, state, held, registered, active,
                       place, call, result, live, task, ended>>
    PROVE  IInv'
<1>1. NothingLeaks'
  <2>1. held = registered
      BY DEF IInv, NothingLeaks
  <2>2. \A x \in Calls : Polling(x)' <=> Polling(x)
      BY DEF Polling
  <2>3. \A r \in Children : InTransit(r)' <=> InTransit(r)
      BY DEF InTransit, IsOpen
  <2>4. QED
      BY <2>1, <2>2, <2>3, LeaksStep
<1>2. ClosedIsQuiet' /\ VerdictHolds'
    BY DEF IInv, ClosedIsQuiet, VerdictHolds, Polling, OnChild
<1>3. CallInv' /\ OpenInv' /\ ChildInv'
    BY DEF IInv, CallInv, OpenInv, ChildInv, Polling, OnChild, IsOpen, Completions
<1>4. EndInv' /\ CancelInv' /\ PollInv'
    BY DEF IInv, EndInv, CancelInv, PollInv, Polling, OnChild, PollingCalls
<1>5. QED
    BY <1>1, <1>2, <1>3, <1>4 DEF IInv

\* A turn begins or ends.
LEMMA TurnInv ==
    ASSUME IInv, BeginEvent \/ EndTurn
    PROVE  IInv'
<1>1. /\ UNCHANGED <<operators, closed, activeTasks, operator, state, held, registered, active,
                     place, call, result, live, task, ended, queue, timers>>
      /\ running' \in BOOLEAN
  <2>1. running' = TRUE \/ running' = FALSE
      BY DEF BeginEvent, EndTurn
  <2>2. running' \in BOOLEAN
      BY <2>1, Zenon
  <2>3. QED
      BY <2>2 DEF BeginEvent, EndTurn, lifecycle, promises, bridge
<1>2. TypeOK'
    BY <1>1, Types, Zenon DEF TypeOK
<1>3. timers' \subseteq PollingCalls
    BY <1>1 DEF IInv, PollInv, PollingCalls
<1>4. QED
    BY <1>1, <1>2, <1>3, LoopInv

\* A new operator.
LEMMA NewOperatorInv ==
    ASSUME IInv, NEW o \in Operators, NewOperator(o)
    PROVE  IInv'
<1>1. /\ UNCHANGED <<closed, activeTasks, operator, state, held, registered, active,
                     place, call, result, task, ended, queue, timers, running>>
      /\ live' = live \cup {o} /\ operators[o] = "Absent" /\ ~closed
      /\ operators' = [operators EXCEPT ![o] = "Open"]
    BY DEF NewOperator, promises, loop
<1>2. /\ operators' \in [Operators -> {"Absent", "Open", "Closed"}]
      /\ \A x \in Operators : operators'[x] = IF x = o THEN "Open" ELSE operators[x]
    BY <1>1, Types
<1>3. TypeOK'
  <2>1. live' \subseteq Calls \cup Operators \cup Children
      BY <1>1, Types DEF TypeOK
  <2>2. QED
      BY <1>1, <1>2, <2>1, Types, Zenon DEF TypeOK
<1>4. o \notin Calls /\ o \notin Children
    BY NamesAssumption
<1>5. NothingLeaks'
  <2>1. held = registered
      BY DEF IInv, NothingLeaks
  <2>2. \A x \in Calls : (x \in live' <=> x \in live) /\ (Polling(x)' <=> Polling(x))
      BY <1>1, <1>4 DEF Polling
  <2>3. \A r \in Children : (r \in live' <=> r \in live) /\ (InTransit(r)' <=> InTransit(r))
      BY <1>1, <1>4 DEF InTransit, IsOpen
  <2>4. \A x \in Operators : (x \in live' <=> operators'[x] = "Open") \/
                               ((x \in live' <=> x \in live) /\ operators'[x] = operators[x])
    <3>1. live' = live \cup {o}
        BY <1>1
    <3>2. operators'[o] = "Open" /\ \A x \in Operators \ {o} : operators'[x] = operators[x]
        BY <1>2
    <3>3. QED
        BY <3>1, <3>2
  <2>5. QED
      BY <1>1, <1>3, <2>1, <2>2, <2>3, <2>4, LeaksStep
<1>6. ClosedIsQuiet'
  <2>1. \A p \in Calls : Polling(p) => call[p].by \in Operators
      BY DEF IInv, CallInv, Polling
  <2>2. \A r \in Children : state[r] = "Open" => operator[r] \in Operators
      BY DEF IInv, ChildInv
  <2>3. QED
      BY <1>1, <1>2, <2>1, <2>2 DEF IInv, ClosedIsQuiet, Polling, OnChild
<1>7. VerdictHolds' /\ CallInv' /\ OpenInv' /\ ChildInv' /\ EndInv' /\ CancelInv' /\ PollInv'
    BY <1>1 DEF IInv, VerdictHolds, CallInv, OpenInv, ChildInv, EndInv, CancelInv, PollInv,
       Polling, OnChild, IsOpen, Completions
<1>8. QED
    BY <1>5, <1>6, <1>7 DEF IInv

\* The bridge answers a task.
LEMMA PublishInv ==
    ASSUME IInv, NEW p \in Calls, Publish(p)
    PROVE  IInv'
<1>1. PICK res \in Completions(p) :
        /\ task' = [task EXCEPT ![p] = res]
        /\ ended' = IF res = "End" THEN ended \cup {call[p].on} ELSE ended
    BY DEF Publish
<1>2. /\ UNCHANGED <<operators, closed, activeTasks, operator, state, held, registered, active,
                     place, call, result, live, queue, timers, running>>
      /\ p \in live /\ task[p] = "Pending"
    BY DEF Publish, lifecycle, promises, loop
<1>3. Polling(p) /\ place[p] = "Polling"
    BY <1>2 DEF IInv, NothingLeaks, Polling
<1>4. /\ res \in {"Ok", "Err", "End"} /\ (res = "End" => OnChild(p)) /\ res \in Outcomes
    BY DEF Completions, OnChild, Outcomes, Good
<1>5. /\ task' \in [Calls -> Outcomes]
      /\ \A x \in Calls : task'[x] = IF x = p THEN res ELSE task[x]
    BY <1>1, <1>4, Types
<1>6. OnChild(p) => call[p].on \in Children /\ active[call[p].on] = p
    BY <1>3 DEF IInv, CallInv, ChildInv
<1>7. TypeOK'
  <2>1. ended' \subseteq Children
      BY <1>1, <1>4, <1>6, Types DEF TypeOK
  <2>2. QED
      BY <1>2, <1>5, <2>1, Types, Zenon DEF TypeOK
<1>8. NothingLeaks' /\ ClosedIsQuiet' /\ VerdictHolds' /\ OpenInv' /\ ChildInv' /\ CancelInv' /\ PollInv'
  <2>1. NothingLeaks'
    <3>1. held = registered
        BY DEF IInv, NothingLeaks
    <3>2. \A x \in Calls : Polling(x)' <=> Polling(x)
        BY <1>2 DEF Polling
    <3>3. \A r \in Children : InTransit(r)' <=> InTransit(r)
        BY <1>2 DEF InTransit, IsOpen
    <3>4. QED
        BY <1>2, <1>7, <3>1, <3>2, <3>3, LeaksStep
  <2>2. ClosedIsQuiet' /\ VerdictHolds'
      BY <1>2 DEF IInv, ClosedIsQuiet, VerdictHolds, Polling, OnChild
  <2>3. OpenInv' /\ ChildInv' /\ CancelInv' /\ PollInv'
      BY <1>2 DEF IInv, OpenInv, ChildInv, CancelInv, PollInv, Polling, OnChild, IsOpen
  <2>4. QED
      BY <2>1, <2>2, <2>3
<1>9. CallInv'
  <2>1. \A x \in Calls : place[x] = "Settled" => x # p
      BY <1>3
  <2>2. QED
      BY <1>2, <1>3, <1>5, <2>1 DEF IInv, CallInv, OnChild, IsOpen, Completions
<1>10. EndInv'
  <2>1. CASE res # "End"
      BY <1>1, <1>2, <1>3, <1>5, <2>1 DEF IInv, EndInv, Polling, OnChild
  <2>2. CASE res = "End"
    <3>1. ended' = ended \cup {call[p].on} /\ OnChild(p) /\ call[p].on \notin ended
        BY <1>1, <1>2, <1>3, <1>4, <2>2 DEF IInv, EndInv
    <3>2. \A x \in Calls : task[x] = "End" => call[x].on \in ended /\ x # p
        BY <1>2 DEF IInv, EndInv
    <3>3. \A x \in Calls : task'[x] = "End" => call'[x].on \in ended'
        BY <1>2, <1>5, <3>1, <3>2
    <3>4. \A x, y \in Calls : task'[x] = "End" /\ task'[y] = "End" /\ call'[x].on = call'[y].on => x = y
        BY <1>2, <1>5, <3>1, <3>2 DEF IInv, EndInv
    <3>5. \A x \in Calls : OnChild(x)' /\ Polling(x)' /\ call'[x].on \in ended' => task'[x] = "End"
      <4>1. \A x \in Calls : OnChild(x) /\ Polling(x) => active[call[x].on] = x
          BY DEF IInv, ChildInv, Polling
      <4>2. QED
          BY <1>2, <1>5, <1>6, <2>2, <3>1, <4>1 DEF IInv, EndInv, Polling, OnChild
    <3>6. \A x \in Calls : place'[x] = "Unwrapping" /\ result'[x] = "End" => task'[x] = "End"
        BY <1>2, <1>3, <1>5 DEF IInv, EndInv
    <3>7. QED
        BY <3>3, <3>4, <3>5, <3>6 DEF EndInv
  <2>3. QED
      BY <2>1, <2>2
<1>11. QED
    BY <1>8, <1>9, <1>10 DEF IInv

\* The user is told, or an operator's call that has settled moves on.
LEMMA AdvanceInv ==
    ASSUME IInv, NEW p \in Calls, NEW where,
           \/ place[p] = "Told" /\ where = "Done" /\ activeTasks' = activeTasks
           \/ /\ place[p] = "Settled" /\ ~OnChild(p) /\ where = Awaited(call[p].what)
              /\ activeTasks' = activeTasks \ {p},
           \A x \in Calls : place'[x] = IF x = p THEN where ELSE place[x],
           \A x \in Calls : result'[x] = result[x], TypeOK',
           UNCHANGED <<operators, closed, operator, state, held, registered, active,
                       call, live, task, ended, timers>>
    PROVE  IInv'
<1>1. /\ \A x \in Calls : Polling(x)' <=> Polling(x)
      /\ \A x \in Calls : place'[x] \in {"Told", "Done"} /\ OnChild(x) => place[x] \in {"Told", "Done"}
      /\ \A x \in Calls : place[x] \in {"Told", "Done"} => place'[x] \in {"Told", "Done"}
      /\ \A x \in Calls : place'[x] = "Settled" => place[x] = "Settled"
      /\ \A x \in Calls : place'[x] = "Unused" <=> place[x] = "Unused"
    BY DEF Polling, Awaited
<1>2. \A x \in Calls : place'[x] = "Unwrapping" =>
          \/ place[x] = "Unwrapping"
          \/ place[x] = "Settled" /\ ~OnChild(x) /\ Unwraps(call[x].what) /\ IsOpen(x)
    BY DEF Awaited, Unwraps, OnChild, IsOpen
<1>3. \A x \in Calls : IsOpen(x) =>
          (place'[x] \in {"Settled", "Unwrapping"} <=> place[x] \in {"Settled", "Unwrapping"})
    BY DEF Awaited, Unwraps, IsOpen
<1>4. /\ operators' = operators /\ closed' = closed /\ operator' = operator /\ state' = state
      /\ held' = held /\ registered' = registered /\ active' = active /\ call' = call
      /\ live' = live /\ task' = task /\ ended' = ended /\ timers' = timers
    OBVIOUS
<1>5. \A x \in Calls : (OnChild(x)' <=> OnChild(x)) /\ (IsOpen(x)' <=> IsOpen(x))
    BY <1>4 DEF OnChild, IsOpen
<1>6. NothingLeaks'
  <2>1. \A r \in Children : InTransit(r)' <=> InTransit(r)
      BY <1>3, <1>4, <1>5 DEF InTransit
  <2>2. held = registered
      BY DEF IInv, NothingLeaks
  <2>3. QED
      BY <1>1, <1>4, <2>1, <2>2, LeaksStep
<1>7. ClosedIsQuiet'
    BY <1>1, <1>4 DEF IInv, ClosedIsQuiet, Polling, OnChild
<1>8. VerdictHolds'
    BY <1>1, <1>4, <1>5 DEF IInv, VerdictHolds
<1>9. CallInv'
    BY <1>1, <1>2, <1>4, <1>5 DEF IInv, CallInv, Completions
<1>10. OpenInv'
    BY <1>1, <1>3, <1>4, <1>5 DEF IInv, OpenInv, Polling
<1>11. ChildInv'
    BY <1>1, <1>4, <1>5 DEF IInv, ChildInv, Polling
<1>12. EndInv'
  <2>1. ASSUME NEW x \in Calls, place'[x] = "Unwrapping", result'[x] = "End"
        PROVE  task[x] = "End"
    <3>1. place[x] = "Settled" => result[x] \in {task[x], "Cancelled"}
        BY DEF IInv, CallInv
    <3>2. QED
        BY <1>2, <2>1, <3>1 DEF IInv, EndInv
  <2>2. QED
      BY <1>1, <1>4, <1>5, <2>1 DEF IInv, EndInv
<1>13. CancelInv'
    BY <1>2, <1>4, <1>5 DEF IInv, CancelInv
<1>14. PollInv'
    BY <1>1, <1>4 DEF IInv, PollInv
<1>15. QED
    BY <1>6, <1>7, <1>8, <1>9, <1>10, <1>11, <1>12, <1>13, <1>14 DEF IInv

\* The user is told.
LEMMA TellInv ==
    ASSUME IInv, NEW p \in Calls, Tell(p)
    PROVE  IInv'
<1>1. /\ place[p] = "Told" /\ place' = [place EXCEPT ![p] = "Done"] /\ queue # <<>>
      /\ queue' = Tail(queue) /\ running' = TRUE
      /\ UNCHANGED <<operators, closed, activeTasks, operator, state, held, registered, active,
                     call, result, live, task, ended, timers>>
    BY DEF Tell, Runs, lifecycle, bridge
<1>2. place' \in [Calls -> Places] /\ \A x \in Calls : place'[x] = IF x = p THEN "Done" ELSE place[x]
    BY <1>1, Types DEF Places
<1>3. TypeOK'
  <2>1. queue' \in Seq({"poll", "go"} \X Calls)
      BY <1>1, Types, QueueType DEF TypeOK, Microtasks
  <2>2. running' \in BOOLEAN
      BY <1>1, Zenon
  <2>3. QED
      BY <1>1, <1>2, <2>1, <2>2, Types, Zenon DEF TypeOK
<1>4. QED
    BY <1>1, <1>2, <1>3, AdvanceInv

\* A call of an operator resumes, and leaves the operator's active tasks.
LEMMA ResumeOperatorInv ==
    ASSUME IInv, NEW p \in Calls, ResumeOperator(p)
    PROVE  IInv'
<1>1. /\ place[p] = "Settled" /\ ~OnChild(p) /\ queue # <<>>
      /\ activeTasks' = activeTasks \ {p}
      /\ Moves(p, Awaited(call[p].what), result[p], Tail(queue))
      /\ UNCHANGED <<operators, closed, operator, state, held, registered, active,
                     call, live, task, ended, timers, running>>
    BY DEF ResumeOperator, Runs, bridge
<1>2. /\ Awaited(call[p].what) \in Places /\ result[p] \in Outcomes
      /\ Tail(queue) \in Seq(Microtasks)
    BY <1>1, Types, QueueType DEF Awaited, Places, TypeOK, Microtasks
<1>3. /\ place' \in [Calls -> Places] /\ result' \in [Calls -> Outcomes]
      /\ queue' \in Seq({"poll", "go"} \X Calls)
      /\ \A x \in Calls : place'[x] = IF x = p THEN Awaited(call[p].what) ELSE place[x]
      /\ \A x \in Calls : result'[x] = IF x = p THEN result[p] ELSE result[x]
    BY <1>1, <1>2, MovesFacts, Types
<1>4. TypeOK'
  <2>1. activeTasks' \subseteq Calls
      BY <1>1, Types DEF TypeOK
  <2>2. QED
      BY <1>1, <1>3, <2>1, Types, Zenon DEF TypeOK
<1>5. QED
    BY <1>1, <1>3, <1>4, AdvanceInv

-----------------------------------------------------------------------------
(* A task is polled *)

\* A task that polls is either still pending, and has a timer, or its completion
\* is taken; that of an open owns its resource from then on.
LEMMA PollBodyInv ==
    ASSUME IInv, NEW p \in Calls, Polling(p), NEW q \in Seq(Microtasks), PollBody(p, q),
           UNCHANGED <<operators, closed, activeTasks, operator, state, held, registered, active,
                       call, task, ended, running>>
    PROVE  IInv'
<1>1. CASE /\ timers' = (timers \ {p}) \cup Rearm(p) /\ queue' = q
           /\ UNCHANGED <<place, result, live>>
  <2>1. timers \subseteq PollingCalls /\ timers' \subseteq PollingCalls
      BY <1>1 DEF IInv, PollInv, PollingCalls, Rearm
  <2>2. TypeOK'
    <3>1. timers' \subseteq Calls /\ queue' \in Seq({"poll", "go"} \X Calls)
        BY <1>1, <2>1 DEF PollingCalls, Microtasks
    <3>2. QED
        BY <1>1, <3>1, Types, Zenon DEF TypeOK
  <2>3. QED
      BY <1>1, <2>1, <2>2, LoopInv
<1>2. CASE /\ timers' = timers \ {p}
           /\ Moves(p, "Settled", task[p], q)
           /\ live' = (live \ {p}) \cup IF IsOpen(p) /\ task[p] = "Ok" THEN {call[p].on} ELSE {}
  <2>1. /\ operators' = operators /\ closed' = closed /\ activeTasks' = activeTasks
        /\ operator' = operator /\ state' = state /\ held' = held /\ registered' = registered
        /\ active' = active /\ call' = call /\ task' = task /\ ended' = ended /\ running' = running
      OBVIOUS
  <2>2. task[p] \in Outcomes /\ "Settled" \in Places
      BY Types DEF Places
  <2>3. /\ place' \in [Calls -> Places] /\ result' \in [Calls -> Outcomes]
        /\ queue' \in Seq({"poll", "go"} \X Calls)
        /\ \A x \in Calls : place'[x] = IF x = p THEN "Settled" ELSE place[x]
        /\ \A x \in Calls : result'[x] = IF x = p THEN task[p] ELSE result[x]
      BY <1>2, <2>2, MovesFacts, Types
  <2>4. IsOpen(p) => call[p].on \in Children
      BY DEF IInv, CallInv
  <2>5. TypeOK'
    <3>1. live' \subseteq Calls \cup Operators \cup Children
        BY <1>2, <2>4, Types DEF TypeOK
    <3>2. timers' \subseteq Calls
        BY <1>2, Types DEF TypeOK
    <3>3. QED
        BY <2>1, <2>3, <3>1, <3>2, Types, Zenon DEF TypeOK
  <2>6. /\ \A x \in Calls : Polling(x)' <=> Polling(x) /\ x # p
        /\ \A x \in Calls : x # p => place'[x] = place[x] /\ result'[x] = result[x]
        /\ place[p] = "Polling" /\ place'[p] = "Settled" /\ result'[p] = task[p]
      BY <2>3 DEF Polling
  <2>7. \A x \in Calls : (OnChild(x)' <=> OnChild(x)) /\ (IsOpen(x)' <=> IsOpen(x))
      BY <2>1 DEF OnChild, IsOpen
  <2>8. NothingLeaks'
    <3>1. held = registered
        BY DEF IInv, NothingLeaks
    <3>2. \A x \in Calls : x \in live' <=> Polling(x)'
      <4>1. \A x \in Calls : x \in live <=> Polling(x)
          BY DEF IInv, NothingLeaks
      <4>2. QED
          BY <1>2, <2>4, <2>6, <4>1, NamesAssumption
    <3>3. \A x \in Operators : x \in live' <=> x \in live
        BY <1>2, <2>4, NamesAssumption
    <3>4. \A r \in Children : r \in live' <=> r \in live \/ (IsOpen(p) /\ task[p] = "Ok" /\ call[p].on = r)
        BY <1>2, <2>4, NamesAssumption
    <3>5. \A r \in Children : InTransit(r)' <=>
              InTransit(r) \/ (IsOpen(p) /\ task[p] = "Ok" /\ call[p].on = r)
      <4>1. ~closed
          BY DEF IInv, ClosedIsQuiet
      <4>2. QED
          BY <2>1, <2>6, <2>7, <4>1 DEF InTransit
    <3>6. \A r \in Children : r \in live' <=> r \in held' \/ InTransit(r)'
        BY <2>1, <3>4, <3>5 DEF IInv, NothingLeaks
    <3>7. QED
        BY <2>1, <2>5, <3>1, <3>2, <3>3, <3>6, LeaksStep
  <2>9. ClosedIsQuiet'
      BY <2>1, <2>6 DEF IInv, ClosedIsQuiet, Polling, OnChild
  <2>10. VerdictHolds'
      BY <2>1, <2>6, <2>7 DEF IInv, VerdictHolds
  <2>11. CallInv'
      BY <2>1, <2>6, <2>7 DEF IInv, CallInv, Completions
  <2>12. OpenInv'
      BY <2>1, <2>6, <2>7 DEF IInv, OpenInv
  <2>13. ChildInv'
      BY <2>1, <2>6, <2>7 DEF IInv, ChildInv, Polling
  <2>14. EndInv'
      BY <2>1, <2>6, <2>7 DEF IInv, EndInv, Polling
  <2>15. CancelInv'
      BY <2>1, <2>6, <2>7 DEF IInv, CancelInv
  <2>16. PollInv'
    <3>1. {x \in Calls : Polling(x)'} \subseteq {x \in Calls : Polling(x)}
        BY <2>6
    <3>2. IsFiniteSet({x \in Calls : Polling(x)'})
        BY <3>1, FS_Subset DEF IInv, PollInv
    <3>3. timers' \subseteq {x \in Calls : Polling(x)'}
        BY <1>2, <2>6 DEF IInv, PollInv
    <3>4. QED
        BY <3>2, <3>3 DEF PollInv
  <2>17. QED
      BY <2>8, <2>9, <2>10, <2>11, <2>12, <2>13, <2>14, <2>15, <2>16 DEF IInv
<1>3. QED
    BY <1>1, <1>2 DEF PollBody

\* The microtask that polls a task first; the call may have been cancelled.
LEMMA PollTaskInv ==
    ASSUME IInv, NEW p \in Calls, PollTask(p)
    PROVE  IInv'
<1>1. /\ queue # <<>> /\ Tail(queue) \in Seq(Microtasks)
      /\ UNCHANGED <<operators, closed, activeTasks, operator, state, held, registered, active,
                     call, task, ended, running>>
    BY Types, QueueType DEF PollTask, Runs, lifecycle, TypeOK, Microtasks
<1>2. CASE Polling(p) /\ PollBody(p, Tail(queue))
    BY <1>1, <1>2, PollBodyInv
<1>3. CASE queue' = Tail(queue) /\ UNCHANGED <<place, result, live, timers>>
  <2>1. TypeOK'
    <3>1. queue' \in Seq({"poll", "go"} \X Calls)
        BY <1>1, <1>3 DEF Microtasks
    <3>2. QED
        BY <1>1, <1>3, <3>1, Types, Zenon DEF TypeOK
  <2>2. timers' \subseteq PollingCalls
      BY <1>3 DEF IInv, PollInv, PollingCalls
  <2>3. QED
      BY <1>1, <1>3, <2>1, <2>2, LoopInv
<1>4. QED
    BY <1>2, <1>3 DEF PollTask

\* A timer polls the task again.
LEMMA TimerInv ==
    ASSUME IInv, NEW p \in Calls, Timer(p)
    PROVE  IInv'
<1>1. /\ PollBody(p, <<>>) /\ p \in timers
      /\ UNCHANGED <<operators, closed, activeTasks, operator, state, held, registered, active,
                     call, task, ended, running>>
    BY DEF Timer, lifecycle
<1>2. Polling(p) /\ <<>> \in Seq(Microtasks)
    BY <1>1 DEF IInv, PollInv
<1>3. QED
    BY <1>1, <1>2, PollBodyInv

-----------------------------------------------------------------------------
(* The outcome of an open is unwrapped *)

\* A wrapper is made for the resource, or the resource is given back.
LEMMA UnwrapOpenInv ==
    ASSUME IInv, NEW p \in Calls, UnwrapOpen(p)
    PROVE  IInv'
<1> DEFINE r == call[p].on
<1>1. /\ place[p] = "Unwrapping" /\ IsOpen(p) /\ queue # <<>>
      /\ UNCHANGED <<operators, closed, activeTasks, active, call, task, ended, timers, running>>
    BY DEF UnwrapOpen, Runs
<1>2. PICK res \in Outcomes :
          /\ Moves(p, "Told", res, Tail(queue))
          /\ \/ /\ result[p] # "Ok" /\ res = result[p]
                /\ KeepsState /\ UNCHANGED <<operator, live>>
             \/ /\ result[p] = "Ok" /\ Orphaned(p)
                /\ live' = live \ {r}
                /\ KeepsState /\ UNCHANGED operator
             \/ /\ result[p] = "Ok" /\ ~Orphaned(p)
                /\ operator' = [operator EXCEPT ![r] = call[p].by]
                /\ state' = [state EXCEPT ![r] = "Open"]
                /\ held' = held \cup {r}
                /\ registered' = registered \cup {r}
                /\ UNCHANGED live
  <2>1. result[p] \in Outcomes /\ "Closed" \in Outcomes /\ "Ok" \in Outcomes
      BY Types DEF Outcomes, Good
  <2>2. QED
      BY <2>1 DEF UnwrapOpen
<1>3. /\ r \in Children /\ state[r] = "Absent" /\ r \notin held /\ r \notin Calls \cup Operators
      /\ \A q \in Calls : q # p /\ call[q].on = r => place[q] \in {"Told", "Done"}
      /\ \A q \in Calls : OnChild(q) => call[q].on \in Children /\ call[q].on # r
      /\ call[p].by \in Operators
  <2>1. r \in Children
      BY <1>1 DEF IInv, CallInv
  <2>2. QED
      BY <1>1, <2>1, NamesAssumption DEF IInv, CallInv, OpenInv, NothingLeaks
<1>4. /\ place' \in [Calls -> Places] /\ result' \in [Calls -> Outcomes]
      /\ queue' \in Seq({"poll", "go"} \X Calls)
      /\ \A x \in Calls : place'[x] = IF x = p THEN "Told" ELSE place[x]
      /\ \A x \in Calls : result'[x] = IF x = p THEN res ELSE result[x]
  <2>1. "Told" \in Places /\ Tail(queue) \in Seq(Microtasks) /\ TypeOK
      BY <1>1, Types, QueueType DEF Places, TypeOK, Microtasks
  <2>2. QED
      BY <1>2, <2>1, MovesFacts
<1>5. /\ \A x \in Calls : Polling(x)' <=> Polling(x)
      /\ \A x \in Calls : (OnChild(x)' <=> OnChild(x)) /\ (IsOpen(x)' <=> IsOpen(x))
      /\ \A x \in Calls : x # p => place'[x] = place[x] /\ result'[x] = result[x]
      /\ ~OnChild(p) /\ place'[p] = "Told"
    BY <1>1, <1>4 DEF Polling, OnChild, IsOpen
<1>6. CASE (KeepsState /\ UNCHANGED <<operator, live>> /\ result[p] # "Ok")
        \/ (KeepsState /\ UNCHANGED operator /\ live' = live \ {r} /\ result[p] = "Ok")
  <2>1. state' = state /\ held' = held /\ registered' = registered /\ operator' = operator
      BY <1>6 DEF KeepsState
  <2>2. TypeOK'
    <3>1. live' \subseteq Calls \cup Operators \cup Children
        BY <1>6, Types DEF TypeOK
    <3>2. QED
        BY <1>1, <1>4, <2>1, <3>1, Types, Zenon DEF TypeOK
  <2>3. NothingLeaks'
    <3>1. held = registered
        BY DEF IInv, NothingLeaks
    <3>2. \A x \in Calls \cup Operators : x \in live' <=> x \in live
        BY <1>3, <1>6
    <3>3. \A x \in Children : x # r => (InTransit(x)' <=> InTransit(x)) /\ (x \in live' <=> x \in live)
      <4>1. \A x \in Children : x # r => (InTransit(x)' <=> InTransit(x))
          BY <1>1, <1>5 DEF InTransit
      <4>2. QED
          BY <1>6, <4>1
    <3>4. ~InTransit(r)'
        BY <1>1, <1>3, <1>5 DEF InTransit
    <3>5. r \notin live'
      <4>1. CASE result[p] # "Ok" /\ live' = live
        <5>1. ~InTransit(r)
            BY <1>1, <1>3, <4>1 DEF InTransit
        <5>2. QED
            BY <1>3, <4>1, <5>1 DEF IInv, NothingLeaks
      <4>2. QED
          BY <1>6, <4>1
    <3>6. QED
        BY <1>1, <1>3, <1>5, <2>1, <2>2, <3>1, <3>2, <3>3, <3>4, <3>5, LeaksStep
  <2>4. ClosedIsQuiet' /\ VerdictHolds'
      BY <1>1, <1>5, <2>1 DEF IInv, ClosedIsQuiet, VerdictHolds
  <2>5. CallInv' /\ OpenInv'
      BY <1>1, <1>5, <2>1 DEF IInv, CallInv, OpenInv, Completions
  <2>6. ChildInv' /\ EndInv' /\ CancelInv'
      BY <1>1, <1>5, <2>1 DEF IInv, ChildInv, EndInv, CancelInv
  <2>7. PollInv'
      BY <1>1, <1>5 DEF IInv, PollInv
  <2>8. QED
      BY <2>3, <2>4, <2>5, <2>6, <2>7 DEF IInv
<1>7. CASE /\ result[p] = "Ok" /\ ~Orphaned(p)
           /\ operator' = [operator EXCEPT ![r] = call[p].by]
           /\ state' = [state EXCEPT ![r] = "Open"]
           /\ held' = held \cup {r} /\ registered' = registered \cup {r} /\ live' = live
  <2>1. /\ operator' \in [Children -> Operators \cup {None}]
        /\ state' \in [Children -> States]
        /\ \A x \in Children : operator'[x] = IF x = r THEN call[p].by ELSE operator[x]
        /\ \A x \in Children : state'[x] = IF x = r THEN "Open" ELSE state[x]
      BY <1>3, <1>7, Types DEF States
  <2>2. TypeOK'
    <3>1. held' \subseteq Children /\ registered' \subseteq Children
        BY <1>3, <1>7, Types
    <3>2. QED
        BY <1>1, <1>4, <1>7, <2>1, <3>1, Types, Zenon DEF TypeOK
  <2>3. operators[call[p].by] = "Open" /\ ~closed
      BY <1>7 DEF Orphaned
  <2>4. NothingLeaks'
    <3>1. held = registered
        BY DEF IInv, NothingLeaks
    <3>2. r \in live
      <4>1. InTransit(r)
          BY <1>1, <1>7, <2>3 DEF InTransit
      <4>2. QED
          BY <1>3, <4>1 DEF IInv, NothingLeaks
    <3>3. \A x \in Children : x # r => (InTransit(x)' <=> InTransit(x))
        BY <1>1, <1>5 DEF InTransit
    <3>4. \A x \in Children : x # r => (x \in held' <=> x \in held) /\ state'[x] = state[x]
        BY <1>7, <2>1
    <3>5. r \in held' /\ state'[r] = "Open" /\ held' = registered'
        BY <1>3, <1>7, <2>1, <3>1
    <3>6. QED
        BY <1>1, <1>5, <1>7, <2>2, <3>2, <3>3, <3>4, <3>5, LeaksStep
  <2>5. ClosedIsQuiet'
      BY <1>1, <1>3, <1>5, <2>1, <2>3 DEF IInv, ClosedIsQuiet
  <2>6. VerdictHolds'
      BY <1>1, <1>3, <1>5, <2>1 DEF IInv, VerdictHolds
  <2>7. CallInv'
      BY <1>1, <1>3, <1>5, <2>1 DEF IInv, CallInv, Completions
  <2>8. OpenInv'
    <3>1. SUFFICES ASSUME NEW x \in Calls, IsOpen(x),
                          place'[x] \in {"Polling", "Settled", "Unwrapping"}
          PROVE  /\ state'[call[x].on] = "Absent"
                 /\ \A q \in Calls : q # x /\ call[q].on = call[x].on => place'[q] \in {"Told", "Done"}
        BY <1>1, <1>5 DEF OpenInv
    <3>2. x # p /\ place[x] = place'[x] /\ call[x].on # r /\ call[x].on \in Children
        BY <1>3, <1>5, <3>1 DEF IInv, CallInv
    <3>3. QED
        BY <1>5, <2>1, <3>1, <3>2 DEF IInv, OpenInv
  <2>9. ChildInv'
      BY <1>1, <1>3, <1>5, <2>1 DEF IInv, ChildInv
  <2>10. EndInv'
      BY <1>1, <1>5 DEF IInv, EndInv
  <2>11. CancelInv'
      BY <1>1, <1>3, <1>5, <2>1 DEF IInv, CancelInv
  <2>12. PollInv'
      BY <1>1, <1>5 DEF IInv, PollInv
  <2>13. QED
      BY <2>4, <2>5, <2>6, <2>7, <2>8, <2>9, <2>10, <2>11, <2>12 DEF IInv
<1>8. QED
    BY <1>2, <1>6, <1>7

-----------------------------------------------------------------------------
(* A call on a child is answered *)

\* Call p on child r is answered with res and is known as c.  The child goes to
\* state s, which ends it unless s is the state it is in: refused calls, resumed
\* operations and unwrapped ends are of this form.
Answers(p, r, c, where, res, s) ==
    /\ r \in Children /\ state[r] # "Absent"
    /\ place[p] \in {"Unused", "Settled", "Unwrapping"} /\ ~IsOpen(p)
    /\ place[p] = "Unused" \/ call[p] = c
    /\ c.what \in CallsOf(r) /\ c.by \in Operators /\ c.on = r
    /\ \A x \in Calls : call'[x] = IF x = p THEN c ELSE call[x]
    /\ \A x \in Calls : place'[x] = IF x = p THEN where ELSE place[x]
    /\ \A x \in Calls : result'[x] = IF x = p THEN res ELSE result[x]
    /\ \A x \in Children : state'[x] = IF x = r THEN s ELSE state[x]
    /\ \/ s = state[r] /\ held' = held /\ registered' = registered /\ live' = live
       \/ /\ s \in {"Failed", "Finished", "Aborted", "End"}
          /\ state[r] = "Open" \/ (s = "End" /\ r \in Cursors)
          /\ held' = held \ {r} /\ registered' = registered \ {r} /\ live' = live \ Released(r)
          /\ \A x \in Calls : call[x].on = r => ~Polling(x)
    /\ \/ active' = active /\ place[p] # "Settled"
       \/ active[r] = p /\ \A x \in Children : active'[x] = IF x = r THEN None ELSE active[x]
    /\ \/ /\ where = "Told"
          /\ c.what = "finish" /\ res = "Ok" => s \in {"Finished", "Closed"}
          /\ c.what = "abort" /\ res = "Ok" => s \in {"Aborted", "Closed"}
          /\ res = "End" => s \in {"End", "Closed"}
          /\ res = "Cancelled" => s # "Open"
       \/ /\ where = "Unwrapping" /\ Unwraps(c.what)
          /\ res = "End" => task[p] = "End"
          /\ res = "Cancelled" => s # "Open"
    /\ UNCHANGED <<operators, closed, activeTasks, operator, task, ended, timers>>

\* Every step of that form keeps the invariant.
LEMMA AnswersInv ==
    ASSUME IInv, NEW p \in Calls, NEW r, NEW c, NEW where, NEW res, NEW s,
           Answers(p, r, c, where, res, s), TypeOK'
    PROVE  IInv'
<1>1. /\ r \in Children /\ state[r] # "Absent" /\ operator[r] \in Operators
      /\ r \notin Calls \cup Operators /\ ~InTransit(r)
      /\ \A q \in Calls : IsOpen(q) /\ place[q] \in {"Polling", "Settled", "Unwrapping"} =>
            call[q].on # r /\ q # p
  <2>1. r \in Children /\ state[r] # "Absent" /\ ~IsOpen(p)
      BY DEF Answers
  <2>2. \A q \in Calls : IsOpen(q) /\ place[q] \in {"Polling", "Settled", "Unwrapping"} =>
            call[q].on # r /\ q # p
      BY <2>1 DEF IInv, OpenInv
  <2>3. QED
      BY <2>1, <2>2, NamesAssumption DEF IInv, ChildInv, InTransit
<1>2. /\ operators' = operators /\ closed' = closed /\ activeTasks' = activeTasks
      /\ operator' = operator /\ task' = task /\ ended' = ended /\ timers' = timers
      /\ \A x \in Calls : x # p => call'[x] = call[x] /\ place'[x] = place[x] /\ result'[x] = result[x]
      /\ call'[p] = c /\ place'[p] = where /\ result'[p] = res /\ where \in {"Told", "Unwrapping"}
      /\ \A x \in Children : x # r => state'[x] = state[x]
      /\ state'[r] = s /\ place[p] \in {"Unused", "Settled", "Unwrapping"} /\ ~IsOpen(p)
    BY <1>1 DEF Answers
<1>3. /\ \A x \in Calls : x # p => /\ Polling(x)' <=> Polling(x)
                                   /\ OnChild(x)' <=> OnChild(x)
                                   /\ IsOpen(x)' <=> IsOpen(x)
      /\ ~Polling(p) /\ ~Polling(p)'
    BY <1>2 DEF Polling, OnChild, IsOpen
<1>4. c.what \in CallsOf(r) /\ c.what \in {"next", "write", "finish", "abort"}
      /\ c.by \in Operators /\ c.on = r /\ OnChild(p)' /\ ~IsOpen(p)'
    BY <1>2 DEF Answers, CallsOf, OnChild, IsOpen
<1>5. place[p] = "Unused" \/ (call[p] = c /\ OnChild(p))
    BY <1>4 DEF Answers, OnChild
<1>6. \/ s = state[r]
      \/ /\ s \in {"Failed", "Finished", "Aborted", "End"}
         /\ state[r] = "Open" \/ (s = "End" /\ r \in Cursors)
         /\ \A x \in Calls : call[x].on = r => ~Polling(x)
    BY DEF Answers
<1>7. /\ \A x \in Children : state[x] # "Absent" <=> state'[x] # "Absent"
      /\ \A x \in Children : state'[x] = "Open" => state[x] = "Open"
      /\ \A x \in Children : state'[x] = "Closed" => state[x] = "Closed"
    BY <1>1, <1>2, <1>6
<1>8. /\ \A x \in Children : active'[x] # active[x] => x = r /\ active[r] = p
      /\ place[p] = "Settled" => active[r] = p
    BY DEF Answers
<1>9. NothingLeaks'
  <2>1. held = registered
      BY DEF IInv, NothingLeaks
  <2>2. \A x \in Calls \cup Operators : x \in live' <=> x \in live
      BY <1>1 DEF Answers, Released
  <2>3. \A x \in Children : InTransit(x)' <=> InTransit(x)
    <3>1. \A x \in Children, q \in Calls :
              IsOpen(q)' /\ call'[q].on = x /\ result'[q] = "Ok" /\ place'[q] \in {"Settled", "Unwrapping"}
              <=> IsOpen(q) /\ call[q].on = x /\ result[q] = "Ok" /\ place[q] \in {"Settled", "Unwrapping"}
        BY <1>2, <1>3, <1>4
    <3>2. QED
        BY <1>2, <3>1 DEF InTransit
  <2>4. CASE s = state[r] /\ held' = held /\ registered' = registered /\ live' = live
      BY <1>2, <1>3, <2>1, <2>2, <2>3, <2>4, LeaksStep
  <2>5. CASE /\ s \in {"Failed", "Finished", "Aborted", "End"}
             /\ held' = held \ {r} /\ registered' = registered \ {r} /\ live' = live \ Released(r)
    <3>1. r \in live => r \in held
        BY <1>1 DEF IInv, NothingLeaks
    <3>2. r \notin live' /\ r \notin held' /\ state'[r] # "Open"
        BY <1>2, <2>5, <3>1 DEF Released
    <3>3. \A x \in Children : x # r => (x \in live' <=> x \in live) /\ (x \in held' <=> x \in held)
        BY <2>5 DEF Released
    <3>4. \A x \in Calls : Polling(x)' <=> Polling(x)
        BY <1>3
    <3>5. held' = registered'
        BY <2>1, <2>5
    <3>6. /\ \A x \in Children : (x \in live' <=> x \in held' \/ InTransit(x)') \/
                                 /\ x \in live' <=> x \in live
                                 /\ x \in held' <=> x \in held
                                 /\ InTransit(x)' <=> InTransit(x)
          /\ \A x \in Children : (x \in held' <=> state'[x] = "Open") \/
                                 /\ x \in held' <=> x \in held
                                 /\ state'[x] = state[x]
        BY <1>1, <1>2, <2>3, <3>2, <3>3
    <3>7. QED
        BY <1>2, <2>2, <3>4, <3>5, <3>6, LeaksStep
  <2>6. QED
      BY <2>4, <2>5 DEF Answers
<1>10. ClosedIsQuiet'
  <2>1. \A x \in Children : state'[x] = "Open" => operators'[operator'[x]] = "Open" /\ ~closed'
      BY <1>2, <1>7 DEF IInv, ClosedIsQuiet
  <2>2. ASSUME NEW x \in Calls, Polling(x)'
        PROVE  /\ operators'[call'[x].by] = "Open" /\ ~closed'
               /\ OnChild(x)' => active'[call'[x].on] = x /\ state'[call'[x].on] # "Closed"
               /\ ~OnChild(x)' => x \in activeTasks'
    <3>1. x # p /\ Polling(x) /\ (OnChild(x) => call[x].on \in Children)
        BY <1>3, <2>2 DEF IInv, CallInv
    <3>2. /\ operators[call[x].by] = "Open" /\ ~closed
          /\ OnChild(x) => active[call[x].on] = x /\ state[call[x].on] # "Closed"
          /\ ~OnChild(x) => x \in activeTasks
        BY <3>1 DEF IInv, ClosedIsQuiet
    <3>3. QED
        BY <1>2, <1>3, <1>7, <1>8, <3>1, <3>2
  <2>3. QED
      BY <2>1, <2>2 DEF ClosedIsQuiet
<1>11. VerdictHolds'
  <2>1. ASSUME NEW x \in Calls, x # p, OnChild(x), place[x] \in {"Told", "Done"}
        PROVE  /\ call[x].what = "finish" /\ result[x] = "Ok" => state'[call[x].on] \in {"Finished", "Closed"}
               /\ call[x].what = "abort" /\ result[x] = "Ok" => state'[call[x].on] \in {"Aborted", "Closed"}
               /\ result[x] = "End" => state'[call[x].on] \in {"End", "Closed"}
               /\ result[x] = "Cancelled" => state'[call[x].on] # "Open"
    <3>1. /\ call[x].what = "finish" /\ result[x] = "Ok" => state[call[x].on] \in {"Finished", "Closed"}
          /\ call[x].what = "abort" /\ result[x] = "Ok" => state[call[x].on] \in {"Aborted", "Closed"}
          /\ result[x] = "End" => state[call[x].on] \in {"End", "Closed"}
          /\ result[x] = "Cancelled" => state[call[x].on] # "Open"
        BY <2>1 DEF IInv, VerdictHolds
    <3>2. call[x].on \in Children /\ call[x].what \in CallsOf(call[x].on)
        BY <2>1 DEF IInv, CallInv
    <3>3. CASE call[x].on # r \/ s = state[r]
        BY <1>2, <3>1, <3>2, <3>3
    <3>4. CASE call[x].on = r /\ s \in {"Failed", "Finished", "Aborted", "End"} /\ state[r] = "Open"
        BY <1>2, <3>1, <3>4
    <3>5. CASE call[x].on = r /\ s = "End" /\ r \in Cursors
        BY <1>2, <3>1, <3>2, <3>5 DEF CallsOf
    <3>6. QED
        BY <1>6, <3>3, <3>4, <3>5
  <2>2. where = "Told" =>
          /\ c.what = "finish" /\ res = "Ok" => s \in {"Finished", "Closed"}
          /\ c.what = "abort" /\ res = "Ok" => s \in {"Aborted", "Closed"}
          /\ res = "End" => s \in {"End", "Closed"}
          /\ res = "Cancelled" => s # "Open"
      BY DEF Answers
  <2>3. QED
      BY <1>2, <1>3, <1>4, <2>1, <2>2 DEF VerdictHolds
<1>12. CallInv'
  <2>1. where = "Unwrapping" => Unwraps(c.what)
      BY DEF Answers
  <2>2. task[p] # "Pending" => task[p] \in {"Ok", "Err"} \cup (IF c.what = "next" THEN {"End"} ELSE {})
      BY <1>5 DEF IInv, CallInv, Completions
  <2>3. QED
      BY <1>1, <1>2, <1>3, <1>4, <1>7, <2>1, <2>2 DEF IInv, CallInv, Completions
<1>13. OpenInv'
    BY <1>1, <1>2, <1>3, <1>4, <1>7 DEF IInv, CallInv, OpenInv
<1>14. ChildInv'
  <2>1. \A x \in Children : state'[x] # "Absent" => operator'[x] \in Operators
      BY <1>2, <1>7 DEF IInv, ChildInv
  <2>2. ASSUME NEW x \in Calls, OnChild(x)'
        PROVE  /\ place'[x] \in {"Polling", "Settled"} => active'[call'[x].on] = x
               /\ Polling(x)' => state'[call'[x].on] = "Open" /\ operator'[call'[x].on] = call'[x].by
    <3>1. CASE x = p
        BY <1>2, <1>3, <3>1
    <3>2. CASE x # p
      <4>1. OnChild(x) /\ call[x].on \in Children /\ call'[x] = call[x] /\ place'[x] = place[x]
          BY <1>2, <1>3, <2>2, <3>2 DEF IInv, CallInv
      <4>2. /\ place[x] \in {"Polling", "Settled"} => active[call[x].on] = x
            /\ Polling(x) => state[call[x].on] = "Open" /\ operator[call[x].on] = call[x].by
          BY <4>1 DEF IInv, ChildInv
      <4>3. place[x] \in {"Polling", "Settled"} => active'[call[x].on] = x
          BY <1>8, <3>2, <4>1, <4>2
      <4>4. Polling(x) => state'[call[x].on] = "Open"
          BY <1>2, <1>6, <4>1, <4>2
      <4>5. QED
          BY <1>2, <1>3, <3>2, <4>1, <4>2, <4>3, <4>4
    <3>3. QED
        BY <3>1, <3>2
  <2>3. QED
      BY <2>1, <2>2 DEF ChildInv
<1>15. EndInv'
  <2>1. task[p] = "End" => call[p] = c
    <3>1. place[p] = "Unused" => task[p] # "End"
        BY DEF IInv, CallInv, Completions
    <3>2. QED
        BY <1>5, <3>1
  <2>2. \A x \in Calls : task[x] = "End" => call'[x] = call[x]
      BY <1>2, <2>1
  <2>3. where = "Unwrapping" /\ res = "End" => task[p] = "End"
      BY DEF Answers
  <2>4. QED
      BY <1>2, <1>3, <2>2, <2>3 DEF IInv, EndInv
<1>16. CancelInv'
  <2>1. where = "Unwrapping" /\ res = "Cancelled" => s # "Open"
      BY DEF Answers
  <2>2. \A x \in Calls : OnChild(x) => call[x].on \in Children
      BY DEF IInv, CallInv
  <2>3. QED
      BY <1>2, <1>3, <1>4, <1>7, <2>1, <2>2 DEF IInv, CancelInv
<1>17. PollInv'
  <2>1. \A x \in Calls : Polling(x)' <=> Polling(x)
      BY <1>3
  <2>2. QED
      BY <1>2, <2>1 DEF IInv, PollInv
<1>18. QED
    BY <1>9, <1>10, <1>11, <1>12, <1>13, <1>14, <1>15, <1>16, <1>17 DEF IInv

\* The types of what an answer changes.
LEMMA AnswersType ==
    ASSUME IInv, NEW p \in Calls, NEW where \in Places, NEW res \in Outcomes,
           NEW q \in Seq(Microtasks), Moves(p, where, res, q),
           UNCHANGED <<operators, closed, activeTasks, operator, task, ended, timers, running>>,
           active' \in [Children -> Calls \cup {None}], state' \in [Children -> States],
           call' \in [Calls -> [what : {"none", "read", "open", "next", "write", "finish", "abort"},
                                by : Operators \cup {None}, on : Children \cup {None}]],
           held' \subseteq held, registered' \subseteq registered, live' \subseteq live
    PROVE  /\ TypeOK'
           /\ \A x \in Calls : place'[x] = IF x = p THEN where ELSE place[x]
           /\ \A x \in Calls : result'[x] = IF x = p THEN res ELSE result[x]
<1>1. /\ place' \in [Calls -> Places] /\ result' \in [Calls -> Outcomes]
      /\ queue' \in Seq({"poll", "go"} \X Calls)
      /\ \A x \in Calls : place'[x] = IF x = p THEN where ELSE place[x]
      /\ \A x \in Calls : result'[x] = IF x = p THEN res ELSE result[x]
    BY MovesFacts, Types
<1>2. /\ held' \subseteq Children /\ registered' \subseteq Children
      /\ live' \subseteq Calls \cup Operators \cup Children
    BY Types DEF TypeOK
<1>3. TypeOK'
    BY <1>1, <1>2, Types, Zenon DEF TypeOK
<1>4. QED
    BY <1>1, <1>3

\* The operation of a child resumes: an error ends the child, a finish or abort
\* does if it succeeds, and a success is not one if the child was closed meanwhile.
LEMMA ResumeChildInv ==
    ASSUME IInv, NEW p \in Calls, ResumeChild(p)
    PROVE  IInv'
<1> DEFINE r == call[p].on
           what == call[p].what
           Does(where, res, s) ==
              /\ Moves(p, where, res, Tail(queue))
              /\ \/ s = state[r] /\ KeepsState /\ live' = live
                 \/ /\ s \in {"Failed", "Finished", "Aborted"} /\ state[r] = "Open"
                    /\ FinishState(r, s) /\ live' = live \ Released(r)
           True(where, res, s) ==
              \/ /\ where = "Told"
                 /\ what = "finish" /\ res = "Ok" => s \in {"Finished", "Closed"}
                 /\ what = "abort" /\ res = "Ok" => s \in {"Aborted", "Closed"}
                 /\ res = "End" => s \in {"End", "Closed"}
                 /\ res = "Cancelled" => s # "Open"
              \/ /\ where = "Unwrapping" /\ Unwraps(what)
                 /\ res = "End" => task[p] = "End"
                 /\ res = "Cancelled" => s # "Open"
<1>1. /\ place[p] = "Settled" /\ OnChild(p) /\ queue # <<>>
      /\ active' = [active EXCEPT ![r] = IF @ = p THEN None ELSE @]
      /\ UNCHANGED <<operators, closed, activeTasks, operator, call, task, ended, timers, running>>
    BY DEF ResumeChild, Runs
<1>2. /\ r \in Children /\ state[r] # "Absent" /\ active[r] = p /\ ~IsOpen(p)
      /\ what \in CallsOf(r) /\ call[p].by \in Operators
      /\ result[p] \in {task[p], "Cancelled"} /\ result[p] \in Outcomes
      /\ task[p] # "Pending" => task[p] \in Completions(p)
      /\ what \in {"next", "write", "finish", "abort"}
  <2>1. result[p] \in Outcomes
      BY Types
  <2>2. QED
      BY <1>1, <2>1 DEF IInv, CallInv, ChildInv, OnChild, IsOpen
<1>3. result[p] = "End" => task[p] = "End" /\ what = "next"
    BY <1>2 DEF Completions
<1>4. Awaited(what) = IF what = "next" THEN "Unwrapping" ELSE "Told"
    BY <1>2, SMTT(60) DEF Awaited, Unwraps
<1>5. PICK where \in Places, res \in Outcomes, s \in {state[r], "Failed", "Finished", "Aborted"} :
          Does(where, res, s) /\ True(where, res, s)
  <2>1. {"Told", "Unwrapping"} \subseteq Places /\ "Closed" \in Outcomes /\ Awaited(what) \in Places
      BY <1>4 DEF Places, Outcomes
  <2>2. CASE /\ Breaks(r, result[p])
             /\ FinishState(r, "Failed")
             /\ live' = live \ Released(r)
             /\ Moves(p, Awaited(what), result[p], Tail(queue))
    <3>1. Does(Awaited(what), result[p], "Failed")
        BY <2>2 DEF Breaks
    <3>2. True(Awaited(what), result[p], "Failed")
        BY <1>3, <1>4, <2>2 DEF Breaks, Good, Unwraps
    <3>3. QED
        BY <1>2, <2>1, <3>1, <3>2
  <2>3. CASE /\ result[p] \notin Good /\ ~Breaks(r, result[p])
             /\ KeepsState /\ UNCHANGED live
             /\ Moves(p, Awaited(what), result[p], Tail(queue))
    <3>1. Does(Awaited(what), result[p], state[r])
        BY <2>3
    <3>2. True(Awaited(what), result[p], state[r])
        BY <1>3, <1>4, <2>3 DEF Breaks, Good, Unwraps
    <3>3. QED
        BY <1>2, <2>1, <3>1, <3>2
  <2>4. CASE /\ result[p] \in Good /\ ~StillUsable(r)
             /\ KeepsState /\ UNCHANGED live
             /\ Moves(p, Awaited(what), "Closed", Tail(queue))
    <3>1. Does(Awaited(what), "Closed", state[r])
        BY <2>4
    <3>2. True(Awaited(what), "Closed", state[r])
        BY <1>4 DEF Unwraps
    <3>3. QED
        BY <2>1, <3>1, <3>2
  <2>5. CASE /\ result[p] \in Good /\ StillUsable(r) /\ what \in {"finish", "abort"}
             /\ FinishState(r, SuccessState(what))
             /\ live' = live \ Released(r)
             /\ Moves(p, "Told", result[p], Tail(queue))
    <3>1. Does("Told", result[p], SuccessState(what))
        BY <2>5 DEF StillUsable, Usable, SuccessState
    <3>2. True("Told", result[p], SuccessState(what))
        BY <1>3, <2>5 DEF SuccessState, Good
    <3>3. SuccessState(what) \in {"Finished", "Aborted"}
        BY DEF SuccessState
    <3>4. QED
        BY <1>2, <2>1, <3>1, <3>2, <3>3
  <2>6. CASE /\ result[p] \in Good /\ StillUsable(r) /\ what \notin {"finish", "abort"}
             /\ KeepsState /\ UNCHANGED live
             /\ Moves(p, Awaited(what), result[p], Tail(queue))
    <3>1. Does(Awaited(what), result[p], state[r])
        BY <2>6
    <3>2. True(Awaited(what), result[p], state[r])
        BY <1>3, <1>4, <2>6 DEF Good, Unwraps
    <3>3. QED
        BY <1>2, <2>1, <3>1, <3>2
  <2>7. QED
      BY <2>2, <2>3, <2>4, <2>5, <2>6 DEF ResumeChild
<1>6. /\ state' \in [Children -> States]
      /\ \A x \in Children : state'[x] = IF x = r THEN s ELSE state[x]
      /\ \/ s = state[r] /\ held' = held /\ registered' = registered /\ live' = live
         \/ /\ s \in {"Failed", "Finished", "Aborted"} /\ state[r] = "Open"
            /\ held' = held \ {r} /\ registered' = registered \ {r} /\ live' = live \ Released(r)
  <2>1. CASE s = state[r] /\ KeepsState /\ live' = live
      BY <2>1, <1>2, Types DEF KeepsState
  <2>2. CASE /\ s \in {"Failed", "Finished", "Aborted"} /\ state[r] = "Open"
             /\ FinishState(r, s) /\ live' = live \ Released(r)
    <3>1. s \in States
        BY <2>2 DEF States
    <3>2. QED
        BY <1>2, <2>2, <3>1, Types DEF FinishState
  <2>3. QED
      BY <1>5, <2>1, <2>2
<1>7. /\ active' \in [Children -> Calls \cup {None}]
      /\ \A x \in Children : active'[x] = IF x = r THEN None ELSE active[x]
    BY <1>1, <1>2, Types
<1>8. Tail(queue) \in Seq(Microtasks)
    BY <1>1, Types, QueueType DEF TypeOK, Microtasks
<1>9. \A x \in Calls : call[x].on = r => ~Polling(x)
  <2>1. \A x \in Calls : call[x].on = r /\ Polling(x) => OnChild(x) /\ x # p
      BY <1>1, <1>2, NamesAssumption DEF IInv, CallInv, OpenInv, Polling
  <2>2. \A x \in Calls : OnChild(x) /\ Polling(x) => active[call[x].on] = x
      BY DEF IInv, ChildInv, Polling
  <2>3. QED
      BY <1>2, <2>1, <2>2
<1>10. /\ TypeOK'
       /\ \A x \in Calls : place'[x] = IF x = p THEN where ELSE place[x]
       /\ \A x \in Calls : result'[x] = IF x = p THEN res ELSE result[x]
  <2>1. held' \subseteq held /\ registered' \subseteq registered /\ live' \subseteq live
      BY <1>6
  <2>2. call' \in [Calls -> [what : {"none", "read", "open", "next", "write", "finish", "abort"},
                             by : Operators \cup {None}, on : Children \cup {None}]]
      BY <1>1, Types
  <2>3. QED
      BY <1>1, <1>5, <1>6, <1>7, <1>8, <2>1, <2>2, AnswersType, ZenonT(60)
<1>11. Answers(p, r, call[p], where, res, s)
  <2>1. True(where, res, s)
      BY <1>5
  <2>2. call' = call /\ UNCHANGED <<operators, closed, activeTasks, operator, task, ended, timers>>
      BY <1>1
  <2>3. /\ place[p] \in {"Unused", "Settled", "Unwrapping"}
        /\ \A x \in Calls : call'[x] = IF x = p THEN call[p] ELSE call[x]
      BY <1>1, <2>2
  <2>4. \/ s = state[r] /\ held' = held /\ registered' = registered /\ live' = live
        \/ /\ s \in {"Failed", "Finished", "Aborted", "End"}
           /\ state[r] = "Open" \/ (s = "End" /\ r \in Cursors)
           /\ held' = held \ {r} /\ registered' = registered \ {r} /\ live' = live \ Released(r)
           /\ \A x \in Calls : call[x].on = r => ~Polling(x)
      BY <1>6, <1>9
  <2>5. QED
      BY <1>2, <1>6, <1>7, <1>10, <2>1, <2>2, <2>3, <2>4 DEF Answers
<1>12. QED
    BY <1>10, <1>11, AnswersInv

\* The end of the data ends the cursor, whatever the cursor is by then.
LEMMA UnwrapNextInv ==
    ASSUME IInv, NEW p \in Calls, UnwrapNext(p)
    PROVE  IInv'
<1> DEFINE r == call[p].on
<1>1. /\ place[p] = "Unwrapping" /\ ~IsOpen(p) /\ queue # <<>>
      /\ \/ result[p] # "End" /\ KeepsState /\ UNCHANGED live
         \/ result[p] = "End" /\ FinishState(r, "End") /\ live' = live \ Released(r)
      /\ Moves(p, "Told", result[p], Tail(queue))
      /\ UNCHANGED <<operators, closed, activeTasks, operator, active, call, task, ended,
                     timers, running>>
    BY DEF UnwrapNext, Runs
<1>2. /\ call[p].what = "next" /\ OnChild(p) /\ r \in Children /\ state[r] # "Absent"
      /\ call[p].what \in CallsOf(r) /\ call[p].by \in Operators /\ r \in Cursors
  <2>1. call[p].what = "next"
      BY <1>1 DEF IInv, CallInv, Unwraps, IsOpen
  <2>2. OnChild(p)
      BY <2>1 DEF OnChild
  <2>3. QED
      BY <1>1, <2>1, <2>2 DEF IInv, CallInv, CallsOf
<1>3. result[p] = "Cancelled" => state[r] # "Open"
    BY <1>1, <1>2 DEF IInv, CancelInv
<1>4. result[p] = "End" => \A x \in Calls : call[x].on = r => ~Polling(x)
  <2>1. SUFFICES ASSUME result[p] = "End", NEW x \in Calls, call[x].on = r, Polling(x)
        PROVE  FALSE
      OBVIOUS
  <2>2. task[p] = "End" /\ r \in ended
      BY <1>1, <2>1 DEF IInv, EndInv
  <2>3. OnChild(x) /\ x # p
      BY <1>1, <1>2, <2>1, NamesAssumption DEF IInv, CallInv, OpenInv, Polling
  <2>4. task[x] = "End"
      BY <2>1, <2>2, <2>3 DEF IInv, EndInv
  <2>5. QED
      BY <2>1, <2>2, <2>3, <2>4 DEF IInv, EndInv
<1>5. PICK s \in States :
          /\ \A x \in Children : state'[x] = IF x = r THEN s ELSE state[x]
          /\ state' \in [Children -> States]
          /\ \/ /\ result[p] # "End" /\ s = state[r]
                /\ held' = held /\ registered' = registered /\ live' = live
             \/ /\ result[p] = "End" /\ s = "End"
                /\ held' = held \ {r} /\ registered' = registered \ {r} /\ live' = live \ Released(r)
  <2>1. CASE result[p] # "End" /\ KeepsState /\ UNCHANGED live
      BY <1>2, <2>1, Types DEF KeepsState
  <2>2. CASE result[p] = "End" /\ FinishState(r, "End") /\ live' = live \ Released(r)
    <3>1. "End" \in States
        BY DEF States
    <3>2. QED
        BY <1>2, <2>2, <3>1, Types DEF FinishState
  <2>3. QED
      BY <1>1, <2>1, <2>2
<1>6. /\ TypeOK'
      /\ \A x \in Calls : place'[x] = IF x = p THEN "Told" ELSE place[x]
      /\ \A x \in Calls : result'[x] = IF x = p THEN result[p] ELSE result[x]
  <2>1. "Told" \in Places /\ result[p] \in Outcomes /\ Tail(queue) \in Seq(Microtasks)
      BY <1>1, Types, QueueType DEF Places, TypeOK, Microtasks
  <2>2. held' \subseteq held /\ registered' \subseteq registered /\ live' \subseteq live
      BY <1>5
  <2>3. /\ call' \in [Calls -> [what : {"none", "read", "open", "next", "write", "finish", "abort"},
                                by : Operators \cup {None}, on : Children \cup {None}]]
        /\ active' \in [Children -> Calls \cup {None}]
      BY <1>1, Types
  <2>4. QED
      BY <1>1, <1>5, <2>1, <2>2, <2>3, AnswersType
<1>7. Answers(p, r, call[p], "Told", result[p], s)
  <2>1. /\ call[p].what = "finish" /\ result[p] = "Ok" => s \in {"Finished", "Closed"}
        /\ call[p].what = "abort" /\ result[p] = "Ok" => s \in {"Aborted", "Closed"}
        /\ result[p] = "End" => s \in {"End", "Closed"}
        /\ result[p] = "Cancelled" => s # "Open"
      BY <1>2, <1>3, <1>5
  <2>2. /\ \A x \in Calls : call'[x] = IF x = p THEN call[p] ELSE call[x]
        /\ active' = active /\ place[p] # "Settled"
        /\ place[p] \in {"Unused", "Settled", "Unwrapping"}
        /\ UNCHANGED <<operators, closed, activeTasks, operator, task, ended, timers>>
      BY <1>1
  <2>3. \/ s = state[r] /\ held' = held /\ registered' = registered /\ live' = live
        \/ /\ s \in {"Failed", "Finished", "Aborted", "End"}
           /\ state[r] = "Open" \/ (s = "End" /\ r \in Cursors)
           /\ held' = held \ {r} /\ registered' = registered \ {r} /\ live' = live \ Released(r)
           /\ \A x \in Calls : call[x].on = r => ~Polling(x)
      BY <1>2, <1>4, <1>5
  <2>4. QED
      BY <1>1, <1>2, <1>5, <1>6, <2>1, <2>2, <2>3 DEF Answers
<1>8. QED
    BY <1>6, <1>7, AnswersInv

-----------------------------------------------------------------------------
(* A call is made *)

\* What a call that has not been made is.
LEMMA UnusedFacts ==
    ASSUME IInv, NEW p \in Calls, place[p] = "Unused"
    PROVE  /\ ~IsOpen(p) /\ ~OnChild(p) /\ ~Polling(p) /\ call[p].on = None
           /\ task[p] \in {"Pending", "Ok", "Err"}
BY DEF IInv, CallInv, IsOpen, OnChild, Polling, Completions

\* A call whose task was started polls, on its operator or as the one operation
\* of an open child.
LEMMA StartedInv ==
    ASSUME IInv, NEW p \in Calls, place[p] = "Unused", TypeOK', NEW c,
           c.by \in Operators, operators[c.by] = "Open", ~closed,
           \A x \in Calls : call'[x] = IF x = p THEN c ELSE call[x],
           \A x \in Calls : place'[x] = IF x = p THEN "Polling" ELSE place[x],
           result' = result, live' = live \cup {p},
           \/ /\ c.what \in {"next", "write", "finish", "abort"} /\ c.on \in Children
              /\ c.what \in CallsOf(c.on) /\ c.on \notin ended
              /\ state[c.on] = "Open" /\ operator[c.on] = c.by /\ active[c.on] = None
              /\ active' = [active EXCEPT ![c.on] = p] /\ activeTasks' = activeTasks
           \/ /\ c.what = "read" /\ c.on = None
              /\ active' = active /\ activeTasks' = activeTasks \cup {p}
           \/ /\ c.what = "open" /\ c.on \in Children /\ Fresh(c.on)
              /\ active' = active /\ activeTasks' = activeTasks \cup {p},
           UNCHANGED <<operators, closed, operator, state, held, registered, task, ended, timers>>
    PROVE  IInv'
<1>1. /\ operators' = operators /\ closed' = closed /\ operator' = operator /\ state' = state
      /\ held' = held /\ registered' = registered /\ task' = task /\ ended' = ended
      /\ timers' = timers
      /\ \A x \in Calls : x # p => call'[x] = call[x] /\ place'[x] = place[x]
      /\ \A x \in Calls : result'[x] = result[x]
      /\ call'[p] = c /\ place'[p] = "Polling" /\ activeTasks \subseteq activeTasks'
    OBVIOUS
<1>2. /\ ~IsOpen(p) /\ ~OnChild(p) /\ ~Polling(p) /\ call[p].on = None
      /\ task[p] \in {"Pending", "Ok", "Err"}
    BY UnusedFacts
<1>3. /\ \A x \in Calls : x # p => /\ Polling(x)' <=> Polling(x)
                                   /\ OnChild(x)' <=> OnChild(x)
                                   /\ IsOpen(x)' <=> IsOpen(x)
      /\ Polling(p)'
      /\ OnChild(p)' <=> c.what \in {"next", "write", "finish", "abort"}
      /\ IsOpen(p)' <=> c.what = "open"
    BY <1>1 DEF Polling, OnChild, IsOpen
<1>4. \A x \in Children : active'[x] = active[x] \/
          (x = c.on /\ active[x] = None /\ active'[x] = p /\ OnChild(p)')
    BY <1>3, Types
<1>5. OnChild(p)' => /\ c.on \in Children /\ c.what \in CallsOf(c.on) /\ c.on \notin ended
                     /\ state[c.on] = "Open" /\ operator[c.on] = c.by /\ active'[c.on] = p
    BY <1>3, Types
<1>6. ~OnChild(p)' => /\ p \in activeTasks'
                      /\ (c.what = "read" /\ c.on = None) \/ (c.what = "open" /\ c.on \in Children /\ Fresh(c.on))
    BY <1>3
<1>7. /\ \A x \in Calls : OnChild(x) => call[x].on \in Children
      /\ \A x \in Calls : IsOpen(x) => call[x].on \in Children
      /\ None \notin Children /\ None \notin Calls /\ p \notin Children /\ p \notin Operators
    BY NamesAssumption DEF IInv, CallInv
<1>8. NothingLeaks'
  <2>1. held = registered
      BY DEF IInv, NothingLeaks
  <2>2. \A r \in Children : InTransit(r)' <=> InTransit(r)
      BY <1>1, <1>2, <1>3 DEF InTransit
  <2>3. \A x \in Calls : (x \in live' <=> Polling(x)') \/
                         ((x \in live' <=> x \in live) /\ (Polling(x)' <=> Polling(x)))
      BY <1>3
  <2>4. \A x \in Children \cup Operators : x \in live' <=> x \in live
      BY <1>7
  <2>5. QED
      BY <1>1, <2>1, <2>2, <2>3, <2>4, LeaksStep
<1>9. ClosedIsQuiet'
  <2>1. ASSUME NEW x \in Calls, x # p, Polling(x)
        PROVE  /\ operators[call[x].by] = "Open" /\ ~closed
               /\ OnChild(x) => active'[call[x].on] = x /\ state[call[x].on] # "Closed"
               /\ ~OnChild(x) => x \in activeTasks'
    <3>1. /\ operators[call[x].by] = "Open" /\ ~closed
          /\ OnChild(x) => active[call[x].on] = x /\ state[call[x].on] # "Closed"
          /\ ~OnChild(x) => x \in activeTasks
        BY <2>1 DEF IInv, ClosedIsQuiet
    <3>2. QED
        BY <1>1, <1>4, <1>7, <3>1
  <2>2. \A r \in Children : state[r] = "Open" => operators[operator[r]] = "Open" /\ ~closed
      BY DEF IInv, ClosedIsQuiet
  <2>3. QED
      BY <1>1, <1>3, <1>5, <1>6, <2>1, <2>2 DEF ClosedIsQuiet
<1>10. VerdictHolds'
    BY <1>1, <1>3 DEF IInv, VerdictHolds
<1>11. CallInv'
  <2>1. task[p] # "Pending" => task[p] \in {"Ok", "Err"}
      BY <1>2
  <2>2. QED
      BY <1>1, <1>3, <1>5, <1>6, <2>1 DEF IInv, CallInv, Completions
<1>12. OpenInv'
  <2>1. ASSUME NEW x \in Calls, x # p, IsOpen(x), place[x] \in {"Polling", "Settled", "Unwrapping"}
        PROVE  /\ state[call[x].on] = "Absent" /\ call[x].on # c.on
               /\ \A q \in Calls : q # x /\ call[q].on = call[x].on => place[q] \in {"Told", "Done"}
    <3>1. /\ state[call[x].on] = "Absent"
          /\ \A q \in Calls : q # x /\ call[q].on = call[x].on => place[q] \in {"Told", "Done"}
        BY <2>1 DEF IInv, OpenInv
    <3>2. call[x].on # c.on
        BY <1>5, <1>6, <1>7, <2>1, <3>1 DEF Fresh
    <3>3. QED
        BY <3>1, <3>2
  <2>2. c.what = "open" => /\ state[c.on] = "Absent"
                           /\ \A q \in Calls : call[q].on = c.on => place[q] \in {"Told", "Done"}
      BY DEF Fresh
  <2>3. QED
      BY <1>1, <1>3, <2>1, <2>2 DEF OpenInv
<1>13. ChildInv'
  <2>1. ASSUME NEW x \in Calls, x # p, OnChild(x)
        PROVE  /\ place[x] \in {"Polling", "Settled"} => active'[call[x].on] = x
               /\ Polling(x) => state[call[x].on] = "Open" /\ operator[call[x].on] = call[x].by
      BY <1>4, <1>7, <2>1 DEF IInv, ChildInv
  <2>2. \A r \in Children : state[r] # "Absent" => operator[r] \in Operators
      BY DEF IInv, ChildInv
  <2>3. QED
      BY <1>1, <1>3, <1>5, <2>1, <2>2 DEF ChildInv
<1>14. EndInv'
    BY <1>1, <1>2, <1>3, <1>5 DEF IInv, EndInv
<1>15. CancelInv'
    BY <1>1, <1>3 DEF IInv, CancelInv
<1>16. PollInv'
  <2>1. {x \in Calls : Polling(x)'} = {x \in Calls : Polling(x)} \cup {p}
      BY <1>3
  <2>2. IsFiniteSet({x \in Calls : Polling(x)'})
    <3>1. IsFiniteSet({x \in Calls : Polling(x)})
        BY DEF IInv, PollInv
    <3>2. IsFiniteSet({x \in Calls : Polling(x)} \cup {p})
        BY <3>1, FS_AddElement
    <3>3. QED
        BY <2>1, <3>2
  <2>3. timers' \subseteq {x \in Calls : Polling(x)'}
      BY <1>1, <2>1 DEF IInv, PollInv
  <2>4. QED
      BY <2>2, <2>3 DEF PollInv
<1>17. QED
    BY <1>8, <1>9, <1>10, <1>11, <1>12, <1>13, <1>14, <1>15, <1>16 DEF IInv

\* A call of an operator that has no task: it was refused, or cancelled at once.
LEMMA RefusedInv ==
    ASSUME IInv, NEW p \in Calls, place[p] = "Unused", TypeOK', NEW c, NEW where, NEW res,
           c.by \in Operators,
           \/ c.what = "read" /\ c.on = None
           \/ c.what = "open" /\ c.on \in Children /\ Fresh(c.on),
           \/ where \in {"Told", Awaited(c.what)} /\ res \in {"Closed", "Err"}
           \/ where = "Settled" /\ res = "Cancelled",
           \A x \in Calls : call'[x] = IF x = p THEN c ELSE call[x],
           \A x \in Calls : place'[x] = IF x = p THEN where ELSE place[x],
           \A x \in Calls : result'[x] = IF x = p THEN res ELSE result[x],
           activeTasks \subseteq activeTasks',
           UNCHANGED <<operators, closed, operator, state, held, registered, active,
                       live, task, ended, timers>>
    PROVE  IInv'
<1>1. /\ operators' = operators /\ closed' = closed /\ operator' = operator /\ state' = state
      /\ held' = held /\ registered' = registered /\ active' = active /\ live' = live
      /\ task' = task /\ ended' = ended /\ timers' = timers
      /\ \A x \in Calls : x # p => call'[x] = call[x] /\ place'[x] = place[x] /\ result'[x] = result[x]
      /\ call'[p] = c /\ place'[p] = where /\ result'[p] = res
    OBVIOUS
<1>2. /\ ~IsOpen(p) /\ ~OnChild(p) /\ ~Polling(p) /\ call[p].on = None
      /\ task[p] \in {"Pending", "Ok", "Err"}
    BY UnusedFacts
<1>3. where \in {"Told", "Unwrapping", "Settled"} /\ (where = "Unwrapping" => Unwraps(c.what))
    BY DEF Awaited
<1>4. /\ \A x \in Calls : Polling(x)' <=> Polling(x)
      /\ \A x \in Calls : OnChild(x)' <=> OnChild(x)
      /\ \A x \in Calls : x # p => (IsOpen(x)' <=> IsOpen(x))
      /\ IsOpen(p)' <=> c.what = "open"
    BY <1>1, <1>2, <1>3 DEF Polling, OnChild, IsOpen
<1>5. /\ \A x \in Calls : OnChild(x) => call[x].on \in Children
      /\ \A x \in Calls : IsOpen(x) => call[x].on \in Children
      /\ None \notin Children
    BY NamesAssumption DEF IInv, CallInv
<1>6. NothingLeaks'
  <2>1. held = registered
      BY DEF IInv, NothingLeaks
  <2>2. \A r \in Children : InTransit(r)' <=> InTransit(r)
      BY <1>1, <1>2, <1>4 DEF InTransit
  <2>3. QED
      BY <1>1, <1>4, <2>1, <2>2, LeaksStep
<1>7. ClosedIsQuiet'
    BY <1>1, <1>2, <1>4 DEF IInv, ClosedIsQuiet
<1>8. VerdictHolds'
    BY <1>1, <1>2, <1>4 DEF IInv, VerdictHolds
<1>9. CallInv'
  <2>1. task[p] # "Pending" => task[p] \in {"Ok", "Err"}
      BY <1>2
  <2>2. where = "Settled" => res = "Cancelled"
      BY DEF Awaited
  <2>3. ~(c.what = "open") => c.on = None
      OBVIOUS
  <2>4. c.what = "open" => c.on \in Children
      BY <1>5
  <2>5. QED
      BY <1>1, <1>2, <1>3, <1>4, <2>1, <2>2, <2>3, <2>4 DEF IInv, CallInv, Completions
<1>10. OpenInv'
  <2>1. ASSUME NEW x \in Calls, x # p, IsOpen(x), place[x] \in {"Polling", "Settled", "Unwrapping"}
        PROVE  /\ state[call[x].on] = "Absent" /\ call[x].on # c.on
               /\ \A q \in Calls : q # x /\ call[q].on = call[x].on => place[q] \in {"Told", "Done"}
    <3>1. /\ state[call[x].on] = "Absent"
          /\ \A q \in Calls : q # x /\ call[q].on = call[x].on => place[q] \in {"Told", "Done"}
        BY <2>1 DEF IInv, OpenInv
    <3>2. call[x].on # c.on
        BY <1>5, <2>1 DEF Fresh
    <3>3. QED
        BY <3>1, <3>2
  <2>2. c.what = "open" => /\ state[c.on] = "Absent"
                           /\ \A q \in Calls : call[q].on = c.on => place[q] \in {"Told", "Done"}
      BY DEF Fresh
  <2>3. QED
      BY <1>1, <1>4, <2>1, <2>2 DEF OpenInv
<1>11. ChildInv'
    BY <1>1, <1>2, <1>4 DEF IInv, ChildInv
<1>12. EndInv'
  <2>1. where = "Unwrapping" => res # "End"
      OBVIOUS
  <2>2. QED
      BY <1>1, <1>2, <1>4, <2>1 DEF IInv, EndInv
<1>13. CancelInv'
    BY <1>1, <1>2, <1>4 DEF IInv, CancelInv
<1>14. PollInv'
    BY <1>1, <1>4 DEF IInv, PollInv
<1>15. QED
    BY <1>6, <1>7, <1>8, <1>9, <1>10, <1>11, <1>12, <1>13, <1>14 DEF IInv

\* read and the open methods up to their first await.
LEMMA OperatorCallInv ==
    ASSUME IInv, NEW p \in Calls, NEW o \in Operators, NEW what, NEW r, OperatorCall(p, o, what, r),
           \/ what = "read" /\ r = None
           \/ what = "open" /\ r \in Children /\ Fresh(r)
    PROVE  IInv'
<1> DEFINE c == [what |-> what, by |-> o, on |-> r]
<1>1. /\ Made(p, what, o, r)
      /\ \/ /\ \E res \in {"Closed", "Err"} : Moves(p, Awaited(what), res, queue)
            /\ UNCHANGED <<activeTasks, live>>
         \/ /\ operators[o] = "Open" /\ ~closed
            /\ Started(p) \/ (Moves(p, "Settled", "Cancelled", queue) /\ UNCHANGED live)
            /\ activeTasks' = activeTasks \cup {p}
      /\ UNCHANGED <<operators, closed, operator, state, held, registered, active,
                     task, ended, timers, running>>
    BY DEF OperatorCall
<1>2. what \in {"read", "open", "next", "write", "finish", "abort"} /\ r \in Children \cup {None}
    OBVIOUS
<1>3. /\ place[p] = "Unused"
      /\ call' \in [Calls -> [what : {"none", "read", "open", "next", "write", "finish", "abort"},
                              by : Operators \cup {None}, on : Children \cup {None}]]
      /\ \A x \in Calls : call'[x] = IF x = p THEN c ELSE call[x]
  <2>1. Made(p, what, o, r)
      BY <1>1
  <2>2. c \in [what : {"none", "read", "open", "next", "write", "finish", "abort"},
               by : Operators \cup {None}, on : Children \cup {None}]
      BY <1>2
  <2>3. QED
      BY <2>1, <2>2, Types DEF Made
<1>4. /\ c.what = what /\ c.by = o /\ c.on = r
      /\ \/ c.what = "read" /\ c.on = None
         \/ c.what = "open" /\ c.on \in Children /\ Fresh(c.on)
    OBVIOUS
<1>5. queue \in Seq(Microtasks)
    BY Types DEF TypeOK, Microtasks
<1>6. activeTasks \subseteq Calls /\ live \subseteq Calls \cup Operators \cup Children
    BY Types DEF TypeOK
<1> HIDE DEF c
<1>7. ASSUME NEW where \in Places, NEW res \in Outcomes, Moves(p, where, res, queue), live' = live,
             activeTasks' = activeTasks \/ activeTasks' = activeTasks \cup {p},
             \/ where \in {"Told", Awaited(what)} /\ res \in {"Closed", "Err"}
             \/ where = "Settled" /\ res = "Cancelled"
      PROVE  IInv'
  <2>1. /\ place' \in [Calls -> Places] /\ result' \in [Calls -> Outcomes]
        /\ queue' \in Seq({"poll", "go"} \X Calls)
        /\ \A x \in Calls : place'[x] = IF x = p THEN where ELSE place[x]
        /\ \A x \in Calls : result'[x] = IF x = p THEN res ELSE result[x]
      BY <1>5, <1>7, MovesFacts, Types
  <2>2. TypeOK'
    <3>1. activeTasks' \subseteq Calls
        BY <1>6, <1>7
    <3>2. QED
        BY <1>1, <1>3, <1>7, <2>1, <3>1, Types, Zenon DEF TypeOK
  <2>3. activeTasks \subseteq activeTasks'
      BY <1>7
  <2>4. /\ UNCHANGED <<operators, closed, operator, state, held, registered, active,
                       live, task, ended, timers>>
        /\ c.by \in Operators
        /\ \/ c.what = "read" /\ c.on = None
           \/ c.what = "open" /\ c.on \in Children /\ Fresh(c.on)
        /\ \/ where \in {"Told", Awaited(c.what)} /\ res \in {"Closed", "Err"}
           \/ where = "Settled" /\ res = "Cancelled"
      BY <1>1, <1>4, <1>7
  <2>5. QED
      BY <1>3, <2>1, <2>2, <2>3, <2>4, RefusedInv, ZenonT(60)
<1>8. CASE \E res \in {"Closed", "Err"} : Moves(p, Awaited(what), res, queue) /\ UNCHANGED <<activeTasks, live>>
  <2>1. {"Closed", "Err"} \subseteq Outcomes /\ Awaited(what) \in Places
      BY DEF Outcomes, Places, Awaited
  <2>2. QED
      BY <1>7, <1>8, <2>1
<1>9. CASE Moves(p, "Settled", "Cancelled", queue) /\ UNCHANGED live /\ activeTasks' = activeTasks \cup {p}
  <2>1. "Cancelled" \in Outcomes /\ "Settled" \in Places
      BY DEF Outcomes, Places
  <2>2. QED
      BY <1>7, <1>9, <2>1
<1>10. CASE operators[o] = "Open" /\ ~closed /\ Started(p) /\ activeTasks' = activeTasks \cup {p}
  <2>1. /\ place' \in [Calls -> Places]
        /\ \A x \in Calls : place'[x] = IF x = p THEN "Polling" ELSE place[x]
        /\ live' = live \cup {p} /\ result' = result /\ queue' = Append(queue, Poll(p))
      BY <1>10, Types DEF Started, Places
  <2>2. TypeOK'
    <3>1. queue' \in Seq({"poll", "go"} \X Calls)
        BY <1>5, <2>1, MicrotaskType, QueueType DEF Microtasks
    <3>2. activeTasks' \subseteq Calls /\ live' \subseteq Calls \cup Operators \cup Children
        BY <1>6, <1>10, <2>1
    <3>3. QED
        BY <1>1, <1>3, <2>1, <3>1, <3>2, Types, Zenon DEF TypeOK
  <2>3. \/ /\ c.what = "read" /\ c.on = None
           /\ active' = active /\ activeTasks' = activeTasks \cup {p}
        \/ /\ c.what = "open" /\ c.on \in Children /\ Fresh(c.on)
           /\ active' = active /\ activeTasks' = activeTasks \cup {p}
      BY <1>1, <1>4, <1>10
  <2>4. c.by \in Operators /\ operators[c.by] = "Open" /\ ~closed
      BY <1>4, <1>10
  <2>5. QED
      BY <1>1, <1>3, <2>1, <2>2, <2>3, <2>4, StartedInv, ZenonT(60)
<1>11. QED
    BY <1>1, <1>8, <1>9, <1>10

\* next, write, finish and abort up to their first await.
LEMMA ChildCallInv ==
    ASSUME IInv, NEW p \in Calls, NEW r \in Children, NEW what \in CallsOf(r), ChildCall(p, r, what)
    PROVE  IInv'
<1> DEFINE c == [what |-> what, by |-> operator[r], on |-> r]
<1>1. /\ state[r] # "Absent" /\ Made(p, what, operator[r], r)
      /\ UNCHANGED <<operators, closed, activeTasks, operator, task, ended, timers, running>>
    BY DEF ChildCall
<1>2. what \in {"next", "write", "finish", "abort"} /\ operator[r] \in Operators
    BY <1>1 DEF CallsOf, IInv, ChildInv
<1>3. /\ place[p] = "Unused"
      /\ call' \in [Calls -> [what : {"none", "read", "open", "next", "write", "finish", "abort"},
                              by : Operators \cup {None}, on : Children \cup {None}]]
      /\ \A x \in Calls : call'[x] = IF x = p THEN c ELSE call[x]
  <2>1. c \in [what : {"none", "read", "open", "next", "write", "finish", "abort"},
               by : Operators \cup {None}, on : Children \cup {None}]
      BY <1>2
  <2>2. QED
      BY <1>1, <2>1, Types DEF Made
<1>4. c.what = what /\ c.by = operator[r] /\ c.on = r
    OBVIOUS
<1> HIDE DEF c
<1>5. /\ queue \in Seq(Microtasks) /\ active \in [Children -> Calls \cup {None}]
      /\ state \in [Children -> States] /\ live \subseteq Calls \cup Operators \cup Children
    BY Types DEF TypeOK, Microtasks
<1>6. ~IsOpen(p) /\ ~OnChild(p) /\ place[p] \in {"Unused", "Settled", "Unwrapping"} /\ place[p] # "Settled"
    BY <1>3, UnusedFacts
<1>7. Awaited(what) = IF what = "next" THEN "Unwrapping" ELSE "Told"
    BY <1>2 DEF Awaited, Unwraps
<1>8. ASSUME NEW where \in Places, NEW res \in Outcomes, NEW s \in States,
             Moves(p, where, res, queue), active' = active,
             \/ s = state[r] /\ KeepsState /\ live' = live
             \/ /\ s = "Failed" /\ Admits(r)
                /\ FinishState(r, s) /\ live' = live \ Released(r),
             \/ /\ where = "Told"
                /\ what = "finish" /\ res = "Ok" => s \in {"Finished", "Closed"}
                /\ what = "abort" /\ res = "Ok" => s \in {"Aborted", "Closed"}
                /\ res = "End" => s \in {"End", "Closed"}
                /\ res = "Cancelled" => s # "Open"
             \/ /\ where = "Unwrapping" /\ what = "next" /\ res # "End"
                /\ res = "Cancelled" => s # "Open"
      PROVE  IInv'
  <2>1. /\ state' \in [Children -> States]
        /\ \A x \in Children : state'[x] = IF x = r THEN s ELSE state[x]
        /\ \/ s = state[r] /\ held' = held /\ registered' = registered /\ live' = live
           \/ /\ s = "Failed" /\ Admits(r)
              /\ held' = held \ {r} /\ registered' = registered \ {r} /\ live' = live \ Released(r)
    <3>1. CASE s = state[r] /\ KeepsState /\ live' = live
        BY <1>5, <3>1 DEF KeepsState
    <3>2. CASE /\ s = "Failed" /\ Admits(r)
               /\ FinishState(r, s) /\ live' = live \ Released(r)
        BY <1>5, <1>8, <3>2 DEF FinishState
    <3>3. QED
        BY <1>8, <3>1, <3>2
  <2>2. /\ TypeOK'
        /\ \A x \in Calls : place'[x] = IF x = p THEN where ELSE place[x]
        /\ \A x \in Calls : result'[x] = IF x = p THEN res ELSE result[x]
    <3>1. held' \subseteq held /\ registered' \subseteq registered /\ live' \subseteq live
        BY <2>1
    <3>2. active' \in [Children -> Calls \cup {None}]
        BY <1>5, <1>8
    <3>3. QED
        BY <1>1, <1>3, <1>5, <1>8, <2>1, <3>1, <3>2, AnswersType
  <2>3. \/ s = state[r] /\ held' = held /\ registered' = registered /\ live' = live
        \/ /\ s \in {"Failed", "Finished", "Aborted", "End"}
           /\ state[r] = "Open" \/ (s = "End" /\ r \in Cursors)
           /\ held' = held \ {r} /\ registered' = registered \ {r} /\ live' = live \ Released(r)
           /\ \A x \in Calls : call[x].on = r => ~Polling(x)
    <3>1. ASSUME Admits(r), NEW x \in Calls, call[x].on = r, Polling(x)
          PROVE  FALSE
      <4>1. state[r] = "Open" /\ active[r] = None
          BY <3>1 DEF Admits, Usable
      <4>2. ~IsOpen(x) /\ x # None /\ r # None
          BY <3>1, <4>1, NamesAssumption DEF IInv, OpenInv, Polling
      <4>3. OnChild(x)
          BY <3>1, <4>2 DEF IInv, CallInv
      <4>4. QED
          BY <3>1, <4>1, <4>2, <4>3 DEF IInv, ChildInv, Polling
    <3>2. Admits(r) => state[r] = "Open"
        BY DEF Admits, Usable
    <3>3. QED
        BY <2>1, <3>1, <3>2
  <2>4. \/ /\ where = "Told"
           /\ c.what = "finish" /\ res = "Ok" => s \in {"Finished", "Closed"}
           /\ c.what = "abort" /\ res = "Ok" => s \in {"Aborted", "Closed"}
           /\ res = "End" => s \in {"End", "Closed"}
           /\ res = "Cancelled" => s # "Open"
        \/ /\ where = "Unwrapping" /\ Unwraps(c.what)
           /\ res = "End" => task[p] = "End"
           /\ res = "Cancelled" => s # "Open"
      BY <1>4, <1>8 DEF Unwraps
  <2>5. UNCHANGED <<operators, closed, activeTasks, operator, task, ended, timers>>
      BY <1>1
  <2>6. c.what \in CallsOf(r) /\ c.by \in Operators /\ c.on = r
      BY <1>2, <1>4
  <2>7. Answers(p, r, c, where, res, s)
      BY <1>1, <1>3, <1>6, <1>8, <2>1, <2>2, <2>3, <2>4, <2>5, <2>6 DEF Answers
  <2>8. QED
      BY <2>2, <2>7, AnswersInv
<1>9. {"Told", "Unwrapping"} \subseteq Places /\ Outcomes = {"Ok", "End", "Pending", "Err", "Cancelled", "Closed", "Busy"}
      /\ state[r] \in States /\ "Failed" \in States
    BY <1>5 DEF Places, Outcomes, Good, States
<1>10. CASE /\ Stable(r, what)
            /\ Moves(p, "Told", IF what = "next" THEN "End" ELSE "Ok", queue)
            /\ KeepsState /\ UNCHANGED <<active, live>>
  <2>1. (what = "next" /\ state[r] = "End") \/ (what = "abort" /\ state[r] = "Aborted")
      BY <1>10 DEF Stable
  <2>2. QED
      BY <1>8, <1>9, <1>10, <2>1
<1>11. CASE /\ Moves(p, Awaited(what), IF Usable(r) THEN "Busy" ELSE "Closed", queue)
            /\ KeepsState /\ UNCHANGED <<active, live>>
    BY <1>7, <1>8, <1>9, <1>11
<1>12. CASE /\ Admits(r) /\ r \notin ended
            /\ Started(p)
            /\ active' = [active EXCEPT ![r] = p]
            /\ KeepsState
  <2>1. /\ place' \in [Calls -> Places]
        /\ \A x \in Calls : place'[x] = IF x = p THEN "Polling" ELSE place[x]
        /\ live' = live \cup {p} /\ result' = result /\ queue' = Append(queue, Poll(p))
      BY <1>12, Types DEF Started, Places
  <2>2. state[r] = "Open" /\ operators[operator[r]] = "Open" /\ ~closed /\ active[r] = None
      BY <1>12 DEF Admits, Usable
  <2>3. UNCHANGED <<operators, closed, operator, state, held, registered, task, ended, timers>>
        /\ activeTasks' = activeTasks /\ running' = running
      BY <1>1, <1>12 DEF KeepsState
  <2>4. TypeOK'
    <3>1. queue' \in Seq({"poll", "go"} \X Calls)
        BY <1>5, <2>1, MicrotaskType, QueueType DEF Microtasks
    <3>2. live' \subseteq Calls \cup Operators \cup Children /\ active' \in [Children -> Calls \cup {None}]
        BY <1>5, <1>12, <2>1
    <3>3. QED
        BY <1>3, <2>1, <2>3, <3>1, <3>2, Types, Zenon DEF TypeOK
  <2>5. /\ c.what \in {"next", "write", "finish", "abort"} /\ c.on \in Children
        /\ c.what \in CallsOf(c.on) /\ c.on \notin ended
        /\ state[c.on] = "Open" /\ operator[c.on] = c.by /\ active[c.on] = None
        /\ active' = [active EXCEPT ![c.on] = p] /\ activeTasks' = activeTasks
        /\ c.by \in Operators /\ operators[c.by] = "Open"
      BY <1>2, <1>4, <1>12, <2>2, <2>3
  <2>6. QED
      BY <1>3, <2>1, <2>2, <2>3, <2>4, <2>5, StartedInv
<1>13. CASE /\ Moves(p, Awaited(what), "Err", queue)
            /\ KeepsState /\ UNCHANGED <<active, live>>
    BY <1>7, <1>8, <1>9, <1>13
<1>14. CASE /\ Admits(r)
            /\ \E res \in {"Cancelled"} \cup (IF r \in ended THEN {"Closed"} ELSE {}) :
                  Moves(p, Awaited(what), res, queue)
            /\ FinishState(r, "Failed")
            /\ live' = live \ Released(r)
            /\ UNCHANGED active
  <2>1. PICK res \in {"Cancelled", "Closed"} : Moves(p, Awaited(what), res, queue)
      BY <1>14
  <2>2. QED
      BY <1>7, <1>8, <1>9, <1>14, <2>1
<1>15. QED
    BY <1>10, <1>11, <1>12, <1>13, <1>14 DEF ChildCall

-----------------------------------------------------------------------------
(* The invariant *)

\* Nothing is under way at first.
LEMMA InitInv == Init => IInv
<1> SUFFICES ASSUME Init PROVE IInv
    OBVIOUS
<1> DEFINE opens == {o \in Operators : operators[o] = "Open"}
<1>1. /\ operators \in [Operators -> {"Absent", "Open"}] /\ closed = FALSE /\ running = FALSE
      /\ operator \in [Children -> opens \cup {None}]
      /\ registered = {r \in Children : operator[r] # None} /\ held = registered
      /\ state = [r \in Children |-> IF operator[r] = None THEN "Absent" ELSE "Open"]
      /\ live = registered \cup opens
      /\ active = [r \in Children |-> None] /\ place = [p \in Calls |-> "Unused"]
      /\ call = [p \in Calls |-> NoEntry]
      /\ result = [p \in Calls |-> "Pending"] /\ task = [p \in Calls |-> "Pending"]
      /\ activeTasks = {} /\ ended = {} /\ queue = <<>> /\ timers = {}
    BY DEF Init
<1>2. /\ \A p \in Calls : /\ place[p] = "Unused" /\ call[p] = NoEntry
                          /\ result[p] = "Pending" /\ task[p] = "Pending"
                          /\ ~Polling(p) /\ ~OnChild(p) /\ ~IsOpen(p)
      /\ \A r \in Children : state[r] = IF operator[r] = None THEN "Absent" ELSE "Open"
    BY <1>1 DEF Polling, OnChild, IsOpen, NoEntry
<1>3. None \notin Operators
    BY NamesAssumption
<1>4. TypeOK
  <2>1. closed \in BOOLEAN /\ running \in BOOLEAN
      BY <1>1, Zenon
  <2>2. /\ operators \in [Operators -> {"Absent", "Open", "Closed"}]
        /\ operator \in [Children -> Operators \cup {None}] /\ state \in [Children -> States]
        /\ active \in [Children -> Calls \cup {None}] /\ place \in [Calls -> Places]
      BY <1>1 DEF States, Places
  <2>3. NoEntry \in [what : {"none", "read", "open", "next", "write", "finish", "abort"},
                     by : Operators \cup {None}, on : Children \cup {None}]
      BY DEF NoEntry
  <2>4. /\ call \in [Calls -> [what : {"none", "read", "open", "next", "write", "finish", "abort"},
                               by : Operators \cup {None}, on : Children \cup {None}]]
        /\ result \in [Calls -> Outcomes] /\ task \in [Calls -> Outcomes]
      BY <1>1, <2>3 DEF Outcomes
  <2>5. /\ activeTasks \subseteq Calls /\ timers \subseteq Calls /\ held \subseteq Children
        /\ registered \subseteq Children /\ ended \subseteq Children
        /\ live \subseteq Calls \cup Operators \cup Children /\ queue \in Seq({"poll", "go"} \X Calls)
      BY <1>1
  <2>6. QED
      BY <2>1, <2>2, <2>4, <2>5, Zenon DEF TypeOK
<1>5. NothingLeaks
  <2>1. held = {r \in Children : state[r] = "Open"} /\ held = registered
      BY <1>1, <1>2
  <2>2. \A p \in Calls : p \notin live
      BY <1>1, NamesAssumption
  <2>3. \A r \in Children : r \in live <=> r \in held
      BY <1>1, NamesAssumption
  <2>4. \A r \in Children : ~InTransit(r)
      BY <1>2 DEF InTransit
  <2>5. \A o \in Operators : o \in live <=> operators[o] = "Open"
      BY <1>1, NamesAssumption
  <2>6. QED
      BY <1>2, <1>4, <2>1, <2>2, <2>3, <2>4, <2>5 DEF NothingLeaks
<1>6. ClosedIsQuiet
  <2>1. \A r \in Children : state[r] = "Open" => operators[operator[r]] = "Open" /\ ~closed
    <3>1. SUFFICES ASSUME NEW r \in Children, state[r] = "Open"
          PROVE  operators[operator[r]] = "Open" /\ ~closed
        OBVIOUS
    <3>2. operator[r] \in opens
        BY <1>1, <1>2, <3>1
    <3>3. QED
        BY <1>1, <3>2
  <2>2. QED
      BY <1>2, <2>1 DEF ClosedIsQuiet
<1>7. VerdictHolds /\ CallInv /\ OpenInv /\ EndInv /\ CancelInv
    BY <1>2 DEF VerdictHolds, CallInv, OpenInv, EndInv, CancelInv, NoEntry
<1>8. ChildInv
  <2>1. \A r \in Children : state[r] # "Absent" => operator[r] \in Operators
      BY <1>1, <1>2
  <2>2. QED
      BY <1>2, <2>1 DEF ChildInv
<1>9. PollInv
  <2>1. {p \in Calls : Polling(p)} = {}
      BY <1>2
  <2>2. QED
      BY <1>1, <2>1, FS_EmptySet DEF PollInv
<1>10. QED
    BY <1>5, <1>6, <1>7, <1>8, <1>9 DEF IInv

\* Every step keeps the invariant.
LEMMA NextInv == IInv /\ [Next]_vars => IInv'
<1> SUFFICES ASSUME IInv, [Next]_vars PROVE IInv'
    OBVIOUS
<1>1. CASE UserStep
  <2>1. ASSUME NEW o \in Operators, NewOperator(o) PROVE IInv'
      BY <2>1, NewOperatorInv
  <2>2. ASSUME NEW o \in Operators, CloseOperator(o) PROVE IInv'
      BY <2>2, CloseOperatorInv
  <2>3. NewPromise \subseteq Calls
      BY DEF NewPromise
  <2>4. ASSUME NEW p \in Calls, NEW o \in Operators, OperatorCall(p, o, "read", None) PROVE IInv'
      BY <2>4, OperatorCallInv
  <2>5. ASSUME NEW p \in Calls, NEW o \in Operators, NEW r \in Children,
               Fresh(r), OperatorCall(p, o, "open", r)
        PROVE  IInv'
      BY <2>5, OperatorCallInv
  <2>6. ASSUME NEW p \in Calls, NEW r \in Children, NEW what \in CallsOf(r), ChildCall(p, r, what)
        PROVE  IInv'
      BY <2>6, ChildCallInv
  <2>7. ASSUME NEW p \in Calls, AbortSignal(p) PROVE IInv'
      BY <2>7, AbortSignalInv
  <2>8. ASSUME NEW r \in Children, CloseChild(r) PROVE IInv'
      BY <2>8, CloseChildInv
  <2>9. CASE CloseRuntime
      BY <2>9, CloseRuntimeInv
  <2>10. QED
      BY <1>1, <2>1, <2>2, <2>3, <2>4, <2>5, <2>6, <2>7, <2>8, <2>9 DEF UserStep
<1>2. CASE BeginEvent \/ EndTurn
    BY <1>2, TurnInv
<1>3. ASSUME NEW p \in Calls, Microtask(p) PROVE IInv'
    BY <1>3, PollTaskInv, ResumeOperatorInv, ResumeChildInv, UnwrapOpenInv, UnwrapNextInv, TellInv
       DEF Microtask
<1>4. ASSUME NEW p \in Calls, Timer(p) \/ Publish(p) PROVE IInv'
    BY <1>4, TimerInv, PublishInv
<1>5. CASE UNCHANGED vars
  <2>1. /\ UNCHANGED <<operators, closed, activeTasks, operator, state, held, registered, active,
                       place, call, result, live, task, ended>>
        /\ queue' = queue /\ timers' = timers /\ running' = running
      BY <1>5 DEF vars, lifecycle, promises, bridge, loop
  <2>2. TypeOK'
      BY <2>1, Types, Zenon DEF TypeOK
  <2>3. timers' \subseteq PollingCalls
      BY <2>1 DEF IInv, PollInv, PollingCalls
  <2>4. QED
      BY <2>1, <2>2, <2>3, LoopInv
<1>6. QED
    BY <1>1, <1>2, <1>3, <1>4, <1>5 DEF Next

\* The strengthened invariant holds of every behaviour, fair or not.
THEOREM Invariance == Spec => []IInv
BY InitInv, NextInv, PTL DEF Spec

\* Every live handle of the bridge has exactly the owner that will release it: a
\* polling task, an open operator, an open child, or an open on its way to the user.
THEOREM EveryHandleHasAnOwner == Spec => []NothingLeaks
<1>1. IInv => NothingLeaks
    BY DEF IInv
<1>2. QED
    BY <1>1, Invariance, PTL

\* After a close, nothing under it polls and no child under it is open.
THEOREM ClosesReachEverything == Spec => []ClosedIsQuiet
<1>1. IInv => ClosedIsQuiet
    BY DEF IInv
<1>2. QED
    BY <1>1, Invariance, PTL

\* What the user was told of a child stays true of it.
THEOREM VerdictsHold == Spec => []VerdictHolds
<1>1. IInv => VerdictHolds
    BY DEF IInv
<1>2. QED
    BY <1>1, Invariance, PTL

\* A step takes a writer that is neither absent nor open to the closed state or
\* leaves it where it is.
LEMMA WriterStep ==
    ASSUME IInv, [Next]_vars, NEW r \in Writers, state[r] \notin {"Absent", "Open"}
    PROVE  state'[r] \in {state[r], "Closed"}
<1>1. r \in Children /\ r \notin Cursors /\ state \in [Children -> States]
    BY NamesAssumption, Types DEF Children
<1>2. ASSUME NEW x \in Children, NEW s, FinishState(x, s), x # r \/ s = "Closed"
      PROVE  state'[r] \in {state[r], "Closed"}
    BY <1>1, <1>2 DEF FinishState
<1>3. ASSUME KeepsState \/ state' = state
      PROVE  state'[r] = state[r]
    BY <1>3 DEF KeepsState
<1>4. ASSUME NEW O, NEW all, CloseAll(O, all)
      PROVE  state'[r] \in {state[r], "Closed"}
    BY <1>1, <1>4 DEF CloseAll
<1>5. CASE UserStep
  <2>1. ASSUME NEW p, NEW o, NEW what, NEW x, OperatorCall(p, o, what, x)
        PROVE  state'[r] = state[r]
      BY <2>1 DEF OperatorCall
  <2>2. ASSUME NEW p, NEW x \in Children, NEW what, ChildCall(p, x, what)
        PROVE  state'[r] \in {state[r], "Closed"}
    <3>1. KeepsState \/ (Admits(x) /\ FinishState(x, "Failed"))
        BY <2>2 DEF ChildCall
    <3>2. Admits(x) => x # r
        BY DEF Admits, Usable
    <3>3. QED
        BY <1>2, <1>3, <3>1, <3>2
  <2>3. ASSUME NEW p \in Calls, AbortSignal(p)
        PROVE  state'[r] = state[r]
      BY <2>3 DEF AbortSignal, lifecycle
  <2>4. ASSUME NEW x \in Children, CloseChild(x)
        PROVE  state'[r] \in {state[r], "Closed"}
      BY <1>2, <2>4 DEF CloseChild
  <2>5. ASSUME NEW o \in Operators, NewOperator(o)
        PROVE  state'[r] = state[r]
      BY <2>5 DEF NewOperator
  <2>6. ASSUME NEW o \in Operators, CloseOperator(o)
        PROVE  state'[r] \in {state[r], "Closed"}
      BY <1>4, <2>6 DEF CloseOperator
  <2>7. CASE CloseRuntime
      BY <1>4, <2>7 DEF CloseRuntime
  <2>8. QED
      BY <1>5, <2>1, <2>2, <2>3, <2>4, <2>5, <2>6, <2>7 DEF UserStep
<1>6. CASE BeginEvent \/ EndTurn \/ UNCHANGED vars
    BY <1>6 DEF BeginEvent, EndTurn, vars, lifecycle
<1>7. ASSUME NEW p \in Calls, PollTask(p) \/ ResumeOperator(p) \/ Tell(p) \/ Timer(p) \/ Publish(p)
      PROVE  state'[r] = state[r]
    BY <1>7 DEF PollTask, ResumeOperator, Tell, Timer, Publish, lifecycle
<1>8. ASSUME NEW p \in Calls, ResumeChild(p)
      PROVE  state'[r] \in {state[r], "Closed"}
  <2>1. call[p].on \in Children
      BY <1>8 DEF ResumeChild, IInv, CallInv
  <2>2. \/ KeepsState
        \/ state[call[p].on] = "Open" /\ \E s : FinishState(call[p].on, s)
      BY <1>8 DEF ResumeChild, Breaks, StillUsable, Usable
  <2>3. QED
      BY <1>2, <1>3, <2>1, <2>2
<1>9. ASSUME NEW p \in Calls, UnwrapOpen(p)
      PROVE  state'[r] = state[r]
  <2>1. call[p].on # r
      BY <1>9 DEF UnwrapOpen, IInv, OpenInv
  <2>2. KeepsState \/ state' = [state EXCEPT ![call[p].on] = "Open"]
      BY <1>9 DEF UnwrapOpen
  <2>3. QED
      BY <1>1, <1>3, <2>1, <2>2
<1>10. ASSUME NEW p \in Calls, UnwrapNext(p)
       PROVE  state'[r] \in {state[r], "Closed"}
  <2>1. call[p].what = "next"
      BY <1>10 DEF UnwrapNext, IInv, CallInv, Unwraps, IsOpen
  <2>2. call[p].on \in Cursors /\ call[p].on \in Children
      BY <2>1 DEF IInv, CallInv, CallsOf, OnChild
  <2>3. KeepsState \/ FinishState(call[p].on, "End")
      BY <1>10 DEF UnwrapNext
  <2>4. QED
      BY <1>1, <1>2, <1>3, <2>2, <2>3
<1>11. QED
    BY <1>5, <1>6, <1>7, <1>8, <1>9, <1>10 DEF Next, Microtask

\* A writer that was closed, finished, aborted or failed keeps that state, but for
\* a close.
THEOREM WritersStick == Spec => WriterSticks
<1>1. IInv /\ [Next]_vars => [\A r \in Writers :
          state[r] \notin {"Absent", "Open"} => state'[r] \in {state[r], "Closed"}]_vars
    BY WriterStep
<1>2. QED
    BY <1>1, Invariance, PTL DEF Spec, WriterSticks
=============================================================================
