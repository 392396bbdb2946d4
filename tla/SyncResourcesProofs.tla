------------------------ MODULE SyncResourcesProofs ------------------------
(***************************************************************************)
(* The safety of SyncResources for any number of threads and resources:     *)
(* IInv is inductive, one lemma per action, and SerialResource is           *)
(* implemented.                                                             *)
(***************************************************************************)
EXTENDS SyncResources, TLAPS

USE DEF Resources, Taken, Locked
USE KindAssumption

\* The invariant survives when the operator creates a resource.
LEMMA CreateInv ==
    ASSUME NEW r \in Resources, IInv, Create(r)
    PROVE  IInv'
<1>1. TypeOK'
    BY DEF IInv, Create, TypeOK, States, Places, Ops, Answered, OpsOf
<1>2. KindInv'
    BY DEF IInv, Create, TypeOK, KindInv, StatesOf
<1>3. CallInv'
    BY DEF IInv, Create, TypeOK, CallInv, OpsOf
<1>4. PlaceInv'
    BY DEF IInv, Create, TypeOK, PlaceInv, StandIn, Takes, CallInv, OpsOf
<1>5. OneInside'
    BY DEF IInv, Create, TypeOK, OneInside, Inside, PlaceInv, CallInv,
       StandIn, OpsOf
<1>6. NoLostWakeup'
    BY DEF IInv, Create, TypeOK, NoLostWakeup, PlaceInv, OneInside, Inside
<1>7. VerdictsAgree'
    BY DEF IInv, Create, TypeOK, VerdictsAgree, CallInv, PlaceInv, StandIn
<1>8. CloseExcludes'
    BY DEF IInv, Create, TypeOK, CloseExcludes, Inside, CallInv, PlaceInv,
       KindInv, StatesOf
<1>9. QED
    BY <1>1, <1>2, <1>3, <1>4, <1>5, <1>6, <1>7, <1>8 DEF IInv

\* The invariant survives when a thread makes a call.
LEMMA EnterInv ==
    ASSUME NEW c \in Callers, NEW r \in Resources, NEW o \in OpsOf(r), IInv, Enter(c, r, o)
    PROVE  IInv'
<1>1. TypeOK'
    BY DEF IInv, Enter, TypeOK, States, Places, Ops, Answered, OpsOf
<1>2. KindInv'
    BY DEF IInv, Enter, TypeOK, KindInv, StatesOf
<1>3. CallInv'
    BY DEF IInv, Enter, TypeOK, CallInv, OpsOf
<1>4. PlaceInv'
    BY DEF IInv, Enter, TypeOK, PlaceInv, StandIn, Takes, CallInv, OpsOf
<1>5. OneInside'
    BY DEF IInv, Enter, TypeOK, OneInside, Inside, PlaceInv, CallInv,
       StandIn, OpsOf
<1>6. NoLostWakeup'
    BY DEF IInv, Enter, TypeOK, NoLostWakeup, PlaceInv, OneInside, Inside
<1>7. VerdictsAgree'
    BY DEF IInv, Enter, TypeOK, VerdictsAgree, CallInv, PlaceInv, StandIn
<1>8. CloseExcludes'
    BY DEF IInv, Enter, TypeOK, CloseExcludes, Inside, CallInv, PlaceInv,
       KindInv, StatesOf
<1>9. QED
    BY <1>1, <1>2, <1>3, <1>4, <1>5, <1>6, <1>7, <1>8 DEF IInv

\* The invariant survives when a call moves the inner object out.
LEMMA TakeInv ==
    ASSUME NEW c \in Callers, IInv, Take(c)
    PROVE  IInv'
<1>1. TypeOK'
    BY DEF IInv, Take, Takes, StandIn, Excluded, BrokenOf, TypeOK, States,
       Places, Ops, Answered, OpsOf
<1>2. KindInv'
    BY DEF IInv, Take, Takes, StandIn, Excluded, BrokenOf, TypeOK, KindInv,
       StatesOf, CallInv, OpsOf
<1>3. CallInv'
    BY DEF IInv, Take, Takes, StandIn, Excluded, BrokenOf, TypeOK, CallInv,
       OpsOf
<1>4. PlaceInv'
    BY DEF IInv, Take, Takes, StandIn, Excluded, BrokenOf, TypeOK, PlaceInv,
       CallInv, OpsOf, KindInv, StatesOf, OneInside, Inside
<1>5. OneInside'
    BY DEF IInv, Take, Takes, StandIn, Excluded, BrokenOf, TypeOK, OneInside,
       Inside, PlaceInv, CallInv, OpsOf
<1>6. NoLostWakeup'
    BY DEF IInv, Take, Takes, StandIn, Excluded, BrokenOf, TypeOK,
       NoLostWakeup, PlaceInv, OneInside, Inside
<1>7. VerdictsAgree'
    BY DEF IInv, Take, Takes, StandIn, Excluded, BrokenOf, TypeOK,
       VerdictsAgree, CallInv, PlaceInv
<1>8. CloseExcludes'
    BY DEF IInv, Take, Takes, StandIn, Excluded, BrokenOf, TypeOK,
       CloseExcludes, Inside, CallInv, PlaceInv, KindInv, StatesOf
<1>9. QED
    BY <1>1, <1>2, <1>3, <1>4, <1>5, <1>6, <1>7, <1>8 DEF IInv

\* The invariant survives when a read is admitted.
LEMMA ShareInv ==
    ASSUME NEW c \in Callers, IInv, Share(c)
    PROVE  IInv'
<1>1. TypeOK'
    BY DEF IInv, Share, TypeOK, States, Places, Ops, Answered, OpsOf
<1>2. KindInv'
    BY DEF IInv, Share, TypeOK, KindInv, StatesOf
<1>3. CallInv'
    BY DEF IInv, Share, TypeOK, CallInv, OpsOf
<1>4. PlaceInv'
    BY DEF IInv, Share, TypeOK, PlaceInv, StandIn, Takes, CallInv, OpsOf
<1>5. OneInside'
    BY DEF IInv, Share, TypeOK, OneInside, Inside, PlaceInv, CallInv,
       StandIn, OpsOf
<1>6. NoLostWakeup'
    BY DEF IInv, Share, TypeOK, NoLostWakeup, PlaceInv, OneInside, Inside
<1>7. VerdictsAgree'
    BY DEF IInv, Share, TypeOK, VerdictsAgree, CallInv, PlaceInv, StandIn
<1>8. CloseExcludes'
    BY DEF IInv, Share, TypeOK, CloseExcludes, Inside, CallInv, PlaceInv,
       KindInv, StatesOf
<1>9. QED
    BY <1>1, <1>2, <1>3, <1>4, <1>5, <1>6, <1>7, <1>8 DEF IInv

\* The invariant survives when a call goes to sleep.
LEMMA WaitInv ==
    ASSUME NEW c \in Callers, IInv, Wait(c)
    PROVE  IInv'
<1>1. TypeOK'
    BY DEF IInv, Wait, TypeOK, States, Places, Ops, Answered, OpsOf
<1>2. KindInv'
    BY DEF IInv, Wait, TypeOK, KindInv, StatesOf
<1>3. CallInv'
    BY DEF IInv, Wait, TypeOK, CallInv, OpsOf
<1>4. PlaceInv'
    BY DEF IInv, Wait, TypeOK, PlaceInv, StandIn, Takes, CallInv, OpsOf
<1>5. OneInside'
    BY DEF IInv, Wait, TypeOK, OneInside, Inside, PlaceInv, CallInv, StandIn,
       OpsOf
<1>6. NoLostWakeup'
    BY DEF IInv, Wait, TypeOK, NoLostWakeup, PlaceInv, OneInside, Inside
<1>7. VerdictsAgree'
    BY DEF IInv, Wait, TypeOK, VerdictsAgree, CallInv, PlaceInv, StandIn
<1>8. CloseExcludes'
    BY DEF IInv, Wait, TypeOK, CloseExcludes, Inside, CallInv, PlaceInv,
       KindInv, StatesOf
<1>9. QED
    BY <1>1, <1>2, <1>3, <1>4, <1>5, <1>6, <1>7, <1>8 DEF IInv

\* The invariant survives when a sleeper wakes.
LEMMA SpuriousWakeInv ==
    ASSUME NEW c \in Callers, IInv, SpuriousWake(c)
    PROVE  IInv'
<1>1. TypeOK'
    BY DEF IInv, SpuriousWake, TypeOK, States, Places, Ops, Answered, OpsOf
<1>2. KindInv'
    BY DEF IInv, SpuriousWake, TypeOK, KindInv, StatesOf
<1>3. CallInv'
    BY DEF IInv, SpuriousWake, TypeOK, CallInv, OpsOf
<1>4. PlaceInv'
    BY DEF IInv, SpuriousWake, TypeOK, PlaceInv, StandIn, Takes, CallInv,
       OpsOf
<1>5. OneInside'
    BY DEF IInv, SpuriousWake, TypeOK, OneInside, Inside, PlaceInv, CallInv,
       StandIn, OpsOf
<1>6. NoLostWakeup'
    BY DEF IInv, SpuriousWake, TypeOK, NoLostWakeup, PlaceInv, OneInside,
       Inside
<1>7. VerdictsAgree'
    BY DEF IInv, SpuriousWake, TypeOK, VerdictsAgree, CallInv, PlaceInv,
       StandIn
<1>8. CloseExcludes'
    BY DEF IInv, SpuriousWake, TypeOK, CloseExcludes, Inside, CallInv,
       PlaceInv, KindInv, StatesOf
<1>9. QED
    BY <1>1, <1>2, <1>3, <1>4, <1>5, <1>6, <1>7, <1>8 DEF IInv

\* The invariant survives when a call is answered at once.
LEMMA AnswerInv ==
    ASSUME NEW c \in Callers, IInv, Answer(c)
    PROVE  IInv'
<1>1. TypeOK'
    BY DEF IInv, Answer, Decided, Answers, PutBack, Status, Takes, Excluded, TypeOK,
       States, Places, Ops, Answered, OpsOf
<1>2. KindInv'
    BY DEF IInv, Answer, Decided, Answers, PutBack, Status, Takes, Excluded, TypeOK,
       KindInv, StatesOf
<1>3. CallInv'
    BY DEF IInv, Answer, Decided, Answers, PutBack, Status, Takes, Excluded, TypeOK,
       CallInv, OpsOf
<1>4. PlaceInv'
    BY DEF IInv, Answer, Decided, Answers, PutBack, Status, Takes, Excluded, TypeOK,
       PlaceInv, StandIn, CallInv, OpsOf
<1>5. OneInside'
    BY DEF IInv, Answer, Decided, Answers, PutBack, Status, Takes, Excluded, TypeOK,
       OneInside, Inside, PlaceInv, CallInv, StandIn, OpsOf
<1>6. NoLostWakeup'
    BY DEF IInv, Answer, Decided, Answers, PutBack, Status, Takes, Excluded, TypeOK,
       NoLostWakeup, PlaceInv, OneInside, Inside
<1>7. VerdictsAgree'
    BY DEF IInv, Answer, Decided, Answers, PutBack, Status, Takes, Excluded, TypeOK,
       VerdictsAgree, CallInv, PlaceInv, StandIn
<1>8. CloseExcludes'
    BY DEF IInv, Answer, Decided, Answers, PutBack, Status, Takes, Excluded, TypeOK,
       CloseExcludes, Inside, CallInv, PlaceInv, KindInv, StatesOf
<1>9. QED
    BY <1>1, <1>2, <1>3, <1>4, <1>5, <1>6, <1>7, <1>8 DEF IInv

\* The invariant survives when a storage call of a taken or locked resource ends.
LEMMA ReturnInv ==
    ASSUME NEW c \in Callers, IInv, Return(c)
    PROVE  IInv'
<1>1. TypeOK'
    BY DEF IInv, Return, Answers, After, Notified, Results, EndOf, BrokenOf,
       StandIn, TypeOK, States, Places, Ops, Answered, OpsOf, CallInv
<1>2. KindInv'
    BY DEF IInv, Return, Answers, After, Notified, Results, EndOf, BrokenOf,
       StandIn, TypeOK, KindInv, StatesOf, CallInv, OpsOf
<1>3. CallInv'
    BY DEF IInv, Return, Answers, After, Notified, Results, EndOf, BrokenOf,
       StandIn, TypeOK, CallInv, OpsOf
<1>4. PlaceInv'
    BY DEF IInv, Return, Answers, After, Notified, Results, EndOf, BrokenOf,
       StandIn, TypeOK, PlaceInv, Takes, CallInv, OpsOf, OneInside,
       Inside
<1>5. OneInside'
    <2>1. PICK res \in Results(op[c]) :
            /\ state' = [state EXCEPT ![on[c]] = After(on[c], op[c], res)]
            /\ Answers(c, res, Notified(on[c]))
        BY DEF Return
    <2>2. on[c] \in Resources /\ After(on[c], op[c], res) # "Busy"
        BY DEF Return, IInv, CallInv, After, EndOf, BrokenOf
    <2>3. \A d \in Callers : at'[d] = "Inside" <=> at[d] = "Inside" /\ d # c
        BY <2>1 DEF Answers, Notified, IInv, TypeOK
    <2>4. on' = on
        BY <2>1 DEF Answers
    <2>5. \A d, e \in Callers :
            /\ at'[d] = "Inside" /\ at'[e] = "Inside"
            /\ on'[d] = on'[e] /\ on'[d] \notin Readers
            => d = e
        BY <2>3, <2>4 DEF IInv, OneInside
    <2>6. \A d \in Callers : d # c /\ at[d] = "Inside" => on[d] # on[c]
        BY DEF Return, IInv, OneInside
    <2>7. ASSUME NEW r \in Resources
          PROVE  state'[r] = "Busy" <=> r \in Taken /\ Inside(r)' # {}
        <3>1. CASE r = on[c]
            BY <3>1, <2>1, <2>2, <2>3, <2>4, <2>6 DEF Inside, IInv, TypeOK
        <3>2. CASE r # on[c]
            <4>1. state'[r] = state[r] /\ Inside(r)' = Inside(r)
                BY <3>2, <2>1, <2>3, <2>4 DEF Inside, IInv, TypeOK
            <4>2. QED
                BY <4>1 DEF IInv, OneInside
        <3>3. QED
            BY <3>1, <3>2
    <2>8. QED
        BY <2>5, <2>7 DEF OneInside
<1>6. NoLostWakeup'
    BY DEF IInv, Return, Answers, After, Notified, Results, EndOf, BrokenOf,
       StandIn, TypeOK, NoLostWakeup, PlaceInv, OneInside, Inside
<1>7. VerdictsAgree'
    BY DEF IInv, Return, Answers, After, Notified, Results, EndOf, BrokenOf,
       StandIn, TypeOK, VerdictsAgree, CallInv, PlaceInv
<1>8. CloseExcludes'
    BY DEF IInv, Return, Answers, After, Notified, Results, EndOf, BrokenOf,
       StandIn, TypeOK, CloseExcludes, Inside, CallInv, PlaceInv,
       KindInv, StatesOf
<1>9. QED
    BY <1>1, <1>2, <1>3, <1>4, <1>5, <1>6, <1>7, <1>8 DEF IInv

\* The invariant survives when a read ends.
LEMMA ReadReturnInv ==
    ASSUME NEW c \in Callers, IInv, ReadReturn(c)
    PROVE  IInv'
<1>1. TypeOK'
    BY DEF IInv, ReadReturn, Answers, TypeOK, States, Places, Ops, Answered,
       OpsOf
<1>2. KindInv'
    BY DEF IInv, ReadReturn, Answers, TypeOK, KindInv, StatesOf
<1>3. CallInv'
    BY DEF IInv, ReadReturn, Answers, TypeOK, CallInv, OpsOf
<1>4. PlaceInv'
    BY DEF IInv, ReadReturn, Answers, TypeOK, PlaceInv, StandIn, Takes,
       CallInv, OpsOf
<1>5. OneInside'
    BY DEF IInv, ReadReturn, Answers, TypeOK, OneInside, Inside, PlaceInv,
       CallInv, StandIn, OpsOf
<1>6. NoLostWakeup'
    BY DEF IInv, ReadReturn, Answers, TypeOK, NoLostWakeup, PlaceInv,
       OneInside, Inside
<1>7. VerdictsAgree'
    BY DEF IInv, ReadReturn, Answers, TypeOK, VerdictsAgree, CallInv,
       PlaceInv, StandIn
<1>8. CloseExcludes'
    BY DEF IInv, ReadReturn, Answers, TypeOK, CloseExcludes, Inside, CallInv,
       PlaceInv, KindInv, StatesOf
<1>9. QED
    BY <1>1, <1>2, <1>3, <1>4, <1>5, <1>6, <1>7, <1>8 DEF IInv

\* The invariant survives when a resource is closed.
LEMMA CloseInv ==
    ASSUME NEW c \in Callers, IInv, Close(c)
    PROVE  IInv'
<1>1. TypeOK'
    BY DEF IInv, Close, Answers, Excluded, TypeOK, States, Places, Ops,
       Answered, OpsOf
<1>2. KindInv'
    BY DEF IInv, Close, Answers, Excluded, TypeOK, KindInv, StatesOf,
       CallInv, OpsOf, PlaceInv
<1>3. CallInv'
    BY DEF IInv, Close, Answers, Excluded, TypeOK, CallInv, OpsOf
<1>4. PlaceInv'
    BY DEF IInv, Close, Answers, Excluded, TypeOK, PlaceInv, StandIn, Takes,
       CallInv, OpsOf, Inside
<1>5. OneInside'
    BY DEF IInv, Close, Answers, Excluded, TypeOK, OneInside, Inside,
       PlaceInv, CallInv, StandIn, OpsOf
<1>6. NoLostWakeup'
    BY DEF IInv, Close, Answers, Excluded, TypeOK, NoLostWakeup, PlaceInv,
       OneInside, Inside, CallInv, OpsOf
<1>7. VerdictsAgree'
    BY DEF IInv, Close, Answers, Excluded, TypeOK, VerdictsAgree, CallInv,
       PlaceInv, StandIn, OpsOf
<1>8. CloseExcludes'
    BY DEF IInv, Close, Answers, Excluded, TypeOK, CloseExcludes, Inside,
       CallInv, PlaceInv, KindInv, StatesOf
<1>9. QED
    BY <1>1, <1>2, <1>3, <1>4, <1>5, <1>6, <1>7, <1>8 DEF IInv

\* The invariant survives when a handle is freed.
LEMMA FreeInv ==
    ASSUME NEW r \in Resources, IInv, Free(r)
    PROVE  IInv'
<1>1. TypeOK'
    BY DEF IInv, Free, TypeOK, States, Places, Ops, Answered, OpsOf
<1>2. KindInv'
    BY DEF IInv, Free, TypeOK, KindInv, StatesOf
<1>3. CallInv'
    BY DEF IInv, Free, TypeOK, CallInv, OpsOf
<1>4. PlaceInv'
    BY DEF IInv, Free, TypeOK, PlaceInv, StandIn, Takes, CallInv, OpsOf
<1>5. OneInside'
    BY DEF IInv, Free, TypeOK, OneInside, Inside, PlaceInv, CallInv, StandIn,
       OpsOf
<1>6. NoLostWakeup'
    BY DEF IInv, Free, TypeOK, NoLostWakeup, PlaceInv, OneInside, Inside
<1>7. VerdictsAgree'
    BY DEF IInv, Free, TypeOK, VerdictsAgree, CallInv, PlaceInv, StandIn
<1>8. CloseExcludes'
    BY DEF IInv, Free, TypeOK, CloseExcludes, Inside, CallInv, PlaceInv,
       KindInv, StatesOf
<1>9. QED
    BY <1>1, <1>2, <1>3, <1>4, <1>5, <1>6, <1>7, <1>8 DEF IInv

----------------------------------------------------------------------------
(* The invariance theorem and its consequences *)

\* The invariant holds initially.
LEMMA InitInv == Init => IInv
    BY DEF Init, IInv, TypeOK, States, Places, Ops, Answered, KindInv,
       StatesOf, CallInv, PlaceInv, OneInside, Inside, NoLostWakeup,
       VerdictsAgree, CloseExcludes

\* Every step of the system preserves the invariant.
LEMMA NextInv == IInv /\ [Next]_vars => IInv'
<1> SUFFICES ASSUME IInv, [Next]_vars PROVE IInv'
    OBVIOUS
<1>1. CASE Next
    BY <1>1, CreateInv, EnterInv, TakeInv, ShareInv, WaitInv,
       SpuriousWakeInv, AnswerInv, ReturnInv, ReadReturnInv, CloseInv,
       FreeInv DEF Next, Proceed
<1>2. CASE UNCHANGED vars
    BY <1>2 DEF vars, IInv, TypeOK, KindInv, CallInv, PlaceInv, OneInside,
       Inside, NoLostWakeup, VerdictsAgree, CloseExcludes
<1>3. QED
    BY <1>1, <1>2

\* The invariant holds in every reachable state.
THEOREM Invariance == Spec => []IInv
<1>1. QED
    BY InitInv, NextInv, PTL DEF Spec

\* The state of every resource and caller stays within its type.
THEOREM TypeCorrect == Spec => []TypeOK
<1>1. IInv => TypeOK
    BY DEF IInv
<1>2. QED
    BY <1>1, Invariance, PTL

\* Calls on one Writer, Copier, Lister or ReadStream are serialized for any
\* number of threads, and Busy is never left behind by nobody.
THEOREM Serialized == Spec => []OneInside
<1>1. IInv => OneInside
    BY DEF IInv
<1>2. QED
    BY <1>1, Invariance, PTL

\* No thread sleeps on a Writer or Copier that could answer it.
THEOREM WakeupsAreKept == Spec => []NoLostWakeup
<1>1. IInv => NoLostWakeup
    BY DEF IInv
<1>2. QED
    BY <1>1, Invariance, PTL

\* No two threads are told of two different ends of one Writer or Copier.
THEOREM OneVerdict == Spec => []VerdictsAgree
<1>1. IInv => VerdictsAgree
    BY DEF IInv
<1>2. QED
    BY <1>1, Invariance, PTL

\* A close waits for the admitted calls, and a panicked Reader is closed.
THEOREM CloseLinearizes == Spec => []CloseExcludes
<1>1. IInv => CloseExcludes
    BY DEF IInv
<1>2. QED
    BY <1>1, Invariance, PTL

\* Calls that exclude one another are never inside the storage at once.
THEOREM CallsExclude == Spec => []Excludes
<1>1. OneInside /\ CloseExcludes => Excludes
    BY DEF Excludes
<1>2. QED
    BY <1>1, Serialized, CloseLinearizes, PTL

----------------------------------------------------------------------------
(* Final states *)

\* No step takes a final state back, for any number of threads.
LEMMA FinalStep ==
    ASSUME IInv, Next
    PROVE  \A r \in Resources : state[r] \in Final /\ Inside(r) = {} =>
               state'[r] \in {state[r], "Closed", "Freed"}
<1> SUFFICES ASSUME NEW r \in Resources, state[r] \in Final, Inside(r) = {}
             PROVE  state'[r] \in {state[r], "Closed", "Freed"}
    OBVIOUS
<1>1. CASE \E q \in Resources : Create(q) \/ Free(q)
    BY <1>1 DEF Create, Free, Final, IInv, TypeOK
<1>2. CASE \E c \in Callers : Take(c)
    BY <1>2 DEF Take, Takes, Final, IInv, TypeOK
<1>3. CASE \E c \in Callers : Answer(c)
    BY <1>3 DEF Answer, Decided, PutBack, IInv, TypeOK
<1>4. CASE \E c \in Callers : Return(c)
    BY <1>4 DEF Return, Inside, IInv, TypeOK
<1>5. CASE \E c \in Callers : Close(c)
    BY <1>5 DEF Close, IInv, TypeOK
<1>6. CASE \E c \in Callers : Share(c) \/ Wait(c) \/ SpuriousWake(c) \/ ReadReturn(c)
    BY <1>6 DEF Share, Wait, SpuriousWake, ReadReturn
<1>7. CASE \E c \in Callers, q \in Resources : \E o \in OpsOf(q) : Enter(c, q, o)
    BY <1>7 DEF Enter
<1>8. QED
    BY <1>1, <1>2, <1>3, <1>4, <1>5, <1>6, <1>7 DEF Next, Proceed

\* A Writer that was finished, aborted or failed, a closed cursor and a freed
\* handle stay what they are.
THEOREM FinalIsSticky == Spec => FinalSticks
<1>1. IInv /\ [Next]_vars =>
        [\A r \in Resources : state[r] \in Final /\ Inside(r) = {} =>
            state'[r] \in {state[r], "Closed", "Freed"}]_vars
    BY FinalStep
<1>2. QED
    BY <1>1, Invariance, PTL DEF Spec, FinalSticks

----------------------------------------------------------------------------
(* The refinement of SerialResource *)

\* What callers can see of a resource, whether or not a call is inside.
LEMMA VisibleState ==
    ASSUME IInv
    PROVE  /\ \A r \in Resources :
                r \in Readers \/ Inside(r) = {} => Visible[r] = state[r]
           /\ \A c \in Callers : at[c] = "Inside" /\ on[c] \notin Readers =>
                Visible[on[c]] = took[c]
<1>1. \A r \in Resources : r \in Readers \/ Inside(r) = {} => Visible[r] = state[r]
    BY DEF Visible
<1>2. ASSUME NEW c \in Callers, at[c] = "Inside", on[c] \notin Readers
      PROVE  Visible[on[c]] = took[c]
    <2>1. Inside(on[c]) = {c} /\ on[c] \in Resources
        BY <1>2 DEF Inside, IInv, OneInside, CallInv
    <2>2. QED
        BY <1>2, <2>1 DEF Visible
<1>3. QED
    BY <1>1, <1>2

\* The same after a step.
LEMMA VisibleStateNext ==
    ASSUME IInv'
    PROVE  /\ \A r \in Resources :
                r \in Readers \/ Inside(r)' = {} => Visible'[r] = state'[r]
           /\ \A c \in Callers, r \in Resources \ Readers :
                at'[c] = "Inside" /\ on'[c] = r => Visible'[r] = took'[c]
<1>1. \A r \in Resources : r \in Readers \/ Inside(r)' = {} => Visible'[r] = state'[r]
    BY DEF Visible
<1>2. ASSUME NEW c \in Callers, NEW r \in Resources \ Readers,
             at'[c] = "Inside", on'[c] = r
      PROVE  Visible'[r] = took'[c]
    <2>1. Inside(r)' = {c}
        BY <1>2 DEF Inside, IInv, OneInside
    <2>2. QED
        BY <1>2, <2>1 DEF Visible
<1>3. QED
    BY <1>1, <1>2

\* A resource that a step leaves alone looks the same.
LEMMA VisibleSame ==
    ASSUME IInv, IInv', NEW q \in Resources,
           state'[q] = state[q],
           \A d \in Callers : (at'[d] = "Inside" /\ on'[d] = q) <=>
                              (at[d] = "Inside" /\ on[d] = q),
           \A d \in Callers : at[d] = "Inside" /\ on[d] = q => took'[d] = took[d]
    PROVE  Visible'[q] = Visible[q]
<1>1. Inside(q)' = Inside(q)
    BY DEF Inside
<1>2. CASE q \in Readers \/ Inside(q) = {}
    BY <1>1, <1>2, VisibleState, VisibleStateNext
<1>3. CASE q \notin Readers /\ Inside(q) # {}
    <2>1. PICK d \in Callers : at[d] = "Inside" /\ on[d] = q
        BY <1>3 DEF Inside
    <2>2. Visible[q] = took[d]
        BY <1>3, <2>1, VisibleState
    <2>3. Visible'[q] = took'[d]
        BY <1>3, <2>1, VisibleStateNext
    <2>4. QED
        BY <2>1, <2>2, <2>3
<1>4. QED
    BY <1>2, <1>3

\* The initial states of SerialResource.
LEMMA InitSerial == Init => Serial!Init
<1> SUFFICES ASSUME Init PROVE Serial!Init
    OBVIOUS
<1>1. \A r \in Resources : Inside(r) = {} /\ state[r] = "Absent"
    BY DEF Init, Inside
<1>2. Visible = [r \in Resources |-> "Absent"]
    BY <1>1 DEF Visible
<1>3. Told = [c \in Callers |-> <<NoResource, "none", "None">>]
    BY DEF Init, Told
<1>4. QED
    BY <1>2, <1>3 DEF Serial!Init, Serial!Resources

\* Creating or freeing a handle is the same step of SerialResource.
LEMMA HandleSerial ==
    ASSUME IInv, IInv', NEW r \in Resources, Create(r) \/ Free(r)
    PROVE  Serial!Create(r) \/ Serial!Free(r)
<1>1. Inside(r) = {} /\ Inside(r)' = {}
    BY DEF Create, Free, Inside, IInv, CallInv
<1>2. \A q \in Resources : q # r => Visible'[q] = Visible[q]
    BY VisibleSame DEF Create, Free, IInv, TypeOK
<1>3. Visible'[r] = state'[r] /\ Visible[r] = state[r]
    BY <1>1, VisibleState, VisibleStateNext
<1>4. Visible' = [Visible EXCEPT ![r] = state'[r]]
    BY <1>2, <1>3 DEF Visible
<1>5. Told' = Told
    BY DEF Create, Free, Told
<1>6. state'[r] \in {"Open", "Freed"} /\ (state'[r] = "Open" => state[r] = "Absent")
    BY DEF Create, Free, IInv, TypeOK
<1>7. QED
    BY <1>3, <1>4, <1>5, <1>6
       DEF Serial!Create, Serial!Free, Serial!Becomes

\* Entering a call is an invocation.
LEMMA EnterSerial ==
    ASSUME IInv, IInv', NEW c \in Callers, NEW r \in Resources, NEW o \in OpsOf(r),
           Enter(c, r, o)
    PROVE  Serial!Call(c, r, o)
<1>1. \A q \in Resources : Visible'[q] = Visible[q]
    BY VisibleSame DEF Enter, IInv, TypeOK
<1>2. Visible' = Visible
    BY <1>1 DEF Visible
<1>3. Told' = [Told EXCEPT ![c] = <<r, o, "Pending">>]
    BY DEF Enter, Told, IInv, TypeOK
<1>4. QED
    BY <1>2, <1>3 DEF Serial!Call

\* Being admitted, sleeping and waking do not show.
LEMMA HiddenSerial ==
    ASSUME IInv, IInv', NEW c \in Callers,
           Take(c) \/ Share(c) \/ Wait(c) \/ SpuriousWake(c)
    PROVE  UNCHANGED <<Visible, Told>>
<1>1. Told' = Told
    BY DEF Take, Share, Wait, SpuriousWake, Told
<1>2. \A q \in Resources : Visible'[q] = Visible[q]
    <2>1. CASE Take(c)
        <3>1. on[c] \in Resources /\ on[c] \notin Readers
            BY <2>1 DEF Take, IInv, CallInv, OpsOf
        <3>2. Inside(on[c]) = {}
            BY <2>1, <3>1 DEF Take, Takes, Excluded, IInv, OneInside
        <3>3. at'[c] = "Inside" /\ on'[c] = on[c] /\ took'[c] = state[on[c]]
            BY <2>1 DEF Take, IInv, TypeOK
        <3>4. Visible'[on[c]] = Visible[on[c]]
            BY <3>1, <3>2, <3>3, VisibleState, VisibleStateNext
        <3>5. \A q \in Resources : q # on[c] => Visible'[q] = Visible[q]
            BY <2>1, VisibleSame DEF Take, IInv, TypeOK
        <3>6. QED
            BY <3>4, <3>5
    <2>2. CASE Share(c)
        <3>1. on[c] \in Readers
            BY <2>2 DEF Share, IInv, CallInv, OpsOf
        <3>2. \A q \in Resources \ Readers : Visible'[q] = Visible[q]
            BY <2>2, <3>1, VisibleSame DEF Share, IInv, TypeOK
        <3>3. \A q \in Readers : Visible'[q] = Visible[q]
            BY <2>2, VisibleState, VisibleStateNext DEF Share
        <3>4. QED
            BY <3>2, <3>3
    <2>3. CASE Wait(c) \/ SpuriousWake(c)
        BY <2>3, VisibleSame DEF Wait, SpuriousWake, IInv, TypeOK
    <2>4. QED
        BY <2>1, <2>2, <2>3
<1>3. QED
    BY <1>1, <1>2 DEF Visible

\* A call that needs no storage is answered from the visible state.
LEMMA AnswerSerial ==
    ASSUME IInv, IInv', NEW c \in Callers, Answer(c)
    PROVE  \/ Serial!ReachEnd(c, on[c]) \/ Serial!Abort(c, on[c])
           \/ Serial!Refuse(c, on[c], op[c])
<1> DEFINE r == on[c]
<1>1. r \in Resources /\ op[c] \in OpsOf(r) /\ answer[c] = "Pending" /\ op[c] # "close"
    BY DEF Answer, Decided, IInv, CallInv
<1>2. state' = state
    BY DEF Answer, Decided, PutBack, IInv, TypeOK
<1>3. \A q \in Resources : Visible'[q] = Visible[q]
    BY <1>2, VisibleSame DEF Answer, Decided, Answers, IInv, TypeOK
<1>4. Visible' = Visible
    BY <1>3 DEF Visible
<1>5. Visible[r] = state[r]
    BY <1>1, VisibleState DEF Answer, Decided, Excluded, IInv, OneInside
<1>6. Told[c] = <<r, op[c], "Pending">>
    BY <1>1 DEF Told
<1>7. Told' = [Told EXCEPT ![c] = <<r, op[c], Status(state[r], op[c])>>]
    BY DEF Told, Answer, Decided, Answers, IInv, TypeOK
<1>8. state[r] # "Open" /\ state[r] \in StatesOf(r)
    BY <1>1 DEF Answer, Decided, Takes, IInv, KindInv
<1>9. CASE op[c] = "abort" /\ state[r] = "Aborted"
    <2>1. Visible' = [Visible EXCEPT ![r] = "Aborted"]
        BY <1>1, <1>4, <1>5, <1>9, ZenonT(60) DEF Visible
    <2>2. QED
        BY <1>1, <1>5, <1>6, <1>7, <1>9, <2>1
           DEF Serial!Abort, Serial!Becomes, Serial!Answers, Status, OpsOf
<1>10. CASE op[c] = "next" /\ state[r] \in {"End", "Exhausted"}
    <2>1. state[r] = Serial!EndOf(r) /\ r \in Serial!Cursors
        BY <1>1, <1>8, <1>10 DEF StatesOf, OpsOf, Serial!EndOf, Serial!Cursors
    <2>2. Visible' = [Visible EXCEPT ![r] = Serial!EndOf(r)]
        BY <1>1, <1>4, <1>5, <2>1, ZenonT(60) DEF Visible
    <2>3. QED
        BY <1>5, <1>6, <1>7, <1>10, <2>1, <2>2
           DEF Serial!ReachEnd, Serial!Becomes, Serial!Answers, Status
<1>11. CASE ~(op[c] = "abort" /\ state[r] = "Aborted")
            /\ ~(op[c] = "next" /\ state[r] \in {"End", "Exhausted"})
    <2>1. op[c] = "finish" => state[r] # "End"
        BY DEF Answer, Decided, Takes
    <2>2. op[c] = "next" => state[r] # Serial!EndOf(r)
        BY <1>11 DEF Serial!EndOf
    <2>3. Status(state[r], op[c]) = "Closed"
        BY <1>11 DEF Status
    <2>4. QED
        BY <1>4, <1>5, <1>6, <1>7, <1>8, <1>11, <2>1, <2>2, <2>3
           DEF Serial!Refuse, Serial!Answers
<1>12. QED
    BY <1>9, <1>10, <1>11

\* Answering a pending call is the response of SerialResource.
LEMMA ToldAnswer ==
    ASSUME IInv, NEW c \in Callers, NEW s, answer[c] = "Pending",
           answer' = [answer EXCEPT ![c] = s], UNCHANGED <<on, op>>
    PROVE  Serial!Answers(c, on[c], op[c], s)
<1>1. Told[c] = <<on[c], op[c], "Pending">>
    BY DEF Told
<1>2. Told' = [Told EXCEPT ![c] = <<on[c], op[c], s>>]
    BY DEF Told, IInv, TypeOK
<1>3. QED
    BY <1>1, <1>2 DEF Serial!Answers

\* The end of a storage call is the instant at which the call takes effect.
LEMMA ReturnSerial ==
    ASSUME IInv, IInv', NEW c \in Callers, Return(c)
    PROVE  \/ Serial!Advance(c, on[c], op[c]) \/ Serial!ReachEnd(c, on[c])
           \/ Serial!Finish(c, on[c]) \/ Serial!Abort(c, on[c])
           \/ \E s \in {"Err", "Panic"} : Serial!Break(c, on[c], op[c], s)
<1> DEFINE r == on[c]
           o == op[c]
<1>1. PICK res \in Results(o) :
        /\ state' = [state EXCEPT ![r] = After(r, o, res)]
        /\ Answers(c, res, Notified(r))
    BY DEF Return
<1>2. /\ at[c] = "Inside" /\ r \in Resources \ Readers
      /\ o \in OpsOf(r) /\ o # "close" /\ answer[c] = "Pending"
    BY DEF Return, IInv, CallInv, PlaceInv
<1>3. Takes(took[c], o) /\ (took[c] = "End" => r \in Copiers)
    BY <1>2 DEF IInv, PlaceInv
<1>4. Visible[r] = took[c]
    BY <1>2, VisibleState
<1>5. on' = on /\ \A d \in Callers : at'[d] = "Inside" <=> at[d] = "Inside" /\ d # c
    BY <1>1 DEF Answers, Notified, IInv, TypeOK
<1>6. \A d \in Callers : d # c => took'[d] = took[d]
    BY <1>1 DEF Answers, IInv, TypeOK
<1>7. PICK q \in Resources \ Readers : q = r
    BY <1>2
<1>8. Visible'[r] = After(r, o, res)
    <2>1. Inside(q)' = {}
        BY <1>2, <1>5, <1>7 DEF Inside, IInv, OneInside
    <2>2. Visible'[q] = state'[q]
        BY <2>1, VisibleStateNext
    <2>3. QED
        BY <1>1, <1>7, <2>2 DEF IInv, TypeOK
<1>9. \A p \in Resources : p # r => Visible'[p] = Visible[p]
    BY <1>1, <1>5, <1>6, VisibleSame DEF IInv, TypeOK
<1>10. Serial!Becomes(r, After(r, o, res))
    BY <1>8, <1>9 DEF Visible, Serial!Becomes
<1>11. Serial!Answers(c, r, o, res)
    <2>1. answer' = [answer EXCEPT ![c] = res] /\ UNCHANGED <<on, op>>
        BY <1>1 DEF Answers
    <2>2. QED
        BY ONLY <1>2, <2>1, ToldAnswer, IInv, c \in Callers
<1>12. CASE res = "End"
    <2>1. o = "next" /\ r \in Serial!Cursors /\ took[c] = "Open"
        BY <1>2, <1>3, <1>12 DEF Results, OpsOf, Serial!Cursors, Takes
    <2>2. After(r, o, res) = Serial!EndOf(r)
        BY <1>12 DEF After, EndOf, Serial!EndOf
    <2>3. QED
        BY <1>4, <1>10, <1>11, <1>12, <2>1, <2>2 DEF Serial!ReachEnd
<1>13. CASE res \in {"Err", "Panic"}
    <2>1. After(r, o, res) = Serial!BrokenOf(r)
        BY <1>13 DEF After, BrokenOf, Serial!BrokenOf
    <2>2. QED
        BY <1>2, <1>3, <1>4, <1>10, <1>11, <1>13, <2>1 DEF Serial!Break, Takes
<1>14. CASE res = "Ok" /\ o = "finish"
    <2>1. After(r, o, res) = "Finished"
        BY <1>14 DEF After
    <2>2. r \in Writers \cup Copiers /\ took[c] \in {"Open", "End"}
        BY <1>2, <1>3, <1>14 DEF OpsOf, Takes
    <2>3. QED
        BY <1>3, <1>4, <1>10, <1>11, <1>14, <2>1, <2>2 DEF Serial!Finish
<1>15. CASE res = "Ok" /\ o = "abort"
    <2>1. After(r, o, res) = "Aborted"
        BY <1>15 DEF After
    <2>2. r \in Writers \cup Copiers /\ took[c] = "Open"
        BY <1>2, <1>3, <1>15 DEF OpsOf, Takes
    <2>3. QED
        BY <1>4, <1>10, <1>11, <1>15, <2>1, <2>2 DEF Serial!Abort
<1>16. CASE res = "Ok" /\ o \notin {"finish", "abort"}
    <2>1. After(r, o, res) = "Open" /\ took[c] = "Open"
        BY <1>3, <1>16 DEF After, Takes
    <2>2. Visible' = Visible
        BY <1>2, <1>4, <1>10, <2>1, ZenonT(60) DEF Serial!Becomes, Visible
    <2>3. (o = "write" /\ r \in Writers) \/ (o = "next" /\ r \in Serial!Cursors)
        BY <1>2, <1>16 DEF OpsOf, Serial!Cursors
    <2>4. QED
        BY <1>4, <1>11, <1>16, <2>1, <2>2, <2>3 DEF Serial!Advance
<1>17. QED
    BY <1>12, <1>13, <1>14, <1>15, <1>16 DEF Results

\* A read that returns advances or fails; one that panics does not show until
\* its reader is closed.
LEMMA ReadReturnSerial ==
    ASSUME IInv, IInv', NEW c \in Callers, ReadReturn(c)
    PROVE  \/ Serial!Advance(c, on[c], op[c]) \/ Serial!ReadFails(c, on[c])
           \/ UNCHANGED <<Visible, Told>>
<1> DEFINE r == on[c]
<1>1. /\ r \in Readers /\ op[c] = "read" /\ answer[c] = "Pending"
      /\ state[r] = "Open" /\ state' = state /\ on' = on
    BY DEF ReadReturn, Answers, IInv, CallInv, PlaceInv, OpsOf
<1>2. \A q \in Readers : Visible'[q] = Visible[q]
    BY <1>1, VisibleState, VisibleStateNext
<1>3. \A q \in Resources \ Readers : Visible'[q] = Visible[q]
    BY <1>1, VisibleSame DEF ReadReturn, Answers, IInv, TypeOK
<1>4. Visible' = Visible
    BY <1>2, <1>3 DEF Visible
<1>5. Visible[r] = "Open"
    BY <1>1, VisibleState
<1>6. CASE \E res \in {"Ok", "Err"} : Answers(c, res, at)
    <2>1. PICK res \in {"Ok", "Err"} : Answers(c, res, at)
        BY <1>6
    <2>2. Serial!Answers(c, r, "read", res)
        BY <1>1, <2>1, ToldAnswer DEF Answers
    <2>3. QED
        BY <1>1, <1>4, <1>5, <2>2 DEF Serial!Advance, Serial!ReadFails
<1>7. CASE UNCHANGED <<on, op, took, answer>>
    BY <1>4, <1>7 DEF Told
<1>8. QED
    BY <1>6, <1>7 DEF ReadReturn

\* Closing takes effect under the exclusive lock.
LEMMA CloseSerial ==
    ASSUME IInv, IInv', NEW c \in Callers, Close(c)
    PROVE  Serial!Close(c, on[c]) \/ Serial!ReadFails(c, on[c])
<1> DEFINE r == on[c]
           s == IF at[c] = "Unwound" THEN "Panic" ELSE "Ok"
<1>1. r \in Listers \cup Streams \cup Readers /\ answer[c] = "Pending"
    BY DEF Close, IInv, CallInv, PlaceInv, OpsOf
<1>2. Inside(r) = {}
    BY <1>1 DEF Close, Excluded
<1>3. PICK q \in Resources : q = r
    BY <1>1
<1>4. Visible'[r] = "Closed"
    <2>1. Inside(q)' = {}
        BY <1>2, <1>3 DEF Close, Answers, Inside, IInv, TypeOK
    <2>2. Visible'[q] = state'[q]
        BY <2>1, VisibleStateNext
    <2>3. QED
        BY <1>3, <2>2 DEF Close, IInv, TypeOK
<1>5. \A p \in Resources : p # r => Visible'[p] = Visible[p]
    BY VisibleSame DEF Close, Answers, IInv, TypeOK
<1>6. Serial!Becomes(r, "Closed")
    BY <1>4, <1>5 DEF Visible, Serial!Becomes
<1>7. Serial!Answers(c, r, op[c], s)
    <2>1. answer' = [answer EXCEPT ![c] = s] /\ UNCHANGED <<on, op>>
        BY DEF Close, Answers
    <2>2. QED
        BY ONLY <1>1, <2>1, ToldAnswer, IInv, c \in Callers
<1>8. CASE at[c] = "Unwound"
    BY <1>6, <1>7, <1>8 DEF Serial!ReadFails, IInv, PlaceInv
<1>9. CASE at[c] = "Locking" /\ op[c] = "close"
    BY <1>1, <1>6, <1>7, <1>9 DEF Serial!Close
<1>10. QED
    BY <1>8, <1>9 DEF Close

\* Every step is a step of SerialResource or does not show.
LEMMA StepSerial ==
    ASSUME IInv, IInv', [Next]_vars
    PROVE  [Serial!Next]_(Serial!vars)
<1>1. CASE \E r \in Resources : Create(r) \/ Free(r)
    BY <1>1, HandleSerial DEF Serial!Next, Serial!Resources
<1>2. CASE \E c \in Callers, r \in Resources : \E o \in OpsOf(r) : Enter(c, r, o)
    <2>1. PICK c \in Callers, r \in Resources : \E o \in OpsOf(r) : Enter(c, r, o)
        BY <1>2
    <2>2. PICK o \in OpsOf(r) : Enter(c, r, o)
        BY <2>1
    <2>3. Serial!Call(c, r, o) /\ o \in Serial!Ops
        BY <2>2, EnterSerial DEF OpsOf, Serial!Ops
    <2>4. QED
        BY <2>1, <2>3 DEF Serial!Next, Serial!Resources
<1>3. ASSUME NEW c \in Callers, Proceed(c) \/ SpuriousWake(c)
      PROVE  [Serial!Next]_(Serial!vars)
    <2>1. CASE Take(c) \/ Share(c) \/ Wait(c) \/ SpuriousWake(c)
        BY <2>1, HiddenSerial DEF Serial!vars
    <2>2. CASE Answer(c) \/ Return(c) \/ ReadReturn(c) \/ Close(c)
        <3>1. on[c] \in Serial!Resources /\ (op[c] \in Serial!Ops)
            BY <2>2 DEF Answer, Decided, Return, ReadReturn, Close, IInv, CallInv,
               OpsOf, Serial!Resources, Serial!Ops
        <3>2. CASE Answer(c)
            BY <3>1, <3>2, AnswerSerial DEF Serial!Next
        <3>3. CASE Return(c)
            BY <3>1, <3>3, ReturnSerial DEF Serial!Next
        <3>4. CASE ReadReturn(c)
            BY <3>1, <3>4, ReadReturnSerial DEF Serial!Next, Serial!vars
        <3>5. CASE Close(c)
            BY <3>1, <3>5, CloseSerial DEF Serial!Next
        <3>6. QED
            BY <2>2, <3>2, <3>3, <3>4, <3>5
    <2>3. QED
        BY <1>3, <2>1, <2>2 DEF Proceed
<1>4. CASE UNCHANGED vars
    <2>1. Told' = Told
        BY <1>4 DEF vars, Told
    <2>2. \A q \in Resources : Visible'[q] = Visible[q]
        BY <1>4, VisibleSame DEF vars
    <2>3. Visible' = Visible
        BY <2>2 DEF Visible
    <2>4. QED
        BY <2>1, <2>3 DEF Serial!vars
<1>5. QED
    BY <1>1, <1>2, <1>3, <1>4 DEF Next

\* With any number of threads the synchronous resources behave as if their
\* calls happened one at a time.
THEOREM RefinesSerial == Spec => ImplementsSerial
<1>1. IInv /\ IInv' /\ [Next]_vars => [Serial!Next]_(Serial!vars)
    BY StepSerial
<1>2. QED
    BY <1>1, InitSerial, Invariance, PTL DEF Spec, ImplementsSerial, Serial!Spec
=============================================================================
