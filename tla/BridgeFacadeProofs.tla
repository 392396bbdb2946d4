------------------------ MODULE BridgeFacadeProofs ------------------------
(***************************************************************************)
(* The safety of BridgeFacade for arenas, buffers, configurations and       *)
(* listings of any size.  IInv is shown to be inductive: first what every   *)
(* step leaves in order whichever method takes it, then, method by method,  *)
(* that its steps lead from one place of the method to the next.            *)
(***************************************************************************)
EXTENDS BridgeFacade, SequenceTheorems, WellFoundedInduction, TLAPS

-----------------------------------------------------------------------------
(* Induction over data *)

\* Every non-empty set of natural numbers has a least member.
LEMMA LeastMember ==
    ASSUME NEW T \in SUBSET Nat, T # {}
    PROVE  \E x \in T : \A y \in T : x <= y
<1> DEFINE R == OpToRel(<, Nat)
<1>1. IsWellFoundedOn(R, Nat)
    BY NatLessThanWellFounded, Zenon
<1>2. \A x, y \in Nat : x < y => <<x, y>> \in R
    BY DEF OpToRel
<1> HIDE DEF R
<1>3. PICK x \in T : \A y \in T : ~(<<y, x>> \in R)
    BY <1>1, WFMin, Zenon
<1>4. ASSUME NEW y \in T PROVE x <= y
  <2>1. x \in Nat /\ y \in Nat /\ ~(y < x)
      BY <1>2, <1>3, <1>4
  <2>2. QED
      BY <2>1
<1>5. QED
    BY <1>4

\* Induction up to n, over the set of the numbers for which something holds.
LEMMA UpTo ==
    ASSUME NEW n \in Nat, NEW T, 0 \in T, \A i \in 1..n : i - 1 \in T => i \in T
    PROVE  \A i \in 0..n : i \in T
<1> DEFINE Bad == {i \in 0..n : i \notin T}
<1> SUFFICES ASSUME Bad # {} PROVE FALSE
    OBVIOUS
<1>1. Bad \in SUBSET Nat
    OBVIOUS
<1>2. PICK m \in Bad : \A y \in Bad : m <= y
    BY <1>1, LeastMember
<1>3. m # 0 /\ m \in 1..n
    BY <1>2
<1>4. m - 1 \in 0..n /\ m - 1 \notin Bad
    BY <1>2, <1>3
<1>5. QED
    BY <1>2, <1>3, <1>4

\* The values of g are those of n steps from b.
Repeats(g, n, b, F) == g[0] = b /\ \A i \in 1..n : g[i] = F[i][g[i - 1]]

\* A step that is defined everywhere can be repeated any number of times.
LEMMA Repeated ==
    ASSUME NEW S, NEW n \in Nat, NEW b \in S, NEW F \in [1..n -> [S -> S]]
    PROVE  \E g \in [0..n -> S] : Repeats(g, n, b, F)
<1> DEFINE Is(g, m) == g[0] = b /\ \A i \in 1..m : g[i] = F[i][g[i - 1]]
           Has(m) == \E g \in [0..n -> S] : Is(g, m)
           T == {m \in 0..n : Has(m)}
<1>1. Has(0)
  <2>1. [i \in 0..n |-> b] \in [0..n -> S] /\ Is([i \in 0..n |-> b], 0)
      OBVIOUS
  <2>2. QED
      BY <2>1
<1>2. ASSUME NEW m \in 1..n, Has(m - 1) PROVE Has(m)
  <2>1. PICK g \in [0..n -> S] : Is(g, m - 1)
      BY <1>2
  <2> DEFINE h == [g EXCEPT ![m] = F[m][g[m - 1]]]
  <2>2. m \in Nat /\ m # 0 /\ m - 1 \in 0..n /\ g[m - 1] \in S /\ F[m] \in [S -> S]
      OBVIOUS
  <2>3. h \in [0..n -> S]
      BY <2>2
  <2>4. h[0] = b /\ h[m] = F[m][h[m - 1]]
      BY <2>1, <2>2
  <2>5. ASSUME NEW i \in 1..(m - 1) PROVE h[i] = F[i][h[i - 1]]
      BY <2>1, <2>2
  <2>6. Is(h, m)
      BY <2>4, <2>5
  <2>7. QED
      BY <2>3, <2>6
<1> HIDE DEF Has
<1>3. 0 \in T /\ \A i \in 1..n : i - 1 \in T => i \in T
    BY <1>1, <1>2
<1>4. n \in T
  <2> HIDE DEF T
  <2>1. \A i \in 0..n : i \in T
      BY <1>3, UpTo
  <2>2. QED
      BY <2>1
<1>5. QED
    BY <1>4 DEF Has, Repeats

-----------------------------------------------------------------------------
(* Checks, slots and windows *)

\* The error of a sequence of checks is one of theirs, and none only if there
\* is none.
LEMMA FirstOf ==
    ASSUME NEW n \in Nat, NEW c, DOMAIN c = 1..n
    PROVE  /\ FirstError(c) = "None" <=> \A i \in 1..n : c[i] = "None"
           /\ FirstError(c) = "None" \/ \E i \in 1..n : FirstError(c) = c[i]
<1>1. CASE \A i \in 1..n : c[i] = "None"
    BY <1>1 DEF FirstError
<1>2. CASE ~(\A i \in 1..n : c[i] = "None")
  <2> DEFINE Failed == {i \in 1..n : c[i] # "None"}
             First(i) == i \in 1..n /\ c[i] # "None" /\ \A j \in 1..(i - 1) : c[j] = "None"
  <2>1. Failed \in SUBSET Nat /\ Failed # {}
      BY <1>2
  <2>2. PICK f \in Failed : \A y \in Failed : f <= y
      BY <2>1, LeastMember
  <2>3. First(f)
      BY <2>2
  <2>4. First(CHOOSE i \in 1..n : First(i))
      BY <2>3, Zenon
  <2>5. FirstError(c) = c[CHOOSE i \in 1..n : First(i)]
    <3>1. FirstError(c) = c[CHOOSE i \in DOMAIN c : c[i] # "None" /\ \A j \in 1..(i - 1) : c[j] = "None"]
        BY <1>2 DEF FirstError
    <3>2. (CHOOSE i \in 1..n : c[i] # "None" /\ \A j \in 1..(i - 1) : c[j] = "None")
            = CHOOSE i \in 1..n : First(i)
        BY Zenon
    <3>3. QED
        BY <3>1, <3>2
  <2>6. QED
      BY <1>2, <2>4, <2>5
<1>3. QED
    BY <1>1, <1>2

\* Two checks.
LEMMA FirstOfTwo ==
    ASSUME NEW a, NEW b
    PROVE  /\ FirstError(<<a, b>>) = "None" <=> (a = "None" /\ b = "None")
           /\ FirstError(<<a, b>>) \in {"None", a, b}
<1> DEFINE c == <<a, b>>
           n == 2
<1>1. n \in Nat /\ DOMAIN c = 1..n /\ n = 2 /\ c[1] = a /\ c[2] = b
    OBVIOUS
<1> HIDE DEF c, n
<1>2. /\ FirstError(c) = "None" <=> \A i \in 1..n : c[i] = "None"
      /\ FirstError(c) = "None" \/ \E i \in 1..n : FirstError(c) = c[i]
    BY <1>1, FirstOf
<1>3. 1..n = {1, 2}
    BY <1>1
<1>4. /\ FirstError(c) = "None" <=> (a = "None" /\ b = "None")
      /\ FirstError(c) \in {"None", a, b}
    BY <1>1, <1>2, <1>3
<1>5. QED
    BY <1>4 DEF c

\* Three checks.
LEMMA FirstOfThree ==
    ASSUME NEW a, NEW b, NEW d
    PROVE  /\ FirstError(<<a, b, d>>) = "None" <=> (a = "None" /\ b = "None" /\ d = "None")
           /\ FirstError(<<a, b, d>>) \in {"None", a, b, d}
<1> DEFINE c == <<a, b, d>>
           n == 3
<1>1. n \in Nat /\ DOMAIN c = 1..n /\ n = 3 /\ c[1] = a /\ c[2] = b /\ c[3] = d
    OBVIOUS
<1> HIDE DEF c, n
<1>2. /\ FirstError(c) = "None" <=> \A i \in 1..n : c[i] = "None"
      /\ FirstError(c) = "None" \/ \E i \in 1..n : FirstError(c) = c[i]
    BY <1>1, FirstOf
<1>3. 1..n = {1, 2, 3}
    BY <1>1
<1>4. /\ FirstError(c) = "None" <=> (a = "None" /\ b = "None" /\ d = "None")
      /\ FirstError(c) \in {"None", a, b, d}
    BY <1>1, <1>2, <1>3
<1>5. QED
    BY <1>4 DEF c

\* Four checks.
LEMMA FirstOfFour ==
    ASSUME NEW a, NEW b, NEW d, NEW e
    PROVE  /\ FirstError(<<a, b, d, e>>) = "None"
                <=> (a = "None" /\ b = "None" /\ d = "None" /\ e = "None")
           /\ FirstError(<<a, b, d, e>>) \in {"None", a, b, d, e}
<1> DEFINE c == <<a, b, d, e>>
           n == 4
<1>1. n \in Nat /\ DOMAIN c = 1..n /\ n = 4 /\ c[1] = a /\ c[2] = b /\ c[3] = d /\ c[4] = e
    OBVIOUS
<1> HIDE DEF c, n
<1>2. /\ FirstError(c) = "None" <=> \A i \in 1..n : c[i] = "None"
      /\ FirstError(c) = "None" \/ \E i \in 1..n : FirstError(c) = c[i]
    BY <1>1, FirstOf
<1>3. 1..n = {1, 2, 3, 4}
    BY <1>1
<1>4. /\ FirstError(c) = "None" <=> (a = "None" /\ b = "None" /\ d = "None" /\ e = "None")
      /\ FirstError(c) \in {"None", a, b, d, e}
    BY <1>1, <1>2, <1>3
<1>5. QED
    BY <1>4 DEF c

\* insert takes a vacant slot.
LEMMA SlotFree ==
    ASSUME Free # {}
    PROVE  Slot \in 1..Slots /\ arena[Slot] = Nil
<1>0. Slots \in Nat
    BY FacadeAssumption
<1>1. Free \in SUBSET Nat
    BY <1>0 DEF Free
<1>2. \E s \in Free : \A t \in Free : s <= t
    BY <1>1, LeastMember
<1>3. Slot \in Free
    BY <1>2 DEF Slot
<1>4. QED
    BY <1>3 DEF Free

\* The windows in which a buffer is copied leave no byte out.
THEOREM AllCovered ==
    ASSUME NEW n \in Nat
    PROVE  Covered(n) = 0 .. n - 1
<1> DEFINE M == MaxChunk
           size(o) == IF n - o < M THEN n - o ELSE M
<1>0. M \in Nat \ {0}
    BY FacadeAssumption
<1>1. \A w \in Windows(n) : \E o \in 0..n : o < n /\ w = <<o, size(o)>>
    BY DEF Windows
<1>2. Covered(n) \subseteq 0 .. n - 1
  <2> SUFFICES ASSUME NEW w \in Windows(n), NEW x \in w[1] .. w[1] + w[2] - 1
               PROVE  x \in 0 .. n - 1
      BY DEF Covered
  <2>1. PICK o \in 0..n : o < n /\ w = <<o, size(o)>>
      BY <1>1
  <2>2. size(o) \in Nat /\ o + size(o) <= n
      BY <1>0
  <2> HIDE DEF size, M
  <2>3. w[1] = o /\ w[2] = size(o)
      BY <2>1
  <2>4. QED
      BY <2>2, <2>3
<1>3. ASSUME NEW x \in 0 .. n - 1 PROVE x \in Covered(n)
  <2> DEFINE T == {i \in Nat : x < (i + 1) * M}
  <2> HIDE DEF M
  <2>1. x \in T
    <3>1. x \in Nat
        OBVIOUS
    <3>2. x < (x + 1) * M
        BY <1>0, <3>1
    <3>3. QED
        BY <3>1, <3>2
  <2>2. T \in SUBSET Nat
      OBVIOUS
  <2>3. PICK i \in T : \A y \in T : i <= y
      BY <2>1, <2>2, LeastMember
  <2>4. i * M <= x /\ i <= x /\ i \in Nat
    <3>1. i <= x /\ i \in Nat
        BY <2>1, <2>3
    <3>2. CASE i = 0
        BY <1>0, <3>2
    <3>3. CASE i # 0
      <4>1. i - 1 \in Nat /\ i - 1 \notin T
          BY <2>3, <3>3
      <4>2. ~(x < ((i - 1) + 1) * M)
          BY <4>1
      <4>3. (i - 1) + 1 = i /\ i * M \in Nat
          BY <1>0, <3>1
      <4>4. QED
          BY <4>2, <4>3, <3>1
    <3>4. QED
        BY <3>2, <3>3
  <2> DEFINE o == i * M
  <2>5. o \in Nat /\ o <= x /\ x < o + M
      BY <1>0, <2>3, <2>4
  <2>6. i <= o
      BY <1>0, <2>4
  <2> HIDE DEF T
  <2>7. o \in 0..n /\ o < n /\ \E j \in 0..o : o = j * M
      BY <2>4, <2>5, <2>6
  <2> HIDE DEF o
  <2>8. <<o, size(o)>> \in Windows(n)
      BY <2>7 DEF Windows, M
  <2>9. x \in o .. o + size(o) - 1
      BY <2>5, <1>0
  <2> DEFINE w == <<o, size(o)>>
  <2>10. w[1] = o /\ w[2] = size(o) /\ w \in Windows(n)
      BY <2>8
  <2> HIDE DEF w, size
  <2>11. QED
      BY <2>9, <2>10 DEF Covered
<1>4. QED
    BY <1>2, <1>3

-----------------------------------------------------------------------------
(* The steps of a method *)

\* What steps are made of.
ConfigEntry == [key : STRING, case : STRING, bytes : Nat]
Ops == {"Check", "Put", "Enter", "Leave", "Keep", "BuilderNew", "BuilderSet", "Build", "Info",
        "Query", "Start", "Poll", "Metadata", "Snapshot"}
Names == {"scheme", "key", "value", "path", "version", "start_after", "source", "destination",
          "operator"}
Calls == {"Read", "List", "Copy"}
Errors == {"None", "InvalidArgument", "LengthOverflow", "Unsupported"}
StepArgs == Errors \cup (SUBSET Names) \cup Nat \cup BOOLEAN \cup ConfigEntry
              \cup [name : Names, len : Nat] \cup [call : Calls, error : Errors]
StepSet == [op : Ops, arg : StepArgs]

\* The first of the steps that are left is the one at that place, and the rest
\* is what is left from the next place on.
LEMMA Walk ==
    ASSUME NEW S, NEW p \in Seq(S), NEW i \in 1..Len(p)
    PROVE  /\ Left(p, i) \in Seq(S) /\ Left(p, i) # <<>>
           /\ Head(Left(p, i)) = p[i] /\ Tail(Left(p, i)) = Left(p, i + 1)
           /\ IF i = Len(p) THEN Left(p, i + 1) = <<>>
              ELSE Left(p, i + 1) # <<>> /\ Head(Left(p, i + 1)) = p[i + 1]
           /\ Left(p, 1) = p
<1> DEFINE n == Len(p)
           q == Left(p, i)
<1>1. n \in Nat /\ i \in 1..n
    BY LenProperties
<1>2. \A j \in i..n : p[j] \in S
    BY <1>1, ElementOfSeq
<1>3. q \in Seq(S) /\ Len(q) = n - i + 1 /\ \A j \in 1..(n - i + 1) : q[j] = p[i + j - 1]
    BY <1>1, <1>2, SubSeqProperties DEF Left
<1>4. q # <<>> /\ Head(q) = p[i]
    BY <1>1, <1>3
<1>5. /\ Tail(q) = Left(p, i + 1)
      /\ i # n => Left(p, i + 1) # <<>> /\ Head(Left(p, i + 1)) = p[i + 1]
  <2>1. \A j \in (i + 1)..n : p[j] \in S
      BY <1>2
  <2> DEFINE k == i + 1
  <2>2. k \in 1..(n + 1) /\ \A j \in k..n : p[j] \in S
      BY <1>1, <2>1
  <2> DEFINE r == Left(p, k)
  <2> HIDE DEF k
  <2>3. r \in Seq(S) /\ Len(r) = n - k + 1 /\ \A j \in 1..(n - k + 1) : r[j] = p[k + j - 1]
      BY <1>1, <2>2, SubSeqProperties, LenProperties DEF Left
  <2> HIDE DEF q, r
  <2>4. Tail(q) \in Seq(S) /\ Len(Tail(q)) = n - i /\ \A j \in 1..(n - i) : Tail(q)[j] = q[j + 1]
      BY <1>1, <1>3, <1>4, HeadTailProperties
  <2>5. Len(r) = n - i /\ \A j \in 1..(n - i) : r[j] = p[i + j]
      BY <1>1, <2>3 DEF k
  <2>6. \A j \in 1..(n - i) : Tail(q)[j] = p[i + j]
      BY <1>1, <1>3, <2>4
  <2>7. Tail(q) = r
      BY <2>3, <2>4, <2>5, <2>6, SeqEqual
  <2>8. i # n => r # <<>> /\ Head(r) = p[i + 1]
      BY <1>1, <2>3, <2>5
  <2>9. QED
      BY <2>7, <2>8 DEF r, k
<1>6. i = n => Left(p, i + 1) = <<>>
    BY <1>1, SubSeqEmpty DEF Left
<1>7. Left(p, 1) = p
    BY SubSeqFull DEF Left
<1>8. QED
    BY <1>3, <1>4, <1>5, <1>6, <1>7

\* The same when a second part follows.
LEMMA WalkOn ==
    ASSUME NEW S, NEW p \in Seq(S), NEW r \in Seq(S), NEW i \in 1..Len(p)
    PROVE  /\ Left(p, i) \o r # <<>>
           /\ Head(Left(p, i) \o r) = p[i] /\ Tail(Left(p, i) \o r) = Left(p, i + 1) \o r
           /\ IF i = Len(p) THEN Left(p, i + 1) \o r = r
              ELSE Left(p, i + 1) \o r # <<>> /\ Head(Left(p, i + 1) \o r) = p[i + 1]
           /\ Left(p, 1) \o r = p \o r
<1> DEFINE a == Left(p, i)
           b == Left(p, i + 1)
<1>1. /\ a \in Seq(S) /\ a # <<>> /\ Head(a) = p[i] /\ Tail(a) = b
      /\ IF i = Len(p) THEN b = <<>> ELSE b # <<>> /\ Head(b) = p[i + 1]
      /\ Left(p, 1) = p
    BY Walk
<1> HIDE DEF a, b
<1>2. b \in Seq(S)
    BY <1>1, HeadTailProperties
<1>3. a \o r \in Seq(S) /\ a \o r # <<>> /\ Head(a \o r) = Head(a) /\ Tail(a \o r) = Tail(a) \o r
    BY <1>1, HeadTailProperties, ConcatProperties, SMTT(60)
<1>4. i = Len(p) => b \o r = r
    BY <1>1, ConcatEmptySeq
<1>5. b # <<>> => b \o r # <<>> /\ Head(b \o r) = Head(b)
    BY <1>2, HeadTailProperties, ConcatProperties, SMTT(60)
<1>6. QED
    BY <1>1, <1>3, <1>4, <1>5 DEF a, b

\* A method that is at its i-th step.
LEMMA Going ==
    ASSUME NEW p \in Seq(StepSet), NEW r \in Seq(StepSet), NEW i \in 1..Len(p),
           job.steps = Left(p, i) \o r
    PROVE  /\ job.steps # <<>> /\ Head(job.steps) = p[i]
           /\ Tail(job.steps) = Left(p, i + 1) \o r
           /\ i = Len(p) => Tail(job.steps) = r
           /\ i # Len(p) => Tail(job.steps) # <<>> /\ Head(Tail(job.steps)) = p[i + 1]
<1> DEFINE S == StepSet
           a == Left(p, i) \o r
           b == Left(p, i + 1) \o r
           d == Left(p, 1) \o r
           e == p \o r
<1>1. /\ a # <<>>
      /\ Head(a) = p[i] /\ Tail(a) = b
      /\ IF i = Len(p) THEN b = r ELSE b # <<>> /\ Head(b) = p[i + 1]
      /\ d = e
    BY WalkOn
<1> HIDE DEF a, b
<1>2. job.steps = a
    BY DEF a
<1>3. QED
    BY <1>1, <1>2 DEF b

\* A method that is at the first step of a part.
LEMMA Starting ==
    ASSUME NEW p \in Seq(StepSet), NEW r \in Seq(StepSet), p # <<>>
    PROVE  Left(p, 1) \o r = p \o r /\ p \o r # <<>>
<1>1. Left(p, 1) = p
    BY SubSeqFull DEF Left
<1>2. p \o r # <<>>
    BY ConcatProperties, HeadTailProperties, SMTT(60)
<1>3. QED
    BY <1>1, <1>2

\* The same for the last part of a method.
LEMMA GoingLast ==
    ASSUME NEW p \in Seq(StepSet), NEW i \in 1..Len(p), job.steps = Left(p, i)
    PROVE  /\ job.steps # <<>> /\ Head(job.steps) = p[i]
           /\ Tail(job.steps) = Left(p, i + 1)
           /\ i = Len(p) => Tail(job.steps) = <<>>
           /\ i # Len(p) => Tail(job.steps) # <<>> /\ Head(Tail(job.steps)) = p[i + 1]
<1> DEFINE S == StepSet
           a == Left(p, i)
           b == Left(p, i + 1)
           d == Left(p, 1)
<1>1. /\ a \in Seq(S) /\ a # <<>>
      /\ Head(a) = p[i] /\ Tail(a) = b
      /\ IF i = Len(p) THEN b = <<>> ELSE b # <<>> /\ Head(b) = p[i + 1]
      /\ d = p
    BY Walk
<1> HIDE DEF a, b
<1>2. job.steps = a
    BY DEF a
<1>3. QED
    BY <1>1, <1>2 DEF b

\* The arguments of the steps are of these kinds, and make steps.
LEMMA ArgsMakeSteps ==
    /\ \A op \in Ops, a \in Errors : Step(op, a) \in StepSet
    /\ \A op \in Ops, a \in SUBSET Names : Step(op, a) \in StepSet
    /\ \A op \in Ops, a \in Nat : Step(op, a) \in StepSet
    /\ \A op \in Ops, a \in BOOLEAN : Step(op, a) \in StepSet
    /\ \A op \in Ops, a \in ConfigEntry : Step(op, a) \in StepSet
    /\ \A op \in Ops, call \in Calls, error \in Errors : Step(op, [call |-> call, error |-> error]) \in StepSet
    /\ \A name \in Names, n \in Nat : Put(name, n) \in StepSet
<1>1. \A op \in Ops, a \in StepArgs : Step(op, a) \in StepSet
    BY DEF Step, StepSet
<1>2. /\ \A call \in Calls, error \in Errors : [call |-> call, error |-> error] \in [call : Calls, error : Errors]
      /\ \A name \in Names, n \in Nat : [name |-> name, len |-> n] \in [name : Names, len : Nat]
    OBVIOUS
<1>3. Errors \subseteq StepArgs /\ SUBSET Names \subseteq StepArgs /\ Nat \subseteq StepArgs
    BY Zenon DEF StepArgs
<1>4. BOOLEAN \subseteq StepArgs /\ ConfigEntry \subseteq StepArgs
    BY Zenon DEF StepArgs
<1>5. /\ [name : Names, len : Nat] \subseteq StepArgs
      /\ [call : Calls, error : Errors] \subseteq StepArgs
    BY Zenon DEF StepArgs
<1>6. \A call \in Calls, error \in Errors : [call |-> call, error |-> error] \in StepArgs
    BY <1>2, <1>5, Zenon
<1>7. \A name \in Names, n \in Nat : Step("Put", [name |-> name, len |-> n]) \in StepSet
  <2>1. \A name \in Names, n \in Nat : [name |-> name, len |-> n] \in StepArgs
      BY <1>2, <1>5, Zenon
  <2>2. "Put" \in Ops
      BY DEF Ops
  <2>3. QED
      BY <1>1, <2>1, <2>2, Zenon
<1>8. \A op \in Ops, a \in SUBSET Names : Step(op, a) \in StepSet
    BY <1>1, <1>3, Zenon
<1>9. \A op \in Ops, a \in BOOLEAN : Step(op, a) \in StepSet
    BY <1>1, <1>4, Zenon
<1>10. \A op \in Ops, a \in ConfigEntry : Step(op, a) \in StepSet
    BY <1>1, <1>4, Zenon
<1>11. /\ \A op \in Ops, a \in Errors : Step(op, a) \in StepSet
       /\ \A op \in Ops, a \in Nat : Step(op, a) \in StepSet
    BY <1>1, <1>3, Zenon
<1>12. \A op \in Ops, call \in Calls, error \in Errors : Step(op, [call |-> call, error |-> error]) \in StepSet
    BY <1>1, <1>6, Zenon
<1>13. QED
    BY <1>7, <1>8, <1>9, <1>10, <1>11, <1>12, Zenon DEF Put

\* What the checks before a step say.
LEMMA ChecksAreErrors ==
    /\ \A c : normalizeConfig(c) \in {"None", "InvalidArgument"}
    /\ \A r : normalizeRange(r) \in {"None", "InvalidArgument"}
    /\ \A r, native : FirstError(<<byte_range(r), ensure_suffix_is_native(r, native)>>)
                         \in {"None", "InvalidArgument", "Unsupported"}
    /\ \A limit : optional_list_limit(limit) \in {"None", "LengthOverflow"}
<1>1. \A ok, e : Unless(ok, e) \in {"None", e}
    BY SMT DEF Unless
<1>2. ASSUME NEW c PROVE normalizeConfig(c) \in {"None", "InvalidArgument"}
  <2> DEFINE a == Unless(Len(c) <= MaxConfigEntries, "InvalidArgument")
             b == Unless(Bytes(c) <= MaxConfigBytes, "InvalidArgument")
  <2>1. a \in {"None", "InvalidArgument"} /\ b \in {"None", "InvalidArgument"}
      BY <1>1
  <2>2. normalizeConfig(c) = FirstError(<<a, b>>)
      BY DEF normalizeConfig
  <2> HIDE DEF a, b
  <2>3. FirstError(<<a, b>>) \in {"None", a, b}
      BY FirstOfTwo
  <2>4. QED
      BY <2>1, <2>2, <2>3
<1>3. ASSUME NEW r, NEW native
      PROVE  FirstError(<<byte_range(r), ensure_suffix_is_native(r, native)>>)
               \in {"None", "InvalidArgument", "Unsupported"}
  <2> DEFINE a == byte_range(r)
             b == ensure_suffix_is_native(r, native)
  <2>1. a \in {"None", "InvalidArgument"} /\ b \in {"None", "Unsupported"}
      BY <1>1, Zenon DEF byte_range, ensure_suffix_is_native
  <2> HIDE DEF a, b
  <2>3. FirstError(<<a, b>>) \in {"None", a, b}
      BY FirstOfTwo
  <2>4. FirstError(<<a, b>>) \in {"None", "InvalidArgument", "Unsupported"}
      BY <2>1, <2>3
  <2>5. QED
      BY <2>4 DEF a, b
<1>4. ASSUME NEW r PROVE normalizeRange(r) \in {"None", "InvalidArgument"}
    BY <1>1, Zenon DEF normalizeRange
<1>5. ASSUME NEW limit PROVE optional_list_limit(limit) \in {"None", "LengthOverflow"}
    BY <1>1, Zenon DEF optional_list_limit
<1>6. QED
    BY <1>2, <1>3, <1>4, <1>5

\* The steps up to the builder.
LEMMA SchemeProgram ==
    ASSUME NEW n \in Nat, NEW c
    PROVE  /\ SchemeSteps(n, c) \in Seq(StepSet) /\ Len(SchemeSteps(n, c)) = 5
           /\ SchemeSteps(n, c)[1] = Step("Check", normalizeConfig(c))
           /\ SchemeSteps(n, c)[2] = Put("scheme", n)
           /\ SchemeSteps(n, c)[3] = Step("Enter", {"scheme"})
           /\ SchemeSteps(n, c)[4] = Step("BuilderNew", n)
           /\ SchemeSteps(n, c)[5] = Step("Leave", {"scheme"})
<1>1. normalizeConfig(c) \in Errors
    BY ChecksAreErrors DEF Errors
<1>2. /\ Step("Check", normalizeConfig(c)) \in StepSet /\ Put("scheme", n) \in StepSet
      /\ Step("Enter", {"scheme"}) \in StepSet /\ Step("BuilderNew", n) \in StepSet
      /\ Step("Leave", {"scheme"}) \in StepSet
    BY <1>1, ArgsMakeSteps DEF Ops, Names, Calls, Errors
<1>3. QED
    BY <1>2 DEF SchemeSteps

\* The steps of one entry of a configuration.
LEMMA ConfigProgram ==
    ASSUME NEW e \in ConfigEntry
    PROVE  /\ ConfigSteps(e) \in Seq(StepSet) /\ Len(ConfigSteps(e)) = 5
           /\ ConfigSteps(e)[1] = Put("key", e.bytes)
           /\ ConfigSteps(e)[2] = Put("value", 0)
           /\ ConfigSteps(e)[3] = Step("Enter", {"key", "value"})
           /\ ConfigSteps(e)[4] = Step("BuilderSet", e)
           /\ ConfigSteps(e)[5] = Step("Leave", {"key", "value"})
<1>1. e.bytes \in Nat
    BY DEF ConfigEntry
<1>2. /\ Put("key", e.bytes) \in StepSet /\ Put("value", 0) \in StepSet
      /\ Step("Enter", {"key", "value"}) \in StepSet /\ Step("BuilderSet", e) \in StepSet
      /\ Step("Leave", {"key", "value"}) \in StepSet
    BY <1>1, ArgsMakeSteps DEF Ops, Names, Calls, Errors
<1>3. QED
    BY <1>2 DEF ConfigSteps

\* The steps from the builder to the operator.
LEMMA BuildProgram ==
    /\ BuildSteps \in Seq(StepSet) /\ Len(BuildSteps) = 7
    /\ BuildSteps[1] = Step("Build", 0)
    /\ BuildSteps[2] = Step("Info", FALSE)
    /\ BuildSteps[3] = Step("Info", FALSE)
    /\ BuildSteps[4] = Step("Info", FALSE)
    /\ BuildSteps[5] = Step("Query", 0)
    /\ BuildSteps[6] = Step("Query", 1)
    /\ BuildSteps[7] = Step("Keep", {"operator"})
<1>1. /\ Step("Build", 0) \in StepSet /\ Step("Info", FALSE) \in StepSet
      /\ Step("Query", 0) \in StepSet /\ Step("Query", 1) \in StepSet
      /\ Step("Keep", {"operator"}) \in StepSet
    BY ArgsMakeSteps DEF Ops, Names, Calls, Errors
<1> DEFINE a == Step("Build", 0)
           b == Step("Info", FALSE)
           d == Step("Query", 0)
           e == Step("Query", 1)
           f == Step("Keep", {"operator"})
<1>2. BuildSteps = <<a, b, b, b, d, e, f>>
    BY DEF BuildSteps
<1>0. a \in StepSet /\ b \in StepSet /\ d \in StepSet /\ e \in StepSet /\ f \in StepSet
    BY <1>1
<1> HIDE DEF a, b, d, e, f
<1>3. /\ <<a, b, b, b, d, e, f>> \in Seq(StepSet) /\ Len(<<a, b, b, b, d, e, f>>) = 7
      /\ <<a, b, b, b, d, e, f>>[1] = a /\ <<a, b, b, b, d, e, f>>[2] = b
      /\ <<a, b, b, b, d, e, f>>[3] = b /\ <<a, b, b, b, d, e, f>>[4] = b
      /\ <<a, b, b, b, d, e, f>>[5] = d /\ <<a, b, b, b, d, e, f>>[6] = e
      /\ <<a, b, b, b, d, e, f>>[7] = f
    BY <1>0
<1>4. QED
    BY <1>2, <1>3 DEF a, b, d, e, f

\* The steps of a read.
LEMMA ReadProgram ==
    ASSUME NEW n \in Nat, NEW r, NEW native
    PROVE  /\ ReadSteps(n, r, native) \in Seq(StepSet) /\ Len(ReadSteps(n, r, native)) = 6
           /\ ReadSteps(n, r, native)[1] = Put("path", n)
           /\ ReadSteps(n, r, native)[2] = Step("Enter", {"path"})
           /\ ReadSteps(n, r, native)[3] = Step("Check", normalizeRange(r))
           /\ ReadSteps(n, r, native)[4] = Put("version", n)
           /\ ReadSteps(n, r, native)[5] = Step("Enter", {"version"})
           /\ ReadSteps(n, r, native)[6] =
                  Step("Start", [call |-> "Read", error |->
                       FirstError(<<byte_range(r), ensure_suffix_is_native(r, native)>>)])
<1> DEFINE e == FirstError(<<byte_range(r), ensure_suffix_is_native(r, native)>>)
<1>1. normalizeRange(r) \in Errors /\ e \in Errors
    BY ChecksAreErrors DEF Errors
<1> HIDE DEF e
<1>2. /\ Put("path", n) \in StepSet /\ Step("Enter", {"path"}) \in StepSet
      /\ Step("Check", normalizeRange(r)) \in StepSet /\ Put("version", n) \in StepSet
      /\ Step("Enter", {"version"}) \in StepSet
      /\ Step("Start", [call |-> "Read", error |-> e]) \in StepSet
    BY <1>1, ArgsMakeSteps DEF Ops, Names, Calls, Errors
<1>3. ReadSteps(n, r, native) =
          <<Put("path", n), Step("Enter", {"path"}), Step("Check", normalizeRange(r)),
            Put("version", n), Step("Enter", {"version"}),
            Step("Start", [call |-> "Read", error |-> e])>>
    BY DEF ReadSteps, e
<1>4. QED
    BY <1>2, <1>3 DEF e

\* There are some.
LEMMA ReadNotEmpty ==
    ASSUME NEW n \in Nat, NEW r, NEW native
    PROVE  ReadSteps(n, r, native) \in Seq(StepSet) /\ ReadSteps(n, r, native) # <<>>
<1> DEFINE e == FirstError(<<byte_range(r), ensure_suffix_is_native(r, native)>>)
           p == ReadSteps(n, r, native)
<1>1. /\ p \in Seq(StepSet) /\ Len(p) = 6
      /\ p[1] = Put("path", n)
      /\ p[2] = Step("Enter", {"path"})
      /\ p[3] = Step("Check", normalizeRange(r))
      /\ p[4] = Put("version", n)
      /\ p[5] = Step("Enter", {"version"})
      /\ p[6] = Step("Start", [call |-> "Read", error |-> e])
    BY ReadProgram
<1> HIDE DEF e, p
<1>2. ASSUME p = <<>> PROVE FALSE
  <2>1. Len(<<>>) = 6
      BY <1>1, <1>2, Zenon
  <2>2. QED
      BY <2>1
<1>3. p \in Seq(StepSet) /\ p # <<>>
    BY <1>1, <1>2, Zenon
<1>4. QED
    BY <1>3 DEF p

\* The steps of a call with two texts.
LEMMA TwoInputsProgram ==
    ASSUME NEW n \in Nat, NEW a \in Names, NEW b \in Names, NEW start \in StepSet,
           NEW p, p = TwoInputs(a, b, n, start)
    PROVE  /\ p \in Seq(StepSet) /\ Len(p) = 5
           /\ p[1] = Put(a, n) /\ p[3] = Put(b, n) /\ p[5] = start
<1>1. /\ Put(a, n) \in StepSet /\ Step("Enter", {a}) \in StepSet
      /\ Put(b, n) \in StepSet /\ Step("Enter", {b}) \in StepSet
    BY ArgsMakeSteps DEF Ops, Names, Calls, Errors
<1>2. QED
    BY <1>1 DEF TwoInputs, Step

\* There are some.
LEMMA TwoInputsNotEmpty ==
    ASSUME NEW n \in Nat, NEW a \in Names, NEW b \in Names, NEW start \in StepSet,
           NEW p, p = TwoInputs(a, b, n, start)
    PROVE  p \in Seq(StepSet) /\ p # <<>>
<1>1. p \in Seq(StepSet) /\ Len(p) = 5
    BY TwoInputsProgram
<1>2. QED
    BY <1>1

\* The start of a listing and of a copy.
LEMMA StartsAreSteps ==
    /\ \A limit : Step("Start", [call |-> "List", error |-> optional_list_limit(limit)]) \in StepSet
    /\ Step("Start", [call |-> "Copy", error |-> "None"]) \in StepSet
<1>1. \A limit : optional_list_limit(limit) \in Errors
    BY ChecksAreErrors DEF Errors
<1>2. QED
    BY <1>1, ArgsMakeSteps DEF Ops, Names, Calls, Errors

\* The steps of a call that is polled once.
LEMMA PollProgram ==
    ASSUME NEW n \in Nat
    PROVE  /\ PollSteps(n) \in Seq(StepSet) /\ Len(PollSteps(n)) = 3
           /\ PollSteps(n)[1] = Put("path", n)
           /\ PollSteps(n)[2] = Step("Enter", {"path"})
           /\ PollSteps(n)[3] = Step("Poll", 0)
<1>1. /\ Put("path", n) \in StepSet /\ Step("Enter", {"path"}) \in StepSet
      /\ Step("Poll", 0) \in StepSet
    BY ArgsMakeSteps DEF Ops, Names, Calls, Errors
<1>2. QED
    BY <1>1 DEF PollSteps

\* The steps of one entry of a listing.
LEMMA EntryProgram ==
    ASSUME NEW i \in Nat
    PROVE  /\ EntrySteps(i) \in Seq(StepSet) /\ Len(EntrySteps(i)) = 3
           /\ EntrySteps(i)[1] = Step("Info", TRUE)
           /\ EntrySteps(i)[2] = Step("Info", TRUE)
           /\ EntrySteps(i)[3] = Step("Snapshot", i)
<1>1. Step("Info", TRUE) \in StepSet /\ Step("Snapshot", i) \in StepSet
    BY ArgsMakeSteps DEF Ops, Names, Calls, Errors
<1> DEFINE a == Step("Info", TRUE)
           b == Step("Snapshot", i)
<1>2. EntrySteps(i) = <<a, a, b>> /\ a \in StepSet /\ b \in StepSet
    BY <1>1 DEF EntrySteps
<1> HIDE DEF a, b
<1>3. /\ EntrySteps(i) \in Seq(StepSet) /\ Len(EntrySteps(i)) = 3
      /\ EntrySteps(i)[1] = a /\ EntrySteps(i)[2] = a /\ EntrySteps(i)[3] = b
    BY <1>2
<1>4. QED
    BY <1>3 DEF a, b

\* What is left of the entries of a configuration, unfolded once.
LEMMA ConfigUnfolds ==
    ASSUME NEW c \in Configs
    PROVE  /\ Len(c) \in Nat /\ c \in Seq(ConfigEntry)
           /\ \A j \in 1..Len(c) : c[j] \in ConfigEntry
           /\ \A k \in 0..Len(c) : ConfigLeft(c)[k] \in Seq(StepSet)
           /\ ConfigLeft(c)[0] = BuildSteps
           /\ \A k \in 1..Len(c) :
                 ConfigLeft(c)[k] = ConfigSteps(c[Len(c) - k + 1]) \o ConfigLeft(c)[k - 1]
<1> DEFINE n == Len(c)
           S == Seq(StepSet)
           Then(k, s) == ConfigSteps(c[n - k + 1]) \o s
           Is(g) == g = [k \in 0..n |-> IF k = 0 THEN BuildSteps ELSE Then(k, g[k - 1])]
<1>1. c \in Seq(ConfigEntry)
    BY FacadeAssumption DEF ConfigEntry
<1>2. n \in Nat /\ \A j \in 1..n : c[j] \in ConfigEntry
    BY <1>1, LenProperties, ElementOfSeq
<1> HIDE DEF n
<1>3. ASSUME NEW k \in 1..n, NEW s \in S PROVE Then(k, s) \in S
  <2>1. c[n - k + 1] \in ConfigEntry
      BY <1>2
  <2>2. ConfigSteps(c[n - k + 1]) \in S
      BY <2>1, ConfigProgram
  <2>3. QED
      BY <2>2, ConcatProperties
<1>4. BuildSteps \in S
    BY BuildProgram
<1>5. ConfigLeft(c) = CHOOSE g : Is(g)
    BY DEF ConfigLeft, n
<1> HIDE DEF S, Then
<1>6. \E g : Is(g)
  <2> DEFINE F == [k \in 1..n |-> [s \in S |-> Then(k, s)]]
  <2>1. F \in [1..n -> [S -> S]]
      BY <1>3
  <2>2. \A k \in 1..n : \A s \in S : F[k][s] = Then(k, s)
      OBVIOUS
  <2> HIDE DEF F
  <2>3. PICK g \in [0..n -> S] : Repeats(g, n, BuildSteps, F)
      BY <1>2, <1>4, <2>1, Repeated, Zenon
  <2>4. \A k \in 1..n : g[k - 1] \in S
      BY <1>2
  <2>5. g[0] = BuildSteps /\ \A k \in 1..n : g[k] = Then(k, g[k - 1])
      BY <2>2, <2>3, <2>4 DEF Repeats
  <2>6. \A k \in 0..n : g[k] = IF k = 0 THEN BuildSteps ELSE Then(k, g[k - 1])
      BY <1>2, <2>5
  <2>7. QED
      BY <2>6
<1> DEFINE h == ConfigLeft(c)
<1>7. Is(h)
    BY <1>5, <1>6, Zenon
<1> HIDE DEF h
<1>8. h[0] = BuildSteps /\ \A k \in 1..n : h[k] = Then(k, h[k - 1])
  <2>1. \A k \in 0..n : h[k] = IF k = 0 THEN BuildSteps ELSE Then(k, h[k - 1])
      BY <1>7
  <2>2. QED
      BY <1>2, <2>1
<1>9. \A k \in 0..n : h[k] \in S
  <2> DEFINE T == {k \in 0..n : h[k] \in S}
  <2>1. 0 \in T
      BY <1>2, <1>4, <1>8
  <2>2. ASSUME NEW k \in 1..n, k - 1 \in T PROVE k \in T
    <3>1. h[k] = Then(k, h[k - 1]) /\ h[k - 1] \in S
        BY <1>8, <2>2
    <3>2. h[k] \in S
        BY <1>3, <3>1
    <3>3. QED
        BY <1>2, <3>2
  <2> HIDE DEF T
  <2>3. \A k \in 0..n : k \in T
      BY <1>2, <2>1, <2>2, UpTo
  <2>4. QED
      BY <2>3 DEF T
<1>10. QED
    BY <1>1, <1>2, <1>8, <1>9, Zenon DEF h, n, S, Then

\* What is left of the entries of a listing, unfolded once.
LEMMA EntriesUnfold ==
    ASSUME NEW n \in Nat
    PROVE  /\ \A k \in 0..n : EntriesLeft(n)[k] \in Seq(StepSet)
           /\ EntriesLeft(n)[0] = <<>>
           /\ \A k \in 1..n :
                 EntriesLeft(n)[k] = EntrySteps(n - k + 1) \o EntriesLeft(n)[k - 1]
<1> DEFINE S == Seq(StepSet)
           none == <<>>
           Then(k, s) == EntrySteps(n - k + 1) \o s
           Is(g) == g = [k \in 0..n |-> IF k = 0 THEN none ELSE Then(k, g[k - 1])]
<1>2. n \in Nat
    OBVIOUS
<1>3. ASSUME NEW k \in 1..n, NEW s \in S PROVE Then(k, s) \in S
  <2>1. n - k + 1 \in Nat
      OBVIOUS
  <2>2. EntrySteps(n - k + 1) \in S
      BY <2>1, EntryProgram
  <2>3. QED
      BY <2>2, ConcatProperties
<1>4. none \in S
    BY EmptySeq
<1>5. EntriesLeft(n) = CHOOSE g : Is(g)
    BY DEF EntriesLeft
<1> HIDE DEF S, Then, none
<1>6. \E g : Is(g)
  <2> DEFINE F == [k \in 1..n |-> [s \in S |-> Then(k, s)]]
  <2>1. F \in [1..n -> [S -> S]]
      BY <1>3
  <2>2. \A k \in 1..n : \A s \in S : F[k][s] = Then(k, s)
      OBVIOUS
  <2> HIDE DEF F
  <2>3. PICK g \in [0..n -> S] : Repeats(g, n, none, F)
      BY <1>2, <1>4, <2>1, Repeated, Zenon
  <2>4. \A k \in 1..n : g[k - 1] \in S
      BY <1>2
  <2>5. g[0] = none /\ \A k \in 1..n : g[k] = Then(k, g[k - 1])
      BY <2>2, <2>3, <2>4 DEF Repeats
  <2>6. \A k \in 0..n : g[k] = IF k = 0 THEN none ELSE Then(k, g[k - 1])
      BY <1>2, <2>5
  <2>7. QED
      BY <2>6
<1> DEFINE h == EntriesLeft(n)
<1>7. Is(h)
    BY <1>5, <1>6, Zenon
<1> HIDE DEF h
<1>8. h[0] = none /\ \A k \in 1..n : h[k] = Then(k, h[k - 1])
  <2>1. \A k \in 0..n : h[k] = IF k = 0 THEN none ELSE Then(k, h[k - 1])
      BY <1>7
  <2>2. QED
      BY <1>2, <2>1
<1>9. \A k \in 0..n : h[k] \in S
  <2> DEFINE T == {k \in 0..n : h[k] \in S}
  <2>1. 0 \in T
      BY <1>2, <1>4, <1>8
  <2>2. ASSUME NEW k \in 1..n, k - 1 \in T PROVE k \in T
    <3>1. h[k] = Then(k, h[k - 1]) /\ h[k - 1] \in S
        BY <1>8, <2>2
    <3>2. h[k] \in S
        BY <1>3, <3>1
    <3>3. QED
        BY <1>2, <3>2
  <2> HIDE DEF T
  <2>3. \A k \in 0..n : k \in T
      BY <1>2, <2>1, <2>2, UpTo
  <2>4. QED
      BY <2>3 DEF T
<1>10. QED
    BY <1>2, <1>8, <1>9, Zenon DEF h, S, Then, none

-----------------------------------------------------------------------------
(* Listings *)

\* The sizes of a listing, added up.
LEMMA SumsUnfold ==
    ASSUME NEW found \in Listings
    PROVE  /\ Len(found) \in Nat /\ found \in Seq(Nat)
           /\ \A i \in 0..Len(found) : Sums(found)[i] \in Nat
           /\ Sums(found)[0] = 0
           /\ \A i \in 1..Len(found) :
                 found[i] \in Nat /\ Sums(found)[i] = Sums(found)[i - 1] + found[i]
<1> DEFINE n == Len(found)
           Is(g) == g = [i \in 0..n |-> IF i = 0 THEN 0 ELSE g[i - 1] + found[i]]
<1>1. found \in Seq(Nat)
    BY FacadeAssumption
<1>2. n \in Nat /\ \A i \in 1..n : found[i] \in Nat
    BY <1>1, LenProperties, ElementOfSeq
<1>3. Sums(found) = CHOOSE g : Is(g)
    BY DEF Sums
<1> HIDE DEF n
<1>4. \E g : Is(g)
  <2> DEFINE F == [i \in 1..n |-> [s \in Nat |-> s + found[i]]]
             b == 0
  <2>1. F \in [1..n -> [Nat -> Nat]] /\ b \in Nat
      BY <1>2
  <2>2. \A i \in 1..n : \A s \in Nat : F[i][s] = s + found[i]
      OBVIOUS
  <2> HIDE DEF F, b
  <2>3. PICK g \in [0..n -> Nat] : Repeats(g, n, b, F)
      BY <1>2, <2>1, Repeated, Zenon
  <2>4. \A i \in 1..n : g[i - 1] \in Nat
      BY <1>2
  <2>5. g[0] = b /\ \A i \in 1..n : g[i] = g[i - 1] + found[i]
      BY <2>2, <2>3, <2>4 DEF Repeats
  <2>6. \A i \in 0..n : g[i] = IF i = 0 THEN 0 ELSE g[i - 1] + found[i]
      BY <1>2, <2>5 DEF b
  <2>7. QED
      BY <2>6
<1> DEFINE h == Sums(found)
<1>5. Is(h)
    BY <1>3, <1>4, Zenon
<1> HIDE DEF h
<1>6. h[0] = 0 /\ \A i \in 1..n : h[i] = h[i - 1] + found[i]
  <2>1. \A i \in 0..n : h[i] = IF i = 0 THEN 0 ELSE h[i - 1] + found[i]
      BY <1>5
  <2>2. QED
      BY <1>2, <2>1
<1>7. \A i \in 0..n : h[i] \in Nat
  <2> DEFINE T == {i \in 0..n : h[i] \in Nat}
  <2>1. 0 \in T
      BY <1>2, <1>6
  <2>2. ASSUME NEW i \in 1..n, i - 1 \in T PROVE i \in T
    <3>1. h[i] = h[i - 1] + found[i] /\ h[i - 1] \in Nat /\ found[i] \in Nat
        BY <1>2, <1>6, <2>2
    <3>2. h[i] \in Nat
        BY <3>1
    <3>3. QED
        BY <1>2, <3>2
  <2> HIDE DEF T
  <2>3. \A i \in 0..n : i \in T
      BY <1>2, <2>1, <2>2, UpTo
  <2>4. QED
      BY <2>3 DEF T
<1>8. QED
    BY <1>1, <1>2, <1>6, <1>7 DEF h, n

\* What a collection can have got.
Gots == [entries : Seq(Nat), total : Nat, error : {"None", "ListTooLarge"}]

\* One more entry.
LEMMA CollectedOne ==
    ASSUME NEW got \in Gots, NEW size \in Nat
    PROVE  /\ Collected(got, size) \in Gots
           /\ IF got.error = "None" /\ Len(got.entries) < MaxListEntries
                   /\ got.total + size <= MaxListBytes
              THEN Collected(got, size) = [entries |-> Append(got.entries, size),
                                           total |-> got.total + size, error |-> "None"]
              ELSE Collected(got, size).error = "ListTooLarge"
<1> DEFINE a == got.error
           b == Unless(size <= MaxListBytes, "ListTooLarge")
           d == push_entry_snapshot(got.entries, got.total, size)
           e == FirstError(<<a, b, d>>)
           fits == Len(got.entries) < MaxListEntries /\ got.total + size <= MaxListBytes
<1>1. a \in {"None", "ListTooLarge"} /\ got.total \in Nat /\ got.entries \in Seq(Nat)
    BY DEF Gots
<1>2. MaxListBytes \in Nat
    BY FacadeAssumption
<1>3. b = (IF size <= MaxListBytes THEN "None" ELSE "ListTooLarge")
    BY DEF Unless
<1>4. d = (IF fits THEN "None" ELSE "ListTooLarge")
    BY DEF push_entry_snapshot, Unless
<1>5. e = "None" <=> (a = "None" /\ fits)
  <2>1. e = "None" <=> (a = "None" /\ b = "None" /\ d = "None")
      BY FirstOfThree
  <2>2. d = "None" <=> fits
      BY <1>4
  <2>3. fits => b = "None"
      BY <1>1, <1>2, <1>3
  <2> HIDE DEF a, b, d, e, fits
  <2>4. QED
      BY <2>1, <2>2, <2>3
<1>6. e \in {"None", "ListTooLarge"}
  <2>1. e \in {"None", a, b, d}
      BY FirstOfThree
  <2>2. b \in {"None", "ListTooLarge"} /\ d \in {"None", "ListTooLarge"}
      BY <1>3, <1>4
  <2> HIDE DEF a, b, d, e
  <2>3. QED
      BY <1>1, <2>1, <2>2
<1>7. Collected(got, size) = IF e = "None"
                             THEN [entries |-> Append(got.entries, size),
                                   total |-> got.total + size, error |-> "None"]
                             ELSE [got EXCEPT !.error = e]
    BY DEF Collected
<1> HIDE DEF e, fits
<1>8. CASE e = "None"
  <2>1. Append(got.entries, size) \in Seq(Nat) /\ got.total + size \in Nat
      BY <1>1, AppendProperties
  <2>2. Collected(got, size) \in Gots
      BY <1>7, <1>8, <2>1 DEF Gots
  <2>3. QED
      BY <1>5, <1>7, <1>8, <2>2 DEF fits
<1>9. CASE e # "None"
  <2>1. Collected(got, size) = [got EXCEPT !.error = e] /\ e = "ListTooLarge"
      BY <1>6, <1>7, <1>9
  <2>2. [got EXCEPT !.error = e] \in Gots /\ [got EXCEPT !.error = e].error = e
      BY <1>6 DEF Gots
  <2>3. QED
      BY <1>5, <1>9, <2>1, <2>2 DEF fits
<1>10. QED
    BY <1>8, <1>9

\* A listing, collected.
LEMMA CollectUnfolds ==
    ASSUME NEW found \in Listings
    PROVE  /\ \A i \in 0..Len(found) : collect_list(found)[i] \in Gots
           /\ collect_list(found)[0] = [entries |-> <<>>, total |-> 0, error |-> "None"]
           /\ \A i \in 1..Len(found) :
                 collect_list(found)[i] = Collected(collect_list(found)[i - 1], found[i])
<1> DEFINE n == Len(found)
           b == [entries |-> <<>>, total |-> 0, error |-> "None"]
           Is(g) == g = [i \in 0..n |-> IF i = 0 THEN b ELSE Collected(g[i - 1], found[i])]
<1>2. n \in Nat /\ \A i \in 1..n : found[i] \in Nat
    BY SumsUnfold
<1>3. collect_list(found) = CHOOSE g : Is(g)
    BY DEF collect_list
<1>4. b \in Gots
  <2>1. <<>> \in Seq(Nat)
      BY EmptySeq
  <2>2. QED
      BY <2>1 DEF Gots
<1> HIDE DEF n, b
<1>5. \A i \in 1..n : \A s \in Gots : Collected(s, found[i]) \in Gots
    BY <1>2, CollectedOne
<1>6. \E g : Is(g)
  <2> DEFINE F == [i \in 1..n |-> [s \in Gots |-> Collected(s, found[i])]]
  <2>1. F \in [1..n -> [Gots -> Gots]]
      BY <1>5
  <2>2. \A i \in 1..n : \A s \in Gots : F[i][s] = Collected(s, found[i])
      OBVIOUS
  <2> HIDE DEF F
  <2>3. PICK g \in [0..n -> Gots] : Repeats(g, n, b, F)
      BY <1>2, <1>4, <2>1, Repeated, Zenon
  <2>4. \A i \in 1..n : g[i - 1] \in Gots
      BY <1>2
  <2>5. g[0] = b /\ \A i \in 1..n : g[i] = Collected(g[i - 1], found[i])
      BY <2>2, <2>3, <2>4 DEF Repeats
  <2>6. \A i \in 0..n : g[i] = IF i = 0 THEN b ELSE Collected(g[i - 1], found[i])
      BY <1>2, <2>5
  <2>7. QED
      BY <2>6
<1> DEFINE h == collect_list(found)
<1>7. Is(h)
    BY <1>3, <1>6, Zenon
<1> HIDE DEF h
<1>8. h[0] = b /\ \A i \in 1..n : h[i] = Collected(h[i - 1], found[i])
  <2>1. \A i \in 0..n : h[i] = IF i = 0 THEN b ELSE Collected(h[i - 1], found[i])
      BY <1>7
  <2>2. QED
      BY <1>2, <2>1
<1>9. \A i \in 0..n : h[i] \in Gots
  <2> DEFINE T == {i \in 0..n : h[i] \in Gots}
  <2>1. 0 \in T
      BY <1>2, <1>4, <1>8
  <2>2. ASSUME NEW i \in 1..n, i - 1 \in T PROVE i \in T
    <3>1. h[i] = Collected(h[i - 1], found[i]) /\ h[i - 1] \in Gots
        BY <1>8, <2>2
    <3>2. h[i] \in Gots
        BY <1>5, <3>1
    <3>3. QED
        BY <1>2, <3>2
  <2> HIDE DEF T
  <2>3. \A i \in 0..n : i \in T
      BY <1>2, <2>1, <2>2, UpTo
  <2>4. QED
      BY <2>3 DEF T
<1>10. QED
    BY <1>8, <1>9 DEF h, n, b

\* A listing is collected whole exactly if it fits.
THEOREM CollectsWhole ==
    ASSUME NEW found \in Listings
    PROVE  /\ collect_list(found)[Len(found)].error = IF ListFits(found) THEN "None" ELSE "ListTooLarge"
           /\ ListFits(found) => collect_list(found)[Len(found)].entries = found
<1> DEFINE n == Len(found)
           got == collect_list(found)
           sum == Sums(found)
           Fits(i) == i <= MaxListEntries /\ sum[i] <= MaxListBytes
           T == {i \in 0..n : IF Fits(i) THEN /\ got[i].error = "None" /\ got[i].total = sum[i]
                                              /\ got[i].entries = SubSeq(found, 1, i)
                                         ELSE got[i].error = "ListTooLarge"}
<1>1. n \in Nat /\ found \in Seq(Nat) /\ \A i \in 1..n : found[i] \in Nat
    BY SumsUnfold
<1>2. /\ \A i \in 0..n : sum[i] \in Nat
      /\ sum[0] = 0
      /\ \A i \in 1..n : sum[i] = sum[i - 1] + found[i]
    BY SumsUnfold
<1>3. /\ \A i \in 0..n : got[i] \in Gots
      /\ got[0] = [entries |-> <<>>, total |-> 0, error |-> "None"]
      /\ \A i \in 1..n : got[i] = Collected(got[i - 1], found[i])
    BY CollectUnfolds
<1>4. MaxListEntries \in Nat /\ MaxListBytes \in Nat
    BY FacadeAssumption
<1>5. ListFits(found) <=> Fits(n)
    BY DEF ListFits
<1> HIDE DEF n, got, sum
<1>6. 0 \in T
  <2>1. SubSeq(found, 1, 0) = <<>>
      BY SubSeqEmpty
  <2>2. Fits(0)
      BY <1>2, <1>4
  <2>3. got[0].error = "None" /\ got[0].total = sum[0] /\ got[0].entries = SubSeq(found, 1, 0)
      BY <1>2, <1>3, <2>1
  <2>4. QED
      BY <1>1, <2>2, <2>3
<1>7. ASSUME NEW i \in 1..n, i - 1 \in T PROVE i \in T
  <2> DEFINE g == got[i - 1]
             size == found[i]
  <2>1. i - 1 \in 0..n /\ i \in 0..n /\ size \in Nat /\ g \in Gots
      BY <1>1, <1>3
  <2>2. got[i] = Collected(g, size) /\ sum[i] = sum[i - 1] + size /\ sum[i - 1] \in Nat
      BY <1>2, <1>3, <2>1
  <2> HIDE DEF g, size
  <2>3. IF g.error = "None" /\ Len(g.entries) < MaxListEntries /\ g.total + size <= MaxListBytes
        THEN got[i] = [entries |-> Append(g.entries, size), total |-> g.total + size, error |-> "None"]
        ELSE got[i].error = "ListTooLarge"
      BY <2>1, <2>2, CollectedOne
  <2>4. IF Fits(i - 1) THEN /\ g.error = "None" /\ g.total = sum[i - 1]
                            /\ g.entries = SubSeq(found, 1, i - 1)
                       ELSE g.error = "ListTooLarge"
      BY <1>7 DEF g
  <2>5. CASE ~Fits(i - 1)
    <3>1. g.error = "ListTooLarge"
        BY <2>4, <2>5
    <3>2. got[i].error = "ListTooLarge"
        BY <2>3, <3>1
    <3>3. ~Fits(i)
        BY <1>4, <2>1, <2>2, <2>5
    <3>4. QED
        BY <2>1, <3>2, <3>3
  <2>6. CASE Fits(i - 1)
    <3> DEFINE p == SubSeq(found, 1, i - 1)
               k == i - 1
    <3>1. /\ g.error = "None" /\ g.total = sum[i - 1] /\ g.entries = p
        BY <2>4, <2>6
    <3>2. p \in Seq(Nat) /\ Len(p) = i - 1 /\ \A j \in 1..(i - 1) : p[j] = found[j]
      <4>1. k \in Int /\ 1 \in Int /\ \A j \in 1..k : found[j] \in Nat
          BY <1>1
      <4>2. p = SubSeq(found, 1, k)
          OBVIOUS
      <4> HIDE DEF k, p
      <4>3. p \in Seq(Nat) /\ Len(p) = (IF 1 <= k THEN k - 1 + 1 ELSE 0)
              /\ \A j \in 1 .. k - 1 + 1 : p[j] = found[1 + j - 1]
          BY <4>1, <4>2, SubSeqProperties
      <4>4. QED
          BY <4>3, <2>1 DEF k
    <3>3. Append(p, size) = SubSeq(found, 1, i)
      <4> DEFINE q == SubSeq(found, 1, i)
      <4>1. i \in Int /\ 1 \in Int /\ \A j \in 1..i : found[j] \in Nat
          BY <1>1
      <4>2. q \in Seq(Nat) /\ Len(q) = i /\ \A j \in 1..i : q[j] = found[j]
        <5>1. q \in Seq(Nat) /\ Len(q) = (IF 1 <= i THEN i - 1 + 1 ELSE 0)
                /\ \A j \in 1 .. i - 1 + 1 : q[j] = found[1 + j - 1]
            BY <4>1, SubSeqProperties
        <5> HIDE DEF q
        <5>2. QED
            BY <5>1, <2>1
      <4> DEFINE r == Append(p, size)
      <4> HIDE DEF p
      <4>3. /\ r \in Seq(Nat) /\ Len(r) = Len(p) + 1
            /\ \A j \in 1..Len(p) : r[j] = p[j]
            /\ r[Len(p) + 1] = size
          BY <2>1, <3>2, AppendProperties
      <4> HIDE DEF q, r
      <4>4. Len(r) = i /\ \A j \in 1..i : r[j] = q[j]
        <5>1. Len(r) = i
            BY <3>2, <4>3
        <5>2. ASSUME NEW j \in 1..(i - 1) PROVE r[j] = q[j]
          <6>1. j \in 1..Len(p) /\ j \in 1..i
              BY <3>2
          <6>2. r[j] = p[j] /\ q[j] = found[j]
              BY <4>2, <4>3, <6>1
          <6>3. QED
              BY <3>2, <6>2
        <5>3. r[i] = q[i]
            BY <3>2, <4>2, <4>3 DEF size
        <5>4. QED
            BY <5>1, <5>2, <5>3
      <4>5. q = r
          BY <4>2, <4>3, <4>4, SeqEqual
      <4>6. QED
          BY <4>5 DEF q, r, p
    <3> HIDE DEF p
    <3>4. Fits(i) <=> (Len(g.entries) < MaxListEntries /\ g.total + size <= MaxListBytes)
        BY <1>4, <2>1, <2>2, <3>1, <3>2
    <3>5. IF Fits(i) THEN /\ got[i].error = "None" /\ got[i].total = sum[i]
                          /\ got[i].entries = SubSeq(found, 1, i)
                     ELSE got[i].error = "ListTooLarge"
      <4>1. CASE Fits(i)
        <5>1. got[i] = [entries |-> Append(g.entries, size), total |-> g.total + size, error |-> "None"]
            BY <2>3, <3>1, <3>4, <4>1
        <5>2. QED
            BY <2>2, <3>1, <3>3, <4>1, <5>1
      <4>2. CASE ~Fits(i)
          BY <2>3, <3>1, <3>4, <4>2
      <4>3. QED
          BY <4>1, <4>2
    <3>6. QED
        BY <2>1, <3>5
  <2>7. QED
      BY <2>5, <2>6
<1>8. n \in T
  <2> HIDE DEF T
  <2>1. \A i \in 0..n : i \in T
      BY <1>1, <1>6, <1>7, UpTo
  <2>2. QED
      BY <1>1, <2>1
<1>9. SubSeq(found, 1, n) = found
    BY <1>1, SubSeqFull DEF n
<1>10. QED
    BY <1>5, <1>8, <1>9 DEF n, got

-----------------------------------------------------------------------------
(* What a step does, whichever method takes it *)

\* An export has failed: the error is in the last error, and is fetched next.
Failed ==
    \E e : /\ e # "None" /\ e # "ListTooLarge"
           /\ arena' = arena /\ last_error' = e
           /\ job' = [job EXCEPT !.cause = e, !.steps = <<Step("TakeLastError", 0)>>]

\* The method goes on with its next step.
Advance(regs, owned, got) ==
    /\ DOMAIN job' = JobFields
    /\ job'.what = job.what /\ job'.asked = job.asked /\ job'.steps = Tail(job.steps)
    /\ job'.regs = regs /\ job'.owned = owned /\ job'.cause = job.cause
    /\ job'.reported = job.reported /\ job'.blocked = job.blocked /\ job'.got = got
    /\ job'.running = job.running

\* An export fails or has its effect.
LEMMA ExportEffect ==
    ASSUME NEW e, NEW a, NEW j, Export(e, a, j), e # "ListTooLarge"
    PROVE  \/ Failed
           \/ e = "None" /\ arena' = a /\ job' = Done(j)
<1>1. CASE e = "None"
    BY <1>1 DEF Export
<1>2. CASE e # "None"
  <2>1. /\ last_error' = e /\ arena' = arena
        /\ job' = [job EXCEPT !.cause = e, !.steps = <<Step("TakeLastError", 0)>>]
      BY <1>2 DEF Export
  <2>2. QED
      BY <1>2, <2>1, Zenon DEF Failed
<1>3. QED
    BY <1>1, <1>2

\* putBytes makes a buffer that holds all its bytes.
LEMMA PutEffect ==
    ASSUME Shape, PutBytes, Arg.len \in Nat
    PROVE  \/ Failed
           \/ /\ Free # {}
              /\ arena' = Inserted(Buffer(Arg.name, Arg.len, 0 .. Arg.len - 1))
              /\ Advance(Register(Arg.name), job.owned, job.got)
<1>1. PICK lucky \in BOOLEAN :
         Export(FirstError(<<zeroed_buffer(Arg.len, lucky), WindowError(Arg.len)>>),
                Inserted(Buffer(Arg.name, Arg.len, Covered(Arg.len))),
                [job EXCEPT !.regs = Register(Arg.name)])
    BY DEF PutBytes
<1> DEFINE x == Unless(Arg.len <= MaxBuffer, "BufferTooLarge")
           y == Unless(lucky, "AllocationFailed")
           z == can_insert
           a == zeroed_buffer(Arg.len, lucky)
           b == WindowError(Arg.len)
           e == FirstError(<<a, b>>)
           r == Inserted(Buffer(Arg.name, Arg.len, Covered(Arg.len)))
           j == [job EXCEPT !.regs = Register(Arg.name)]
<1>2. x \in {"None", "BufferTooLarge"} /\ y \in {"None", "AllocationFailed"}
    BY DEF Unless
<1>3. z \in {"None", "HandleLimit"} /\ (z = "None" => Free # {})
    BY Zenon DEF can_insert, Unless
<1>4. b \in {"None", "IndexOutOfBounds"}
    BY Zenon DEF WindowError
<1>5. a = FirstError(<<x, y, z>>)
    BY DEF zeroed_buffer
<1> HIDE DEF x, y, z, b
<1>6. (a = "None" => z = "None") /\ a \in {"None", x, y, z}
    BY <1>5, FirstOfThree
<1> HIDE DEF a
<1>7. (e = "None" => a = "None") /\ e \in {"None", a, b}
    BY FirstOfTwo
<1>8. Export(e, r, j)
    BY <1>1 DEF a, b
<1> HIDE DEF e, r, j
<1>9. e # "ListTooLarge" /\ (e = "None" => Free # {})
    BY <1>2, <1>3, <1>4, <1>6, <1>7
<1>10. Failed \/ (Free # {} /\ arena' = r /\ job' = Done(j))
    BY <1>8, <1>9, ExportEffect
<1>11. r = Inserted(Buffer(Arg.name, Arg.len, 0 .. Arg.len - 1))
    BY AllCovered DEF r
<1>12. job' = Done(j) => Advance(Register(Arg.name), job.owned, job.got)
    BY DEF Shape, JobFields, Done, j, Advance
<1>13. QED
    BY <1>10, <1>11, <1>12

\* Entering a block.
LEMMA EnterEffect ==
    ASSUME Shape, Enter
    PROVE  arena' = arena /\ Advance(job.regs, job.owned \cup Arg, job.got)
BY DEF Shape, JobFields, Enter, Done, Advance

\* Leaving a block.
LEMMA LeaveEffect ==
    ASSUME Shape, Leave
    PROVE  /\ arena' = Without(arena, {job.regs[n] : n \in Arg})
           /\ Advance(job.regs, job.owned \ Arg, job.got)
BY DEF Shape, JobFields, Leave, Done, Advance

\* A check of the runtime's own that is passed.
LEMMA CheckEffect ==
    ASSUME Shape, Check, Arg = "None"
    PROVE  arena' = arena /\ Advance(job.regs, job.owned, job.got)
BY DEF Shape, JobFields, Check, Done, Advance

\* A new builder is empty, and in the care of the method.
LEMMA BuilderNewEffect ==
    ASSUME Shape, operator_builder_new
    PROVE  \/ Failed
           \/ /\ Free # {}
              /\ arena' = Inserted(Builder(<<>>, 0))
              /\ Advance(Register("builder"), job.owned \cup {"builder"}, job.got)
<1> DEFINE r == Inserted(Builder(<<>>, 0))
           j == [job EXCEPT !.regs = Register("builder"), !.owned = @ \cup {"builder"}]
<1>1. PICK lucky \in BOOLEAN :
         Export(FirstError(<<Unless(lucky, "AllocationFailed"),
                             Unless(Arg > 0, "InvalidArgument"), can_insert>>), r, j)
    BY DEF operator_builder_new
<1> DEFINE a == Unless(lucky, "AllocationFailed")
           b == Unless(Arg > 0, "InvalidArgument")
           z == can_insert
           e == FirstError(<<a, b, z>>)
<1>2. a \in {"None", "AllocationFailed"} /\ b \in {"None", "InvalidArgument"}
    BY DEF Unless
<1>3. z \in {"None", "HandleLimit"} /\ (z = "None" => Free # {})
    BY Zenon DEF can_insert, Unless
<1>4. Export(e, r, j)
    BY <1>1
<1> HIDE DEF a, b, z
<1>5. (e = "None" => z = "None") /\ e \in {"None", a, b, z}
    BY FirstOfThree
<1> HIDE DEF e, r, j
<1>6. e # "ListTooLarge" /\ (e = "None" => Free # {})
    BY <1>2, <1>3, <1>5
<1>7. Failed \/ (Free # {} /\ arena' = r /\ job' = Done(j))
    BY <1>4, <1>6, ExportEffect
<1>8. job' = Done(j) => Advance(Register("builder"), job.owned \cup {"builder"}, job.got)
    BY DEF Shape, JobFields, Done, j, Advance
<1>9. QED
    BY <1>7, <1>8 DEF r

\* A new entry of the builder has a key of its own.
LEMMA BuilderSetEffect ==
    ASSUME Shape, operator_builder_set
    PROVE  \/ Failed
           \/ LET h == job.regs["builder"]
              IN /\ \A i \in DOMAIN arena[h].config : arena[h].config[i].key # Arg.key
                 /\ arena' = [arena EXCEPT ![h] = Builder(Append(arena[h].config, Arg),
                                                          arena[h].config_bytes + Arg.bytes)]
                 /\ Advance(job.regs, job.owned, job.got)
<1> DEFINE h == job.regs["builder"]
           r == [arena EXCEPT ![h] = Builder(Append(@.config, Arg), @.config_bytes + Arg.bytes)]
<1>1. PICK lucky \in BOOLEAN : Export(push_operator_config(arena[h], Arg, lucky), r, job)
    BY DEF operator_builder_set
<1> DEFINE a == Unless(\A i \in DOMAIN arena[h].config : arena[h].config[i].key # Arg.key,
                       "InvalidArgument")
           b == Unless(Len(arena[h].config) < MaxConfigEntries, "InvalidArgument")
           d == Unless(arena[h].config_bytes + Arg.bytes <= MaxConfigBytes, "InvalidArgument")
           f == Unless(lucky, "AllocationFailed")
           e == FirstError(<<a, b, d, f>>)
<1>2. /\ a \in {"None", "InvalidArgument"} /\ b \in {"None", "InvalidArgument"}
      /\ d \in {"None", "InvalidArgument"} /\ f \in {"None", "AllocationFailed"}
    BY Zenon DEF Unless
<1>3. a = "None" => \A i \in DOMAIN arena[h].config : arena[h].config[i].key # Arg.key
    BY Zenon DEF Unless
<1>4. Export(e, r, job)
    BY <1>1 DEF push_operator_config
<1> HIDE DEF a, b, d, f
<1>5. (e = "None" => a = "None") /\ e \in {"None", a, b, d, f}
    BY FirstOfFour
<1> HIDE DEF e, r
<1>6. e # "ListTooLarge"
    BY <1>2, <1>5
<1>7. Failed \/ (e = "None" /\ arena' = r /\ job' = Done(job))
    BY <1>4, <1>6, ExportEffect
<1>8. job' = Done(job) => Advance(job.regs, job.owned, job.got)
    BY DEF Shape, JobFields, Done, Advance
<1>9. r = [arena EXCEPT ![h] = Builder(Append(arena[h].config, Arg),
                                       arena[h].config_bytes + Arg.bytes)]
    BY DEF r
<1>10. QED
    BY <1>3, <1>5, <1>7, <1>8, <1>9, Zenon

\* A new operator has the configuration of the builder.
LEMMA BuildEffect ==
    ASSUME Shape, operator_builder_build
    PROVE  \/ Failed
           \/ /\ Free # {}
              /\ arena' = Inserted(Operator(arena[job.regs["builder"]].config))
              /\ Advance(Register("operator"), job.owned \cup {"operator"},
                         arena[job.regs["builder"]].config)
<1> DEFINE c == arena[job.regs["builder"]].config
           r == Inserted(Operator(c))
           j == [job EXCEPT !.regs = Register("operator"), !.owned = @ \cup {"operator"}, !.got = c]
<1>1. PICK lucky \in BOOLEAN, f \in {"None", "ConfigInvalid"} :
         Export(FirstError(<<Unless(lucky, "AllocationFailed"), f, can_insert>>), r, j)
    BY DEF operator_builder_build
<1> DEFINE a == Unless(lucky, "AllocationFailed")
           z == can_insert
           e == FirstError(<<a, f, z>>)
<1>2. a \in {"None", "AllocationFailed"}
    BY DEF Unless
<1>3. z \in {"None", "HandleLimit"} /\ (z = "None" => Free # {})
    BY Zenon DEF can_insert, Unless
<1>4. Export(e, r, j)
    BY <1>1
<1> HIDE DEF a, z
<1>5. (e = "None" => z = "None") /\ e \in {"None", a, f, z}
    BY FirstOfThree
<1> HIDE DEF e, r, j
<1>6. e # "ListTooLarge" /\ (e = "None" => Free # {})
    BY <1>2, <1>3, <1>5
<1>7. Failed \/ (Free # {} /\ arena' = r /\ job' = Done(j))
    BY <1>4, <1>6, ExportEffect
<1>8. job' = Done(j) => Advance(Register("operator"), job.owned \cup {"operator"}, c)
    BY DEF Shape, JobFields, Done, j, Advance
<1>9. QED
    BY <1>7, <1>8 DEF r

\* Texts that are taken out leave nothing behind.
LEMMA InfoEffect ==
    ASSUME Shape, Info
    PROVE  Failed \/ (arena' = arena /\ Advance(job.regs, job.owned, job.got))
<1>1. PICK lucky \in BOOLEAN, n \in Lengths :
         Export(FirstError(<<Unless(lucky \/ ~Arg, "AllocationFailed"),
                             Unless(n <= MaxBuffer, "BufferTooLarge"), can_insert,
                             WindowError(n)>>), arena, job)
    BY DEF Info
<1> DEFINE a == Unless(lucky \/ ~Arg, "AllocationFailed")
           b == Unless(n <= MaxBuffer, "BufferTooLarge")
           z == can_insert
           w == WindowError(n)
           e == FirstError(<<a, b, z, w>>)
<1>2. /\ a \in {"None", "AllocationFailed"} /\ b \in {"None", "BufferTooLarge"}
      /\ z \in {"None", "HandleLimit"} /\ w \in {"None", "IndexOutOfBounds"}
    BY Zenon DEF can_insert, Unless, WindowError
<1>4. Export(e, arena, job)
    BY <1>1
<1> HIDE DEF a, b, z, w
<1>5. e \in {"None", a, b, z, w}
    BY FirstOfFour
<1> HIDE DEF e
<1>6. e # "ListTooLarge"
    BY <1>2, <1>5
<1>7. Failed \/ (arena' = arena /\ job' = Done(job))
    BY <1>4, <1>6, ExportEffect
<1>8. job' = Done(job) => Advance(job.regs, job.owned, job.got)
    BY DEF Shape, JobFields, Done, Advance
<1>9. QED
    BY <1>7, <1>8

\* Nobody can have left an error for a scalar to be mistaken for.
LEMMA QueryEffect ==
    ASSUME Shape, Query
    PROVE  arena' = arena /\ Advance(job.regs, job.owned, job.got)
<1>1. Export("None", arena, job)
    BY DEF Query, clearLastError
<1>2. arena' = arena /\ job' = Done(job)
    BY <1>1 DEF Export
<1>3. QED
    BY <1>2 DEF Shape, JobFields, Done, Advance

\* The operator goes to the user.
LEMMA KeepEffect ==
    ASSUME Shape, Keep
    PROVE  /\ arena' = [arena EXCEPT ![job.regs["operator"]] = Other]
           /\ Advance(job.regs, job.owned \ Arg, job.got)
BY DEF Shape, JobFields, Keep, Done, Advance

\* A task that is started has seen what its inputs hold.
LEMMA StartEffect ==
    ASSUME Shape, Start, Arg.error # "ListTooLarge"
    PROVE  \/ Failed
           \/ /\ Free # {} /\ Arg.error = "None"
              /\ arena' = Inserted(Task(Arg.call))
              /\ Advance(job.regs, job.owned,
                         <<\A n \in DOMAIN job.regs :
                            LET b == arena[job.regs[n]] IN b.filled = 0 .. b.len - 1>>)
<1> DEFINE g == <<\A n \in DOMAIN job.regs :
                    LET b == arena[job.regs[n]] IN b.filled = 0 .. b.len - 1>>
           r == Inserted(Task(Arg.call))
           j == [job EXCEPT !.got = g]
<1>1. PICK lucky \in BOOLEAN :
         Export(FirstError(<<Arg.error, Unless(lucky, "AllocationFailed"), can_insert>>), r, j)
    BY DEF Start
<1> DEFINE a == Arg.error
           b == Unless(lucky, "AllocationFailed")
           z == can_insert
           e == FirstError(<<a, b, z>>)
<1>2. a # "ListTooLarge" /\ b \in {"None", "AllocationFailed"}
    BY DEF Unless
<1>3. z \in {"None", "HandleLimit"} /\ (z = "None" => Free # {})
    BY Zenon DEF can_insert, Unless
<1>4. Export(e, r, j)
    BY <1>1
<1> HIDE DEF a, b, z
<1>5. (e = "None" => (z = "None" /\ a = "None")) /\ e \in {"None", a, b, z}
    BY FirstOfThree
<1> HIDE DEF e, r, j, g
<1>6. e # "ListTooLarge" /\ (e = "None" => (Free # {} /\ a = "None"))
    BY <1>2, <1>3, <1>5
<1>7. Failed \/ (Free # {} /\ a = "None" /\ arena' = r /\ job' = Done(j))
    BY <1>4, <1>6, ExportEffect
<1>8. job' = Done(j) => Advance(job.regs, job.owned, g)
    BY DEF Shape, JobFields, Done, j, Advance
<1>9. QED
    BY <1>7, <1>8 DEF r, a, g

\* A future that is polled once leaves a value for the caller at most.
LEMMA PollEffect ==
    ASSUME Shape, PollOnce
    PROVE  \/ Failed
           \/ /\ arena' = arena \/ (Free # {} /\ arena' = Inserted(Other))
              /\ Advance(job.regs, job.owned, job.got)
<1>1. PICK f \in {"None", "AsyncPending", "NotFound"} :
         \/ Export(f, arena, job)
         \/ Export(FirstError(<<f, can_insert>>), Inserted(Other), job)
    BY DEF PollOnce
<1> DEFINE z == can_insert
           e == FirstError(<<f, z>>)
           r == Inserted(Other)
<1>2. z \in {"None", "HandleLimit"} /\ (z = "None" => Free # {})
    BY Zenon DEF can_insert, Unless
<1>3. Export(f, arena, job) \/ Export(e, r, job)
    BY <1>1
<1> HIDE DEF z
<1>4. (e = "None" => z = "None") /\ e \in {"None", f, z}
    BY FirstOfTwo
<1> HIDE DEF e, r
<1>5. f # "ListTooLarge" /\ e # "ListTooLarge" /\ (e = "None" => Free # {})
    BY <1>2, <1>4
<1>6. \/ Failed
      \/ arena' = arena /\ job' = Done(job)
      \/ Free # {} /\ arena' = r /\ job' = Done(job)
  <2>1. CASE Export(f, arena, job)
      BY <1>5, <2>1, ExportEffect
  <2>2. CASE Export(e, r, job)
      BY <1>5, <2>2, ExportEffect
  <2>3. QED
      BY <1>3, <2>1, <2>2
<1>7. job' = Done(job) => Advance(job.regs, job.owned, job.got)
    BY DEF Shape, JobFields, Done, Advance
<1>8. QED
    BY <1>6, <1>7 DEF r

\* The metadata of a completion.
LEMMA MetadataEffect ==
    ASSUME Shape, TakeMetadata
    PROVE  Failed \/ (arena' = arena /\ Advance(job.regs, job.owned, job.got))
<1>1. PICK lucky \in BOOLEAN : Export(Unless(lucky, "AllocationFailed"), arena, job)
    BY DEF TakeMetadata
<1> DEFINE e == Unless(lucky, "AllocationFailed")
<1>2. e # "ListTooLarge" /\ Export(e, arena, job)
    BY <1>1 DEF Unless
<1> HIDE DEF e
<1>3. Failed \/ (arena' = arena /\ job' = Done(job))
    BY <1>2, ExportEffect
<1>4. job' = Done(job) => Advance(job.regs, job.owned, job.got)
    BY DEF Shape, JobFields, Done, Advance
<1>5. QED
    BY <1>3, <1>4

\* The metadata of an entry, which is there once.
LEMMA SnapshotEffect ==
    ASSUME Shape, TakeSnapshot
    PROVE  \/ Failed
           \/ LET h == job.regs["completion"]
              IN /\ arena' = [arena EXCEPT ![h].entries[Arg] = 0]
                 /\ Advance(job.regs, job.owned, Append(job.got, arena[h].entries[Arg]))
<1> DEFINE h == job.regs["completion"]
           size == arena[h].entries[Arg]
           r == [arena EXCEPT ![h].entries[Arg] = 0]
           j == [job EXCEPT !.got = Append(@, size)]
           a == Unless(size # 0, "InvalidArgument")
           z == can_insert
           e == FirstError(<<a, z>>)
<1>1. Export(e, r, j)
    BY DEF TakeSnapshot
<1>2. a \in {"None", "InvalidArgument"} /\ z \in {"None", "HandleLimit"}
    BY Zenon DEF can_insert, Unless
<1> HIDE DEF a, z
<1>3. e \in {"None", a, z}
    BY FirstOfTwo
<1> HIDE DEF e, r, j
<1>4. e # "ListTooLarge"
    BY <1>2, <1>3
<1>5. Failed \/ (arena' = r /\ job' = Done(j))
    BY <1>1, <1>4, ExportEffect
<1> HIDE DEF size
<1>6. job' = Done(j) => Advance(job.regs, job.owned, Append(job.got, size))
    BY DEF Shape, JobFields, Done, j, Advance
<1>7. QED
    BY <1>5, <1>6 DEF r, size

-----------------------------------------------------------------------------
(* What a step leaves in order, whichever method takes it *)

\* A method is at a step while nothing has failed.
Doing(op) ==
    /\ IInv /\ job.running /\ job.cause = "None"
    /\ job.steps # <<>> /\ Head(job.steps).op = op

\* When an export fails, the method is over but for its error.
LEMMA FailedKeeps ==
    ASSUME NEW op, Doing(op), op # "Enter", "error" \notin job.owned, Failed
    PROVE  IInv'
<1>1. PICK e : /\ e # "None" /\ e # "ListTooLarge"
               /\ arena' = arena /\ last_error' = e
               /\ job' = [job EXCEPT !.cause = e, !.steps = <<Step("TakeLastError", 0)>>]
    BY DEF Failed
<1>2. /\ DOMAIN job' = JobFields
      /\ job'.what = job.what /\ job'.asked = job.asked /\ job'.regs = job.regs
      /\ job'.steps = <<Step("TakeLastError", 0)>>
      /\ job'.owned = job.owned /\ job'.cause = e /\ job'.reported = job.reported
      /\ job'.blocked = job.blocked /\ job'.running = job.running
    BY <1>1 DEF Doing, IInv, Shape, JobFields
<1>3. job.running /\ job.reported = "None"
    BY DEF Doing, IInv, Faithful
<1>4. Shape'
    BY <1>1, <1>2 DEF Doing, IInv, Shape
<1>5. Idle' /\ Placed' /\ Answered' /\ Refused'
    BY <1>1, <1>2, <1>3 DEF Idle, Placed, Answered, Refused
<1>6. Faithful'
    BY <1>1, <1>2, <1>3 DEF Faithful, OnItsWay
<1>7. Kept'
  <2>1. Pending = {}
      BY DEF Pending, Doing
  <2>2. \A s \in 1..Slots : Stray(arena[s]) \/ \E n \in job.owned : job.regs[n] = s
      BY <2>1 DEF Kept, Doing, IInv
  <2>3. \A s \in 1..Slots : Stray(arena'[s]) \/ \E n \in job'.owned : job'.regs[n] = s
      BY <1>1, <1>2, <2>2
  <2>4. QED
      BY <2>3 DEF Kept
<1>8. QED
    BY <1>4, <1>5, <1>6, <1>7 DEF IInv

\* When a method goes on, what is left to show is that it arrives at a place,
\* or at its end with its answer, and that nothing is forgotten.
LEMMA AdvanceKeeps ==
    ASSUME NEW op, Doing(op), NEW R, NEW O, NEW G, Advance(R, O, G),
           DOMAIN arena' = 1..Slots, O \subseteq DOMAIN R, \A n \in DOMAIN R : R[n] \in 1..Slots,
           Kept',
           IF job'.steps = <<>> THEN Answer' ELSE InMethod'
    PROVE  IInv'
<1>1. job'.running /\ job'.cause = "None" /\ job'.reported = "None"
    BY DEF Doing, IInv, Faithful, Advance
<1>2. Shape'
  <2>1. /\ DOMAIN job' = JobFields /\ job'.regs = R /\ job'.owned = O
        /\ job'.running = job.running /\ job'.blocked = job.blocked
      BY DEF Advance
  <2>2. job.running \in BOOLEAN /\ job.blocked \in BOOLEAN
      BY DEF Doing, IInv, Shape
  <2>3. job'.running \in BOOLEAN /\ job'.blocked \in BOOLEAN
      BY <2>1, <2>2, Zenon
  <2>4. /\ DOMAIN arena' = 1..Slots /\ DOMAIN job' = JobFields
        /\ job'.owned \subseteq DOMAIN job'.regs
        /\ \A n \in DOMAIN job'.regs : job'.regs[n] \in 1..Slots
      BY <2>1
  <2>5. QED
      BY <2>3, <2>4, Zenon DEF Shape
<1>3. Idle' /\ Faithful' /\ Refused'
    BY <1>1 DEF Idle, Faithful, Refused
<1>4. Placed' /\ Answered'
    BY <1>1 DEF Placed, Answered
<1>5. QED
    BY <1>2, <1>3, <1>4 DEF IInv

\* What is made goes to a slot that nothing was in.
LEMMA Made ==
    ASSUME Shape, Free # {}, NEW r, arena' = Inserted(r)
    PROVE  /\ DOMAIN arena' = 1..Slots
           /\ Slot \in 1..Slots /\ arena'[Slot] = r
           /\ \A s \in 1..Slots : s # Slot => arena'[s] = arena[s]
           /\ \A s \in 1..Slots : arena[s].kind # "None" => s # Slot
<1>1. Slot \in 1..Slots /\ arena[Slot] = Nil
    BY SlotFree
<1>2. Nil.kind = "None"
    BY DEF Nil
<1>3. DOMAIN arena = 1..Slots
    BY DEF Shape
<1> DEFINE t == Slot
<1>4. arena' = [arena EXCEPT ![t] = r]
    BY DEF Inserted
<1> HIDE DEF t
<1>5. t \in 1..Slots /\ arena[t] = Nil
    BY <1>1 DEF t
<1>6. /\ DOMAIN arena' = 1..Slots
      /\ t \in 1..Slots /\ arena'[t] = r
      /\ \A s \in 1..Slots : s # t => arena'[s] = arena[s]
      /\ \A s \in 1..Slots : arena[s].kind # "None" => s # t
    BY <1>2, <1>3, <1>4, <1>5
<1>7. QED
    BY <1>6 DEF t

\* What is made and registered: the registers of everything else stay good.
LEMMA MadeRegistered ==
    ASSUME Shape, Free # {}, NEW r, NEW name, NEW O, NEW G,
           arena' = Inserted(r), Advance(Register(name), O, G)
    PROVE  /\ DOMAIN arena' = 1..Slots
           /\ DOMAIN job'.regs = (DOMAIN job.regs) \cup {name}
           /\ \A n \in DOMAIN job'.regs : job'.regs[n] \in 1..Slots
           /\ arena'[job'.regs[name]] = r
           /\ \A n \in DOMAIN job.regs : n # name => job'.regs[n] = job.regs[n]
           /\ \A n \in DOMAIN job.regs :
                 n # name /\ arena[job.regs[n]].kind # "None"
                   => arena'[job'.regs[n]] = arena[job.regs[n]]
           /\ \A s \in 1..Slots : arena'[s] = arena[s] \/ s = job'.regs[name]
<1> DEFINE t == Slot
<1>1. /\ DOMAIN arena' = 1..Slots
      /\ t \in 1..Slots /\ arena'[t] = r
      /\ \A s \in 1..Slots : s # t => arena'[s] = arena[s]
      /\ \A s \in 1..Slots : arena[s].kind # "None" => s # t
    BY Made
<1>2. job'.regs = [n \in (DOMAIN job.regs) \cup {name} |-> IF n = name THEN t ELSE job.regs[n]]
    BY DEF Advance, Register
<1>3. \A n \in DOMAIN job.regs : job.regs[n] \in 1..Slots
    BY DEF Shape
<1> HIDE DEF t
<1>4. /\ DOMAIN job'.regs = (DOMAIN job.regs) \cup {name}
      /\ job'.regs[name] = t
      /\ \A n \in DOMAIN job.regs : n # name => job'.regs[n] = job.regs[n]
    BY <1>2
<1>5. \A n \in DOMAIN job'.regs : job'.regs[n] \in 1..Slots
    BY <1>1, <1>3, <1>4
<1>6. ASSUME NEW n \in DOMAIN job.regs, n # name, arena[job.regs[n]].kind # "None"
      PROVE  arena'[job'.regs[n]] = arena[job.regs[n]]
    BY <1>1, <1>3, <1>4, <1>6
<1>7. QED
    BY <1>1, <1>4, <1>5, <1>6

\* What is made is not forgotten, if it is owned, or about to be, or stray.
LEMMA MadeKept ==
    ASSUME NEW op, Doing(op), op # "Enter", Free # {}, NEW r, NEW name, NEW O, NEW G,
           arena' = Inserted(r), Advance(Register(name), O, G),
           name \notin job.owned, job.owned \subseteq O,
           \/ Stray(r)
           \/ name \in O
           \/ Tail(job.steps) # <<>> /\ Head(Tail(job.steps)).op = "Enter"
                /\ name \in Head(Tail(job.steps)).arg
    PROVE  Kept'
<1>1. Shape /\ job.owned \subseteq DOMAIN job.regs
    BY DEF Doing, IInv, Shape
<1>2. /\ DOMAIN job'.regs = (DOMAIN job.regs) \cup {name}
      /\ arena'[job'.regs[name]] = r
      /\ \A n \in DOMAIN job.regs : n # name => job'.regs[n] = job.regs[n]
      /\ \A s \in 1..Slots : arena'[s] = arena[s] \/ s = job'.regs[name]
    BY <1>1, MadeRegistered
<1>3. \A s \in 1..Slots : Stray(arena[s]) \/ \E n \in job.owned : job.regs[n] = s
    BY DEF Doing, Pending, IInv, Kept
<1>4. job'.owned = O /\ job'.steps = Tail(job.steps)
    BY DEF Advance
<1> DEFINE care == job'.owned \cup (Pending' \cap DOMAIN job'.regs)
<1>5. Stray(r) \/ name \in care
    BY <1>2, <1>4 DEF Pending
<1>6. job.owned \subseteq care
    BY <1>4
<1> HIDE DEF care
<1>7. ASSUME NEW s \in 1..Slots
      PROVE  Stray(arena'[s]) \/ \E n \in care : job'.regs[n] = s
  <2>1. CASE s = job'.regs[name]
      BY <1>2, <1>5, <2>1
  <2>2. CASE s # job'.regs[name] /\ Stray(arena[s])
      BY <1>2, <1>7, <2>2
  <2>3. CASE s # job'.regs[name] /\ ~Stray(arena[s])
    <3>1. PICK n \in job.owned : job.regs[n] = s
        BY <1>3, <1>7, <2>3
    <3>2. n # name /\ n \in DOMAIN job.regs
        BY <1>1, <3>1
    <3>3. job'.regs[n] = s /\ n \in care
        BY <1>2, <1>6, <3>1, <3>2
    <3>4. QED
        BY <3>3
  <2>4. QED
      BY <2>1, <2>2, <2>3
<1>8. QED
    BY <1>7 DEF Kept, care

\* A step that makes nothing it has to answer for forgets nothing.
LEMMA SameKept ==
    ASSUME NEW op, Doing(op), op # "Enter", NEW G, Advance(job.regs, job.owned, G),
           \A s \in 1..Slots : \/ arena'[s] = arena[s] \/ Stray(arena'[s])
                               \/ \E n \in job.owned : job.regs[n] = s
    PROVE  Kept'
<1>1. \A s \in 1..Slots : Stray(arena[s]) \/ \E n \in job.owned : job.regs[n] = s
    BY DEF Doing, Pending, IInv, Kept
<1>2. \A s \in 1..Slots : Stray(arena'[s]) \/ \E n \in job.owned : job.regs[n] = s
    BY <1>1
<1>3. job'.owned = job.owned /\ job'.regs = job.regs
    BY DEF Advance
<1>4. QED
    BY <1>2, <1>3 DEF Kept

\* Entering a block takes into care what was about to be.
LEMMA EnterKept ==
    ASSUME Doing("Enter"), NEW G, Arg \subseteq DOMAIN job.regs,
           arena' = arena, Advance(job.regs, job.owned \cup Arg, G)
    PROVE  Kept'
<1>1. Pending = Arg
    BY DEF Doing, Pending, Arg
<1>2. \A s \in 1..Slots : Stray(arena[s]) \/ \E n \in job.owned \cup Arg : job.regs[n] = s
    BY <1>1 DEF Doing, IInv, Kept
<1>3. job'.owned = job.owned \cup Arg /\ job'.regs = job.regs
    BY DEF Advance
<1>4. \A s \in 1..Slots : Stray(arena'[s]) \/ \E n \in job'.owned : job'.regs[n] = s
    BY <1>2, <1>3
<1>5. QED
    BY <1>4 DEF Kept

\* What leaves the care of a block is released.
LEMMA LeaveKept ==
    ASSUME Doing("Leave"), NEW G, NEW A,
           arena' = Without(arena, {job.regs[n] : n \in A}),
           Advance(job.regs, job.owned \ A, G)
    PROVE  /\ Kept' /\ DOMAIN arena' = 1..Slots
           /\ \A s \in 1..Slots : (\A n \in A : job.regs[n] # s) => arena'[s] = arena[s]
<1> DEFINE gone == {job.regs[n] : n \in A}
<1>1. arena' = [s \in 1..Slots |-> IF s \in gone THEN Nil ELSE arena[s]]
    BY DEF Without
<1>2. \A s \in 1..Slots : Stray(arena[s]) \/ \E n \in job.owned : job.regs[n] = s
    BY DEF Doing, Pending, IInv, Kept
<1>3. job'.owned = job.owned \ A /\ job'.regs = job.regs
    BY DEF Advance
<1>4. Stray(Nil)
    BY DEF Stray, Nil
<1>5. ASSUME NEW s \in 1..Slots
      PROVE  Stray(arena'[s]) \/ \E n \in job'.owned : job'.regs[n] = s
  <2>1. CASE s \in gone
    <3>1. arena'[s] = Nil
        BY <1>1, <2>1, Zenon
    <3>2. QED
        BY <1>4, <3>1
  <2>2. CASE s \notin gone
    <3>1. arena'[s] = arena[s]
        BY <1>1, <2>2, Zenon
    <3>2. \A n \in A : job.regs[n] # s
        BY <2>2
    <3> HIDE DEF gone
    <3>3. QED
        BY <1>2, <1>3, <3>1, <3>2
  <2>3. QED
      BY <2>1, <2>2
<1>6. DOMAIN arena' = 1..Slots
    BY <1>1
<1>7. ASSUME NEW s \in 1..Slots, \A n \in A : job.regs[n] # s
      PROVE  arena'[s] = arena[s]
  <2>1. s \notin gone
      BY <1>7
  <2>2. QED
      BY <1>1, <2>1, Zenon
<1>8. QED
    BY <1>5, <1>6, <1>7 DEF Kept

-----------------------------------------------------------------------------
(* From place to place *)

\* A method can only take the step that comes next.
LEMMA OnlyNext ==
    ASSUME NEW op, job.running, job.steps # <<>>, Head(job.steps).op = op, Next
    PROVE  \/ op = "Put" /\ PutBytes
           \/ op = "Enter" /\ Enter
           \/ op = "Leave" /\ Leave
           \/ op = "Check" /\ Check
           \/ op = "Info" /\ Info
           \/ op = "Query" /\ Query
           \/ op = "Keep" /\ Keep
           \/ op = "Start" /\ Start
           \/ op = "Poll" /\ PollOnce
           \/ op = "BuilderNew" /\ operator_builder_new
           \/ op = "BuilderSet" /\ operator_builder_set
           \/ op = "Build" /\ operator_builder_build
           \/ op = "Metadata" /\ TakeMetadata
           \/ op = "Snapshot" /\ TakeSnapshot
           \/ op = "TakeLastError" /\ TakeLastError
           \/ op = "TakeError" /\ TakeError
<1>1. job.running /\ job.steps # <<>> /\ Head(job.steps).op = op
    OBVIOUS
<1>2. ~(BeginOperator \/ BeginSchemes \/ BeginRead \/ BeginList \/ BeginCopy \/ BeginPoll)
    BY <1>1 DEF BeginOperator, BeginSchemes, BeginRead, BeginList, BeginCopy, BeginPoll, Begin
<1>3. \A t : ~SettleMetadata(t) /\ ~SettleError(t) /\ \A x : ~SettleList(t, x) /\ ~SettleRead(t, x)
    BY <1>1, Zenon DEF SettleMetadata, SettleError, SettleList, SettleRead, Settle, SettleFailed
<1>4. ~(Finish \/ Occupy \/ Vacate)
    BY <1>1 DEF Finish, Occupy, Vacate
<1>5. /\ PutBytes => op = "Put"
      /\ Enter => op = "Enter"
      /\ Leave => op = "Leave"
      /\ Check => op = "Check"
      /\ Info => op = "Info"
      /\ Query => op = "Query"
      /\ Keep => op = "Keep"
      /\ Start => op = "Start"
      /\ PollOnce => op = "Poll"
    BY <1>1, Zenon DEF At, PutBytes, Enter, Leave, Check, Info, Query, Keep, Start, PollOnce
<1>6. /\ operator_builder_new => op = "BuilderNew"
      /\ operator_builder_set => op = "BuilderSet"
      /\ operator_builder_build => op = "Build"
      /\ TakeMetadata => op = "Metadata"
      /\ TakeSnapshot => op = "Snapshot"
      /\ TakeLastError => op = "TakeLastError"
      /\ TakeError => op = "TakeError"
    BY <1>1, Zenon DEF At, operator_builder_new, operator_builder_set, operator_builder_build,
                       TakeMetadata, TakeSnapshot, TakeLastError, TakeError
<1>7. QED
    BY <1>2, <1>3, <1>4, <1>5, <1>6, Zenon DEF Next

\* The same while nothing has failed.
LEMMA OnlyStep ==
    ASSUME NEW op, Doing(op), Next
    PROVE  \/ op = "Put" /\ PutBytes
           \/ op = "Enter" /\ Enter
           \/ op = "Leave" /\ Leave
           \/ op = "Check" /\ Check
           \/ op = "Info" /\ Info
           \/ op = "Query" /\ Query
           \/ op = "Keep" /\ Keep
           \/ op = "Start" /\ Start
           \/ op = "Poll" /\ PollOnce
           \/ op = "BuilderNew" /\ operator_builder_new
           \/ op = "BuilderSet" /\ operator_builder_set
           \/ op = "Build" /\ operator_builder_build
           \/ op = "Metadata" /\ TakeMetadata
           \/ op = "Snapshot" /\ TakeSnapshot
           \/ op = "TakeLastError" /\ TakeLastError
           \/ op = "TakeError" /\ TakeError
<1>1. job.running /\ job.steps # <<>> /\ Head(job.steps).op = op
    BY DEF Doing
<1>2. QED
    BY <1>1, OnlyNext

\* A check that fails ends the method with its own error.
LEMMA CheckFails ==
    ASSUME Doing("Check"), Check, Arg # "None", Arg # "ListTooLarge"
    PROVE  IInv'
<1> DEFINE e == Arg
<1>1. /\ e # "None" /\ e # "ListTooLarge" /\ arena' = arena
      /\ job' = [job EXCEPT !.cause = e, !.reported = kind(e), !.steps = <<>>]
    BY DEF Check
<1> HIDE DEF e
<1>2. /\ DOMAIN job' = JobFields
      /\ job'.what = job.what /\ job'.asked = job.asked /\ job'.regs = job.regs
      /\ job'.steps = <<>> /\ job'.owned = job.owned /\ job'.cause = e
      /\ job'.reported = kind(e) /\ job'.blocked = job.blocked /\ job'.running = job.running
    BY <1>1 DEF Doing, IInv, Shape, JobFields
<1>3. job.running
    BY DEF Doing
<1>4. Shape'
    BY <1>1, <1>2 DEF Doing, IInv, Shape
<1>5. Idle' /\ Placed' /\ Answered' /\ Refused'
    BY <1>1, <1>2, <1>3 DEF Idle, Placed, Answered, Refused
<1>6. Faithful'
  <2>1. OnItsWay'
      BY <1>2, Zenon DEF OnItsWay
  <2>2. QED
      BY <1>1, <1>2, <2>1 DEF Faithful
<1>7. Kept'
  <2>1. Pending = {}
      BY DEF Pending, Doing
  <2>2. \A s \in 1..Slots : Stray(arena[s]) \/ \E n \in job.owned : job.regs[n] = s
      BY <2>1 DEF Kept, Doing, IInv
  <2>3. \A s \in 1..Slots : Stray(arena'[s]) \/ \E n \in job'.owned : job'.regs[n] = s
      BY <1>1, <1>2, <2>2
  <2>4. QED
      BY <2>3 DEF Kept
<1>8. QED
    BY <1>4, <1>5, <1>6, <1>7 DEF IInv

\* The builder is in a slot of its own, so what becomes of another slot does not
\* touch it.
LEMMA BuilderStays ==
    ASSUME NEW m, Built(m), Shape, job'.asked = job.asked,
           "builder" \in DOMAIN job'.regs,
           arena'[job'.regs["builder"]] = arena[job.regs["builder"]]
    PROVE  Built(m)'
BY DEF Built, Holds

\* Between the entries of a configuration, and after the last.
LEMMA ConfigPlace ==
    ASSUME NEW c \in Configs, NEW k \in 0..Len(c),
           job'.what = "Operator", job'.asked = c, job'.steps = ConfigLeft(c)[k],
           job'.owned = {"builder"}, Built(Len(c) - k)'
    PROVE  InMethod' /\ job'.steps # <<>>
<1>1. /\ Len(c) \in Nat /\ \A j \in 1..Len(c) : c[j] \in ConfigEntry
      /\ \A j \in 0..Len(c) : ConfigLeft(c)[j] \in Seq(StepSet)
      /\ ConfigLeft(c)[0] = BuildSteps
      /\ \A j \in 1..Len(c) :
           ConfigLeft(c)[j] = ConfigSteps(c[Len(c) - j + 1]) \o ConfigLeft(c)[j - 1]
    BY ConfigUnfolds
<1>2. CASE k = 0
  <2> DEFINE p == BuildSteps
             i == 1
  <2>1. p \in Seq(StepSet) /\ Len(p) = 7 /\ i \in 1..Len(p) /\ i \in 1..7 /\ i = 1
      BY BuildProgram
  <2> HIDE DEF p, i
  <2>2. Left(p, i) # <<>> /\ Left(p, 1) = p
      BY <2>1, Walk
  <2>3. job'.steps = Left(BuildSteps, i) /\ job'.steps # <<>>
      BY <1>1, <1>2, <2>1, <2>2 DEF p
  <2>4. Built(Len(c))'
    <3> DEFINE m == Len(c) - k
    <3>1. m = Len(c) /\ Built(m)'
        BY <1>1, <1>2
    <3> HIDE DEF m
    <3>2. QED
        BY <3>1
  <2>5. InOperator'
    <3>1. AtBuild(i)'
        BY <2>1, <2>3, <2>4 DEF AtBuild
    <3>2. QED
        BY <2>1, <3>1 DEF InOperator
  <2>6. QED
      BY <2>3, <2>5 DEF InMethod
<1>3. CASE k # 0
  <2> DEFINE m == Len(c) - k
             e == c[m + 1]
             p == ConfigSteps(e)
             r == ConfigLeft(c)[k - 1]
             i == 1
  <2>1. k \in 1..Len(c) /\ k - 1 \in 0..Len(c) /\ m + 1 = Len(c) - k + 1 /\ m + 1 \in 1..Len(c)
      BY <1>1, <1>3
  <2>2. e \in ConfigEntry /\ r \in Seq(StepSet)
      BY <1>1, <2>1
  <2>3. job'.steps = p \o r
      BY <1>1, <2>1
  <2> HIDE DEF e, r
  <2>4. p \in Seq(StepSet) /\ Len(p) = 5 /\ p # <<>>
      BY <2>2, ConfigProgram
  <2> HIDE DEF p
  <2>5. i \in 1..Len(p) /\ i = 1
      BY <2>4
  <2> HIDE DEF i
  <2>6. Left(p, i) \o r # <<>> /\ Left(p, 1) \o r = p \o r
      BY <2>2, <2>4, <2>5, Starting
  <2>7. job'.steps = Left(p, i) \o r /\ job'.steps # <<>>
      BY <2>3, <2>5, <2>6
  <2>8. AtConfig(k, 1)'
    <3>1. job'.steps = Left(ConfigSteps(job'.asked[Len(job'.asked) - k + 1]), 1)
                         \o ConfigLeft(job'.asked)[k - 1]
        BY <2>5, <2>7 DEF e, p, r
    <3>2. Built(IF 1 > 4 THEN m + 1 ELSE m)'
        OBVIOUS
    <3>3. job'.owned = {"builder"} \cup (IF 1 > 4 THEN {"key", "value"} ELSE {})
        OBVIOUS
    <3>4. QED
        BY <3>1, <3>2, <3>3 DEF AtConfig
  <2>9. InOperator'
      BY <2>1, <2>8 DEF InOperator
  <2>10. QED
      BY <2>7, <2>9 DEF InMethod
<1>4. QED
    BY <1>2, <1>3

\* Where a method that goes on has arrived.
LEMMA Arrived ==
    ASSUME NEW R, NEW O, NEW G, Advance(R, O, G)
    PROVE  /\ job'.what = job.what /\ job'.asked = job.asked /\ job'.regs = R
           /\ job'.owned = O /\ job'.got = G /\ job'.steps = Tail(job.steps)
BY DEF Advance

\* The scheme and the new builder.
LEMMA SchemeStep ==
    ASSUME IInv, Next, job.running, job.cause = "None",
           NEW c \in Configs, job.what = "Operator", job.asked = c,
           NEW n \in Lengths, NEW i \in 1..5, AtScheme(n, i)
    PROVE  IInv'
<1> DEFINE p == SchemeSteps(n, c)
           r == ConfigLeft(c)[Len(c)]
<1>1. n \in Nat
    BY FacadeAssumption
<1>2. /\ p \in Seq(StepSet) /\ Len(p) = 5
      /\ p[1] = Step("Check", normalizeConfig(c))
      /\ p[2] = Put("scheme", n)
      /\ p[3] = Step("Enter", {"scheme"})
      /\ p[4] = Step("BuilderNew", n)
      /\ p[5] = Step("Leave", {"scheme"})
    BY <1>1, SchemeProgram
<1>3. r \in Seq(StepSet) /\ Len(c) \in Nat
  <2> DEFINE k == Len(c)
  <2>1. k \in Nat /\ \A j \in 0..k : ConfigLeft(c)[j] \in Seq(StepSet)
      BY ConfigUnfolds
  <2> HIDE DEF k
  <2>2. ConfigLeft(c)[k] \in Seq(StepSet)
      BY <2>1
  <2>3. QED
      BY <2>1, <2>2 DEF k
<1>4. /\ job.steps = Left(p, i) \o r
      /\ job.owned = (IF i > 3 THEN {"scheme"} ELSE {}) \cup (IF i > 4 THEN {"builder"} ELSE {})
      /\ i > 1 => normalizeConfig(c) = "None"
      /\ i > 2 => Holds("scheme", "Buffer")
      /\ i > 4 => Built(0)
    BY DEF AtScheme
<1> HIDE DEF p, r
<1>5. i \in 1..Len(p)
    BY <1>2
<1>6. /\ job.steps # <<>> /\ Head(job.steps) = p[i]
      /\ Tail(job.steps) = Left(p, i + 1) \o r
      /\ i = 5 => Tail(job.steps) = r
      /\ i # 5 => Tail(job.steps) # <<>> /\ Head(Tail(job.steps)) = p[i + 1]
  <2>1. /\ job.steps # <<>> /\ Head(job.steps) = p[i]
        /\ Tail(job.steps) = Left(p, i + 1) \o r
        /\ i = Len(p) => Tail(job.steps) = r
        /\ i # Len(p) => Tail(job.steps) # <<>> /\ Head(Tail(job.steps)) = p[i + 1]
    <3>1. job.steps = Left(p, i) \o r
        BY <1>4
    <3>2. p \in Seq(StepSet)
        BY <1>2
    <3>3. QED
        BY <1>3, <1>5, <3>1, <3>2, Going
  <2>2. QED
      BY <1>2, <2>1
<1>7. Shape /\ \A op : p[i].op = op => Doing(op)
    BY <1>6 DEF Doing, IInv
<1>8. Arg = p[i].arg /\ "error" \notin job.owned
    BY <1>4, <1>6 DEF Arg
<1>9. ASSUME i # 5, job'.what = "Operator", job'.asked = c, job'.steps = Tail(job.steps),
             job'.owned = (IF i > 2 THEN {"scheme"} ELSE {}) \cup (IF i > 3 THEN {"builder"} ELSE {}),
             normalizeConfig(c) = "None", i > 1 => Holds("scheme", "Buffer")', i > 3 => Built(0)'
      PROVE  job'.steps # <<>> /\ InMethod'
  <2> DEFINE k == i + 1
  <2>1. k \in 1..5 /\ k = i + 1 /\ k > 1
      BY <1>9
  <2> HIDE DEF k
  <2>4. job'.steps = Left(SchemeSteps(n, job'.asked), k) \o ConfigLeft(job'.asked)[Len(job'.asked)]
      BY <1>6, <1>9, <2>1 DEF p, r
  <2>5. /\ job'.owned = (IF k > 3 THEN {"scheme"} ELSE {}) \cup (IF k > 4 THEN {"builder"} ELSE {})
        /\ normalizeConfig(job'.asked) = "None"
        /\ k > 2 => Holds("scheme", "Buffer")'
        /\ k > 4 => Built(0)'
      BY <1>9, <2>1
  <2>6. AtScheme(n, k)'
      BY <2>4, <2>5 DEF AtScheme
  <2>2. InOperator'
      BY <2>1, <2>6 DEF InOperator
  <2>3. QED
      BY <1>6, <1>9, <2>2 DEF InMethod
<1>10. CASE i = 1
  <2>1. Doing("Check") /\ Arg = normalizeConfig(c)
      BY <1>2, <1>7, <1>8, <1>10 DEF Step
  <2>2. Check
      BY <2>1, OnlyStep
  <2>3. CASE Arg # "None"
    <3>1. Arg # "ListTooLarge"
        BY <2>1, ChecksAreErrors
    <3>2. QED
        BY <2>1, <2>2, <2>3, <3>1, CheckFails
  <2>4. CASE Arg = "None"
    <3>1. arena' = arena /\ Advance(job.regs, job.owned, job.got)
        BY <1>7, <2>2, <2>4, CheckEffect
    <3>2. Kept'
        BY <2>1, <3>1, SameKept
    <3>3. job'.owned = {}
        BY <1>4, <1>10, <3>1, Arrived
    <3>4. job'.steps # <<>> /\ InMethod'
        BY <1>9, <1>10, <2>1, <2>4, <3>1, <3>3, Arrived
    <3>5. QED
        BY <1>7, <2>1, <3>1, <3>2, <3>4, AdvanceKeeps DEF Shape
  <2>5. QED
      BY <2>3, <2>4
<1>11. CASE i = 2
  <2>1. Doing("Put") /\ Arg.len = n /\ Arg.name = "scheme"
      BY <1>2, <1>7, <1>8, <1>11 DEF Put, Step
  <2>2. PutBytes
      BY <2>1, OnlyStep
  <2>3. CASE Failed
      BY <1>8, <2>1, <2>3, FailedKeeps
  <2>4. CASE ~Failed
    <3> DEFINE b == Buffer("scheme", n, 0 .. n - 1)
    <3>1. Free # {} /\ arena' = Inserted(b) /\ Advance(Register("scheme"), job.owned, job.got)
        BY <1>1, <1>7, <2>1, <2>2, <2>4, PutEffect
    <3>2. b.kind = "Buffer"
        BY DEF Buffer
    <3> HIDE DEF b
    <3>3. /\ DOMAIN arena' = 1..Slots
          /\ DOMAIN job'.regs = (DOMAIN job.regs) \cup {"scheme"}
          /\ \A m \in DOMAIN job'.regs : job'.regs[m] \in 1..Slots
          /\ arena'[job'.regs["scheme"]] = b
        BY <1>7, <3>1, MadeRegistered
    <3>4. Kept'
      <4>1. "scheme" \in Head(Tail(job.steps)).arg /\ Head(Tail(job.steps)).op = "Enter"
        <5>1. i # 5 /\ i + 1 = 3
            BY <1>11
        <5>2. Head(Tail(job.steps)) = p[3]
            BY <1>6, <5>1
        <5>3. p[3].op = "Enter" /\ p[3].arg = {"scheme"}
            BY <1>2 DEF Step
        <5>4. QED
            BY <5>2, <5>3
      <4>2. "scheme" \notin job.owned
          BY <1>4, <1>11
      <4>3. QED
          BY <1>6, <1>11, <2>1, <3>1, <4>1, <4>2, MadeKept
    <3>5. Holds("scheme", "Buffer")' /\ job'.owned = {}
        BY <1>4, <1>11, <3>1, <3>2, <3>3, Arrived DEF Holds
    <3>6. job'.steps # <<>> /\ InMethod'
        BY <1>4, <1>9, <1>11, <3>1, <3>5, Arrived
    <3>7. job.owned \subseteq DOMAIN job'.regs /\ job'.regs = Register("scheme")
        BY <1>7, <3>1, <3>3, Arrived DEF Shape
    <3>8. QED
        BY <2>1, <3>1, <3>3, <3>4, <3>6, <3>7, AdvanceKeeps
  <2>5. QED
      BY <2>3, <2>4
<1>12. CASE i = 3
  <2>1. Doing("Enter") /\ Arg = {"scheme"}
      BY <1>2, <1>7, <1>8, <1>12 DEF Step
  <2>2. Enter
      BY <2>1, OnlyStep
  <2>3. arena' = arena /\ Advance(job.regs, job.owned \cup Arg, job.got)
      BY <1>7, <2>2, EnterEffect
  <2>4. Arg \subseteq DOMAIN job.regs
      BY <1>4, <1>12, <2>1 DEF Holds
  <2>5. Kept'
      BY <2>1, <2>3, <2>4, EnterKept
  <2>6. Holds("scheme", "Buffer")' /\ job'.owned = {"scheme"}
      BY <1>4, <1>12, <2>1, <2>3, Arrived DEF Holds
  <2>7. job'.steps # <<>> /\ InMethod'
      BY <1>4, <1>9, <1>12, <2>3, <2>6, Arrived
  <2>8. job.owned \cup Arg \subseteq DOMAIN job.regs
      BY <1>7, <2>4 DEF Shape
  <2>9. QED
      BY <1>7, <2>1, <2>3, <2>5, <2>7, <2>8, AdvanceKeeps DEF Shape
<1>13. CASE i = 4
  <2>1. Doing("BuilderNew")
      BY <1>2, <1>7, <1>13 DEF Step
  <2>2. operator_builder_new
      BY <2>1, OnlyStep
  <2>3. CASE Failed
      BY <1>8, <2>1, <2>3, FailedKeeps
  <2>4. CASE ~Failed
    <3> DEFINE b == Builder(<<>>, 0)
               O == job.owned \cup {"builder"}
    <3>1. Free # {} /\ arena' = Inserted(b) /\ Advance(Register("builder"), O, job.got)
        BY <1>7, <2>2, <2>4, BuilderNewEffect
    <3>2. b.kind = "Builder" /\ b.config = <<>>
        BY DEF Builder
    <3> HIDE DEF b
    <3>3. /\ DOMAIN arena' = 1..Slots
          /\ DOMAIN job'.regs = (DOMAIN job.regs) \cup {"builder"}
          /\ \A m \in DOMAIN job'.regs : job'.regs[m] \in 1..Slots
          /\ arena'[job'.regs["builder"]] = b
          /\ arena[job.regs["scheme"]].kind # "None"
               => arena'[job'.regs["scheme"]] = arena[job.regs["scheme"]]
        BY <1>4, <1>7, <1>13, <3>1, MadeRegistered DEF Holds
    <3>4. Kept'
      <4>1. "builder" \notin job.owned /\ "builder" \in O /\ job.owned \subseteq O
          BY <1>4, <1>13
      <4>2. QED
          BY <2>1, <3>1, <4>1, MadeKept
    <3>5. Holds("scheme", "Buffer")' /\ job'.owned = {"scheme", "builder"}
        BY <1>4, <1>13, <3>1, <3>3, Arrived DEF Holds
    <3>6. Built(0)'
      <4>1. SubSeq(c, 1, 0) = <<>>
          BY SubSeqEmpty
      <4>2. job'.asked = c /\ normalizeConfig(c) = "None"
          BY <1>4, <1>13, <3>1, Arrived
      <4>3. Holds("builder", "Builder")'
          BY <3>2, <3>3 DEF Holds
      <4>4. arena'[job'.regs["builder"]].config = SubSeq(job'.asked, 1, 0)
          BY <3>2, <3>3, <4>1, <4>2
      <4>5. \A j, l \in 1..0 : j # l => job'.asked[j].key # job'.asked[l].key
          OBVIOUS
      <4>6. QED
          BY <4>2, <4>3, <4>4, <4>5, Zenon DEF Built
    <3>7. job'.steps # <<>> /\ InMethod'
        BY <1>4, <1>9, <1>13, <3>1, <3>5, <3>6, Arrived
    <3>8. O \subseteq DOMAIN job'.regs /\ job'.regs = Register("builder")
        BY <1>7, <3>1, <3>3, Arrived DEF Shape
    <3>9. QED
        BY <2>1, <3>1, <3>3, <3>4, <3>7, <3>8, AdvanceKeeps
  <2>5. QED
      BY <2>3, <2>4
<1>14. CASE i = 5
  <2> DEFINE k == Len(c)
             A == {"scheme"}
  <2>1. Doing("Leave") /\ Arg = A
      BY <1>2, <1>7, <1>8, <1>14 DEF Step
  <2>2. Leave
      BY <2>1, OnlyStep
  <2>3. /\ arena' = Without(arena, {job.regs[m] : m \in A})
        /\ Advance(job.regs, job.owned \ A, job.got)
      BY <1>7, <2>1, <2>2, LeaveEffect
  <2>4. /\ Kept' /\ DOMAIN arena' = 1..Slots
        /\ \A s \in 1..Slots : (\A m \in A : job.regs[m] # s) => arena'[s] = arena[s]
    <3> HIDE DEF A
    <3>1. QED
        BY <2>1, <2>3, LeaveKept
  <2>5. Holds("builder", "Builder") /\ Holds("scheme", "Buffer") /\ Built(0)
      BY <1>4, <1>14 DEF Built
  <2>6. /\ job'.what = "Operator" /\ job'.asked = c /\ job'.regs = job.regs
        /\ job'.owned = {"builder"} /\ job'.steps = r
    <3>1. /\ job'.what = "Operator" /\ job'.asked = c /\ job'.regs = job.regs
          /\ job'.owned = job.owned \ A /\ job'.steps = Tail(job.steps)
        BY <2>3, Arrived
    <3>2. job.owned \ A = {"builder"}
        BY <1>4, <1>14
    <3>3. QED
        BY <1>6, <1>14, <3>1, <3>2
  <2>7. arena'[job'.regs["builder"]] = arena[job.regs["builder"]]
      BY <1>7, <2>4, <2>5, <2>6 DEF Holds, Shape
  <2>8. Built(0)'
      BY <1>7, <2>5, <2>6, <2>7, BuilderStays DEF Holds
  <2>9. k \in 0..k /\ k - k = 0 /\ job'.steps = ConfigLeft(c)[k]
      BY <1>3, <2>6 DEF r
  <2>10. Built(k - k)'
      BY <2>8, <2>9
  <2>11. job'.steps # <<>> /\ InMethod'
      BY <2>6, <2>9, <2>10, ConfigPlace
  <2>12. job.owned \ A \subseteq DOMAIN job.regs
      BY <1>7 DEF Shape
  <2>13. QED
      BY <1>7, <2>1, <2>3, <2>4, <2>11, <2>12, AdvanceKeeps DEF Shape
<1>15. QED
    BY <1>10, <1>11, <1>12, <1>13, <1>14

\* A beginning of a sequence, and the next longer one.
LEMMA Beginning ==
    ASSUME NEW S, NEW s \in Seq(S), NEW m \in 0..Len(s)
    PROVE  /\ SubSeq(s, 1, m) \in Seq(S) /\ Len(SubSeq(s, 1, m)) = m
           /\ DOMAIN SubSeq(s, 1, m) = 1..m
           /\ \A j \in 1..m : SubSeq(s, 1, m)[j] = s[j]
<1> DEFINE q == SubSeq(s, 1, m)
<1>1. Len(s) \in Nat /\ m \in Nat
    BY LenProperties
<1>2. \A j \in 1..m : s[j] \in S
    BY <1>1, ElementOfSeq
<1>3. m \in Int /\ 1 \in Int
    BY <1>1
<1>4. q = SubSeq(s, 1, m)
    OBVIOUS
<1> HIDE DEF q
<1>5. /\ q \in Seq(S) /\ Len(q) = (IF 1 <= m THEN m - 1 + 1 ELSE 0)
      /\ \A j \in 1 .. m - 1 + 1 : q[j] = s[1 + j - 1]
    BY <1>2, <1>3, <1>4, SubSeqProperties
<1>6. Len(q) = m /\ \A j \in 1..m : q[j] = s[j]
    BY <1>1, <1>5
<1>7. DOMAIN q = 1..m
    BY <1>5, <1>6, LenProperties
<1>8. QED
    BY <1>5, <1>6, <1>7 DEF q

\* One more element.
LEMMA NextBeginning ==
    ASSUME NEW S, NEW s \in Seq(S), NEW m \in 1..Len(s)
    PROVE  Append(SubSeq(s, 1, m - 1), s[m]) = SubSeq(s, 1, m)
<1> DEFINE k == m - 1
           p == SubSeq(s, 1, k)
           q == SubSeq(s, 1, m)
           e == s[m]
           r == Append(p, e)
<1>1. Len(s) \in Nat /\ m \in 0..Len(s) /\ k \in 0..Len(s) /\ m = k + 1 /\ k \in Nat /\ e \in S
    BY LenProperties, ElementOfSeq
<1> HIDE DEF k, e
<1>2. p \in Seq(S) /\ Len(p) = k /\ \A j \in 1..k : p[j] = s[j]
    BY <1>1, Beginning
<1>3. q \in Seq(S) /\ Len(q) = m /\ \A j \in 1..m : q[j] = s[j]
    BY <1>1, Beginning
<1> HIDE DEF p, q
<1>4. /\ r \in Seq(S) /\ Len(r) = Len(p) + 1
      /\ \A j \in 1..Len(p) : r[j] = p[j]
      /\ r[Len(p) + 1] = e
    BY <1>1, <1>2, AppendProperties
<1> HIDE DEF r
<1>5. ASSUME NEW j \in 1..m PROVE r[j] = q[j]
  <2>1. CASE j = m
      BY <1>1, <1>2, <1>3, <1>4, <2>1 DEF e
  <2>2. CASE j # m
    <3>1. j \in 1..k /\ j \in 1..Len(p)
        BY <1>1, <1>2, <2>2
    <3>2. QED
        BY <1>2, <1>3, <1>4, <3>1
  <2>3. QED
      BY <2>1, <2>2
<1>6. r = q
    BY <1>1, <1>2, <1>3, <1>4, <1>5, SeqEqual
<1>7. QED
    BY <1>6 DEF r, q, p, e, k

\* A place among the entries of a configuration.
LEMMA ConfigArrives ==
    ASSUME NEW c \in Configs, NEW k \in 1..Len(c), NEW i \in 1..5,
           job'.what = "Operator", job'.asked = c,
           job'.steps = Left(ConfigSteps(c[Len(c) - k + 1]), i) \o ConfigLeft(c)[k - 1],
           job'.owned = {"builder"} \cup (IF i > 3 THEN {"key", "value"} ELSE {}),
           i > 1 => Holds("key", "Buffer")', i > 2 => Holds("value", "Buffer")',
           Built(IF i > 4 THEN Len(c) - k + 1 ELSE Len(c) - k)'
    PROVE  InMethod'
<1>1. AtConfig(k, i)'
  <2>1. job'.steps = Left(ConfigSteps(job'.asked[Len(job'.asked) - k + 1]), i)
                         \o ConfigLeft(job'.asked)[k - 1]
      OBVIOUS
  <2>2. QED
      BY <2>1 DEF AtConfig
<1>2. InOperator'
    BY <1>1 DEF InOperator
<1>3. QED
    BY <1>2 DEF InMethod

\* One entry of the configuration.
LEMMA ConfigStep ==
    ASSUME IInv, Next, job.running, job.cause = "None",
           NEW c \in Configs, job.what = "Operator", job.asked = c,
           NEW k \in 1..Len(c), NEW i \in 1..5, AtConfig(k, i)
    PROVE  IInv'
<1> DEFINE m == Len(c) - k
           e == c[m + 1]
           p == ConfigSteps(e)
           r == ConfigLeft(c)[k - 1]
<1>1. /\ Len(c) \in Nat /\ m \in Nat /\ m + 1 \in 1..Len(c) /\ k - 1 \in 0..Len(c)
      /\ m = Len(c) - k /\ e \in ConfigEntry /\ r \in Seq(StepSet) /\ c \in Seq(ConfigEntry)
  <2>1. /\ Len(c) \in Nat /\ c \in Seq(ConfigEntry)
        /\ \A j \in 1..Len(c) : c[j] \in ConfigEntry
        /\ \A j \in 0..Len(c) : ConfigLeft(c)[j] \in Seq(StepSet)
      BY ConfigUnfolds
  <2>2. QED
      BY <2>1
<1>2. /\ job.steps = Left(p, i) \o r
      /\ job.owned = {"builder"} \cup (IF i > 3 THEN {"key", "value"} ELSE {})
      /\ i > 1 => Holds("key", "Buffer")
      /\ i > 2 => Holds("value", "Buffer")
      /\ Built(IF i > 4 THEN m + 1 ELSE m)
    BY DEF AtConfig
<1>0. Left(p, i + 1) \o r = Left(ConfigSteps(c[Len(c) - k + 1]), i + 1) \o ConfigLeft(c)[k - 1]
    OBVIOUS
<1> HIDE DEF r, e, m
<1>3. /\ p \in Seq(StepSet) /\ Len(p) = 5
      /\ p[1] = Put("key", e.bytes)
      /\ p[2] = Put("value", 0)
      /\ p[3] = Step("Enter", {"key", "value"})
      /\ p[4] = Step("BuilderSet", e)
      /\ p[5] = Step("Leave", {"key", "value"})
    BY <1>1, ConfigProgram
<1> HIDE DEF p
<1>4. i \in 1..Len(p)
    BY <1>3
<1>5. /\ job.steps # <<>> /\ Head(job.steps) = p[i]
      /\ Tail(job.steps) = Left(p, i + 1) \o r
      /\ i = 5 => Tail(job.steps) = r
      /\ i # 5 => Tail(job.steps) # <<>> /\ Head(Tail(job.steps)) = p[i + 1]
  <2>1. /\ job.steps # <<>> /\ Head(job.steps) = p[i]
        /\ Tail(job.steps) = Left(p, i + 1) \o r
        /\ i = Len(p) => Tail(job.steps) = r
        /\ i # Len(p) => Tail(job.steps) # <<>> /\ Head(Tail(job.steps)) = p[i + 1]
    <3>1. job.steps = Left(p, i) \o r
        BY <1>2
    <3>2. p \in Seq(StepSet) /\ r \in Seq(StepSet)
        BY <1>1, <1>3
    <3>3. QED
        BY <1>4, <3>1, <3>2, Going
  <2>2. QED
      BY <1>3, <2>1
<1>6. Shape /\ \A op : p[i].op = op => Doing(op)
    BY <1>5 DEF Doing, IInv
<1>7. Arg = p[i].arg /\ "error" \notin job.owned
    BY <1>2, <1>5 DEF Arg
<1>8. Holds("builder", "Builder")
    BY <1>2 DEF Built
<1>9. ASSUME i # 5, job'.what = "Operator", job'.asked = c, job'.steps = Tail(job.steps),
             job'.owned = {"builder"} \cup (IF i > 2 THEN {"key", "value"} ELSE {}),
             Holds("key", "Buffer")', i > 1 => Holds("value", "Buffer")',
             Built(IF i > 3 THEN m + 1 ELSE m)'
      PROVE  job'.steps # <<>> /\ InMethod'
  <2> DEFINE j == i + 1
  <2>1. /\ j \in 1..5
        /\ job'.steps = Left(ConfigSteps(c[Len(c) - k + 1]), j) \o ConfigLeft(c)[k - 1]
    <3>1. j \in 1..5
        BY <1>9
    <3>2. job'.steps = Left(p, j) \o r
        BY <1>5, <1>9
    <3>3. QED
        BY <1>0, <3>1, <3>2, Zenon
  <2>2. j = i + 1
      OBVIOUS
  <2> HIDE DEF j
  <2>3. /\ job'.owned = {"builder"} \cup (IF j > 3 THEN {"key", "value"} ELSE {})
        /\ j > 1 => Holds("key", "Buffer")'
        /\ j > 2 => Holds("value", "Buffer")'
      BY <1>9, <2>2
  <2>4. Built(IF j > 4 THEN Len(c) - k + 1 ELSE Len(c) - k)'
    <3>1. (IF j > 4 THEN Len(c) - k + 1 ELSE Len(c) - k) = IF i > 3 THEN m + 1 ELSE m
        BY <1>1, <2>2
    <3>2. QED
        BY <1>9, <3>1
  <2>5. InMethod'
      BY <1>9, <2>1, <2>3, <2>4, ConfigArrives
  <2>6. QED
      BY <1>5, <1>9, <2>5
<1>10. CASE i = 1
  <2> DEFINE n == e.bytes
             b == Buffer("key", n, 0 .. n - 1)
  <2>1. Doing("Put") /\ Arg.len = n /\ Arg.name = "key" /\ n \in Nat
      BY <1>1, <1>3, <1>6, <1>7, <1>10 DEF Put, Step, ConfigEntry
  <2> HIDE DEF n
  <2>2. PutBytes
      BY <2>1, OnlyStep
  <2>3. CASE Failed
      BY <1>7, <2>1, <2>3, FailedKeeps
  <2>4. CASE ~Failed
    <3>1. Free # {} /\ arena' = Inserted(b) /\ Advance(Register("key"), job.owned, job.got)
        BY <1>6, <2>1, <2>2, <2>4, PutEffect
    <3>2. b.kind = "Buffer" /\ b.name = "key"
        BY DEF Buffer
    <3> HIDE DEF b
    <3>3. /\ DOMAIN arena' = 1..Slots
          /\ DOMAIN job'.regs = (DOMAIN job.regs) \cup {"key"}
          /\ \A s \in DOMAIN job'.regs : job'.regs[s] \in 1..Slots
          /\ arena'[job'.regs["key"]] = b
          /\ arena'[job'.regs["builder"]] = arena[job.regs["builder"]]
        BY <1>6, <1>8, <3>1, MadeRegistered DEF Holds
    <3>4. Kept'
      <4>1. "key" \notin job.owned /\ Stray(b)
          BY <1>2, <1>10, <3>2 DEF Stray
      <4>2. QED
          BY <2>1, <3>1, <4>1, MadeKept
    <3>5. /\ job'.what = "Operator" /\ job'.asked = c /\ job'.steps = Tail(job.steps)
          /\ job'.owned = {"builder"} /\ job'.regs = Register("key")
        BY <1>2, <1>10, <3>1, Arrived
    <3>6. Holds("key", "Buffer")'
        BY <3>2, <3>3 DEF Holds
    <3>7. Built(m)'
        BY <1>2, <1>6, <1>8, <1>10, <3>3, <3>5, BuilderStays DEF Holds
    <3>8. job'.steps # <<>> /\ InMethod'
        BY <1>9, <1>10, <3>5, <3>6, <3>7
    <3>9. job.owned \subseteq DOMAIN job'.regs
        BY <1>6, <3>3 DEF Shape
    <3>10. QED
        BY <2>1, <3>1, <3>3, <3>4, <3>5, <3>8, <3>9, AdvanceKeeps
  <2>5. QED
      BY <2>3, <2>4
<1>11. CASE i = 2
  <2> DEFINE n == 0
             b == Buffer("value", n, 0 .. n - 1)
  <2>1. Doing("Put") /\ Arg.len = n /\ Arg.name = "value" /\ n \in Nat
      BY <1>3, <1>6, <1>7, <1>11 DEF Put, Step
  <2> HIDE DEF n
  <2>2. PutBytes
      BY <2>1, OnlyStep
  <2>3. CASE Failed
      BY <1>7, <2>1, <2>3, FailedKeeps
  <2>4. CASE ~Failed
    <3>1. Free # {} /\ arena' = Inserted(b) /\ Advance(Register("value"), job.owned, job.got)
        BY <1>6, <2>1, <2>2, <2>4, PutEffect
    <3>2. b.kind = "Buffer" /\ Holds("key", "Buffer")
        BY <1>2, <1>11 DEF Buffer
    <3> HIDE DEF b
    <3>3. /\ DOMAIN arena' = 1..Slots
          /\ DOMAIN job'.regs = (DOMAIN job.regs) \cup {"value"}
          /\ \A s \in DOMAIN job'.regs : job'.regs[s] \in 1..Slots
          /\ arena'[job'.regs["value"]] = b
          /\ arena'[job'.regs["builder"]] = arena[job.regs["builder"]]
          /\ arena'[job'.regs["key"]] = arena[job.regs["key"]]
        BY <1>6, <1>8, <3>1, <3>2, MadeRegistered DEF Holds
    <3>4. Kept'
      <4>1. "value" \notin job.owned
          BY <1>2, <1>11
      <4>2. i # 5 /\ i + 1 = 3
          BY <1>11
      <4>3. p[3].op = "Enter" /\ p[3].arg = {"key", "value"}
          BY <1>3 DEF Step
      <4>4. Tail(job.steps) # <<>> /\ Head(Tail(job.steps)) = p[3]
          BY <1>5, <4>2
      <4>5. QED
          BY <2>1, <3>1, <4>1, <4>3, <4>4, MadeKept
    <3>5. /\ job'.what = "Operator" /\ job'.asked = c /\ job'.steps = Tail(job.steps)
          /\ job'.owned = {"builder"} /\ job'.regs = Register("value")
        BY <1>2, <1>11, <3>1, Arrived
    <3>6. Holds("key", "Buffer")' /\ Holds("value", "Buffer")'
        BY <3>2, <3>3 DEF Holds
    <3>7. Built(m)'
        BY <1>2, <1>6, <1>8, <1>11, <3>3, <3>5, BuilderStays DEF Holds
    <3>8. job'.steps # <<>> /\ InMethod'
        BY <1>9, <1>11, <3>5, <3>6, <3>7
    <3>9. job.owned \subseteq DOMAIN job'.regs
        BY <1>6, <3>3 DEF Shape
    <3>10. QED
        BY <2>1, <3>1, <3>3, <3>4, <3>5, <3>8, <3>9, AdvanceKeeps
  <2>5. QED
      BY <2>3, <2>4
<1>12. CASE i = 3
  <2>1. Doing("Enter") /\ Arg = {"key", "value"}
      BY <1>3, <1>6, <1>7, <1>12 DEF Step
  <2>2. Enter
      BY <2>1, OnlyStep
  <2>3. arena' = arena /\ Advance(job.regs, job.owned \cup Arg, job.got)
      BY <1>6, <2>2, EnterEffect
  <2>4. Holds("key", "Buffer") /\ Holds("value", "Buffer")
      BY <1>2, <1>12
  <2>5. Arg \subseteq DOMAIN job.regs
      BY <2>1, <2>4 DEF Holds
  <2>6. Kept'
      BY <2>1, <2>3, <2>5, EnterKept
  <2>7. /\ job'.what = "Operator" /\ job'.asked = c /\ job'.steps = Tail(job.steps)
        /\ job'.owned = {"builder", "key", "value"} /\ job'.regs = job.regs
      BY <1>2, <1>12, <2>1, <2>3, Arrived
  <2>8. Holds("key", "Buffer")' /\ Holds("value", "Buffer")'
      BY <2>3, <2>4, <2>7 DEF Holds
  <2>9. Built(m)'
      BY <1>2, <1>6, <1>8, <1>12, <2>3, <2>7, BuilderStays DEF Holds
  <2>10. job'.steps # <<>> /\ InMethod'
      BY <1>9, <1>12, <2>7, <2>8, <2>9
  <2>11. job.owned \cup Arg \subseteq DOMAIN job.regs
      BY <1>6, <2>5 DEF Shape
  <2>12. QED
      BY <1>6, <2>1, <2>3, <2>6, <2>10, <2>11, AdvanceKeeps DEF Shape
<1>13. CASE i = 4
  <2> DEFINE h == job.regs["builder"]
             b == arena[h]
             d == Builder(Append(b.config, e), b.config_bytes + e.bytes)
             l == m + 1
  <2>1. Doing("BuilderSet") /\ Arg = e
      BY <1>3, <1>6, <1>7, <1>13 DEF Step
  <2>2. operator_builder_set
      BY <2>1, OnlyStep
  <2>3. CASE Failed
      BY <1>7, <2>1, <2>3, FailedKeeps
  <2>4. CASE ~Failed
    <3>1. /\ \A s \in DOMAIN b.config : b.config[s].key # e.key
          /\ arena' = [arena EXCEPT ![h] = d]
          /\ Advance(job.regs, job.owned, job.got)
        BY <1>6, <2>1, <2>2, <2>4, BuilderSetEffect
    <3>2. /\ normalizeConfig(c) = "None" /\ h \in 1..Slots /\ b.kind = "Builder"
          /\ "builder" \in DOMAIN job.regs /\ b.config = SubSeq(c, 1, m)
          /\ \A s, t \in 1..m : s # t => c[s].key # c[t].key
      <4>1. (IF i > 4 THEN m + 1 ELSE m) = m
          BY <1>13
      <4>2. Built(m)
          BY <1>2, <4>1
      <4>3. /\ normalizeConfig(c) = "None" /\ b.config = SubSeq(c, 1, m)
            /\ \A s, t \in 1..m : s # t => c[s].key # c[t].key
          BY <4>2, Zenon DEF Built
      <4>4. h \in 1..Slots /\ b.kind = "Builder" /\ "builder" \in DOMAIN job.regs
          BY <1>6, <1>8 DEF Holds, Shape
      <4>5. QED
          BY <4>3, <4>4
    <3>3. d.kind = "Builder" /\ d.config = Append(b.config, e)
        BY DEF Builder
    <3> HIDE DEF d
    <3>4. /\ DOMAIN arena' = 1..Slots /\ arena'[h] = d
          /\ \A s \in 1..Slots : s # h => arena'[s] = arena[s]
        BY <1>6, <3>1, <3>2 DEF Shape
    <3>5. /\ job'.what = "Operator" /\ job'.asked = c /\ job'.steps = Tail(job.steps)
          /\ job'.owned = job.owned /\ job'.regs = job.regs
        BY <3>1, Arrived
    <3>6. Kept'
      <4>1. "builder" \in job.owned
          BY <1>2
      <4>2. \A s \in 1..Slots : arena'[s] = arena[s] \/ \E t \in job.owned : job.regs[t] = s
          BY <3>4, <4>1
      <4>3. QED
          BY <2>1, <3>1, <4>2, SameKept
    <3>7. Holds("key", "Buffer") /\ Holds("value", "Buffer")
        BY <1>2, <1>13
    <3>8. Holds("key", "Buffer")' /\ Holds("value", "Buffer")'
        BY <1>6, <3>2, <3>4, <3>5, <3>7 DEF Holds, Shape
    <3>9. l \in 1..Len(c) /\ m = l - 1 /\ e = c[l] /\ c \in Seq(ConfigEntry)
        BY <1>1 DEF e
    <3> HIDE DEF l
    <3>10. Append(SubSeq(c, 1, m), e) = SubSeq(c, 1, l)
        BY <3>9, NextBeginning
    <3>11. \A s \in 1..m : c[s].key # e.key
      <4> DEFINE q == SubSeq(c, 1, m)
      <4>1. m \in 0..Len(c)
          BY <1>1, <3>9
      <4>2. /\ DOMAIN q = 1..m
            /\ \A s \in 1..m : q[s] = c[s]
          BY <3>9, <4>1, Beginning
      <4>3. b.config = q
          BY <3>2
      <4> HIDE DEF q, b
      <4>4. QED
          BY <3>1, <4>2, <4>3
    <3>12. \A s, t \in 1..l : s # t => c[s].key # c[t].key
      <4>1. \A s \in 1..l : s \in 1..m \/ s = l
          BY <1>1, <3>9
      <4>2. QED
          BY <3>2, <3>9, <3>11, <4>1
    <3>13. Built(l)'
      <4>1. Holds("builder", "Builder")'
          BY <3>2, <3>3, <3>4, <3>5 DEF Holds
      <4>2. arena'[job'.regs["builder"]].config = SubSeq(job'.asked, 1, l)
          BY <3>2, <3>3, <3>4, <3>5, <3>10
      <4>3. QED
          BY <3>2, <3>5, <3>12, <4>1, <4>2, Zenon DEF Built
    <3>14. job'.owned = {"builder"} \cup (IF i > 2 THEN {"key", "value"} ELSE {})
        BY <1>2, <1>13, <3>5
    <3>15. Built(IF i > 3 THEN m + 1 ELSE m)'
      <4>1. (IF i > 3 THEN m + 1 ELSE m) = l
          BY <1>13 DEF l
      <4>2. QED
          BY <3>13, <4>1
    <3>16. job'.steps # <<>> /\ InMethod'
        BY <1>9, <1>13, <3>5, <3>8, <3>14, <3>15
    <3>17. QED
        BY <1>6, <2>1, <3>1, <3>4, <3>6, <3>16, AdvanceKeeps DEF Shape
  <2>5. QED
      BY <2>3, <2>4
<1>14. CASE i = 5
  <2> DEFINE A == {"key", "value"}
             l == m + 1
             j == k - 1
  <2>1. Doing("Leave") /\ Arg = A
      BY <1>3, <1>6, <1>7, <1>14 DEF Step
  <2>2. Leave
      BY <2>1, OnlyStep
  <2>3. /\ arena' = Without(arena, {job.regs[s] : s \in A})
        /\ Advance(job.regs, job.owned \ A, job.got)
      BY <1>6, <2>1, <2>2, LeaveEffect
  <2>4. /\ Kept' /\ DOMAIN arena' = 1..Slots
        /\ \A t \in 1..Slots : (\A s \in A : job.regs[s] # t) => arena'[t] = arena[t]
    <3> HIDE DEF A
    <3>1. QED
        BY <2>1, <2>3, LeaveKept
  <2>5. Holds("key", "Buffer") /\ Holds("value", "Buffer") /\ Built(l)
      BY <1>2, <1>14
  <2>6. /\ job'.what = "Operator" /\ job'.asked = c /\ job'.regs = job.regs
        /\ job'.owned = {"builder"} /\ job'.steps = r
    <3>1. /\ job'.what = "Operator" /\ job'.asked = c /\ job'.regs = job.regs
          /\ job'.owned = job.owned \ A /\ job'.steps = Tail(job.steps)
        BY <2>3, Arrived
    <3>2. job.owned \ A = {"builder"}
        BY <1>2, <1>14
    <3>3. QED
        BY <1>5, <1>14, <3>1, <3>2
  <2>7. arena'[job'.regs["builder"]] = arena[job.regs["builder"]]
      BY <1>6, <1>8, <2>4, <2>5, <2>6 DEF Holds, Shape
  <2>8. Built(l)'
      BY <1>6, <1>8, <2>5, <2>6, <2>7, BuilderStays DEF Holds
  <2>9. j \in 0..Len(c) /\ Len(c) - j = l /\ job'.steps = ConfigLeft(c)[j]
      BY <1>1, <2>6 DEF r
  <2> HIDE DEF j, l
  <2>10. Built(Len(c) - j)'
      BY <2>8, <2>9
  <2>11. job'.steps # <<>> /\ InMethod'
      BY <2>6, <2>9, <2>10, ConfigPlace
  <2>12. job.owned \ A \subseteq DOMAIN job.regs
      BY <1>6 DEF Shape
  <2>13. QED
      BY <1>6, <2>1, <2>3, <2>4, <2>11, <2>12, AdvanceKeeps DEF Shape
<1>15. QED
    BY <1>10, <1>11, <1>12, <1>13, <1>14

\* What normalizeConfig lets through.
LEMMA NormalConfig ==
    ASSUME NEW c, normalizeConfig(c) = "None"
    PROVE  Len(c) <= MaxConfigEntries /\ Bytes(c) <= MaxConfigBytes
<1> DEFINE a == Unless(Len(c) <= MaxConfigEntries, "InvalidArgument")
           b == Unless(Bytes(c) <= MaxConfigBytes, "InvalidArgument")
<1>1. (a = "None" => Len(c) <= MaxConfigEntries) /\ (b = "None" => Bytes(c) <= MaxConfigBytes)
    BY DEF Unless
<1>2. FirstError(<<a, b>>) = "None"
    BY DEF normalizeConfig
<1> HIDE DEF a, b
<1>3. a = "None" /\ b = "None"
    BY <1>2, FirstOfTwo
<1>4. QED
    BY <1>1, <1>3

\* From the builder to the operator.
LEMMA BuildStep ==
    ASSUME IInv, Next, job.running, job.cause = "None",
           NEW c \in Configs, job.what = "Operator", job.asked = c,
           NEW i \in 1..7, AtBuild(i)
    PROVE  IInv'
<1> DEFINE p == BuildSteps
           m == Len(c)
<1>1. c \in Seq(ConfigEntry) /\ Len(c) \in Nat
    BY ConfigUnfolds
<1>2. /\ job.steps = Left(p, i)
      /\ job.owned = {"builder"} \cup (IF i > 1 THEN {"operator"} ELSE {})
      /\ Built(m)
      /\ i > 1 => job.got = c /\ Holds("operator", "Operator")
    BY DEF AtBuild
<1>3. /\ p \in Seq(StepSet) /\ Len(p) = 7
      /\ p[1] = Step("Build", 0)
      /\ p[2] = Step("Info", FALSE)
      /\ p[3] = Step("Info", FALSE)
      /\ p[4] = Step("Info", FALSE)
      /\ p[5] = Step("Query", 0)
      /\ p[6] = Step("Query", 1)
      /\ p[7] = Step("Keep", {"operator"})
    BY BuildProgram
<1> HIDE DEF p, m
<1>4. i \in 1..Len(p)
    BY <1>3
<1>5. /\ job.steps # <<>> /\ Head(job.steps) = p[i]
      /\ Tail(job.steps) = Left(p, i + 1)
      /\ i = 7 => Tail(job.steps) = <<>>
      /\ i # 7 => Tail(job.steps) # <<>>
  <2>1. /\ job.steps # <<>> /\ Head(job.steps) = p[i]
        /\ Tail(job.steps) = Left(p, i + 1)
        /\ i = Len(p) => Tail(job.steps) = <<>>
        /\ i # Len(p) => Tail(job.steps) # <<>> /\ Head(Tail(job.steps)) = p[i + 1]
    <3>1. job.steps = Left(p, i) /\ p \in Seq(StepSet)
        BY <1>2, <1>3
    <3>2. QED
        BY <1>4, <3>1, GoingLast
  <2>2. QED
      BY <1>3, <2>1
<1>6. Shape /\ \A op : p[i].op = op => Doing(op)
    BY <1>5 DEF Doing, IInv
<1>7. Arg = p[i].arg /\ "error" \notin job.owned
    BY <1>2, <1>5 DEF Arg
<1>8. Holds("builder", "Builder") /\ normalizeConfig(c) = "None"
      /\ arena[job.regs["builder"]].config = SubSeq(c, 1, m)
      /\ \A s, t \in 1..m : s # t => c[s].key # c[t].key
    BY <1>2, Zenon DEF Built
<1>9. ASSUME i # 7, job'.what = "Operator", job'.asked = c, job'.steps = Tail(job.steps),
             job'.owned = {"builder", "operator"}, Holds("operator", "Operator")',
             job'.got = c, Built(m)'
      PROVE  job'.steps # <<>> /\ InMethod'
  <2> DEFINE j == i + 1
  <2>1. j \in 1..7 /\ j > 1 /\ job'.steps = Left(BuildSteps, j)
      BY <1>5, <1>9 DEF p
  <2> HIDE DEF j
  <2>2. Built(Len(c))'
      BY <1>9 DEF m
  <2>3. AtBuild(j)'
    <3>1. job'.owned = {"builder"} \cup (IF j > 1 THEN {"operator"} ELSE {})
        BY <1>9, <2>1
    <3>2. QED
        BY <1>9, <2>1, <2>2, <3>1 DEF AtBuild
  <2>4. InOperator'
      BY <2>1, <2>3 DEF InOperator
  <2>5. QED
      BY <1>5, <1>9, <2>4 DEF InMethod
<1>10. CASE i = 1
  <2> DEFINE b == arena[job.regs["builder"]]
             d == Operator(b.config)
             O == job.owned \cup {"operator"}
  <2>1. Doing("Build")
      BY <1>3, <1>6, <1>10 DEF Step
  <2>2. operator_builder_build
      BY <2>1, OnlyStep
  <2>3. CASE Failed
      BY <1>7, <2>1, <2>3, FailedKeeps
  <2>4. CASE ~Failed
    <3>1. /\ Free # {} /\ arena' = Inserted(d)
          /\ Advance(Register("operator"), O, b.config)
        BY <1>6, <2>2, <2>4, BuildEffect
    <3>2. d.kind = "Operator"
        BY DEF Operator
    <3>3. b.config = c
        BY <1>1, <1>8, SubSeqFull DEF m
    <3> HIDE DEF d
    <3>4. /\ DOMAIN arena' = 1..Slots
          /\ DOMAIN job'.regs = (DOMAIN job.regs) \cup {"operator"}
          /\ \A s \in DOMAIN job'.regs : job'.regs[s] \in 1..Slots
          /\ arena'[job'.regs["operator"]] = d
          /\ arena'[job'.regs["builder"]] = b
        BY <1>6, <1>8, <3>1, MadeRegistered DEF Holds
    <3>5. Kept'
      <4>1. "operator" \notin job.owned /\ "operator" \in O /\ job.owned \subseteq O
          BY <1>2, <1>10
      <4>2. QED
          BY <2>1, <3>1, <4>1, MadeKept
    <3>6. /\ job'.what = "Operator" /\ job'.asked = c /\ job'.steps = Tail(job.steps)
          /\ job'.owned = {"builder", "operator"} /\ job'.regs = Register("operator")
          /\ job'.got = c
        BY <1>2, <1>10, <3>1, <3>3, Arrived
    <3>7. Holds("operator", "Operator")'
        BY <3>2, <3>4 DEF Holds
    <3>8. Built(m)'
        BY <1>2, <1>6, <1>8, <3>4, <3>6, BuilderStays DEF Holds
    <3>9. job'.steps # <<>> /\ InMethod'
        BY <1>9, <1>10, <3>6, <3>7, <3>8
    <3>10. O \subseteq DOMAIN job'.regs
        BY <1>6, <3>4 DEF Shape
    <3>11. QED
        BY <2>1, <3>1, <3>4, <3>5, <3>6, <3>9, <3>10, AdvanceKeeps
  <2>5. QED
      BY <2>3, <2>4
<1>11. CASE i \in 2..6
  <2>1. PICK op \in {"Info", "Query"} : Doing(op)
    <3>1. p[i].op \in {"Info", "Query"}
        BY <1>3, <1>11 DEF Step
    <3>2. QED
        BY <1>6, <3>1
  <2>2. Info \/ Query
      BY <2>1, OnlyStep
  <2>3. Failed \/ (arena' = arena /\ Advance(job.regs, job.owned, job.got))
      BY <1>6, <2>2, InfoEffect, QueryEffect
  <2>4. CASE Failed
      BY <1>7, <2>1, <2>4, FailedKeeps
  <2>5. CASE ~Failed
    <3>1. arena' = arena /\ Advance(job.regs, job.owned, job.got)
        BY <2>3, <2>5
    <3>2. Kept'
        BY <2>1, <3>1, SameKept
    <3>3. /\ job'.what = "Operator" /\ job'.asked = c /\ job'.steps = Tail(job.steps)
          /\ job'.owned = {"builder", "operator"} /\ job'.regs = job.regs
          /\ job'.got = c
        BY <1>2, <1>11, <3>1, Arrived
    <3>4. Holds("operator", "Operator")'
        BY <1>2, <1>11, <3>1, <3>3 DEF Holds
    <3>5. Built(m)'
        BY <1>2, <1>6, <1>8, <3>1, <3>3, BuilderStays DEF Holds
    <3>6. job'.steps # <<>> /\ InMethod'
        BY <1>9, <1>11, <3>3, <3>4, <3>5
    <3>7. QED
        BY <1>6, <2>1, <3>1, <3>2, <3>6, AdvanceKeeps DEF Shape
  <2>6. QED
      BY <2>4, <2>5
<1>12. CASE i = 7
  <2> DEFINE h == job.regs["operator"]
             A == {"operator"}
  <2>1. Doing("Keep") /\ Arg = A
      BY <1>3, <1>6, <1>7, <1>12 DEF Step
  <2>2. Keep
      BY <2>1, OnlyStep
  <2>3. arena' = [arena EXCEPT ![h] = Other] /\ Advance(job.regs, job.owned \ A, job.got)
      BY <1>6, <2>1, <2>2, KeepEffect
  <2>4. job.owned = {"builder", "operator"} /\ job.got = c /\ h \in 1..Slots
      BY <1>2, <1>6, <1>12 DEF Holds, Shape
  <2>5. /\ DOMAIN arena' = 1..Slots /\ arena'[h] = Other
        /\ \A s \in 1..Slots : s # h => arena'[s] = arena[s]
      BY <1>6, <2>3, <2>4 DEF Shape
  <2>6. /\ job'.what = "Operator" /\ job'.asked = c /\ job'.steps = <<>>
        /\ job'.owned = {"builder"} /\ job'.regs = job.regs /\ job'.got = c
    <3>1. /\ job'.what = "Operator" /\ job'.asked = c /\ job'.steps = Tail(job.steps)
          /\ job'.owned = job.owned \ A /\ job'.regs = job.regs /\ job'.got = job.got
        BY <2>3, Arrived
    <3>2. QED
        BY <1>5, <1>12, <2>4, <3>1
  <2>7. Kept'
    <3>1. \A s \in 1..Slots : Stray(arena[s]) \/ \E t \in job.owned : job.regs[t] = s
        BY <2>1 DEF Doing, Pending, IInv, Kept
    <3>2. Stray(Other)
        BY DEF Stray, Other
    <3>3. \A s \in 1..Slots : Stray(arena'[s]) \/ \E t \in job'.owned : job'.regs[t] = s
      <4> SUFFICES ASSUME NEW s \in 1..Slots, ~Stray(arena'[s]) PROVE job'.regs["builder"] = s
          BY <2>6
      <4>1. s # h /\ arena'[s] = arena[s]
          BY <2>5, <3>2
      <4>2. PICK t \in job.owned : job.regs[t] = s
          BY <3>1, <4>1
      <4>3. QED
          BY <2>4, <2>6, <4>1, <4>2
    <3>4. QED
        BY <3>3 DEF Kept
  <2>8. Answer'
    <3>1. ConfigFits(c)
      <4>1. DOMAIN c = 1..m
          BY <1>1, LenProperties DEF m
      <4>2. \A s, t \in DOMAIN c : s # t => c[s].key # c[t].key
          BY <1>8, <4>1, Zenon
      <4>3. QED
          BY <1>8, <4>2, NormalConfig DEF ConfigFits
    <3>2. QED
        BY <2>6, <3>1 DEF Answer
  <2>9. job.owned \ A \subseteq DOMAIN job.regs
      BY <1>6 DEF Shape
  <2>10. QED
      BY <1>6, <2>1, <2>3, <2>5, <2>6, <2>7, <2>8, <2>9, AdvanceKeeps DEF Shape
<1>13. QED
    BY <1>10, <1>11, <1>12

-----------------------------------------------------------------------------
(* Methods that start a task *)

\* What stays as it was when a method goes on.
Same == job'.what = job.what /\ job'.asked = job.asked /\ job'.steps = Tail(job.steps)

\* A buffer for a block that is entered next.
LEMMA PutStep ==
    ASSUME Doing("Put"), PutBytes, Copied, "error" \notin job.owned,
           NEW n \in Nat, NEW name, Arg = [name |-> name, len |-> n], name \notin job.owned,
           Tail(job.steps) # <<>>, Head(Tail(job.steps)).op = "Enter",
           name \in Head(Tail(job.steps)).arg
    PROVE  \/ IInv'
           \/ /\ Same /\ Copied' /\ job'.owned = job.owned
              /\ DOMAIN job'.regs = (DOMAIN job.regs) \cup {name}
              /\ InMethod' => IInv'
<1> DEFINE b == Buffer(name, n, 0 .. n - 1)
<1>0. Shape /\ Arg.len = n /\ Arg.name = name
    BY DEF Doing, IInv
<1>1. CASE Failed
    BY <1>1, FailedKeeps
<1>2. CASE ~Failed
  <2>1. Free # {} /\ arena' = Inserted(b) /\ Advance(Register(name), job.owned, job.got)
      BY <1>0, <1>2, PutEffect
  <2>2. b.kind = "Buffer" /\ b.filled = 0 .. b.len - 1
      BY DEF Buffer
  <2> HIDE DEF b
  <2>3. /\ DOMAIN arena' = 1..Slots
        /\ DOMAIN job'.regs = (DOMAIN job.regs) \cup {name}
        /\ \A s \in DOMAIN job'.regs : job'.regs[s] \in 1..Slots
        /\ arena'[job'.regs[name]] = b
        /\ \A s \in DOMAIN job.regs : s # name /\ arena[job.regs[s]].kind # "None"
              => arena'[job'.regs[s]] = arena[job.regs[s]]
      BY <1>0, <2>1, MadeRegistered
  <2>4. Kept'
      BY <2>1, MadeKept
  <2>5. /\ job'.what = job.what /\ job'.asked = job.asked /\ job'.steps = Tail(job.steps)
        /\ job'.owned = job.owned /\ job'.regs = Register(name)
      BY <2>1, Arrived
  <2>6. Copied'
    <3>1. \A s \in DOMAIN job.regs : arena[job.regs[s]].kind = "Buffer"
                /\ arena[job.regs[s]].filled = 0 .. arena[job.regs[s]].len - 1
        BY DEF Copied
    <3>2. ASSUME NEW s \in DOMAIN job'.regs
          PROVE  arena'[job'.regs[s]].kind = "Buffer"
                   /\ arena'[job'.regs[s]].filled = 0 .. arena'[job'.regs[s]].len - 1
      <4>1. CASE s = name
          BY <2>2, <2>3, <4>1
      <4>2. CASE s # name
        <5>1. s \in DOMAIN job.regs
            BY <2>3, <4>2
        <5>2. arena'[job'.regs[s]] = arena[job.regs[s]]
            BY <2>3, <3>1, <4>2, <5>1
        <5>3. QED
            BY <3>1, <5>1, <5>2
      <4>3. QED
          BY <4>1, <4>2
    <3>3. QED
        BY <3>2 DEF Copied
  <2>7. job.owned \subseteq DOMAIN job'.regs /\ job'.steps # <<>>
      BY <1>0, <2>3, <2>5 DEF Shape
  <2>8. InMethod' => IInv'
      BY <2>1, <2>3, <2>4, <2>5, <2>7, AdvanceKeeps
  <2>9. QED
      BY <2>3, <2>5, <2>6, <2>8 DEF Same
<1>3. QED
    BY <1>1, <1>2

\* The block is entered.
LEMMA EnterStep ==
    ASSUME Doing("Enter"), Enter, Copied, NEW A, Arg = A, A \subseteq DOMAIN job.regs,
           Tail(job.steps) # <<>>
    PROVE  /\ Same /\ Copied' /\ job'.owned = job.owned \cup A /\ job'.regs = job.regs
           /\ InMethod' => IInv'
<1>0. Shape
    BY DEF Doing, IInv
<1>1. arena' = arena /\ Advance(job.regs, job.owned \cup A, job.got)
    BY <1>0, EnterEffect
<1>2. Kept'
    BY <1>1, EnterKept
<1>3. /\ job'.what = job.what /\ job'.asked = job.asked /\ job'.steps = Tail(job.steps)
      /\ job'.owned = job.owned \cup A /\ job'.regs = job.regs
    BY <1>1, Arrived
<1>4. Copied'
    BY <1>1, <1>3 DEF Copied
<1>5. job.owned \cup A \subseteq DOMAIN job.regs
    BY <1>0 DEF Shape
<1>6. InMethod' => IInv'
    BY <1>0, <1>1, <1>2, <1>3, <1>5, AdvanceKeeps DEF Shape
<1>7. QED
    BY <1>3, <1>4, <1>6 DEF Same

\* The task is started, having seen every byte.
LEMMA StartStep ==
    ASSUME Doing("Start"), Start, Copied, "error" \notin job.owned,
           Arg.error # "ListTooLarge", Tail(job.steps) = <<>>
    PROVE  \/ IInv'
           \/ /\ Same /\ Arg.error = "None" /\ job'.got = <<TRUE>>
              /\ Answer' => IInv'
<1> DEFINE g == <<\A n \in DOMAIN job.regs :
                    LET b == arena[job.regs[n]] IN b.filled = 0 .. b.len - 1>>
           b == Task(Arg.call)
<1>0. Shape
    BY DEF Doing, IInv
<1>1. CASE Failed
    BY <1>1, FailedKeeps
<1>2. CASE ~Failed
  <2>1. /\ Free # {} /\ Arg.error = "None" /\ arena' = Inserted(b)
        /\ Advance(job.regs, job.owned, g)
      BY <1>0, <1>2, StartEffect
  <2>2. g = <<TRUE>>
    <3>1. (\A n \in DOMAIN job.regs :
              LET d == arena[job.regs[n]] IN d.filled = 0 .. d.len - 1) = TRUE
        BY DEF Copied
    <3>2. QED
        BY <3>1, Zenon
  <2> HIDE DEF g
  <2>3. Stray(b)
      BY DEF Stray, Task
  <2> HIDE DEF b
  <2>4. /\ DOMAIN arena' = 1..Slots
        /\ Slot \in 1..Slots /\ arena'[Slot] = b
        /\ \A s \in 1..Slots : s # Slot => arena'[s] = arena[s]
      BY <1>0, <2>1, Made
  <2>5. Kept'
    <3>1. \A s \in 1..Slots : arena'[s] = arena[s] \/ Stray(arena'[s])
        BY <2>3, <2>4
    <3>2. QED
        BY <2>1, <3>1, SameKept
  <2>6. /\ job'.what = job.what /\ job'.asked = job.asked /\ job'.steps = Tail(job.steps)
        /\ job'.got = g
      BY <2>1, Arrived
  <2>7. Answer' => IInv'
      BY <1>0, <2>1, <2>4, <2>5, <2>6, AdvanceKeeps DEF Shape
  <2>8. QED
      BY <2>1, <2>2, <2>6, <2>7 DEF Same
<1>3. QED
    BY <1>1, <1>2

\* A call with two texts.
LEMMA InputsStep ==
    ASSUME IInv, Next, job.running, job.cause = "None", Copied,
           job.what \in {"ListStart", "Copy"},
           NEW n \in Nat, NEW a \in Names, NEW b \in Names, a # b,
           NEW start \in StepSet, start.op = "Start", start.arg.error # "ListTooLarge",
           start.arg.error = "None" /\ job.what = "ListStart" => job.asked <= HalfMax,
           NEW i \in 1..5, AtInputs(a, b, n, start, i),
           \A j \in 1..5 : job'.what = job.what /\ job'.asked = job.asked /\ Copied'
                             /\ AtInputs(a, b, n, start, j)' => InMethod'
    PROVE  IInv'
<1> DEFINE p == TwoInputs(a, b, n, start)
<1>1. /\ p \in Seq(StepSet) /\ Len(p) = 5
      /\ p[1] = Put(a, n)
      /\ p[2].op = "Enter" /\ p[2].arg = {a}
      /\ p[3] = Put(b, n)
      /\ p[4].op = "Enter" /\ p[4].arg = {b}
      /\ p[5] = start
  <2>1. p = TwoInputs(a, b, n, start)
      OBVIOUS
  <2>2. p[2].op = "Enter" /\ p[2].arg = {a} /\ p[4].op = "Enter" /\ p[4].arg = {b}
      BY DEF TwoInputs, Step
  <2> HIDE DEF p
  <2>3. /\ p \in Seq(StepSet) /\ Len(p) = 5
        /\ p[1] = Put(a, n) /\ p[3] = Put(b, n) /\ p[5] = start
      BY <2>1, TwoInputsProgram
  <2>4. QED
      BY <2>2, <2>3
<1>2. /\ job.steps = Left(p, i)
      /\ job.owned = (IF i > 2 THEN {a} ELSE {}) \cup (IF i > 4 THEN {b} ELSE {})
      /\ i > 1 => a \in DOMAIN job.regs
      /\ i > 3 => b \in DOMAIN job.regs
    BY DEF AtInputs
<1> HIDE DEF p
<1>3. i \in 1..Len(p)
    BY <1>1
<1>4. /\ job.steps # <<>> /\ Head(job.steps) = p[i]
      /\ Tail(job.steps) = Left(p, i + 1)
      /\ i = 5 => Tail(job.steps) = <<>>
      /\ i # 5 => Tail(job.steps) # <<>> /\ Head(Tail(job.steps)) = p[i + 1]
  <2>1. /\ job.steps # <<>> /\ Head(job.steps) = p[i]
        /\ Tail(job.steps) = Left(p, i + 1)
        /\ i = Len(p) => Tail(job.steps) = <<>>
        /\ i # Len(p) => Tail(job.steps) # <<>> /\ Head(Tail(job.steps)) = p[i + 1]
    <3>1. job.steps = Left(p, i) /\ p \in Seq(StepSet)
        BY <1>1, <1>2
    <3>2. QED
        BY <1>3, <3>1, GoingLast
  <2>2. QED
      BY <1>1, <2>1
<1>5. Shape /\ \A op : p[i].op = op => Doing(op)
    BY <1>4 DEF Doing, IInv
<1>6. Arg = p[i].arg /\ "error" \notin job.owned
    BY <1>2, <1>4 DEF Arg, Names
<1>7. ASSUME i # 5, Same, Copied',
             job'.owned = (IF i > 1 THEN {a} ELSE {}) \cup (IF i > 3 THEN {b} ELSE {}),
             a \in DOMAIN job'.regs, i > 2 => b \in DOMAIN job'.regs
      PROVE  InMethod'
  <2> DEFINE j == i + 1
  <2>1. j \in 1..5 /\ j = i + 1 /\ job'.steps = Left(p, j)
      BY <1>4, <1>7 DEF Same
  <2> HIDE DEF j
  <2>2. AtInputs(a, b, n, start, j)'
      BY <1>7, <2>1 DEF AtInputs, p
  <2>3. QED
      BY <1>7, <2>1, <2>2 DEF Same
<1>8. CASE i = 1
  <2>1. Doing("Put") /\ Arg = [name |-> a, len |-> n]
      BY <1>1, <1>5, <1>6, <1>8 DEF Put, Step
  <2>2. PutBytes
      BY <2>1, OnlyStep
  <2>3. Tail(job.steps) # <<>> /\ Head(Tail(job.steps)) = p[2]
      BY <1>4, <1>8
  <2>4. p[2].op = "Enter" /\ p[2].arg = {a}
      BY <1>1
  <2>5. a \notin job.owned
      BY <1>2, <1>8
  <2>6. \/ IInv'
        \/ /\ Same /\ Copied' /\ job'.owned = job.owned
           /\ DOMAIN job'.regs = (DOMAIN job.regs) \cup {a}
           /\ InMethod' => IInv'
      BY <1>6, <2>1, <2>2, <2>3, <2>4, <2>5, PutStep
  <2>7. QED
      BY <1>2, <1>7, <1>8, <2>6
<1>9. CASE i = 2
  <2> DEFINE A == {a}
  <2>1. Doing("Enter") /\ Arg = A
      BY <1>1, <1>5, <1>6, <1>9 DEF Step
  <2>2. Enter
      BY <2>1, OnlyStep
  <2>3. A \subseteq DOMAIN job.regs /\ Tail(job.steps) # <<>>
      BY <1>2, <1>4, <1>9
  <2>4. /\ Same /\ Copied' /\ job'.owned = job.owned \cup A /\ job'.regs = job.regs
        /\ InMethod' => IInv'
    <3> HIDE DEF A
    <3>1. QED
        BY <2>1, <2>2, <2>3, EnterStep
  <2>5. QED
      BY <1>2, <1>7, <1>9, <2>4
<1>10. CASE i = 3
  <2>1. Doing("Put") /\ Arg = [name |-> b, len |-> n]
      BY <1>1, <1>5, <1>6, <1>10 DEF Put, Step
  <2>2. PutBytes
      BY <2>1, OnlyStep
  <2>3. Tail(job.steps) # <<>> /\ Head(Tail(job.steps)) = p[4]
      BY <1>4, <1>10
  <2>4. p[4].op = "Enter" /\ p[4].arg = {b}
      BY <1>1
  <2>5. b \notin job.owned
      BY <1>2, <1>10
  <2>6. \/ IInv'
        \/ /\ Same /\ Copied' /\ job'.owned = job.owned
           /\ DOMAIN job'.regs = (DOMAIN job.regs) \cup {b}
           /\ InMethod' => IInv'
      BY <1>6, <2>1, <2>2, <2>3, <2>4, <2>5, PutStep
  <2>7. QED
      BY <1>2, <1>7, <1>10, <2>6
<1>11. CASE i = 4
  <2> DEFINE A == {b}
  <2>1. Doing("Enter") /\ Arg = A
      BY <1>1, <1>5, <1>6, <1>11 DEF Step
  <2>2. Enter
      BY <2>1, OnlyStep
  <2>3. A \subseteq DOMAIN job.regs /\ Tail(job.steps) # <<>>
      BY <1>2, <1>4, <1>11
  <2>4. /\ Same /\ Copied' /\ job'.owned = job.owned \cup A /\ job'.regs = job.regs
        /\ InMethod' => IInv'
    <3> HIDE DEF A
    <3>1. QED
        BY <2>1, <2>2, <2>3, EnterStep
  <2>5. QED
      BY <1>2, <1>7, <1>11, <2>4
<1>12. CASE i = 5
  <2>1. Doing("Start") /\ Arg = start.arg
      BY <1>1, <1>5, <1>6, <1>12
  <2>2. Start
      BY <2>1, OnlyStep
  <2>3. Tail(job.steps) = <<>>
      BY <1>4, <1>12
  <2>4. \/ IInv'
        \/ /\ Same /\ Arg.error = "None" /\ job'.got = <<TRUE>>
           /\ Answer' => IInv'
      BY <1>6, <2>1, <2>2, <2>3, StartStep
  <2>5. CASE Same /\ Arg.error = "None" /\ job'.got = <<TRUE>>
    <3>1. job'.what = job.what /\ job'.asked = job.asked
        BY <2>5 DEF Same
    <3>2. job.what = "ListStart" => job.asked <= HalfMax
        BY <2>1, <2>5
    <3>3. Answer'
        BY <2>5, <3>1, <3>2 DEF Answer
    <3>4. QED
        BY <2>4, <3>3
  <2>6. QED
      BY <2>4, <2>5
<1>13. QED
    BY <1>8, <1>9, <1>10, <1>11, <1>12

\* A check on the way.
LEMMA CheckStep ==
    ASSUME Doing("Check"), Check, Copied, Arg # "ListTooLarge", Tail(job.steps) # <<>>
    PROVE  \/ IInv'
           \/ /\ Arg = "None" /\ Same /\ Copied' /\ job'.owned = job.owned /\ job'.regs = job.regs
              /\ InMethod' => IInv'
<1>0. Shape
    BY DEF Doing, IInv
<1>1. CASE Arg # "None"
    BY <1>1, CheckFails
<1>2. CASE Arg = "None"
  <2>1. arena' = arena /\ Advance(job.regs, job.owned, job.got)
      BY <1>0, <1>2, CheckEffect
  <2>2. Kept'
      BY <2>1, SameKept
  <2>3. /\ job'.what = job.what /\ job'.asked = job.asked /\ job'.steps = Tail(job.steps)
        /\ job'.owned = job.owned /\ job'.regs = job.regs
      BY <2>1, Arrived
  <2>4. Copied'
      BY <2>1, <2>3 DEF Copied
  <2>5. InMethod' => IInv'
      BY <1>0, <2>1, <2>2, <2>3, AdvanceKeeps DEF Shape
  <2>6. QED
      BY <1>2, <2>3, <2>4, <2>5 DEF Same
<1>3. QED
    BY <1>1, <1>2

\* A read.
LEMMA ReadStep ==
    ASSUME IInv, Next, job.running, job.cause = "None", Copied, job.what = "Read",
           NEW r, job.asked = r, NEW n \in Lengths, NEW native \in BOOLEAN,
           NEW i \in 1..6, AtRead(n, native, i)
    PROVE  IInv'
<1> DEFINE p == ReadSteps(n, r, native)
           e == FirstError(<<byte_range(r), ensure_suffix_is_native(r, native)>>)
           fits == r.offset + r.length <= WordMax
<1>0. n \in Nat
    BY FacadeAssumption
<1>1. /\ p \in Seq(StepSet) /\ Len(p) = 6
      /\ p[1] = Put("path", n)
      /\ p[2] = Step("Enter", {"path"})
      /\ p[3] = Step("Check", normalizeRange(r))
      /\ p[4] = Put("version", n)
      /\ p[5] = Step("Enter", {"version"})
      /\ p[6] = Step("Start", [call |-> "Read", error |-> e])
    BY <1>0, ReadProgram
<1>2. /\ job.steps = Left(p, i)
      /\ job.owned = (IF i > 2 THEN {"path"} ELSE {}) \cup (IF i > 5 THEN {"version"} ELSE {})
      /\ i > 1 => "path" \in DOMAIN job.regs
      /\ i > 4 => "version" \in DOMAIN job.regs
      /\ (i > 3 \/ r.kind # "Range") => fits
    BY DEF AtRead
<1>13. e # "ListTooLarge" /\ normalizeRange(r) # "ListTooLarge"
    BY ChecksAreErrors
<1>14. ASSUME normalizeRange(r) = "None" PROVE fits
    BY <1>2, <1>14 DEF normalizeRange, Unless
<1> HIDE DEF p, e, fits
<1>3. i \in 1..Len(p)
    BY <1>1
<1>4. /\ job.steps # <<>> /\ Head(job.steps) = p[i]
      /\ Tail(job.steps) = Left(p, i + 1)
      /\ i = 6 => Tail(job.steps) = <<>>
      /\ i # 6 => Tail(job.steps) # <<>> /\ Head(Tail(job.steps)) = p[i + 1]
  <2>1. /\ job.steps # <<>> /\ Head(job.steps) = p[i]
        /\ Tail(job.steps) = Left(p, i + 1)
        /\ i = Len(p) => Tail(job.steps) = <<>>
        /\ i # Len(p) => Tail(job.steps) # <<>> /\ Head(Tail(job.steps)) = p[i + 1]
    <3>1. job.steps = Left(p, i) /\ p \in Seq(StepSet)
        BY <1>1, <1>2
    <3>2. QED
        BY <1>3, <3>1, GoingLast
  <2>2. QED
      BY <1>1, <2>1
<1>5. Shape /\ \A op : p[i].op = op => Doing(op)
    BY <1>4 DEF Doing, IInv
<1>6. Arg = p[i].arg /\ "error" \notin job.owned
    BY <1>2, <1>4 DEF Arg
<1>7. ASSUME i # 6, Same, Copied',
             job'.owned = (IF i > 1 THEN {"path"} ELSE {}) \cup (IF i > 4 THEN {"version"} ELSE {}),
             "path" \in DOMAIN job'.regs, i > 3 => "version" \in DOMAIN job'.regs,
             (i > 2 \/ r.kind # "Range") => fits
      PROVE  InMethod'
  <2> DEFINE j == i + 1
  <2>1. j \in 1..6 /\ j = i + 1 /\ job'.steps = Left(p, j) /\ job'.asked = r /\ job'.what = "Read"
      BY <1>4, <1>7 DEF Same
  <2> HIDE DEF j
  <2>2. AtRead(n, native, j)'
    <3>1. (j > 3 \/ r.kind # "Range") => r.offset + r.length <= WordMax
        BY <1>7, <2>1 DEF fits
    <3>2. QED
        BY <1>7, <2>1, <3>1 DEF AtRead, p
  <2>3. InRead'
      BY <2>1, <2>2 DEF InRead
  <2>4. QED
      BY <1>7, <2>1, <2>3 DEF InMethod
<1>8. CASE i = 1
  <2>1. Doing("Put") /\ Arg = [name |-> "path", len |-> n]
      BY <1>1, <1>5, <1>6, <1>8 DEF Put, Step
  <2>2. PutBytes
      BY <2>1, OnlyStep
  <2>3. Tail(job.steps) # <<>> /\ Head(Tail(job.steps)) = p[2]
      BY <1>4, <1>8
  <2>4. p[2].op = "Enter" /\ p[2].arg = {"path"}
      BY <1>1 DEF Step
  <2>5. "path" \notin job.owned
      BY <1>2, <1>8
  <2>6. \/ IInv'
        \/ /\ Same /\ Copied' /\ job'.owned = job.owned
           /\ DOMAIN job'.regs = (DOMAIN job.regs) \cup {"path"}
           /\ InMethod' => IInv'
      BY <1>0, <1>6, <2>1, <2>2, <2>3, <2>4, <2>5, PutStep
  <2>7. QED
      BY <1>2, <1>7, <1>8, <2>6
<1>9. CASE i \in {2, 5}
  <2> DEFINE A == {IF i = 2 THEN "path" ELSE "version"}
  <2>1. Doing("Enter") /\ Arg = A
    <3>1. p[i].op = "Enter" /\ p[i].arg = A
        BY <1>1, <1>9 DEF Step
    <3>2. QED
        BY <1>5, <1>6, <3>1
  <2>2. Enter
      BY <2>1, OnlyStep
  <2>3. A \subseteq DOMAIN job.regs /\ Tail(job.steps) # <<>>
      BY <1>2, <1>4, <1>9
  <2>4. /\ Same /\ Copied' /\ job'.owned = job.owned \cup A /\ job'.regs = job.regs
        /\ InMethod' => IInv'
    <3> HIDE DEF A
    <3>1. QED
        BY <2>1, <2>2, <2>3, EnterStep
  <2>5. job'.owned = (IF i > 1 THEN {"path"} ELSE {}) \cup (IF i > 4 THEN {"version"} ELSE {})
      BY <1>2, <1>9, <2>4
  <2>6. QED
      BY <1>2, <1>7, <1>9, <2>3, <2>4, <2>5
<1>10. CASE i = 3
  <2>1. Doing("Check") /\ Arg = normalizeRange(r)
      BY <1>1, <1>5, <1>6, <1>10 DEF Step
  <2>2. Check
      BY <2>1, OnlyStep
  <2>3. Tail(job.steps) # <<>>
      BY <1>4, <1>10
  <2>4. \/ IInv'
        \/ /\ Arg = "None" /\ Same /\ Copied' /\ job'.owned = job.owned /\ job'.regs = job.regs
           /\ InMethod' => IInv'
      BY <1>13, <2>1, <2>2, <2>3, CheckStep
  <2>5. QED
      BY <1>2, <1>7, <1>10, <1>14, <2>1, <2>4
<1>11. CASE i = 4
  <2>1. Doing("Put") /\ Arg = [name |-> "version", len |-> n]
      BY <1>1, <1>5, <1>6, <1>11 DEF Put, Step
  <2>2. PutBytes
      BY <2>1, OnlyStep
  <2>3. Tail(job.steps) # <<>> /\ Head(Tail(job.steps)) = p[5]
      BY <1>4, <1>11
  <2>4. p[5].op = "Enter" /\ p[5].arg = {"version"}
      BY <1>1 DEF Step
  <2>5. "version" \notin job.owned
      BY <1>2, <1>11
  <2>6. \/ IInv'
        \/ /\ Same /\ Copied' /\ job'.owned = job.owned
           /\ DOMAIN job'.regs = (DOMAIN job.regs) \cup {"version"}
           /\ InMethod' => IInv'
      BY <1>0, <1>6, <2>1, <2>2, <2>3, <2>4, <2>5, PutStep
  <2>7. QED
      BY <1>2, <1>7, <1>11, <2>6
<1>12. CASE i = 6
  <2>1. Doing("Start") /\ Arg.error = e
      BY <1>1, <1>5, <1>6, <1>12 DEF Step
  <2>2. Start
      BY <2>1, OnlyStep
  <2>3. Tail(job.steps) = <<>>
      BY <1>4, <1>12
  <2>4. \/ IInv'
        \/ /\ Same /\ Arg.error = "None" /\ job'.got = <<TRUE>>
           /\ Answer' => IInv'
      BY <1>6, <1>13, <2>1, <2>2, <2>3, StartStep
  <2>5. CASE Same /\ Arg.error = "None" /\ job'.got = <<TRUE>>
    <3>1. job'.what = "Read" /\ job'.asked = r
        BY <2>5 DEF Same
    <3>2. r.offset + r.length <= WordMax
        BY <1>2, <1>12 DEF fits
    <3>3. Answer'
        BY <2>5, <3>1, <3>2 DEF Answer
    <3>4. QED
        BY <2>4, <3>3
  <2>6. QED
      BY <2>4, <2>5
<1>15. QED
    BY <1>8, <1>9, <1>10, <1>11, <1>12

\* A call that is polled once.
LEMMA PollStep ==
    ASSUME IInv, Next, job.running, job.cause = "None", Copied, job.what = "Poll",
           NEW n \in Lengths, NEW i \in 1..3, AtPoll(n, i)
    PROVE  IInv'
<1> DEFINE p == PollSteps(n)
<1>0. n \in Nat
    BY FacadeAssumption
<1>1. /\ p \in Seq(StepSet) /\ Len(p) = 3
      /\ p[1] = Put("path", n)
      /\ p[2] = Step("Enter", {"path"})
      /\ p[3] = Step("Poll", 0)
    BY <1>0, PollProgram
<1>2. /\ job.steps = Left(p, i)
      /\ job.owned = (IF i > 2 THEN {"path"} ELSE {})
      /\ i > 1 => "path" \in DOMAIN job.regs
    BY DEF AtPoll
<1> HIDE DEF p
<1>3. i \in 1..Len(p)
    BY <1>1
<1>4. /\ job.steps # <<>> /\ Head(job.steps) = p[i]
      /\ Tail(job.steps) = Left(p, i + 1)
      /\ i = 3 => Tail(job.steps) = <<>>
      /\ i # 3 => Tail(job.steps) # <<>> /\ Head(Tail(job.steps)) = p[i + 1]
  <2>1. /\ job.steps # <<>> /\ Head(job.steps) = p[i]
        /\ Tail(job.steps) = Left(p, i + 1)
        /\ i = Len(p) => Tail(job.steps) = <<>>
        /\ i # Len(p) => Tail(job.steps) # <<>> /\ Head(Tail(job.steps)) = p[i + 1]
    <3>1. job.steps = Left(p, i) /\ p \in Seq(StepSet)
        BY <1>1, <1>2
    <3>2. QED
        BY <1>3, <3>1, GoingLast
  <2>2. QED
      BY <1>1, <2>1
<1>5. Shape /\ \A op : p[i].op = op => Doing(op)
    BY <1>4 DEF Doing, IInv
<1>6. Arg = p[i].arg /\ "error" \notin job.owned
    BY <1>2, <1>4 DEF Arg
<1>7. ASSUME i # 3, Same, Copied', job'.owned = (IF i > 1 THEN {"path"} ELSE {}),
             "path" \in DOMAIN job'.regs
      PROVE  InMethod'
  <2> DEFINE j == i + 1
  <2>1. j \in 1..3 /\ j = i + 1 /\ job'.steps = Left(p, j) /\ job'.what = "Poll"
      BY <1>4, <1>7 DEF Same
  <2> HIDE DEF j
  <2>2. AtPoll(n, j)'
      BY <1>7, <2>1 DEF AtPoll, p
  <2>3. InPoll'
      BY <2>1, <2>2 DEF InPoll
  <2>4. QED
      BY <1>7, <2>1, <2>3 DEF InMethod
<1>8. CASE i = 1
  <2>1. Doing("Put") /\ Arg = [name |-> "path", len |-> n]
      BY <1>1, <1>5, <1>6, <1>8 DEF Put, Step
  <2>2. PutBytes
      BY <2>1, OnlyStep
  <2>3. Tail(job.steps) # <<>> /\ Head(Tail(job.steps)) = p[2]
      BY <1>4, <1>8
  <2>4. p[2].op = "Enter" /\ p[2].arg = {"path"}
      BY <1>1 DEF Step
  <2>5. "path" \notin job.owned
      BY <1>2, <1>8
  <2>6. \/ IInv'
        \/ /\ Same /\ Copied' /\ job'.owned = job.owned
           /\ DOMAIN job'.regs = (DOMAIN job.regs) \cup {"path"}
           /\ InMethod' => IInv'
      BY <1>0, <1>6, <2>1, <2>2, <2>3, <2>4, <2>5, PutStep
  <2>7. QED
      BY <1>2, <1>7, <1>8, <2>6
<1>9. CASE i = 2
  <2> DEFINE A == {"path"}
  <2>1. Doing("Enter") /\ Arg = A
      BY <1>1, <1>5, <1>6, <1>9 DEF Step
  <2>2. Enter
      BY <2>1, OnlyStep
  <2>3. A \subseteq DOMAIN job.regs /\ Tail(job.steps) # <<>>
      BY <1>2, <1>4, <1>9
  <2>4. /\ Same /\ Copied' /\ job'.owned = job.owned \cup A /\ job'.regs = job.regs
        /\ InMethod' => IInv'
    <3> HIDE DEF A
    <3>1. QED
        BY <2>1, <2>2, <2>3, EnterStep
  <2>5. QED
      BY <1>2, <1>7, <1>9, <2>4
<1>10. CASE i = 3
  <2> DEFINE b == Other
  <2>1. Doing("Poll")
      BY <1>1, <1>5, <1>10 DEF Step
  <2>2. PollOnce
      BY <2>1, OnlyStep
  <2>3. CASE Failed
      BY <1>6, <2>1, <2>3, FailedKeeps
  <2>4. CASE ~Failed
    <3>1. /\ arena' = arena \/ (Free # {} /\ arena' = Inserted(b))
          /\ Advance(job.regs, job.owned, job.got)
        BY <1>5, <2>2, <2>4, PollEffect
    <3>2. Stray(b)
        BY DEF Stray, Other
    <3> HIDE DEF b
    <3>3. DOMAIN arena' = 1..Slots /\ \A s \in 1..Slots : arena'[s] = arena[s] \/ Stray(arena'[s])
      <4>1. CASE arena' = arena
          BY <1>5, <4>1 DEF Shape
      <4>2. CASE Free # {} /\ arena' = Inserted(b)
        <5>1. /\ DOMAIN arena' = 1..Slots
              /\ Slot \in 1..Slots /\ arena'[Slot] = b
              /\ \A s \in 1..Slots : s # Slot => arena'[s] = arena[s]
            BY <1>5, <4>2, Made
        <5>2. QED
            BY <3>2, <5>1
      <4>3. QED
          BY <3>1, <4>1, <4>2
    <3>4. Kept'
        BY <2>1, <3>1, <3>3, SameKept
    <3>5. job'.what = "Poll" /\ job'.steps = <<>>
        BY <1>4, <1>10, <3>1, Arrived
    <3>6. Answer'
        BY <3>5 DEF Answer
    <3>7. QED
        BY <1>5, <2>1, <3>1, <3>3, <3>4, <3>5, <3>6, AdvanceKeeps DEF Shape
  <2>5. QED
      BY <2>3, <2>4
<1>11. QED
    BY <1>8, <1>9, <1>10

\* A listing and a copy.
LEMMA ListStartStep ==
    ASSUME IInv, Next, job.running, job.cause = "None", Copied, job.what = "ListStart", InListStart
    PROVE  IInv'
<1>1. PICK limit : limit = job.asked
    OBVIOUS
<1> DEFINE e == optional_list_limit(limit)
           start == Step("Start", [call |-> "List", error |-> e])
           a == "path"
           b == "start_after"
<1>2. PICK n \in Lengths, i \in 1..5 : AtInputs(a, b, n, start, i)
    BY <1>1 DEF InListStart
<1>3. n \in Nat /\ a \in Names /\ b \in Names /\ a # b
    BY FacadeAssumption DEF Names
<1>4. start \in StepSet /\ start.op = "Start" /\ start.arg.error = e
    BY StartsAreSteps DEF Step
<1>5. e # "ListTooLarge"
    BY ChecksAreErrors
<1>6. e = "None" => limit <= HalfMax
    BY DEF optional_list_limit, Unless
<1>7. ASSUME NEW j \in 1..5, job'.what = job.what, job'.asked = job.asked, Copied',
             AtInputs(a, b, n, start, j)'
      PROVE  InMethod'
  <2>1. InListStart'
      BY <1>1, <1>7 DEF InListStart
  <2>2. QED
      BY <1>7, <2>1 DEF InMethod
<1> HIDE DEF start, a, b, e
<1>8. QED
    BY <1>1, <1>2, <1>3, <1>4, <1>5, <1>6, <1>7, InputsStep

\* The same for a copy.
LEMMA CopyStep ==
    ASSUME IInv, Next, job.running, job.cause = "None", Copied, job.what = "Copy", InCopy
    PROVE  IInv'
<1> DEFINE start == Step("Start", [call |-> "Copy", error |-> "None"])
           a == "source"
           b == "destination"
<1>2. PICK n \in Lengths, i \in 1..5 : AtInputs(a, b, n, start, i)
    BY DEF InCopy
<1>3. n \in Nat /\ a \in Names /\ b \in Names /\ a # b
    BY FacadeAssumption DEF Names
<1>4. start \in StepSet /\ start.op = "Start" /\ start.arg.error = "None"
    BY StartsAreSteps DEF Step
<1>7. ASSUME NEW j \in 1..5, job'.what = job.what, job'.asked = job.asked, Copied',
             AtInputs(a, b, n, start, j)'
      PROVE  InMethod'
  <2>1. InCopy'
      BY <1>7 DEF InCopy
  <2>2. QED
      BY <1>7, <2>1 DEF InMethod
<1> HIDE DEF start, a, b
<1>8. QED
    BY <1>2, <1>3, <1>4, <1>7, InputsStep

-----------------------------------------------------------------------------
(* Methods that only ask *)

\* A step that only asks leaves everything as it was.
LEMMA AskStep ==
    ASSUME NEW op \in {"Info", "Query", "Metadata"}, Doing(op), Next, "error" \notin job.owned
    PROVE  \/ IInv'
           \/ /\ Same /\ arena' = arena /\ job'.owned = job.owned /\ job'.regs = job.regs
              /\ job'.got = job.got
              /\ (IF job'.steps = <<>> THEN Answer' ELSE InMethod') => IInv'
<1>0. Shape
    BY DEF Doing, IInv
<1>1. Info \/ Query \/ TakeMetadata
    BY OnlyStep
<1>2. Failed \/ (arena' = arena /\ Advance(job.regs, job.owned, job.got))
    BY <1>0, <1>1, InfoEffect, QueryEffect, MetadataEffect
<1>3. CASE Failed
    BY <1>3, FailedKeeps
<1>4. CASE ~Failed
  <2>1. arena' = arena /\ Advance(job.regs, job.owned, job.got)
      BY <1>2, <1>4
  <2>2. Kept'
      BY <2>1, SameKept
  <2>3. /\ job'.what = job.what /\ job'.asked = job.asked /\ job'.steps = Tail(job.steps)
        /\ job'.owned = job.owned /\ job'.regs = job.regs /\ job'.got = job.got
      BY <2>1, Arrived
  <2>4. (IF job'.steps = <<>> THEN Answer' ELSE InMethod') => IInv'
      BY <1>0, <2>1, <2>2, AdvanceKeeps DEF Shape
  <2>5. QED
      BY <2>1, <2>3, <2>4 DEF Same
<1>5. QED
    BY <1>3, <1>4

\* Asking for the services.
LEMMA SchemesStep ==
    ASSUME IInv, Next, job.running, job.cause = "None", job.what = "Schemes", InSchemes
    PROVE  IInv'
<1> DEFINE op == "Info"
<1>1. job.steps = <<Step(op, FALSE)>> /\ job.owned = {}
    BY DEF InSchemes
<1>2. Doing(op) /\ Tail(job.steps) = <<>>
    BY <1>1 DEF Doing, Step
<1>3. op \in {"Info", "Query", "Metadata"} /\ "error" \notin job.owned
    BY <1>1
<1> HIDE DEF op
<1>4. \/ IInv'
      \/ Same /\ ((IF job'.steps = <<>> THEN Answer' ELSE InMethod') => IInv')
    BY <1>2, <1>3, AskStep
<1>5. ASSUME Same PROVE job'.steps = <<>> /\ Answer'
    BY <1>2, <1>5 DEF Same, Answer
<1>6. QED
    BY <1>4, <1>5

\* A completion of anything but a listing.
LEMMA SettleStep ==
    ASSUME IInv, Next, job.running, job.cause = "None", job.what = "Settle", InSettle
    PROVE  IInv'
<1> DEFINE q == Step("Query", 0)
           d == Step("Metadata", 0)
<1>1. job.steps \in {<<q>>, <<q, d>>, <<d>>} /\ job.owned = {"completion"}
    BY DEF InSettle
<1>2. q.op = "Query" /\ d.op = "Metadata"
    BY DEF Step
<1> HIDE DEF q, d
<1>3. PICK op \in {"Info", "Query", "Metadata"} : Doing(op)
    BY <1>1, <1>2 DEF Doing
<1>4. Tail(job.steps) = <<>> \/ Tail(job.steps) = <<d>>
  <2>1. Tail(<<q>>) = <<>> /\ Tail(<<q, d>>) = <<d>> /\ Tail(<<d>>) = <<>>
      OBVIOUS
  <2>2. QED
      BY <1>1, <2>1, Zenon
<1>5. \/ IInv'
      \/ /\ Same /\ job'.owned = job.owned
         /\ (IF job'.steps = <<>> THEN Answer' ELSE InMethod') => IInv'
    BY <1>1, <1>3, AskStep
<1>6. ASSUME Same, job'.owned = job.owned
      PROVE  IF job'.steps = <<>> THEN Answer' ELSE InMethod'
  <2>1. job'.what = "Settle" /\ job'.steps = Tail(job.steps)
      BY <1>6 DEF Same
  <2>2. Answer'
      BY <2>1 DEF Answer
  <2>3. ASSUME job'.steps = <<d>> PROVE InMethod'
    <3>1. InSettle'
        BY <1>1, <1>6, <2>3 DEF InSettle, d
    <3>2. QED
        BY <2>1, <3>1 DEF InMethod
  <2>4. QED
      BY <1>4, <2>1, <2>2, <2>3
<1>7. QED
    BY <1>5, <1>6

\* Between the entries of a listing, and after the last.
LEMMA ListPlace ==
    ASSUME NEW found \in Listings, NEW k \in 0..Len(found),
           job'.what = "List", job'.asked = found, job'.steps = EntriesLeft(Len(found))[k],
           Taken(Len(found) - k)'
    PROVE  IF job'.steps = <<>> THEN Answer' ELSE InMethod'
<1> DEFINE n == Len(found)
           m == n - k
<1>1. n \in Nat /\ found \in Seq(Nat)
    BY SumsUnfold
<1>2. /\ \A j \in 0..n : EntriesLeft(n)[j] \in Seq(StepSet)
      /\ EntriesLeft(n)[0] = <<>>
      /\ \A j \in 1..n : EntriesLeft(n)[j] = EntrySteps(n - j + 1) \o EntriesLeft(n)[j - 1]
  <2> HIDE DEF n
  <2>1. QED
      BY <1>1, EntriesUnfold
<1>3. Taken(m)' /\ job'.steps = EntriesLeft(n)[k] /\ k \in 0..n
    OBVIOUS
<1>4. n = Len(found) /\ m = n - k
    OBVIOUS
<1> HIDE DEF n, m
<1>5. CASE k = 0
  <2>1. job'.steps = <<>> /\ m = n
      BY <1>1, <1>2, <1>3, <1>4, <1>5
  <2>2. ListFits(found) /\ job'.got = SubSeq(found, 1, n)
      BY <1>3, <2>1 DEF Taken
  <2>3. SubSeq(found, 1, n) = found
      BY <1>1, SubSeqFull DEF n
  <2>4. Answer'
      BY <2>2, <2>3 DEF Answer
  <2>5. QED
      BY <2>1, <2>4
<1>6. CASE k # 0
  <2> DEFINE p == EntrySteps(n - k + 1)
             r == EntriesLeft(n)[k - 1]
  <2>1. k \in 1..n /\ k - 1 \in 0..n /\ n - k + 1 \in Nat
      BY <1>1, <1>3, <1>6
  <2>2. job'.steps = p \o r /\ r \in Seq(StepSet)
      BY <1>2, <1>3, <2>1
  <2>3. p \in Seq(StepSet) /\ p # <<>>
    <3> DEFINE l == n - k + 1
    <3>1. l \in Nat
        BY <2>1
    <3> HIDE DEF l
    <3>2. EntrySteps(l) \in Seq(StepSet) /\ Len(EntrySteps(l)) = 3
        BY <3>1, EntryProgram
    <3>3. QED
        BY <3>2 DEF l
  <2> HIDE DEF p, r
  <2>4. Left(p, 1) \o r = p \o r /\ p \o r # <<>>
      BY <2>2, <2>3, Starting
  <2>5. job'.steps = Left(p, 1) \o r /\ job'.steps # <<>>
      BY <2>2, <2>4
  <2>6. AtEntry(k, 1)'
    <3>1. job'.steps = Left(EntrySteps(Len(job'.asked) - k + 1), 1) \o EntriesLeft(Len(job'.asked))[k - 1]
        BY <2>5 DEF p, r, n
    <3>2. QED
        BY <3>1 DEF AtEntry
  <2>7. InList'
      BY <1>4, <2>1, <2>6 DEF InList
  <2>8. QED
      BY <2>5, <2>7 DEF InMethod
<1>7. QED
    BY <1>5, <1>6

\* A listing.
LEMMA ListStep ==
    ASSUME IInv, Next, job.running, job.cause = "None", job.what = "List",
           NEW found \in Listings, job.asked = found, InList
    PROVE  IInv'
<1> DEFINE n == Len(found)
<1>1. n \in Nat /\ found \in Seq(Nat) /\ \A j \in 1..n : found[j] \in Nat
    BY SumsUnfold
<1>2. /\ \A j \in 0..n : EntriesLeft(n)[j] \in Seq(StepSet)
      /\ EntriesLeft(n)[0] = <<>>
      /\ \A j \in 1..n : EntriesLeft(n)[j] = EntrySteps(n - j + 1) \o EntriesLeft(n)[j - 1]
  <2> HIDE DEF n
  <2>1. QED
      BY <1>1, EntriesUnfold
<1>3. \/ job.steps = <<Step("Query", 0)>> \o EntriesLeft(n)[n] /\ Taken(0)
      \/ \E k \in 1..n, i \in 1..3 :
            /\ job.steps = Left(EntrySteps(n - k + 1), i) \o EntriesLeft(n)[k - 1]
            /\ Taken(n - k)
    BY DEF InList, AtEntry
<1>4. Shape
    BY DEF IInv
<1>5. job.owned = {"completion"} /\ "error" \notin job.owned
    BY <1>3 DEF Taken
<1>6. n = Len(found)
    OBVIOUS
<1> HIDE DEF n
<1>7. ASSUME NEW m, Taken(m), Same, arena' = arena, job'.owned = job.owned,
             job'.regs = job.regs, job'.got = job.got
      PROVE  Taken(m)' /\ job'.what = "List" /\ job'.asked = found
    BY <1>7 DEF Taken, Same
<1>8. CASE job.steps = <<Step("Query", 0)>> \o EntriesLeft(n)[n] /\ Taken(0)
  <2> DEFINE p == <<Step("Query", 0)>>
             r == EntriesLeft(n)[n]
             op == "Query"
             i == 1
  <2>1. p \in Seq(StepSet) /\ p # <<>> /\ Len(p) = 1 /\ p[1].op = "Query"
    <3>1. Step("Query", 0) \in StepSet
        BY ArgsMakeSteps DEF Ops
    <3>2. QED
        BY <3>1 DEF Step
  <2>2. r \in Seq(StepSet)
      BY <1>1, <1>2
  <2>3. job.steps = p \o r
      BY <1>8
  <2> HIDE DEF p, r
  <2>4. Left(p, 1) \o r = p \o r
      BY <2>1, <2>2, Starting
  <2>5. i \in 1..Len(p) /\ i = Len(p) /\ i = 1
      BY <2>1
  <2> HIDE DEF i
  <2>6. job.steps = Left(p, i) \o r
      BY <2>3, <2>4, <2>5
  <2>7. job.steps # <<>> /\ Head(job.steps) = p[i] /\ Tail(job.steps) = r
    <3>1. /\ job.steps # <<>> /\ Head(job.steps) = p[i]
          /\ Tail(job.steps) = Left(p, i + 1) \o r
          /\ i = Len(p) => Tail(job.steps) = r
          /\ i # Len(p) => Tail(job.steps) # <<>> /\ Head(Tail(job.steps)) = p[i + 1]
        BY <2>1, <2>2, <2>5, <2>6, Going
    <3>2. QED
        BY <2>5, <3>1
  <2>8. Doing(op) /\ op \in {"Info", "Query", "Metadata"}
      BY <2>1, <2>5, <2>7 DEF Doing
  <2> HIDE DEF op
  <2>9. \/ IInv'
        \/ /\ Same /\ arena' = arena /\ job'.owned = job.owned /\ job'.regs = job.regs
           /\ job'.got = job.got
           /\ (IF job'.steps = <<>> THEN Answer' ELSE InMethod') => IInv'
      BY <1>5, <2>8, AskStep
  <2>10. ASSUME Same, arena' = arena, job'.owned = job.owned, job'.regs = job.regs,
                job'.got = job.got
         PROVE  IF job'.steps = <<>> THEN Answer' ELSE InMethod'
    <3> DEFINE m == n - n
    <3>1. m = 0 /\ n \in 0..Len(found)
        BY <1>1, <1>6
    <3>2. Taken(0)' /\ job'.what = "List" /\ job'.asked = found
        BY <1>7, <1>8, <2>10
    <3> HIDE DEF m
    <3>3. Taken(m)'
        BY <3>1, <3>2
    <3>4. job'.steps = EntriesLeft(n)[n]
        BY <2>7, <2>10 DEF Same, r
    <3>5. QED
        BY <1>6, <3>1, <3>2, <3>3, <3>4, ListPlace DEF m
  <2>11. QED
      BY <2>9, <2>10
<1>9. ASSUME NEW k \in 1..n, NEW i \in 1..3,
             job.steps = Left(EntrySteps(n - k + 1), i) \o EntriesLeft(n)[k - 1], Taken(n - k)
      PROVE  IInv'
  <2> DEFINE m == n - k
             l == n - k + 1
             p == EntrySteps(l)
             r == EntriesLeft(n)[k - 1]
  <2>1. /\ l \in Nat /\ l \in 1..n /\ m \in 0..n /\ k - 1 \in 0..n /\ m = l - 1
        /\ m = n - k /\ n - (k - 1) = l
      BY <1>1
  <2>2. r \in Seq(StepSet)
      BY <1>2, <2>1
  <2>3. job.steps = Left(p, i) \o r /\ Taken(m)
      BY <1>9
  <2>4. /\ \A s : s = Left(p, i + 1) \o r <=> s = Left(EntrySteps(n - k + 1), i + 1) \o EntriesLeft(n)[k - 1]
        /\ r = EntriesLeft(n)[k - 1]
      OBVIOUS
  <2> HIDE DEF l, m, r
  <2>5. /\ p \in Seq(StepSet) /\ Len(p) = 3
        /\ p[1] = Step("Info", TRUE)
        /\ p[2] = Step("Info", TRUE)
        /\ p[3] = Step("Snapshot", l)
      BY <2>1, EntryProgram
  <2> HIDE DEF p
  <2>6. i \in 1..Len(p)
      BY <2>5
  <2>7. /\ job.steps # <<>> /\ Head(job.steps) = p[i]
        /\ Tail(job.steps) = Left(p, i + 1) \o r
        /\ i = 3 => Tail(job.steps) = r
        /\ i # 3 => Tail(job.steps) # <<>>
    <3>1. /\ job.steps # <<>> /\ Head(job.steps) = p[i]
          /\ Tail(job.steps) = Left(p, i + 1) \o r
          /\ i = Len(p) => Tail(job.steps) = r
          /\ i # Len(p) => Tail(job.steps) # <<>> /\ Head(Tail(job.steps)) = p[i + 1]
      <4>1. job.steps = Left(p, i) \o r /\ p \in Seq(StepSet)
          BY <2>3, <2>5
      <4>2. QED
          BY <2>2, <2>6, <4>1, Going
    <3>2. QED
        BY <2>5, <3>1
  <2>8. \A op : p[i].op = op => Doing(op)
      BY <2>7 DEF Doing
  <2>9. CASE i # 3
    <3> DEFINE op == "Info"
               j == i + 1
    <3>1. Doing(op) /\ op \in {"Info", "Query", "Metadata"}
      <4>1. p[i].op = "Info"
          BY <2>5, <2>9 DEF Step
      <4>2. QED
          BY <2>8, <4>1
    <3> HIDE DEF op
    <3>2. \/ IInv'
          \/ /\ Same /\ arena' = arena /\ job'.owned = job.owned /\ job'.regs = job.regs
             /\ job'.got = job.got
             /\ (IF job'.steps = <<>> THEN Answer' ELSE InMethod') => IInv'
        BY <1>5, <3>1, AskStep
    <3>3. ASSUME Same, arena' = arena, job'.owned = job.owned, job'.regs = job.regs,
                 job'.got = job.got
          PROVE  InMethod' /\ job'.steps # <<>>
      <4>1. Taken(m)' /\ job'.what = "List" /\ job'.asked = found
          BY <1>7, <2>3, <3>3
      <4>2. job'.steps = Left(p, j) \o r /\ job'.steps # <<>>
          BY <2>7, <2>9, <3>3 DEF Same
      <4>3. j \in 1..3
          BY <2>9
      <4> HIDE DEF j
      <4>4. AtEntry(k, j)'
        <5>1. job'.steps = Left(EntrySteps(Len(job'.asked) - k + 1), j) \o EntriesLeft(Len(job'.asked))[k - 1]
            BY <4>1, <4>2 DEF p, l, r, n
        <5>2. Len(job'.asked) - k = m
            BY <1>6, <2>1, <4>1
        <5>3. QED
            BY <4>1, <5>1, <5>2 DEF AtEntry
      <4>5. InList'
          BY <1>6, <4>1, <4>3, <4>4 DEF InList
      <4>6. QED
          BY <4>1, <4>2, <4>5 DEF InMethod
    <3>4. QED
        BY <3>2, <3>3
  <2>10. CASE i = 3
    <3> DEFINE h == job.regs["completion"]
               j == k - 1
               es == [s \in 1..n |-> IF s <= m THEN 0 ELSE found[s]]
               fs == [s \in 1..n |-> IF s <= l THEN 0 ELSE found[s]]
    <3>1. Doing("Snapshot") /\ Arg = l
      <4>1. p[i].op = "Snapshot" /\ p[i].arg = l
          BY <2>5, <2>10 DEF Step
      <4>2. QED
          BY <2>7, <2>8, <4>1 DEF Arg
    <3>2. TakeSnapshot
        BY <3>1, OnlyStep
    <3>3. CASE Failed
        BY <1>5, <3>1, <3>3, FailedKeeps
    <3>4. CASE ~Failed
      <4>1. /\ arena' = [arena EXCEPT ![h].entries[l] = 0]
            /\ Advance(job.regs, job.owned, Append(job.got, arena[h].entries[l]))
          BY <1>4, <3>1, <3>2, <3>4, SnapshotEffect
      <4>2. /\ ListFits(found) /\ arena[h] = EntryList(es) /\ job.got = SubSeq(found, 1, m)
            /\ h \in 1..Slots
        <5>1. ListFits(found) /\ arena[h] = EntryList(es) /\ job.got = SubSeq(found, 1, m)
            BY <2>3 DEF Taken, n
        <5>2. h \in 1..Slots
            BY <1>4, <1>5 DEF Shape
        <5>3. QED
            BY <5>1, <5>2
      <4>3. arena[h].entries = es /\ es[l] = found[l] /\ [es EXCEPT ![l] = 0] = fs
        <5>1. arena[h].entries = es
            BY <4>2 DEF EntryList
        <5>2. l \in Nat /\ m \in Nat /\ m = l - 1 /\ n \in Nat /\ l \in 1..n
            BY <1>1, <2>1
        <5>3. es[l] = found[l]
            BY <5>2
        <5>4. \A s \in 1..n : [es EXCEPT ![l] = 0][s] = fs[s]
            BY <5>2
        <5>5. [es EXCEPT ![l] = 0] = fs
            BY <5>4
        <5>6. QED
            BY <5>1, <5>3, <5>5
      <4>4. /\ DOMAIN arena' = 1..Slots /\ arena'[h] = EntryList(fs)
            /\ \A s \in 1..Slots : s # h => arena'[s] = arena[s]
        <5>1. [arena[h] EXCEPT !.entries[l] = 0] = EntryList(fs)
          <6> HIDE DEF h, es, fs
          <6>1. [EntryList(es) EXCEPT !.entries[l] = 0] = EntryList(fs)
              BY <4>3 DEF EntryList
          <6>2. QED
              BY <4>2, <6>1
        <5>2. DOMAIN arena = 1..Slots
            BY <1>4 DEF Shape
        <5> HIDE DEF h, fs
        <5>3. QED
            BY <4>1, <4>2, <5>1, <5>2
      <4> HIDE DEF es, fs
      <4>5. Append(SubSeq(found, 1, m), found[l]) = SubSeq(found, 1, l)
        <5>1. l \in 1..Len(found) /\ m = l - 1
            BY <1>6, <2>1
        <5>2. QED
            BY <1>1, <5>1, NextBeginning
      <4>6. /\ job'.what = "List" /\ job'.asked = found /\ job'.steps = r
            /\ job'.regs = job.regs /\ job'.owned = job.owned
            /\ job'.got = SubSeq(found, 1, l)
        <5>1. /\ job'.what = job.what /\ job'.asked = job.asked /\ job'.steps = Tail(job.steps)
              /\ job'.regs = job.regs /\ job'.owned = job.owned
              /\ job'.got = Append(job.got, arena[h].entries[l])
            BY <4>1, Arrived
        <5>2. QED
            BY <2>7, <2>10, <4>2, <4>3, <4>5, <5>1
      <4>7. Taken(l)'
        <5>1. fs = [s \in 1..Len(job'.asked) |-> IF s <= l THEN 0 ELSE job'.asked[s]]
            BY <4>6 DEF fs, n
        <5>2. QED
            BY <1>5, <4>2, <4>4, <4>6, <5>1 DEF Taken
      <4>8. IF job'.steps = <<>> THEN Answer' ELSE InMethod'
        <5>1. j \in 0..Len(found) /\ Len(found) - j = l /\ job'.steps = EntriesLeft(Len(found))[j]
            BY <1>6, <2>1, <2>4, <4>6
        <5> HIDE DEF j, l
        <5>2. Taken(Len(found) - j)'
            BY <4>7, <5>1
        <5>3. QED
            BY <4>6, <5>1, <5>2, ListPlace
      <4>9. Kept'
        <5>1. \A s \in 1..Slots : arena'[s] = arena[s] \/ \E t \in job.owned : job.regs[t] = s
            BY <1>5, <4>4
        <5>2. QED
            BY <3>1, <4>1, <5>1, SameKept
      <4>10. QED
          BY <1>4, <3>1, <4>1, <4>4, <4>8, <4>9, AdvanceKeeps DEF Shape
    <3>5. QED
        BY <3>3, <3>4
  <2>11. QED
      BY <2>9, <2>10
<1>10. QED
    BY <1>3, <1>8, <1>9

-----------------------------------------------------------------------------
(* Every step *)

\* A method goes on.
LEMMA MethodStep ==
    ASSUME IInv, Next, job.running, job.cause = "None", job.steps # <<>>
    PROVE  IInv'
<1>1. InMethod
    BY DEF IInv, Placed
<1>2. CASE job.what = "Operator" /\ job.asked \in Configs /\ InOperator
  <2>1. PICK c \in Configs : job.asked = c
      BY <1>2
  <2>2. ASSUME NEW n \in Lengths, NEW i \in 1..5, AtScheme(n, i) PROVE IInv'
      BY <1>2, <2>1, <2>2, SchemeStep
  <2>3. ASSUME NEW k \in 1..Len(c), NEW i \in 1..5, AtConfig(k, i) PROVE IInv'
      BY <1>2, <2>1, <2>3, ConfigStep
  <2>4. ASSUME NEW i \in 1..7, AtBuild(i) PROVE IInv'
      BY <1>2, <2>1, <2>4, BuildStep
  <2>5. QED
      BY <1>2, <2>1, <2>2, <2>3, <2>4 DEF InOperator
<1>3. CASE Copied /\ job.what = "Read" /\ InRead
  <2>1. PICK r : job.asked = r
      OBVIOUS
  <2>2. PICK n \in Lengths, native \in BOOLEAN, i \in 1..6 : AtRead(n, native, i)
      BY <1>3 DEF InRead
  <2>3. QED
      BY <1>3, <2>1, <2>2, ReadStep
<1>4. CASE Copied /\ job.what = "ListStart" /\ InListStart
    BY <1>4, ListStartStep
<1>5. CASE Copied /\ job.what = "Copy" /\ InCopy
    BY <1>5, CopyStep
<1>6. CASE Copied /\ job.what = "Poll" /\ InPoll
  <2>1. PICK n \in Lengths, i \in 1..3 : AtPoll(n, i)
      BY <1>6 DEF InPoll
  <2>2. QED
      BY <1>6, <2>1, PollStep
<1>7. CASE job.what = "Schemes" /\ InSchemes
    BY <1>7, SchemesStep
<1>8. CASE job.what = "Settle" /\ InSettle
    BY <1>8, SettleStep
<1>9. CASE job.what = "List" /\ job.asked \in Listings /\ InList
  <2>1. PICK found \in Listings : job.asked = found
      BY <1>9
  <2>2. QED
      BY <1>9, <2>1, ListStep
<1>10. QED
    BY <1>1, <1>2, <1>3, <1>4, <1>5, <1>6, <1>7, <1>8, <1>9, Zenon DEF InMethod

\* While an error is on its way nothing is about to be entered.
LEMMA NothingPending ==
    ASSUME IInv, job.cause # "None" \/ job.steps = <<>>
    PROVE  /\ Pending = {}
           /\ \A s \in 1..Slots : Stray(arena[s]) \/ \E n \in job.owned : job.regs[n] = s
<1>1. Pending = {}
  <2>1. CASE job.steps = <<>>
      BY <2>1 DEF Pending
  <2>2. CASE job.steps # <<>>
    <3>1. job.steps = <<Step("TakeLastError", 0)>> \/ job.steps = <<Step("TakeError", 0)>>
        BY <2>2, Zenon DEF IInv, Faithful, OnItsWay
    <3>2. Head(job.steps).op \in {"TakeLastError", "TakeError"}
        BY <3>1 DEF Step
    <3>3. QED
        BY <3>2 DEF Pending
  <2>3. QED
      BY <2>1, <2>2
<1>2. QED
    BY <1>1 DEF IInv, Kept

\* The error of the export that failed is fetched, if there is a slot for it.
LEMMA TakeLastErrorKeeps ==
    ASSUME IInv, TakeLastError, job.cause # "None", job.steps = <<Step("TakeLastError", 0)>>,
           job.running, job.reported = "None", "error" \notin job.owned, last_error = job.cause
    PROVE  IInv'
<1>1. Shape
    BY DEF IInv
<1>2. \A s \in 1..Slots : Stray(arena[s]) \/ \E n \in job.owned : job.regs[n] = s
    BY NothingPending
<1>3. CASE Free = {}
  <2>1. /\ arena' = arena
        /\ job' = [job EXCEPT !.reported = "Unexpected", !.blocked = TRUE, !.steps = <<>>]
      BY <1>3 DEF TakeLastError
  <2>2. /\ DOMAIN job' = JobFields /\ job'.what = job.what /\ job'.asked = job.asked
        /\ job'.regs = job.regs /\ job'.owned = job.owned /\ job'.cause = job.cause
        /\ job'.running = job.running
      BY <1>1, <2>1 DEF Shape, JobFields
  <2>3. job'.steps = <<>> /\ job'.reported = "Unexpected" /\ job'.blocked = TRUE
      BY <1>1, <2>1 DEF Shape, JobFields
  <2>4. Shape'
    <3>1. job'.running \in BOOLEAN /\ job'.blocked \in BOOLEAN
        BY <1>1, <2>2, <2>3, Zenon DEF Shape
    <3>2. /\ DOMAIN arena' = 1..Slots /\ job'.owned \subseteq DOMAIN job'.regs
          /\ \A n \in DOMAIN job'.regs : job'.regs[n] \in 1..Slots
        BY <1>1, <2>1, <2>2 DEF Shape
    <3>3. QED
        BY <2>2, <3>1, <3>2, Zenon DEF Shape
  <2>5. Idle' /\ Placed' /\ Answered'
      BY <2>2, <2>3 DEF Idle, Placed, Answered
  <2>6. Kept'
      BY <1>2, <2>1, <2>2 DEF Kept
  <2>7. Faithful'
    <3>1. OnItsWay'
      <4>1. job'.reported \in {"Unexpected"} /\ job'.blocked
          BY <2>3
      <4>2. QED
          BY <2>3, <4>1 DEF OnItsWay
    <3>2. QED
        BY <2>2, <3>1 DEF Faithful
  <2>8. Refused'
      BY <2>2 DEF IInv, Refused
  <2>9. QED
      BY <2>4, <2>5, <2>6, <2>7, <2>8 DEF IInv
<1>4. CASE Free # {}
  <2> DEFINE b == Error(job.cause)
             t == Slot
  <2>1. /\ arena' = Inserted(b)
        /\ job' = [job EXCEPT !.regs = Register("error"), !.owned = @ \cup {"error"},
                              !.steps = <<Step("TakeError", 0)>>]
      BY <1>4 DEF TakeLastError
  <2>2. /\ DOMAIN job' = JobFields /\ job'.what = job.what /\ job'.asked = job.asked
        /\ job'.cause = job.cause /\ job'.running = job.running
        /\ job'.blocked = job.blocked /\ job'.reported = job.reported
        /\ job'.steps = <<Step("TakeError", 0)>>
        /\ job'.regs = Register("error") /\ job'.owned = job.owned \cup {"error"}
      BY <1>1, <2>1 DEF Shape, JobFields
  <2> HIDE DEF b
  <2>3. /\ DOMAIN arena' = 1..Slots
        /\ t \in 1..Slots /\ arena'[t] = b
        /\ \A s \in 1..Slots : s # t => arena'[s] = arena[s]
      BY <1>1, <1>4, <2>1, Made
  <2>4. job'.regs = [n \in (DOMAIN job.regs) \cup {"error"} |-> IF n = "error" THEN t ELSE job.regs[n]]
      BY <2>2 DEF Register
  <2> HIDE DEF t
  <2>5. /\ DOMAIN job'.regs = (DOMAIN job.regs) \cup {"error"} /\ job'.regs["error"] = t
        /\ \A n \in DOMAIN job.regs : n # "error" => job'.regs[n] = job.regs[n]
      BY <2>4
  <2>6. Shape'
    <3>1. job'.running \in BOOLEAN /\ job'.blocked \in BOOLEAN
        BY <1>1, <2>2, Zenon DEF Shape
    <3>2. /\ job'.owned \subseteq DOMAIN job'.regs
          /\ \A n \in DOMAIN job'.regs : job'.regs[n] \in 1..Slots
        BY <1>1, <2>2, <2>3, <2>5 DEF Shape
    <3>3. QED
        BY <2>2, <2>3, <3>1, <3>2, Zenon DEF Shape
  <2>7. Idle' /\ Placed' /\ Answered'
      BY <2>2 DEF Idle, Placed, Answered
  <2>8. Kept'
    <3>1. ASSUME NEW s \in 1..Slots
          PROVE  Stray(arena'[s]) \/ \E n \in job'.owned : job'.regs[n] = s
      <4>1. CASE s = t
          BY <2>2, <2>5, <4>1
      <4>2. CASE s # t /\ Stray(arena[s])
          BY <2>3, <4>2
      <4>3. CASE s # t /\ ~Stray(arena[s])
        <5>1. PICK n \in job.owned : job.regs[n] = s
            BY <1>2, <4>3
        <5>2. n \in DOMAIN job.regs /\ n # "error"
            BY <1>1, <5>1 DEF Shape
        <5>3. job'.regs[n] = s /\ n \in job'.owned
            BY <2>2, <2>5, <5>1, <5>2
        <5>4. QED
            BY <5>3
      <4>4. QED
          BY <4>1, <4>2, <4>3
    <3>2. QED
        BY <3>1 DEF Kept
  <2>9. Faithful'
    <3>1. OnItsWay'
      <4>1. "error" \in DOMAIN job'.regs /\ arena'[job'.regs["error"]] = Error(job'.cause)
          BY <2>2, <2>3, <2>5 DEF b
      <4>2. QED
          BY <2>2, <4>1 DEF OnItsWay
    <3>2. QED
        BY <2>2, <3>1 DEF Faithful
  <2>10. Refused'
      BY <2>2 DEF IInv, Refused
  <2>11. QED
      BY <2>6, <2>7, <2>8, <2>9, <2>10 DEF IInv
<1>5. QED
    BY <1>3, <1>4

\* The error says what went wrong, or that there is no memory to say it.
LEMMA TakeErrorKeeps ==
    ASSUME IInv, TakeError, job.cause # "None", job.steps = <<Step("TakeError", 0)>>,
           job.running, arena[job.regs["error"]] = Error(job.cause)
    PROVE  IInv'
<1>1. Shape
    BY DEF IInv
<1>2. \A s \in 1..Slots : Stray(arena[s]) \/ \E n \in job.owned : job.regs[n] = s
    BY NothingPending
<1>3. PICK said : /\ said \in {kind(job.cause), "ContractError"}
                  /\ job' = [job EXCEPT !.steps = <<>>, !.reported = said]
                  /\ arena' = arena
  <2>1. arena[job.regs["error"]].error = job.cause
      BY DEF Error
  <2>2. QED
      BY <2>1 DEF TakeError
<1>4. /\ DOMAIN job' = JobFields /\ job'.what = job.what /\ job'.asked = job.asked
      /\ job'.regs = job.regs /\ job'.owned = job.owned /\ job'.cause = job.cause
      /\ job'.running = job.running /\ job'.blocked = job.blocked
      /\ job'.steps = <<>> /\ job'.reported = said
    BY <1>1, <1>3 DEF Shape, JobFields
<1>5. Shape'
  <2>1. job'.running \in BOOLEAN /\ job'.blocked \in BOOLEAN
      BY <1>1, <1>4, Zenon DEF Shape
  <2>2. /\ DOMAIN arena' = 1..Slots /\ job'.owned \subseteq DOMAIN job'.regs
        /\ \A n \in DOMAIN job'.regs : job'.regs[n] \in 1..Slots
      BY <1>1, <1>3, <1>4 DEF Shape
  <2>3. QED
      BY <1>4, <2>1, <2>2, Zenon DEF Shape
<1>6. Idle' /\ Placed' /\ Answered'
    BY <1>4 DEF Idle, Placed, Answered
<1>7. Kept'
    BY <1>2, <1>3, <1>4 DEF Kept
<1>8. Faithful'
  <2>1. OnItsWay'
    <3>1. job'.steps = <<>> /\ job'.reported \in {kind(job'.cause), "ContractError"}
        BY <1>3, <1>4
    <3>2. QED
        BY <3>1, Zenon DEF OnItsWay
  <2>2. QED
      BY <1>4, <2>1 DEF Faithful
<1>9. Refused'
    BY <1>4 DEF IInv, Refused
<1>10. QED
    BY <1>5, <1>6, <1>7, <1>8, <1>9 DEF IInv

\* An error goes on.
LEMMA ErrorStep ==
    ASSUME IInv, Next, job.running, job.cause # "None", job.steps # <<>>
    PROVE  IInv'
<1>1. OnItsWay
    BY DEF IInv, Faithful
<1>2. CASE /\ job.steps = <<Step("TakeLastError", 0)>>
           /\ job.running /\ job.reported = "None" /\ "error" \notin job.owned
           /\ last_error = job.cause
  <2>1. Head(job.steps).op = "TakeLastError"
      BY <1>2 DEF Step
  <2>2. TakeLastError
      BY <2>1, OnlyNext
  <2>3. QED
      BY <1>2, <2>2, TakeLastErrorKeeps
<1>3. CASE /\ job.steps = <<Step("TakeError", 0)>>
           /\ arena[job.regs["error"]] = Error(job.cause)
  <2>1. Head(job.steps).op = "TakeError"
      BY <1>3 DEF Step
  <2>2. TakeError
      BY <2>1, OnlyNext
  <2>3. QED
      BY <1>3, <2>2, TakeErrorKeeps
<1>4. QED
    BY <1>1, <1>2, <1>3, Zenon DEF OnItsWay

\* A method that is done can only be left, and everything is released.
LEMMA FinishStep ==
    ASSUME IInv, Next, job.running, job.steps = <<>>
    PROVE  IInv'
<1>1. Finish
  <2>1. ~(BeginOperator \/ BeginSchemes \/ BeginRead \/ BeginList \/ BeginCopy \/ BeginPoll)
      BY DEF BeginOperator, BeginSchemes, BeginRead, BeginList, BeginCopy, BeginPoll, Begin
  <2>2. \A t : ~SettleMetadata(t) /\ ~SettleError(t) /\ \A x : ~SettleList(t, x) /\ ~SettleRead(t, x)
      BY Zenon DEF SettleMetadata, SettleError, SettleList, SettleRead, Settle, SettleFailed
  <2>3. ~(Occupy \/ Vacate)
      BY DEF Occupy, Vacate
  <2>4. ~(PutBytes \/ Enter \/ Leave \/ Check \/ Info \/ Query \/ Keep \/ Start \/ PollOnce)
      BY Zenon DEF At, PutBytes, Enter, Leave, Check, Info, Query, Keep, Start, PollOnce
  <2>5. ~(\/ operator_builder_new \/ operator_builder_set \/ operator_builder_build
          \/ TakeMetadata \/ TakeSnapshot \/ TakeLastError \/ TakeError)
      BY Zenon DEF At, operator_builder_new, operator_builder_set, operator_builder_build,
                   TakeMetadata, TakeSnapshot, TakeLastError, TakeError
  <2>6. QED
      BY <2>1, <2>2, <2>3, <2>4, <2>5, Zenon DEF Next
<1>2. Shape
    BY DEF IInv
<1> DEFINE gone == {job.regs[n] : n \in job.owned}
<1>3. /\ arena' = [s \in 1..Slots |-> IF s \in gone THEN Nil ELSE arena[s]]
      /\ job' = [job EXCEPT !.running = FALSE, !.owned = {}, !.regs = NoRegs]
    BY <1>1 DEF Finish, Without
<1>4. \A s \in 1..Slots : Stray(arena[s]) \/ s \in gone
    BY NothingPending
<1> HIDE DEF gone
<1>5. DOMAIN NoRegs = {}
    BY DEF NoRegs
<1>6. /\ DOMAIN job' = JobFields /\ job'.what = job.what /\ job'.asked = job.asked
      /\ job'.cause = job.cause /\ job'.reported = job.reported /\ job'.got = job.got
      /\ job'.blocked = job.blocked /\ job'.steps = <<>> /\ job'.running = FALSE
      /\ job'.owned = {} /\ job'.regs = NoRegs
    BY <1>2, <1>3 DEF Shape, JobFields
<1>7. Shape'
  <2>1. job'.running \in BOOLEAN /\ job'.blocked \in BOOLEAN
      BY <1>2, <1>6, Zenon DEF Shape
  <2>2. /\ DOMAIN arena' = 1..Slots /\ job'.owned \subseteq DOMAIN job'.regs
        /\ \A n \in DOMAIN job'.regs : job'.regs[n] \in 1..Slots
      BY <1>3, <1>5, <1>6
  <2>3. QED
      BY <1>6, <2>1, <2>2, Zenon DEF Shape
<1>8. Idle' /\ Placed'
    BY <1>5, <1>6 DEF Idle, Placed
<1>9. Answered'
  <2>1. job.cause = "None" => Answer
      BY DEF IInv, Answered
  <2>2. Answer => Answer'
      BY <1>6 DEF Answer
  <2>3. QED
      BY <1>6, <2>1, <2>2 DEF Answered
<1>10. Kept'
  <2>1. Stray(Nil)
      BY DEF Stray
  <2>2. \A s \in 1..Slots : Stray(arena'[s])
      BY <1>3, <1>4, <2>1
  <2>3. QED
      BY <2>2 DEF Kept
<1>11. Faithful'
  <2>1. CASE job.cause = "None"
      BY <1>6, <2>1 DEF IInv, Faithful
  <2>2. CASE job.cause # "None"
    <3>1. job.reported \in {kind(job.cause), "ContractError"}
                             \cup (IF job.blocked THEN {"Unexpected"} ELSE {})
        BY <2>2 DEF IInv, Faithful, OnItsWay
    <3>2. OnItsWay'
        BY <1>6, <3>1, Zenon DEF OnItsWay
    <3>3. QED
        BY <1>6, <2>2, <3>2 DEF Faithful
  <2>3. QED
      BY <2>1, <2>2
<1>12. Refused'
    BY <1>6 DEF IInv, Refused
<1>13. QED
    BY <1>7, <1>8, <1>9, <1>10, <1>11, <1>12 DEF IInv

\* Between methods the arena holds nothing that somebody has to release.
LEMMA NothingHeld ==
    ASSUME IInv, ~job.running
    PROVE  /\ job.steps = <<>> /\ job.owned = {} /\ DOMAIN job.regs = {}
           /\ \A s \in 1..Slots : Stray(arena[s])
<1>1. job.steps = <<>> /\ job.owned = {} /\ DOMAIN job.regs = {}
    BY DEF IInv, Idle
<1>2. QED
    BY <1>1, NothingPending

\* A method begins.
LEMMA BeginKeeps ==
    ASSUME IInv, NEW what, NEW asked, NEW steps, Begin(what, asked, steps),
           steps # <<>>, InMethod'
    PROVE  IInv'
<1>1. Shape
    BY DEF IInv
<1>2. ~job.running /\ arena' = arena /\ job' = Job(what, asked, steps, NoRegs, {})
    BY DEF Begin
<1>3. /\ DOMAIN job' = JobFields /\ job'.what = what /\ job'.asked = asked /\ job'.steps = steps
      /\ job'.regs = NoRegs /\ job'.owned = {} /\ job'.cause = "None" /\ job'.reported = "None"
      /\ job'.blocked = FALSE /\ job'.running = TRUE
    BY <1>2 DEF Job, JobFields
<1>4. \A s \in 1..Slots : Stray(arena[s])
    BY <1>2, NothingHeld
<1>5. DOMAIN NoRegs = {}
    BY DEF NoRegs
<1>6. Shape'
    BY <1>1, <1>2, <1>3, <1>5 DEF Shape
<1>7. Kept'
    BY <1>2, <1>4 DEF Kept
<1>8. Idle' /\ Faithful' /\ Placed' /\ Answered' /\ Refused'
    BY <1>3 DEF Idle, Faithful, Placed, Answered, Refused
<1>9. QED
    BY <1>6, <1>7, <1>8 DEF IInv

\* An operator is asked for.
LEMMA BeginOperatorStep ==
    ASSUME IInv, BeginOperator
    PROVE  IInv'
<1>1. PICK n \in Lengths, c \in Configs : Begin("Operator", c, OperatorSteps(n, c))
    BY DEF BeginOperator
<1> DEFINE p == SchemeSteps(n, c)
           k == Len(c)
           r == ConfigLeft(c)[k]
           what == "Operator"
           steps == OperatorSteps(n, c)
<1>2. n \in Nat
    BY FacadeAssumption
<1>3. p \in Seq(StepSet) /\ Len(p) = 5 /\ p # <<>>
  <2>1. p \in Seq(StepSet) /\ Len(p) = 5
      BY <1>2, SchemeProgram
  <2> HIDE DEF p
  <2>2. QED
      BY <2>1
<1>4. r \in Seq(StepSet)
  <2>1. k \in Nat /\ \A j \in 0..k : ConfigLeft(c)[j] \in Seq(StepSet)
      BY ConfigUnfolds
  <2> HIDE DEF k
  <2>2. QED
      BY <2>1
<1>5. steps = p \o r
    BY DEF OperatorSteps
<1>6. job' = Job(what, c, steps, NoRegs, {})
    BY <1>1 DEF Begin
<1>7. Left(p, 1) \o r = p \o r /\ p \o r # <<>>
  <2> HIDE DEF p, r
  <2>1. QED
      BY <1>3, <1>4, Starting
<1> HIDE DEF steps
<1>8. job'.what = "Operator" /\ job'.asked = c /\ job'.steps = steps /\ job'.owned = {}
    BY <1>6 DEF Job
<1>9. AtScheme(n, 1)'
  <2>1. job'.steps = Left(SchemeSteps(n, job'.asked), 1) \o ConfigLeft(job'.asked)[Len(job'.asked)]
    <3>1. steps = Left(p, 1) \o r
        BY <1>5, <1>7, Zenon
    <3>2. QED
        BY <1>8, <3>1
  <2>2. QED
      BY <1>8, <2>1 DEF AtScheme
<1>10. InMethod'
  <2>1. InOperator'
      BY <1>9 DEF InOperator
  <2>2. QED
      BY <1>8, <2>1 DEF InMethod
<1>11. steps # <<>> /\ Begin(what, c, steps)
    BY <1>1, <1>5, <1>7 DEF steps
<1> HIDE DEF what
<1>12. QED
    BY <1>10, <1>11, BeginKeeps

\* The first place of a method without entries to come.
LEMMA FirstPlace ==
    ASSUME NEW p \in Seq(StepSet), p # <<>>, NEW what, NEW asked, Begin(what, asked, p)
    PROVE  /\ job'.what = what /\ job'.asked = asked /\ job'.steps = Left(p, 1)
           /\ job'.owned = {} /\ Copied'
<1>1. Left(p, 1) = p
    BY SubSeqFull DEF Left
<1>2. job' = Job(what, asked, p, NoRegs, {})
    BY DEF Begin
<1>3. DOMAIN job'.regs = {}
    BY <1>2 DEF Job, NoRegs
<1>4. QED
    BY <1>1, <1>2, <1>3 DEF Job, Copied

\* Everything else is begun.
LEMMA BeginStep ==
    ASSUME IInv, BeginOperator \/ BeginSchemes \/ BeginRead \/ BeginList \/ BeginCopy \/ BeginPoll
    PROVE  IInv'
<1>1. CASE BeginOperator
    BY <1>1, BeginOperatorStep
<1>2. CASE BeginSchemes
  <2> DEFINE p == <<Step("Info", FALSE)>>
             what == "Schemes"
             asked == <<>>
  <2>1. Begin(what, asked, p)
      BY <1>2 DEF BeginSchemes
  <2>2. job'.what = what /\ job'.steps = p /\ job'.owned = {}
      BY <2>1 DEF Begin, Job
  <2>3. InSchemes'
      BY <2>2 DEF InSchemes
  <2>4. InMethod' /\ p # <<>>
      BY <2>2, <2>3 DEF InMethod
  <2> HIDE DEF p, what, asked
  <2>5. QED
      BY <2>1, <2>4, BeginKeeps
<1>3. CASE BeginRead
  <2>1. PICK n \in Lengths, k \in RangeKinds, a \in Words, b \in Words, native \in BOOLEAN :
           LET r == [kind   |-> k, offset |-> IF k \in {"From", "Range"} THEN a ELSE 0,
                     length |-> IF k \in {"Range", "Suffix"} THEN b ELSE 0]
           IN Begin("Read", r, ReadSteps(n, r, native))
      BY <1>3 DEF BeginRead
  <2> DEFINE r == [kind   |-> k, offset |-> IF k \in {"From", "Range"} THEN a ELSE 0,
                   length |-> IF k \in {"Range", "Suffix"} THEN b ELSE 0]
             p == ReadSteps(n, r, native)
             what == "Read"
  <2>2. Begin(what, r, p)
      BY <2>1
  <2>3. n \in Nat /\ a \in Nat /\ b \in Nat /\ a <= WordMax /\ b <= WordMax /\ WordMax \in Nat
      BY FacadeAssumption
  <2>4. r.kind # "Range" => r.offset + r.length <= WordMax
      BY <2>3 DEF RangeKinds
  <2> HIDE DEF r
  <2>5. p \in Seq(StepSet) /\ p # <<>>
      BY <2>3, ReadNotEmpty
  <2> HIDE DEF p, what
  <2>6. p # <<>>
      BY <2>5, Zenon
  <2>7. /\ job'.what = what /\ job'.asked = r /\ job'.steps = Left(p, 1)
        /\ job'.owned = {} /\ Copied'
      BY <2>2, <2>5, <2>6, FirstPlace
  <2>8. AtRead(n, native, 1)'
      BY <2>4, <2>7 DEF AtRead, p
  <2>9. InRead'
      BY <2>8 DEF InRead
  <2>10. InMethod'
      BY <2>7, <2>9 DEF InMethod, what
  <2>11. QED
      BY <2>2, <2>6, <2>10, BeginKeeps
<1>4. CASE BeginList
  <2>1. PICK n \in Lengths, limit \in Words : Begin("ListStart", limit, ListSteps(n, limit))
      BY <1>4 DEF BeginList
  <2> DEFINE start == Step("Start", [call |-> "List", error |-> optional_list_limit(limit)])
             a == "path"
             b == "start_after"
             p == TwoInputs(a, b, n, start)
             what == "ListStart"
  <2>2. Begin(what, limit, p)
      BY <2>1 DEF ListSteps
  <2>3. n \in Nat /\ a \in Names /\ b \in Names /\ start \in StepSet
      BY FacadeAssumption, StartsAreSteps DEF Names
  <2> HIDE DEF start
  <2>4. p = TwoInputs(a, b, n, start)
      OBVIOUS
  <2> HIDE DEF a, b, p, what
  <2>5. p \in Seq(StepSet) /\ p # <<>>
      BY <2>3, <2>4, TwoInputsNotEmpty
  <2>6. p # <<>>
      BY <2>5, Zenon
  <2>7. /\ job'.what = what /\ job'.asked = limit /\ job'.steps = Left(p, 1)
        /\ job'.owned = {} /\ Copied'
      BY <2>2, <2>5, <2>6, FirstPlace
  <2>8. AtInputs(a, b, n, start, 1)'
      BY <2>4, <2>7 DEF AtInputs
  <2>9. InListStart'
      BY <2>7, <2>8 DEF InListStart, a, b, start
  <2>10. InMethod'
      BY <2>7, <2>9 DEF InMethod, what
  <2>11. QED
      BY <2>2, <2>6, <2>10, BeginKeeps
<1>5. CASE BeginCopy
  <2>1. PICK n \in Lengths : Begin("Copy", n, CopySteps(n))
      BY <1>5 DEF BeginCopy
  <2> DEFINE start == Step("Start", [call |-> "Copy", error |-> "None"])
             a == "source"
             b == "destination"
             p == TwoInputs(a, b, n, start)
             what == "Copy"
  <2>2. Begin(what, n, p)
      BY <2>1 DEF CopySteps
  <2>3. n \in Nat /\ a \in Names /\ b \in Names /\ start \in StepSet
      BY FacadeAssumption, StartsAreSteps DEF Names
  <2> HIDE DEF start
  <2>4. p = TwoInputs(a, b, n, start)
      OBVIOUS
  <2> HIDE DEF a, b, p, what
  <2>5. p \in Seq(StepSet) /\ p # <<>>
      BY <2>3, <2>4, TwoInputsNotEmpty
  <2>6. p # <<>>
      BY <2>5, Zenon
  <2>7. /\ job'.what = what /\ job'.steps = Left(p, 1) /\ job'.owned = {} /\ Copied'
      BY <2>2, <2>5, <2>6, FirstPlace
  <2>8. AtInputs(a, b, n, start, 1)'
      BY <2>4, <2>7 DEF AtInputs
  <2>9. InCopy'
      BY <2>8 DEF InCopy, a, b, start
  <2>10. InMethod'
      BY <2>7, <2>9 DEF InMethod, what
  <2>11. QED
      BY <2>2, <2>6, <2>10, BeginKeeps
<1>6. CASE BeginPoll
  <2>1. PICK n \in Lengths : Begin("Poll", n, PollSteps(n))
      BY <1>6 DEF BeginPoll
  <2> DEFINE p == PollSteps(n)
             what == "Poll"
  <2>2. n \in Nat /\ Begin(what, n, p)
      BY <2>1, FacadeAssumption
  <2>3. p \in Seq(StepSet) /\ Len(p) = 3
      BY <2>2, PollProgram
  <2> HIDE DEF p, what
  <2>4. p # <<>>
      BY <2>3
  <2>5. /\ job'.what = what /\ job'.steps = Left(p, 1) /\ job'.owned = {} /\ Copied'
      BY <2>2, <2>3, <2>4, FirstPlace
  <2>6. AtPoll(n, 1)'
      BY <2>5 DEF AtPoll, p
  <2>7. InPoll'
      BY <2>6 DEF InPoll
  <2>8. InMethod'
      BY <2>5, <2>7 DEF InMethod, what
  <2>9. QED
      BY <2>2, <2>4, <2>8, BeginKeeps
<1>7. QED
    BY <1>1, <1>2, <1>3, <1>4, <1>5, <1>6

\* A task that is ready becomes a completion in its slot, and a method begins
\* that owns it.
LEMMA SettleKeeps ==
    ASSUME IInv, NEW t \in 1..Slots, NEW what, NEW asked, NEW r, NEW steps,
           Settle(t, what, asked, r, steps),
           NEW p, p = <<Step("Query", 0)>> \o steps, p # <<>>, InMethod'
    PROVE  IInv'
<1> DEFINE regs == [n \in {"completion"} |-> t]
<1>1. Shape
    BY DEF IInv
<1>2. /\ ~job.running /\ arena' = [arena EXCEPT ![t] = r]
      /\ job' = Job(what, asked, p, regs, {"completion"})
    BY DEF Settle
<1>3. DOMAIN regs = {"completion"} /\ regs["completion"] = t
    OBVIOUS
<1> HIDE DEF regs
<1>4. /\ DOMAIN job' = JobFields /\ job'.what = what /\ job'.asked = asked /\ job'.steps = p
      /\ job'.regs = regs /\ job'.owned = {"completion"} /\ job'.cause = "None"
      /\ job'.reported = "None" /\ job'.blocked = FALSE /\ job'.running = TRUE
    BY <1>2 DEF Job, JobFields
<1>5. \A s \in 1..Slots : Stray(arena[s])
    BY <1>2, NothingHeld
<1>6. DOMAIN arena' = 1..Slots /\ \A s \in 1..Slots : s # t => arena'[s] = arena[s]
    BY <1>1, <1>2 DEF Shape
<1>7. Shape'
    BY <1>3, <1>4, <1>6 DEF Shape
<1>8. Kept'
  <2>1. \A s \in 1..Slots : s # t => Stray(arena'[s])
      BY <1>5, <1>6
  <2>2. "completion" \in job'.owned /\ job'.regs["completion"] = t
      BY <1>3, <1>4
  <2>3. QED
      BY <2>1, <2>2 DEF Kept
<1>9. Idle' /\ Faithful' /\ Placed' /\ Answered' /\ Refused'
    BY <1>4 DEF Idle, Faithful, Placed, Answered, Refused
<1>10. QED
    BY <1>7, <1>8, <1>9 DEF IInv

\* A task that failed leaves its error in its slot, where it is fetched next.
LEMMA SettleFailedKeeps ==
    ASSUME IInv, NEW t \in 1..Slots, NEW what, NEW asked, NEW e, e # "None",
           SettleFailed(t, what, asked, e),
           what = "List" /\ e = "ListTooLarge" => ~ListFits(asked)
    PROVE  IInv'
<1> DEFINE regs == [n \in {"error"} |-> t]
           p == <<Step("TakeError", 0)>>
<1>1. Shape
    BY DEF IInv
<1>2. /\ ~job.running /\ arena' = [arena EXCEPT ![t] = Error(e)]
      /\ job' = [Job(what, asked, p, regs, {"error"}) EXCEPT !.cause = e]
    BY DEF SettleFailed
<1>3. DOMAIN regs = {"error"} /\ regs["error"] = t
    OBVIOUS
<1>4. p # <<>>
    OBVIOUS
<1> HIDE DEF regs, p
<1>5. /\ DOMAIN job' = JobFields /\ job'.what = what /\ job'.asked = asked /\ job'.steps = p
      /\ job'.regs = regs /\ job'.owned = {"error"} /\ job'.cause = e
      /\ job'.reported = "None" /\ job'.blocked = FALSE /\ job'.running = TRUE
    BY <1>2 DEF Job, JobFields
<1>6. \A s \in 1..Slots : Stray(arena[s])
    BY <1>2, NothingHeld
<1>7. /\ DOMAIN arena' = 1..Slots /\ arena'[t] = Error(e)
      /\ \A s \in 1..Slots : s # t => arena'[s] = arena[s]
    BY <1>1, <1>2 DEF Shape
<1>8. Shape'
    BY <1>3, <1>5, <1>7 DEF Shape
<1>9. Kept'
  <2>1. \A s \in 1..Slots : s # t => Stray(arena'[s])
      BY <1>6, <1>7
  <2>2. "error" \in job'.owned /\ job'.regs["error"] = t
      BY <1>3, <1>5
  <2>3. QED
      BY <2>1, <2>2 DEF Kept
<1>10. Faithful'
  <2>1. /\ job'.steps = <<Step("TakeError", 0)>>
        /\ job'.running /\ job'.reported = "None" /\ "error" \in DOMAIN job'.regs
        /\ arena'[job'.regs["error"]] = Error(job'.cause)
      BY <1>3, <1>5, <1>7 DEF p
  <2>2. OnItsWay'
      BY <2>1, Zenon DEF OnItsWay
  <2>3. QED
      BY <1>5, <2>2 DEF Faithful
<1>11. Idle' /\ Placed' /\ Answered'
    BY <1>5 DEF Idle, Placed, Answered
<1>12. Refused'
    BY <1>5 DEF Refused, ListFits
<1>13. QED
    BY <1>8, <1>9, <1>10, <1>11, <1>12 DEF IInv

\* One step and one more.
LEMMA TwoSteps ==
    ASSUME NEW x, NEW y
    PROVE  <<x>> \o <<y>> = <<x, y>> /\ <<x, y>> # <<>>
<1> DEFINE S == {x, y}
           a == <<x>>
           b == <<y>>
           c == <<x, y>>
           d == a \o b
<1>1. a \in Seq(S) /\ Len(a) = 1 /\ a[1] = x
    OBVIOUS
<1>2. b \in Seq(S) /\ Len(b) = 1 /\ b[1] = y
    OBVIOUS
<1>3. c \in Seq(S) /\ Len(c) = 2 /\ c[1] = x /\ c[2] = y
    OBVIOUS
<1> HIDE DEF a, b, c
<1>4. /\ d \in Seq(S) /\ Len(d) = Len(a) + Len(b)
      /\ \A i \in 1 .. Len(a) + Len(b) :
            d[i] = IF i <= Len(a) THEN a[i] ELSE b[i - Len(a)]
    BY <1>1, <1>2, ConcatProperties
<1> HIDE DEF d, S
<1>5. Len(d) = Len(c) /\ \A i \in 1 .. Len(c) : c[i] = d[i]
    BY <1>1, <1>2, <1>3, <1>4
<1>6. d = c
    BY <1>3, <1>4, <1>5, SeqEqual
<1>7. c # <<>>
    BY <1>3
<1>8. QED
    BY <1>6, <1>7 DEF a, b, c, d

\* The completion of a copy, of a read, and one that failed.
LEMMA SettleOneStep ==
    ASSUME IInv, NEW t \in 1..Slots,
           SettleMetadata(t) \/ SettleError(t) \/ \E n \in Lengths : SettleRead(t, n)
    PROVE  IInv'
<1>1. CASE SettleError(t)
  <2> DEFINE what == "Settle"
             e == "NotFound"
             asked == 0
  <2>1. SettleFailed(t, what, asked, e)
      BY <1>1 DEF SettleError
  <2>2. e # "None" /\ (what = "List" /\ e = "ListTooLarge" => ~ListFits(asked))
      OBVIOUS
  <2> HIDE DEF what, e, asked
  <2>3. QED
      BY <2>1, <2>2, SettleFailedKeeps
<1>2. CASE SettleMetadata(t)
  <2> DEFINE what == "Settle"
             asked == 0
             steps == <<Step("Metadata", 0)>>
             p == <<Step("Query", 0)>> \o steps
  <2>1. Settle(t, what, asked, Other, steps)
      BY <1>2 DEF SettleMetadata
  <2>2. p = <<Step("Query", 0), Step("Metadata", 0)>> /\ p # <<>>
    <3> DEFINE x == Step("Query", 0)
               y == Step("Metadata", 0)
    <3> HIDE DEF x, y
    <3>1. p = <<x, y>> /\ <<x, y>> # <<>>
        BY TwoSteps DEF x, y
    <3>2. QED
        BY <3>1, Zenon DEF x, y
  <2>3. job' = Job(what, asked, p, [n \in {"completion"} |-> t], {"completion"})
      BY <2>1 DEF Settle
  <2> HIDE DEF p, asked
  <2>4. job'.what = "Settle" /\ job'.steps = p /\ job'.owned = {"completion"}
      BY <2>3 DEF Job
  <2>5. InSettle'
      BY <2>2, <2>4, Zenon DEF InSettle
  <2>6. InMethod'
      BY <2>4, <2>5, Zenon DEF InMethod
  <2> HIDE DEF what
  <2>7. p = <<Step("Query", 0)>> \o steps
      BY DEF p
  <2> HIDE DEF steps
  <2>8. QED
      BY <2>1, <2>2, <2>6, <2>7, SettleKeeps
<1>3. CASE \E n \in Lengths : SettleRead(t, n)
  <2>1. PICK m \in Lengths : SettleRead(t, m)
      BY <1>3
  <2> DEFINE what == "Settle"
             e == "BufferTooLarge"
  <2>2. CASE m > MaxBuffer
    <3>1. SettleFailed(t, what, m, e)
        BY <2>1, <2>2 DEF SettleRead
    <3>2. e # "None" /\ (what = "List" /\ e = "ListTooLarge" => ~ListFits(m))
        OBVIOUS
    <3> HIDE DEF what, e
    <3>3. QED
        BY <3>1, <3>2, SettleFailedKeeps
  <2>3. CASE ~(m > MaxBuffer)
    <3> DEFINE steps == <<>>
               r == Buffer("completion", m, Covered(m))
               p == <<Step("Query", 0)>> \o steps
    <3>1. Settle(t, what, m, r, steps)
        BY <2>1, <2>3 DEF SettleRead
    <3>2. p = <<Step("Query", 0)>> /\ p # <<>>
        OBVIOUS
    <3>3. job' = Job(what, m, p, [n \in {"completion"} |-> t], {"completion"})
        BY <3>1 DEF Settle
    <3> HIDE DEF p, r
    <3>4. job'.what = "Settle" /\ job'.steps = p /\ job'.owned = {"completion"}
        BY <3>3 DEF Job
    <3>5. InSettle'
        BY <3>2, <3>4, Zenon DEF InSettle
    <3>6. InMethod'
        BY <3>4, <3>5, Zenon DEF InMethod
    <3>7. p = <<Step("Query", 0)>> \o steps
        BY DEF p
    <3> HIDE DEF what, steps
    <3>8. QED
        BY <3>1, <3>2, <3>6, <3>7, SettleKeeps
  <2>4. QED
      BY <2>2, <2>3
<1>4. QED
    BY <1>1, <1>2, <1>3

\* The completion of a listing: it is refused if it does not fit, and complete
\* if it does.
LEMMA SettleListStep ==
    ASSUME IInv, NEW t \in 1..Slots, NEW found \in Listings, SettleList(t, found)
    PROVE  IInv'
<1> DEFINE list == collect_list(found)[Len(found)]
           n == Len(found)
           what == "List"
<1>1. /\ list.error = IF ListFits(found) THEN "None" ELSE "ListTooLarge"
      /\ ListFits(found) => list.entries = found
    BY CollectsWhole
<1>2. IF list.error # "None" THEN SettleFailed(t, what, found, list.error)
      ELSE Settle(t, what, found, EntryList(list.entries),
                  EntriesLeft(Len(list.entries))[Len(list.entries)])
    BY DEF SettleList
<1> HIDE DEF list
<1>3. CASE ~ListFits(found)
  <2> DEFINE e == "ListTooLarge"
  <2>1. SettleFailed(t, what, found, e)
      BY <1>1, <1>2, <1>3
  <2>2. e # "None" /\ (what = "List" /\ e = "ListTooLarge" => ~ListFits(found))
      BY <1>3
  <2> HIDE DEF e, what
  <2>3. QED
      BY <2>1, <2>2, SettleFailedKeeps
<1>4. CASE ListFits(found)
  <2> DEFINE steps == EntriesLeft(n)[n]
             p == <<Step("Query", 0)>> \o steps
             r == EntryList(found)
  <2>1. Settle(t, what, found, r, steps)
      BY <1>1, <1>2, <1>4
  <2>2. n \in Nat /\ found \in Seq(Nat)
      BY SumsUnfold
  <2>3. steps \in Seq(StepSet)
    <3>1. \A k \in 0..n : EntriesLeft(n)[k] \in Seq(StepSet)
      <4> HIDE DEF n
      <4>1. QED
          BY <2>2, EntriesUnfold
    <3> HIDE DEF n
    <3>2. QED
        BY <2>2, <3>1
  <2>4. p # <<>>
    <3> DEFINE q == <<Step("Query", 0)>>
    <3>1. Step("Query", 0) \in StepSet
        BY BuildProgram, ArgsMakeSteps DEF Ops
    <3>2. q \in Seq(StepSet) /\ Len(q) = 1
        BY <3>1
    <3> HIDE DEF q, steps
    <3>3. q \o steps \in Seq(StepSet) /\ Len(q \o steps) = Len(q) + Len(steps)
        BY <2>3, <3>2, ConcatProperties
    <3> DEFINE z == q \o steps
    <3>4. z \in Seq(StepSet) /\ Len(z) # 0
        BY <2>3, <3>2, <3>3
    <3> HIDE DEF z
    <3>5. z # <<>>
        BY <3>4
    <3>6. QED
        BY <3>5 DEF z, q
  <2> DEFINE regs == [x \in {"completion"} |-> t]
  <2>5. /\ arena' = [arena EXCEPT ![t] = r]
        /\ job' = Job(what, found, p, regs, {"completion"})
      BY <2>1 DEF Settle
  <2>6. regs["completion"] = t
      OBVIOUS
  <2>7. p = <<Step("Query", 0)>> \o steps
      OBVIOUS
  <2> HIDE DEF p, regs, r, steps
  <2>8. /\ job'.what = what /\ job'.asked = found /\ job'.steps = p /\ job'.regs = regs
        /\ job'.owned = {"completion"} /\ job'.got = <<>>
      BY <2>5 DEF Job
  <2>9. Taken(0)'
    <3> DEFINE left == [j \in 1..n |-> IF j <= 0 THEN 0 ELSE found[j]]
    <3>1. left = found
        BY <2>2
    <3>2. arena'[t] = r
        BY <2>5 DEF IInv, Shape
    <3>3. arena'[job'.regs["completion"]] = EntryList(left)
        BY <2>6, <2>8, <3>1, <3>2 DEF r
    <3>4. SubSeq(found, 1, 0) = <<>>
        BY <2>2
    <3>5. ListFits(found)' = ListFits(found)
        OBVIOUS
    <3>6. ListFits(job.asked)'
        BY <1>4, <2>8 DEF ListFits
    <3>7. job'.got = SubSeq(job'.asked, 1, 0)
        BY <2>8, <3>4
    <3>8. arena'[job'.regs["completion"]] =
              EntryList([j \in 1..Len(job'.asked) |-> IF j <= 0 THEN 0 ELSE job'.asked[j]])
        BY <2>8, <3>3
    <3>9. QED
        BY <2>8, <3>6, <3>7, <3>8 DEF Taken
  <2>10. InList'
    <3>1. job'.steps = <<Step("Query", 0)>> \o EntriesLeft(Len(job'.asked))[Len(job'.asked)]
        BY <2>7, <2>8 DEF steps
    <3>2. QED
        BY <2>9, <3>1 DEF InList
  <2>11. InMethod'
      BY <2>8, <2>10 DEF InMethod
  <2> HIDE DEF what
  <2>12. QED
      BY <2>1, <2>4, <2>7, <2>11, SettleKeeps
<1>5. QED
    BY <1>3, <1>4

\* Other parts of the program take and release handles of their own.
LEMMA OthersKeep ==
    ASSUME IInv, Occupy \/ Vacate
    PROVE  IInv'
<1>1. Shape /\ ~job.running /\ job' = job
    BY DEF IInv, Occupy, Vacate
<1>2. job.steps = <<>> /\ \A s \in 1..Slots : Stray(arena[s])
    BY <1>1, NothingHeld
<1>3. DOMAIN arena' = 1..Slots /\ \A s \in 1..Slots : Stray(arena'[s])
  <2>1. CASE Occupy
    <3> DEFINE r == Other
    <3>1. Stray(r)
        BY DEF Stray, Other
    <3>2. Free # {} /\ arena' = Inserted(r)
        BY <2>1 DEF Occupy
    <3> HIDE DEF r
    <3>3. /\ DOMAIN arena' = 1..Slots
          /\ Slot \in 1..Slots /\ arena'[Slot] = r
          /\ \A s \in 1..Slots : s # Slot => arena'[s] = arena[s]
        BY <1>1, <3>2, Made
    <3>4. QED
        BY <1>2, <3>1, <3>3
  <2>2. CASE Vacate
    <3>1. PICK s \in 1..Slots : arena' = Without(arena, {s})
        BY <2>2 DEF Vacate
    <3>2. Stray(Nil)
        BY DEF Stray
    <3>3. QED
        BY <1>2, <3>1, <3>2 DEF Without
  <2>3. QED
      BY <1>1, <2>1, <2>2
<1>4. Shape' /\ Idle' /\ Placed' /\ Answered' /\ Refused'
  <2>1. Shape'
      BY <1>1, <1>3 DEF Shape
  <2>2. Idle' /\ Refused'
      BY <1>1 DEF IInv, Idle, Refused
  <2>3. Placed'
      BY <1>1, <1>2 DEF Placed
  <2>4. Answered'
      BY <1>1 DEF IInv, Answered, Answer
  <2>5. QED
      BY <2>1, <2>2, <2>3, <2>4
<1>5. Kept'
    BY <1>1, <1>3 DEF Kept
<1>6. Faithful'
  <2>1. CASE job.cause = "None"
      BY <1>1, <2>1 DEF IInv, Faithful
  <2>2. CASE job.cause # "None"
    <3>1. job.reported \in {kind(job.cause), "ContractError"}
                             \cup (IF job.blocked THEN {"Unexpected"} ELSE {})
        BY <1>2, <2>2 DEF IInv, Faithful, OnItsWay
    <3>2. OnItsWay'
        BY <1>1, <1>2, <3>1, Zenon DEF OnItsWay
    <3>3. QED
        BY <1>1, <2>2, <3>2 DEF Faithful
  <2>3. QED
      BY <2>1, <2>2
<1>7. QED
    BY <1>4, <1>5, <1>6 DEF IInv

\* Between methods, a method begins, a task is settled, or others go on.
LEMMA BetweenStep ==
    ASSUME IInv, Next, ~job.running
    PROVE  IInv'
<1>1. ~(PutBytes \/ Enter \/ Leave \/ Check \/ Info \/ Query \/ Keep \/ Start \/ PollOnce)
    BY Zenon DEF At, PutBytes, Enter, Leave, Check, Info, Query, Keep, Start, PollOnce
<1>2. ~(\/ operator_builder_new \/ operator_builder_set \/ operator_builder_build
        \/ TakeMetadata \/ TakeSnapshot \/ TakeLastError \/ TakeError \/ Finish)
    BY Zenon DEF At, operator_builder_new, operator_builder_set, operator_builder_build,
                 TakeMetadata, TakeSnapshot, TakeLastError, TakeError, Finish
<1>3. CASE BeginOperator \/ BeginSchemes \/ BeginRead \/ BeginList \/ BeginCopy \/ BeginPoll
    BY <1>3, BeginStep
<1>4. CASE \E t \in 1 .. Slots :
              \/ SettleMetadata(t) \/ SettleError(t)
              \/ \E found \in Listings : SettleList(t, found)
              \/ \E n \in Lengths : SettleRead(t, n)
  <2>1. PICK t \in 1..Slots :
              \/ SettleMetadata(t) \/ SettleError(t)
              \/ \E found \in Listings : SettleList(t, found)
              \/ \E n \in Lengths : SettleRead(t, n)
      BY <1>4, Zenon
  <2>2. CASE SettleMetadata(t) \/ SettleError(t) \/ \E n \in Lengths : SettleRead(t, n)
      BY <2>2, SettleOneStep
  <2>3. CASE \E found \in Listings : SettleList(t, found)
      BY <2>3, SettleListStep
  <2>4. QED
      BY <2>1, <2>2, <2>3, Zenon
<1>5. CASE Occupy \/ Vacate
    BY <1>5, OthersKeep
<1>6. QED
    BY <1>1, <1>2, <1>3, <1>4, <1>5, Zenon DEF Next

\* Whatever the program does next, the invariant is kept.
LEMMA NextKeeps ==
    ASSUME IInv, Next
    PROVE  IInv'
<1>1. CASE ~job.running
    BY <1>1, BetweenStep
<1>2. CASE job.running /\ job.steps = <<>>
    BY <1>2, FinishStep
<1>3. CASE job.running /\ job.steps # <<>> /\ job.cause = "None"
    BY <1>3, MethodStep
<1>4. CASE job.running /\ job.steps # <<>> /\ job.cause # "None"
    BY <1>4, ErrorStep
<1>5. QED
    BY <1>1, <1>2, <1>3, <1>4, Zenon

\* A place is a matter of the arena and of the method alone.
LEMMA PlaceStays ==
    ASSUME InMethod, arena' = arena, job' = job
    PROVE  InMethod'
<1>1. \A m : Built(m) => Built(m)'
    BY DEF Built, Holds
<1>2. InOperator => InOperator'
  <2>1. ASSUME NEW n \in Lengths, NEW i \in 1..5, AtScheme(n, i) PROVE AtScheme(n, i)'
      BY <1>1, <2>1, Zenon DEF AtScheme, Holds
  <2>2. ASSUME NEW k \in 1..Len(job.asked), NEW i \in 1..5, AtConfig(k, i) PROVE AtConfig(k, i)'
      BY <1>1, <2>2, Zenon DEF AtConfig, Holds
  <2>3. ASSUME NEW i \in 1..7, AtBuild(i) PROVE AtBuild(i)'
      BY <1>1, <2>3, Zenon DEF AtBuild, Holds
  <2>4. QED
      BY <2>1, <2>2, <2>3, Zenon DEF InOperator
<1>3. Copied => Copied'
    BY Zenon DEF Copied
<1>4. InRead => InRead'
  <2>1. ASSUME NEW n \in Lengths, NEW native \in BOOLEAN, NEW i \in 1..6, AtRead(n, native, i)
        PROVE  AtRead(n, native, i)'
      BY <2>1, Zenon DEF AtRead
  <2>2. QED
      BY <2>1, Zenon DEF InRead
<1>5. InListStart => InListStart'
    BY Zenon DEF InListStart, AtInputs
<1>6. InCopy => InCopy'
    BY Zenon DEF InCopy, AtInputs
<1>7. InPoll => InPoll'
    BY Zenon DEF InPoll, AtPoll
<1>8. (InSchemes => InSchemes') /\ (InSettle => InSettle')
    BY Zenon DEF InSchemes, InSettle
<1>9. InList => InList'
    BY Zenon DEF InList, AtEntry, Taken, ListFits
<1>10. QED
    BY <1>2, <1>3, <1>4, <1>5, <1>6, <1>7, <1>8, <1>9, Zenon DEF InMethod

\* A step of nobody keeps it.
LEMMA StutterKeeps ==
    ASSUME IInv, UNCHANGED vars
    PROVE  IInv'
<1>1. arena' = arena /\ last_error' = last_error /\ job' = job
    BY DEF vars
<1>2. Shape'
    BY <1>1, Zenon DEF IInv, Shape
<1>3. Idle' /\ Refused'
    BY <1>1, Zenon DEF IInv, Idle, Refused, ListFits
<1>4. Kept'
    BY <1>1, Zenon DEF IInv, Kept, Pending, Stray
<1>5. Faithful'
    BY <1>1, Zenon DEF IInv, Faithful, OnItsWay
<1>6. Placed'
    BY <1>1, PlaceStays, Zenon DEF IInv, Placed
<1>7. Answered'
    BY <1>1, Zenon DEF IInv, Answered, Answer, ConfigFits, ListFits
<1>8. QED
    BY <1>2, <1>3, <1>4, <1>5, <1>6, <1>7 DEF IInv

\* At the start the arena is vacant, and no method has run.
LEMMA InitHolds ==
    ASSUME Init
    PROVE  IInv
<1>1. /\ DOMAIN arena = 1..Slots /\ \A s \in 1..Slots : arena[s] = Nil
    BY DEF Init
<1>2. DOMAIN NoRegs = {}
    BY DEF NoRegs
<1>3. /\ DOMAIN job = JobFields /\ job.what = "None" /\ job.asked = <<>> /\ job.steps = <<>>
      /\ job.regs = NoRegs /\ job.owned = {} /\ job.cause = "None" /\ job.reported = "None"
      /\ job.blocked = FALSE /\ job.running = FALSE
    BY DEF Init, Job, JobFields
<1>4. Shape
    BY <1>1, <1>2, <1>3 DEF Shape
<1>5. Idle /\ Faithful /\ Placed /\ Refused
    BY <1>2, <1>3 DEF Idle, Faithful, Placed, Refused
<1>6. Answered
    BY <1>3 DEF Answered, Answer
<1>7. Kept
    BY <1>1 DEF Kept, Stray
<1>8. QED
    BY <1>4, <1>5, <1>6, <1>7 DEF IInv

-----------------------------------------------------------------------------
(* What holds of the facade *)

\* The inductive invariant holds in every state: every method is at one of its
\* places, whatever it made is in the care of a block, and its error is on its
\* way to the user.
THEOREM Invariant == Spec => []IInv
<1>1. Init => IInv
    BY InitHolds
<1>2. IInv /\ [Next]_vars => IInv'
    BY NextKeeps, StutterKeeps
<1>3. QED
    BY <1>1, <1>2, PTL DEF Spec

\* Whichever export of a method failed, and however full the arena was, the
\* finally blocks of the facade leave nothing behind but the buffer of a
\* configuration key, which operator makes before its try block.
THEOREM KeysAtMost == Spec => []OnlyKeysStay
<1>1. IInv => OnlyKeysStay
  <2>1. SUFFICES ASSUME IInv, ~job.running, NEW r \in Resources
                 PROVE  r.kind \in {"Other", "Task"} \/ (r.kind = "Buffer" /\ r.name = "key")
      BY Zenon DEF OnlyKeysStay
  <2>2. PICK s \in 1..Slots : r = arena[s] /\ r # Nil
      BY <2>1 DEF Resources
  <2>3. Stray(arena[s])
      BY <2>1, NothingHeld
  <2>4. QED
      BY <2>2, <2>3 DEF Stray
<1>2. QED
    BY <1>1, Invariant, PTL

\* An error has a kind.
LEMMA KindOfError ==
    ASSUME NEW e, e # "None"
    PROVE  kind(e) # "None"
BY DEF kind

\* takeLastError and takeError report the error of the export that failed, and
\* something else only when no slot was free for it or no memory.
THEOREM ErrorHonest == Spec => []ErrorIsTrue
<1>1. IInv => ErrorIsTrue
  <2> SUFFICES ASSUME IInv, ~job.running
               PROVE  /\ job.cause = "None" <=> job.reported = "None"
                      /\ job.reported \in {kind(job.cause), "ContractError", "None"}
                           \cup (IF job.blocked THEN {"Unexpected"} ELSE {})
      BY Zenon DEF ErrorIsTrue
  <2>1. CASE job.cause = "None"
    <3>1. job.reported = "None"
        BY <2>1 DEF IInv, Faithful
    <3>2. QED
        BY <2>1, <3>1
  <2>2. CASE job.cause # "None"
    <3>1. job.reported \in {kind(job.cause), "ContractError"}
                             \cup (IF job.blocked THEN {"Unexpected"} ELSE {})
        BY <2>2 DEF IInv, Faithful, OnItsWay
    <3>2. kind(job.cause) # "None"
        BY <2>2, KindOfError
    <3>3. QED
        BY <2>2, <3>1, <3>2
  <2>3. QED
      BY <2>1, <2>2
<1>2. QED
    BY <1>1, Invariant, PTL

\* An operator has exactly the configuration it was asked for, a listing every
\* entry once, a task every byte of its inputs, and each limit is applied
\* exactly, for every limit and every input.
THEOREM AnswersExact == Spec => []AnswerIsExact
<1>1. IInv => AnswerIsExact
  <2> SUFFICES ASSUME IInv, ~job.running PROVE AnswerIsExact
      BY Zenon DEF AnswerIsExact
  <2>1. job.steps = <<>>
      BY DEF IInv, Idle
  <2>2. job.cause = "None" => Answer
      BY <2>1 DEF IInv, Answered
  <2>3. job.what = "List" /\ job.cause = "ListTooLarge" => ~ListFits(job.asked)
      BY DEF IInv, Refused
  <2>4. QED
      BY <2>2, <2>3, Zenon DEF AnswerIsExact, Answer
<1>2. QED
    BY <1>1, Invariant, PTL
=============================================================================
