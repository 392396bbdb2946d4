------------------------ MODULE BrowserBridgeProofs ------------------------
(***************************************************************************)
(* The arena and the leases of the browser bridge for any number of slots   *)
(* and generations, and its refinement of one-time handles.                 *)
(***************************************************************************)
EXTENDS BrowserBridge, SequenceTheorems, FiniteSetTheorems,
        WellFoundedInduction, TLAPS

\* A set of naturals that has a member has a least one.
LEMMA LeastMember ==
    ASSUME NEW T \in SUBSET Nat, T # {}
    PROVE  \E x \in T : \A y \in T : x <= y
<1> DEFINE R == OpToRel(<, Nat)
<1>1. IsWellFoundedOn(R, Nat)
    BY NatLessThanWellFounded, Zenon
<1>2. \A x, y \in Nat : x < y => <<x, y>> \in R
    BY DEF OpToRel
<1> HIDE DEF R
<1>3. PICK x \in T : \A y \in T : ~(<<y, x>> \in R)
    BY <1>1, WFMin, Zenon
<1>4. ASSUME NEW y \in T PROVE x <= y
  <2>1. x \in Nat /\ y \in Nat /\ ~(y < x)
      BY <1>2, <1>3, <1>4
  <2>2. QED
      BY <2>1
<1>5. QED
    BY <1>4

USE ArenaAssumption

-----------------------------------------------------------------------------
(* Handles *)

\* A handle is taken apart as it was put together: no slot runs into the
\* generation above it.
LEMMA HandleParts ==
    ASSUME NEW i \in Nat, i <= 65535, NEW g \in Nat
    PROVE  /\ SlotOf(encode_handle(i, g)) = i
           /\ GenerationOf(encode_handle(i, g)) = g
<1> DEFINE h == g * 65536 + i
<1>1. h \in Nat
    OBVIOUS
<1>2. /\ h = 65536 * (h \div 65536) + (h % 65536)
      /\ h % 65536 \in Int /\ 0 <= h % 65536 /\ h % 65536 < 65536 /\ h \div 65536 \in Int
  <2> HIDE DEF h
  <2>1. QED
      BY <1>1
<1>3. ASSUME NEW q \in Int, NEW m \in Int, 0 <= m, m < 65536, g * 65536 + i = 65536 * q + m
      PROVE  q = g /\ m = i
    BY <1>3
<1>4. h \div 65536 = g /\ h % 65536 = i
    BY <1>2, <1>3
<1>5. QED
    BY <1>4 DEF SlotOf, GenerationOf, encode_handle

\* The parts of a handle, and that they determine it.
LEMMA HandleRange ==
    \A h \in Handles : /\ SlotOf(h) \in 1..MaxSlots /\ GenerationOf(h) \in 1..MaxGeneration
                       /\ h = encode_handle(SlotOf(h), GenerationOf(h))
                       /\ h \in Nat /\ h # 0
<1>1. SUFFICES ASSUME NEW i \in 1..MaxSlots, NEW g \in 1..MaxGeneration
      PROVE  LET h == encode_handle(i, g)
             IN /\ SlotOf(h) \in 1..MaxSlots /\ GenerationOf(h) \in 1..MaxGeneration
                /\ h = encode_handle(SlotOf(h), GenerationOf(h))
                /\ h \in Nat /\ h # 0
    BY DEF Handles
<1>2. i \in Nat /\ i <= 65535 /\ g \in Nat
    OBVIOUS
<1>3. SlotOf(encode_handle(i, g)) = i /\ GenerationOf(encode_handle(i, g)) = g
    BY <1>2, HandleParts
<1>4. encode_handle(i, g) \in Nat /\ encode_handle(i, g) # 0
    BY <1>2 DEF encode_handle
<1>5. QED
    BY <1>3, <1>4

\* Different handles that resolve are in different slots.
LEMMA OneHandlePerSlot ==
    ASSUME NEW s, NEW h \in Handles, NEW k \in Handles,
           Resolves(s, h), Resolves(s, k), SlotOf(h) = SlotOf(k)
    PROVE  h = k
BY HandleRange DEF Resolves

-----------------------------------------------------------------------------
(* The arena *)

Slot == [generation : 0 .. MaxGeneration, resource : Resources]

\* A vector of slots as the arena keeps it, and the slots in use.
Arena(s) ==
    /\ s \in Seq(Slot) /\ Len(s) <= MaxSlots
    /\ \A i \in DOMAIN s : s[i].resource # Empty => s[i].generation # 0

Occupied(s) == {i \in DOMAIN s : s[i].resource # Empty}

\* What resolves was not retired.
LEMMA PastIsGone ==
    ASSUME NEW s, Arena(s), NEW h \in Handles, Past(s, h)
    PROVE  ~Resolves(s, h)
BY HandleRange DEF Past, Resolves, Arena, Slot

\* Writing one slot.
LEMMA SlotUpdate ==
    ASSUME NEW s \in Seq(Slot), NEW n \in DOMAIN s, NEW e \in Slot
    PROVE  LET t == [s EXCEPT ![n] = e]
           IN /\ t \in Seq(Slot) /\ Len(t) = Len(s) /\ DOMAIN t = DOMAIN s
              /\ t[n] = e /\ \A i \in DOMAIN s : i # n => t[i] = s[i]
<1>1. n \in 1..Len(s) /\ DOMAIN s = 1..Len(s)
    BY LenProperties
<1>2. [s EXCEPT ![n] = e] \in Seq(Slot) /\ Len([s EXCEPT ![n] = e]) = Len(s)
    BY <1>1, ExceptSeq
<1>3. QED
    BY <1>1, <1>2

\* Two vectors that agree on the slot of a handle agree on the handle.
LEMMA SameSlot ==
    ASSUME NEW s, NEW t, DOMAIN s = DOMAIN t, NEW k, SlotOf(k) \in DOMAIN s,
           t[SlotOf(k)] = s[SlotOf(k)]
    PROVE  /\ Resolves(t, k) <=> Resolves(s, k)
           /\ Past(t, k) <=> Past(s, k)
           /\ At(t, k) = At(s, k)
BY DEF Resolves, Past, At

\* Replacing a resource changes that one resource, and no handle.
LEMMA PutArena ==
    ASSUME NEW s, Arena(s), NEW h \in Handles, Resolves(s, h),
           NEW r \in Resources, r # Empty
    PROVE  /\ Arena(Put(s, h, r)) /\ Occupied(Put(s, h, r)) = Occupied(s)
           /\ \A k \in Handles : Resolves(Put(s, h, r), k) <=> Resolves(s, k)
           /\ \A k \in Handles : Past(Put(s, h, r), k) <=> Past(s, k)
           /\ \A k \in Handles : Resolves(s, k) =>
                 At(Put(s, h, r), k) = IF k = h THEN r ELSE At(s, k)
<1> DEFINE n == SlotOf(h)  t == Put(s, h, r)  e == [s[n] EXCEPT !.resource = r]
<1>1. /\ n \in DOMAIN s /\ s \in Seq(Slot) /\ s[n] \in Slot
      /\ s[n].resource # Empty /\ s[n].generation # 0
    BY DEF Arena, Resolves
<1>2. e \in Slot /\ e.resource = r /\ e.generation = s[n].generation
    BY <1>1, SMTT(60) DEF Slot
<1>3. t = [s EXCEPT ![n] = e]
    BY DEF Put
<1> HIDE DEF n, t, e
<1>4. /\ t \in Seq(Slot) /\ Len(t) = Len(s) /\ DOMAIN t = DOMAIN s
      /\ t[n] = e /\ \A i \in DOMAIN s : i # n => t[i] = s[i]
    BY <1>1, <1>2, <1>3, SlotUpdate
<1>5. \A i \in DOMAIN s : /\ t[i].generation = s[i].generation
                          /\ t[i].resource # Empty <=> s[i].resource # Empty
    BY <1>1, <1>2, <1>4
<1>6. Arena(t)
    BY <1>4, <1>5 DEF Arena
<1>7. Occupied(t) = Occupied(s)
    BY <1>4, <1>5 DEF Occupied
<1>8. \A k \in Handles : Resolves(t, k) <=> Resolves(s, k)
    BY <1>4, <1>5 DEF Resolves
<1>9. \A k \in Handles : Past(t, k) <=> Past(s, k)
    BY <1>4, <1>5 DEF Past
<1>10. ASSUME NEW k \in Handles, Resolves(s, k)
      PROVE  At(t, k) = IF k = h THEN r ELSE At(s, k)
  <2>1. CASE k = h
      BY <1>2, <1>4, <2>1 DEF At, n
  <2>2. CASE k # h
    <3>1. SlotOf(k) # n /\ SlotOf(k) \in DOMAIN s
        BY <1>10, <2>2, OneHandlePerSlot DEF n, Resolves
    <3>2. QED
        BY <1>4, <2>2, <3>1 DEF At
  <2>3. QED
      BY <2>1, <2>2
<1>11. QED
    BY <1>6, <1>7, <1>8, <1>9, <1>10 DEF t

\* Taking a resource out retires its handle and no other.
LEMMA TakeArena ==
    ASSUME NEW s, Arena(s), NEW h \in Handles, Resolves(s, h)
    PROVE  /\ Arena(take(s, h)) /\ Occupied(take(s, h)) = Occupied(s) \ {SlotOf(h)}
           /\ SlotOf(h) \in Occupied(s)
           /\ \A k \in Handles : Resolves(take(s, h), k) <=> Resolves(s, k) /\ k # h
           /\ \A k \in Handles : Past(s, k) => Past(take(s, h), k)
           /\ Past(take(s, h), h)
           /\ \A k \in Handles : Resolves(s, k) /\ k # h => At(take(s, h), k) = At(s, k)
<1> DEFINE n == SlotOf(h)  t == take(s, h)  g == s[n].generation
           e == [generation |-> next_generation(g), resource |-> Empty]
<1>1. /\ n \in DOMAIN s /\ s \in Seq(Slot) /\ s[n] \in Slot
      /\ s[n].resource # Empty /\ g = GenerationOf(h) /\ g \in 1..MaxGeneration
    BY HandleRange DEF Arena, Resolves
<1>2. next_generation(g) \in 0..MaxGeneration /\ (next_generation(g) = 0 \/ g < next_generation(g))
    BY <1>1 DEF next_generation
<1>3. Empty \in Resources
    BY DEF Empty, Resources, NoLease, NoDone, Leases, Dones, States, StatefulKinds
<1>4. e \in Slot /\ e.resource = Empty /\ e.generation = next_generation(g)
    BY <1>2, <1>3 DEF Slot
<1>5. t = [s EXCEPT ![n] = e]
    BY DEF take
<1> HIDE DEF n, t, g, e
<1>6. /\ t \in Seq(Slot) /\ Len(t) = Len(s) /\ DOMAIN t = DOMAIN s
      /\ t[n] = e /\ \A i \in DOMAIN s : i # n => t[i] = s[i]
    BY <1>1, <1>4, <1>5, SlotUpdate
<1>7. Arena(t)
    BY <1>4, <1>6 DEF Arena
<1>8. Occupied(t) = Occupied(s) \ {n} /\ n \in Occupied(s)
    BY <1>1, <1>4, <1>6 DEF Occupied
<1>9. Past(t, h)
    BY <1>1, <1>2, <1>4, <1>6 DEF Past, n
<1>10. ASSUME NEW k \in Handles, SlotOf(k) # n, SlotOf(k) \in DOMAIN s
       PROVE  /\ Resolves(t, k) <=> Resolves(s, k)
              /\ Past(t, k) <=> Past(s, k)
              /\ At(t, k) = At(s, k)
    BY <1>6, <1>10, SameSlot
<1>11. ASSUME NEW k \in Handles, SlotOf(k) = n
       PROVE  /\ ~Resolves(t, k) /\ (Resolves(s, k) => k = h)
              /\ Past(s, k) => Past(t, k)
  <2>1. ~Resolves(t, k)
      BY <1>4, <1>6, <1>11 DEF Resolves
  <2>2. Resolves(s, k) => k = h
      BY <1>11, OneHandlePerSlot DEF n
  <2>3. Past(s, k) => Past(t, k)
      BY <1>1, <1>2, <1>4, <1>6, <1>11, HandleRange DEF Past, g
  <2>4. QED
      BY <2>1, <2>2, <2>3
<1>12. ASSUME NEW k \in Handles, SlotOf(k) \notin DOMAIN s
       PROVE  ~Resolves(t, k) /\ ~Resolves(s, k) /\ ~Past(s, k)
    BY <1>6, <1>12 DEF Resolves, Past
<1>13. SlotOf(h) = n
    BY DEF n
<1>14. \A k \in Handles : /\ Resolves(t, k) <=> Resolves(s, k) /\ k # h
                          /\ Past(s, k) => Past(t, k)
                          /\ Resolves(s, k) /\ k # h => At(t, k) = At(s, k)
    BY <1>10, <1>11, <1>12, <1>13
<1>15. QED
    BY <1>7, <1>8, <1>9, <1>13, <1>14 DEF t

\* The slot an insert uses is vacant, or the next one of the vector.
LEMMA InsertIndex ==
    ASSUME NEW s, Arena(s)
    PROVE  \/ insert_index(s) \in DOMAIN s /\ Vacant(s, insert_index(s))
           \/ insert_index(s) = Len(s) + 1 /\ \A i \in DOMAIN s : ~Vacant(s, i)
<1> DEFINE V == {i \in DOMAIN s : Vacant(s, i)}
<1>1. V \in SUBSET Nat
    BY DEF Arena
<1>2. CASE V = {}
    BY <1>2 DEF insert_index
<1>3. CASE V # {}
  <2>1. \E i \in V : \A j \in V : i <= j
    <3> HIDE DEF V
    <3>1. QED
        BY <1>1, <1>3, LeastMember
  <2>2. \E i \in DOMAIN s : Vacant(s, i) /\ \A j \in DOMAIN s : Vacant(s, j) => i <= j
      BY <2>1
  <2>3. insert_index(s) = CHOOSE i \in DOMAIN s :
            Vacant(s, i) /\ \A j \in DOMAIN s : Vacant(s, j) => i <= j
      BY <2>2 DEF insert_index
  <2>4. QED
      BY <2>2, <2>3
<1>4. QED
    BY <1>2, <1>3

\* An insert issues one handle, never issued before, for the new resource.
LEMMA InsertArena ==
    ASSUME NEW s, Arena(s), can_insert(s), NEW r \in Resources, r # Empty
    PROVE  LET t == insert(s, r)  new == inserted(s)
           IN /\ Arena(t) /\ new \in Handles /\ ~Known(s, new)
              /\ \E n \in Nat : n \notin Occupied(s) /\ Occupied(t) = Occupied(s) \cup {n}
              /\ \A k \in Handles : Resolves(t, k) <=> Resolves(s, k) \/ k = new
              /\ \A k \in Handles : Past(s, k) => Past(t, k)
              /\ At(t, new) = r
              /\ \A k \in Handles : Resolves(s, k) => At(t, k) = At(s, k)
<1> DEFINE n == insert_index(s)  t == insert(s, r)  new == inserted(s)
           g == IF n \in DOMAIN s THEN s[n].generation ELSE 1
           e == [generation |-> g, resource |-> r]
<1>1. /\ s \in Seq(Slot) /\ DOMAIN s = 1..Len(s) /\ Len(s) \in Nat /\ Len(s) <= MaxSlots
      /\ \A i \in DOMAIN s : s[i] \in Slot
    BY DEF Arena
<1>2. /\ n \in 1..MaxSlots /\ (n \in DOMAIN s \/ n = Len(s) + 1)
      /\ n \in DOMAIN s => s[n].resource = Empty /\ s[n].generation # 0
  <2>1. n = Len(s) + 1 => Len(s) < MaxSlots \/ n \in DOMAIN s
      BY <1>1, InsertIndex DEF can_insert
  <2>2. QED
      BY <1>1, <2>1, InsertIndex DEF Vacant
<1>3. g \in 1..MaxGeneration /\ e \in Slot /\ e.resource = r /\ e.generation = g
    BY <1>1, <1>2 DEF Slot
<1>4. /\ t \in Seq(Slot) /\ DOMAIN s \subseteq DOMAIN t /\ DOMAIN t = DOMAIN s \cup {n}
      /\ Len(t) <= MaxSlots /\ t[n] = e /\ \A i \in DOMAIN s : i # n => t[i] = s[i]
  <2>1. CASE n \in DOMAIN s
    <3>1. t = [s EXCEPT ![n] = [s[n] EXCEPT !.resource = r]]
        BY <2>1 DEF insert
    <3>2. [s[n] EXCEPT !.resource = r] = e
        BY <1>1, <2>1 DEF Slot
    <3> HIDE DEF n, t, e
    <3>3. /\ t \in Seq(Slot) /\ Len(t) = Len(s) /\ DOMAIN t = DOMAIN s
          /\ t[n] = e /\ \A i \in DOMAIN s : i # n => t[i] = s[i]
        BY <1>1, <1>3, <2>1, <3>1, <3>2, SlotUpdate, SMTT(60)
    <3>4. QED
        BY <1>1, <2>1, <3>3
  <2>2. CASE n \notin DOMAIN s
    <3>1. t = Append(s, e) /\ n = Len(s) + 1
        BY <1>2, <2>2 DEF insert
    <3> HIDE DEF n, t, e
    <3>2. QED
        BY <1>1, <1>2, <1>3, <3>1, AppendProperties
  <2>3. QED
      BY <2>1, <2>2
<1>5. /\ new = encode_handle(n, g) /\ new \in Handles /\ SlotOf(new) = n /\ GenerationOf(new) = g
  <2>1. new = encode_handle(n, g)
      BY DEF inserted
  <2> HIDE DEF n, g, new
  <2>2. n \in Nat /\ n <= 65535 /\ g \in Nat
      BY <1>2, <1>3
  <2>3. QED
      BY <1>2, <1>3, <2>1, <2>2, HandleParts DEF Handles
<1>6. n \in DOMAIN s => g = s[n].generation
    OBVIOUS
<1> HIDE DEF n, t, e, g, new
<1>7. Arena(t)
    BY <1>1, <1>3, <1>4 DEF Arena
<1>8. ~Known(s, new)
    BY <1>2, <1>3, <1>5, <1>6 DEF Known, Resolves, Past
<1>9. n \in Nat /\ n \notin Occupied(s) /\ Occupied(t) = Occupied(s) \cup {n}
    BY <1>2, <1>3, <1>4 DEF Occupied
<1>10. At(t, new) = r /\ Resolves(t, new)
    BY <1>3, <1>4, <1>5 DEF At, Resolves
<1>11. ASSUME NEW k \in Handles
       PROVE  /\ Resolves(t, k) <=> Resolves(s, k) \/ k = new
              /\ Past(s, k) => Past(t, k)
              /\ Resolves(s, k) => At(t, k) = At(s, k)
  <2>1. CASE SlotOf(k) = n
    <3>1. ~Resolves(s, k)
        BY <1>2, <2>1 DEF Resolves
    <3>2. Resolves(t, k) => k = new
        BY <1>5, <1>10, <2>1, OneHandlePerSlot
    <3>3. Past(s, k) => Past(t, k)
        BY <1>3, <1>4, <1>6, <2>1 DEF Past
    <3>4. QED
        BY <1>10, <3>1, <3>2, <3>3
  <2>2. CASE SlotOf(k) # n
    <3>1. k # new
        BY <1>5, <2>2
    <3>2. QED
        BY <1>4, <2>2, <3>1 DEF Resolves, Past, At
  <2>3. QED
      BY <2>1, <2>2
<1>12. QED
    BY <1>5, <1>7, <1>8, <1>9, <1>10, <1>11 DEF t, new

-----------------------------------------------------------------------------
(* The leases, over any vector of slots s, futures fs and last token n.  A   *)
(* step changes the arena in several places; X holds the task that is        *)
(* between its lease and its own slot.                                       *)

TaskIn(s, h, S) == Resolves(s, h) /\ At(s, h).kind = "Task" /\ At(s, h).st \in S
Leased(s, h)    == Resolves(s, h) /\ At(s, h).kind = "Task" /\ At(s, h).lease # NoLease

LeasesTyped(s, n, X) ==
    \A h \in Handles \ X : Leased(s, h) =>
        /\ At(s, h).lease.handle \in Handles /\ At(s, h).lease.kind \in StatefulKinds
        /\ At(s, h).lease.operation \in 1 .. n
        /\ Known(s, At(s, h).lease.handle)

LeasesDiffer(s, X) ==
    \A h, k \in Handles \ X :
        /\ Leased(s, h) /\ Leased(s, k)
        /\ At(s, h).lease.operation = At(s, k).lease.operation
        => h = k

PendingAwaited(s, fs, X) ==
    \A h \in Handles \ X : TaskIn(s, h, {"Pending"}) =>
        \E f \in fs : f.task = h /\ f.lease = At(s, h).lease

PendingBusy(s, X) ==
    \A h \in Handles \ X :
        TaskIn(s, h, {"Pending"}) /\ At(s, h).lease # NoLease /\ Resolves(s, At(s, h).lease.handle)
            => Holds(s, At(s, h).lease, {"Busy"})

FuturesOne(s, fs) ==
    \A f \in fs : f.lease # NoLease =>
        /\ f.lease.handle \in Handles /\ Known(s, f.lease.handle)
        /\ ~(Resolves(s, f.lease.handle) /\ At(s, f.lease.handle).st = "Open")
        /\ \A g \in fs : g.lease.handle = f.lease.handle => g = f

Good(s, fs, n, X) ==
    /\ Arena(s) /\ LeasesTyped(s, n, X) /\ LeasesDiffer(s, X)
    /\ PendingAwaited(s, fs, X) /\ PendingBusy(s, X) /\ FuturesOne(s, fs)

\* A resource without a lease to keep: no task, or one that is over.
Plain(r) == r.kind = "Task" => r.lease = NoLease /\ r.st # "Pending"

\* Taking any resource out breaks no lease.
LEMMA TakeGood ==
    ASSUME NEW s, NEW fs, NEW n, NEW h \in Handles, Good(s, fs, n, {h}), Resolves(s, h)
    PROVE  Good(take(s, h), fs, n, {})
<1> DEFINE t == take(s, h)
<1>1. /\ Arena(t) /\ \A k \in Handles : Resolves(t, k) <=> Resolves(s, k) /\ k # h
      /\ \A k \in Handles : Past(s, k) => Past(t, k)
      /\ Past(t, h)
      /\ \A k \in Handles : Resolves(s, k) /\ k # h => At(t, k) = At(s, k)
    BY TakeArena DEF Good
<1> HIDE DEF t
<1>2. \A k \in Handles : Known(s, k) => Known(t, k)
    BY <1>1 DEF Known
<1>3. \A k \in Handles : Resolves(t, k) => k \in Handles \ {h} /\ Resolves(s, k) /\ At(t, k) = At(s, k)
    BY <1>1
<1>4. LeasesTyped(t, n, {})
    BY <1>2, <1>3 DEF Good, LeasesTyped, Leased, TaskIn
<1>5. LeasesDiffer(t, {})
    BY <1>3 DEF Good, LeasesDiffer, Leased, TaskIn
<1>6. PendingAwaited(t, fs, {})
    BY <1>3 DEF Good, PendingAwaited, TaskIn
<1>7. PendingBusy(t, {})
  <2>1. SUFFICES ASSUME NEW k \in Handles, TaskIn(t, k, {"Pending"}), At(t, k).lease # NoLease,
                        Resolves(t, At(t, k).lease.handle)
        PROVE  Holds(t, At(t, k).lease, {"Busy"})
      BY DEF PendingBusy
  <2>2. k \in Handles \ {h} /\ At(t, k) = At(s, k) /\ TaskIn(s, k, {"Pending"}) /\ Leased(s, k)
      BY <1>3, <2>1 DEF TaskIn, Leased
  <2>3. At(s, k).lease.handle \in Handles
      BY <2>2 DEF Good, LeasesTyped
  <2>4. Holds(s, At(s, k).lease, {"Busy"})
      BY <1>3, <2>1, <2>2, <2>3 DEF Good, PendingBusy
  <2>5. QED
      BY <1>3, <2>1, <2>2, <2>3, <2>4 DEF Holds
<1>8. FuturesOne(t, fs)
    BY <1>2, <1>3 DEF Good, FuturesOne
<1>9. QED
    BY <1>1, <1>4, <1>5, <1>6, <1>7, <1>8 DEF Good, t

\* What holds with no task left out holds with one.
LEMMA GoodWithout ==
    ASSUME NEW s, NEW fs, NEW n, NEW X, Good(s, fs, n, {})
    PROVE  Good(s, fs, n, X)
BY DEF Good, LeasesTyped, LeasesDiffer, PendingAwaited, PendingBusy

\* Inserting a resource without a lease breaks none.
LEMMA InsertGood ==
    ASSUME NEW s, NEW fs, NEW n, Good(s, fs, n, {}), can_insert(s),
           NEW r \in Resources, r # Empty, Plain(r)
    PROVE  Good(insert(s, r), fs, n, {})
<1> DEFINE t == insert(s, r)  new == inserted(s)
<1>1. /\ Arena(t) /\ new \in Handles /\ ~Known(s, new)
      /\ \A k \in Handles : Resolves(t, k) <=> Resolves(s, k) \/ k = new
      /\ \A k \in Handles : Past(s, k) => Past(t, k)
      /\ At(t, new) = r
      /\ \A k \in Handles : Resolves(s, k) => At(t, k) = At(s, k)
    BY InsertArena DEF Good
<1> HIDE DEF t, new
<1>2. \A k \in Handles : Known(s, k) => Known(t, k) /\ k # new
    BY <1>1 DEF Known
<1>3. \A k \in Handles : Leased(t, k) => k # new
    BY <1>1 DEF Leased, Plain
<1>4. \A k \in Handles : TaskIn(t, k, {"Pending"}) => k # new
    BY <1>1 DEF TaskIn, Plain
<1>5. \A k \in Handles : Resolves(t, k) /\ k # new => Resolves(s, k) /\ At(t, k) = At(s, k)
    BY <1>1
<1>6. LeasesTyped(t, n, {})
    BY <1>2, <1>3, <1>5 DEF Good, LeasesTyped, Leased, TaskIn
<1>7. LeasesDiffer(t, {})
    BY <1>3, <1>5 DEF Good, LeasesDiffer, Leased, TaskIn
<1>8. PendingAwaited(t, fs, {})
    BY <1>3, <1>4, <1>5 DEF Good, PendingAwaited, TaskIn
<1>9. PendingBusy(t, {})
  <2>1. SUFFICES ASSUME NEW k \in Handles, TaskIn(t, k, {"Pending"}), At(t, k).lease # NoLease,
                        Resolves(t, At(t, k).lease.handle)
        PROVE  Holds(t, At(t, k).lease, {"Busy"})
      BY DEF PendingBusy
  <2>2. At(t, k) = At(s, k) /\ TaskIn(s, k, {"Pending"}) /\ Leased(s, k)
      BY <1>3, <1>4, <1>5, <2>1 DEF TaskIn, Leased
  <2>3. At(s, k).lease.handle \in Handles /\ At(s, k).lease.handle # new
      BY <1>2, <2>2 DEF Good, LeasesTyped
  <2>4. Holds(s, At(s, k).lease, {"Busy"})
      BY <1>5, <2>1, <2>2, <2>3 DEF Good, PendingBusy
  <2>5. QED
      BY <1>5, <2>1, <2>2, <2>3, <2>4 DEF Holds
<1>10. FuturesOne(t, fs)
    BY <1>2, <1>5 DEF Good, FuturesOne
<1>11. QED
    BY <1>1, <1>6, <1>7, <1>8, <1>9, <1>10 DEF Good, t

\* A task that is over keeps no lease, whoever holds its resource now.
LEMMA EndTaskGood ==
    ASSUME NEW s, NEW fs, NEW n, NEW h \in Handles, Good(s, fs, n, {h}),
           Resolves(s, h), At(s, h).kind = "Task",
           NEW r \in Resources, r # Empty, r.kind = "Task", r.st # "Open", Plain(r)
    PROVE  Good(Put(s, h, r), fs, n, {})
<1> DEFINE t == Put(s, h, r)
<1>1. /\ Arena(t) /\ \A k \in Handles : Resolves(t, k) <=> Resolves(s, k)
      /\ \A k \in Handles : Past(t, k) <=> Past(s, k)
      /\ \A k \in Handles : Resolves(s, k) => At(t, k) = IF k = h THEN r ELSE At(s, k)
    BY PutArena DEF Good
<1> HIDE DEF t
<1>2. \A k \in Handles : Known(s, k) => Known(t, k)
    BY <1>1 DEF Known
<1>3. \A k \in Handles : Leased(t, k) => k \in Handles \ {h}
    BY <1>1 DEF Leased, Plain
<1>4. \A k \in Handles : TaskIn(t, k, {"Pending"}) => k \in Handles \ {h}
    BY <1>1 DEF TaskIn, Plain
<1>5. \A k \in Handles : Resolves(t, k) /\ k # h => Resolves(s, k) /\ At(t, k) = At(s, k)
    BY <1>1
<1>6. LeasesTyped(t, n, {})
    BY <1>2, <1>3, <1>5 DEF Good, LeasesTyped, Leased, TaskIn
<1>7. LeasesDiffer(t, {})
    BY <1>3, <1>5 DEF Good, LeasesDiffer, Leased, TaskIn
<1>8. PendingAwaited(t, fs, {})
    BY <1>3, <1>4, <1>5 DEF Good, PendingAwaited, TaskIn
<1>9. PendingBusy(t, {})
  <2>1. SUFFICES ASSUME NEW k \in Handles, TaskIn(t, k, {"Pending"}), At(t, k).lease # NoLease,
                        Resolves(t, At(t, k).lease.handle)
        PROVE  Holds(t, At(t, k).lease, {"Busy"})
      BY DEF PendingBusy
  <2>2. /\ k \in Handles \ {h} /\ At(t, k) = At(s, k)
        /\ TaskIn(s, k, {"Pending"}) /\ Leased(s, k)
      BY <1>3, <1>4, <1>5, <2>1 DEF TaskIn, Leased
  <2>3. At(s, k).lease.handle \in Handles /\ At(s, k).lease.kind \in StatefulKinds
      BY <2>2 DEF Good, LeasesTyped
  <2>4. Holds(s, At(s, k).lease, {"Busy"})
      BY <1>1, <2>1, <2>2, <2>3 DEF Good, PendingBusy
  <2>5. At(s, k).lease.handle # h
      BY <2>3, <2>4 DEF Holds, StatefulKinds
  <2>6. QED
      BY <1>5, <2>1, <2>2, <2>3, <2>4, <2>5 DEF Holds
<1>10. FuturesOne(t, fs)
  <2>1. \A k \in Handles : Resolves(t, k) /\ At(t, k).st = "Open" =>
            Resolves(s, k) /\ At(s, k).st = "Open"
      BY <1>1
  <2>2. QED
      BY <1>2, <2>1 DEF Good, FuturesOne
<1>11. QED
    BY <1>1, <1>6, <1>7, <1>8, <1>9, <1>10 DEF Good, t

\* The resources the bridge writes are resources, and none is the empty one.
LEMMA EmptyType ==
    /\ Empty \in Resources /\ Empty.kind = "None" /\ Empty.lease = NoLease
    /\ NoLease \in Leases /\ NoDone \in Dones /\ NoLease.handle = 0
    /\ DOMAIN Empty = {"kind", "st", "op", "lease", "done"}
<1>1. NoLease \in Leases /\ NoDone \in Dones /\ NoLease.handle = 0
    BY DEF NoLease, NoDone, Leases, Dones, StatefulKinds
<1>2. "None" \in States
    BY DEF States
<1>3. QED
    BY <1>1, <1>2 DEF Empty, Resources

\* A value, a snapshot of an error.
LEMMA ValueType ==
    /\ Value \in Resources /\ Value # Empty /\ Plain(Value) /\ Value.kind = "Value"
    /\ Error \in Resources /\ Error # Empty /\ Plain(Error) /\ Error.kind = "Error"
<1>1. /\ Value = [kind |-> "Value", st |-> "None", op |-> 0, lease |-> NoLease, done |-> NoDone]
      /\ Error = [kind |-> "Error", st |-> "None", op |-> 0, lease |-> NoLease, done |-> NoDone]
    BY DEF Value, Error, Empty
<1>2. "None" \in States
    BY DEF States
<1>3. /\ Value \in Resources /\ Value.kind = "Value" /\ Error \in Resources /\ Error.kind = "Error"
    BY <1>1, <1>2, EmptyType DEF Resources
<1>4. QED
    BY <1>3, EmptyType DEF Plain

\* A stream, writer or lister.
LEMMA StatefulType ==
    ASSUME NEW kind \in StatefulKinds, NEW st \in States, NEW op \in Nat
    PROVE  LET r == Stateful(kind, st, op)
           IN r \in Resources /\ r # Empty /\ Plain(r) /\ r.kind = kind /\ r.st = st /\ r.op = op
<1> DEFINE r == Stateful(kind, st, op)
<1>0. r = [kind |-> kind, st |-> st, op |-> op, lease |-> NoLease, done |-> NoDone]
    BY DEF Stateful
<1>1. r \in Resources /\ r.kind = kind /\ r.st = st /\ r.op = op
  <2> HIDE DEF r
  <2>1. QED
      BY <1>0, EmptyType DEF Resources
<1> HIDE DEF r
<1>2. r.kind # "None" /\ r.kind # "Task"
    BY <1>1 DEF StatefulKinds
<1>3. r # Empty /\ Plain(r)
    BY <1>2, EmptyType DEF Plain
<1>4. QED
    BY <1>1, <1>3 DEF r

\* A task, whatever its lease and result.
LEMMA TaskType ==
    ASSUME NEW st \in States, NEW lease \in Leases, NEW done \in Dones
    PROVE  LET r == Task(st, lease, done)
           IN /\ r \in Resources /\ r # Empty /\ r.kind = "Task" /\ r.st = st
              /\ r.lease = lease /\ r.done = done
<1> DEFINE r == Task(st, lease, done)
<1>0. r = [kind |-> "Task", st |-> st, op |-> 0, lease |-> lease, done |-> done]
    BY DEF Task
<1>1. /\ r \in Resources /\ r.kind = "Task" /\ r.st = st /\ r.lease = lease /\ r.done = done
  <2> HIDE DEF r
  <2>1. QED
      BY <1>0 DEF Resources
<1> HIDE DEF r
<1>2. r # Empty
    BY <1>1, EmptyType
<1>3. QED
    BY <1>1, <1>2 DEF r

\* A completion.
LEMMA CompletionType ==
    ASSUME NEW done \in Dones
    PROVE  LET r == Completion(done)
           IN r \in Resources /\ r # Empty /\ Plain(r) /\ r.kind = "Completion"
<1> DEFINE r == Completion(done)
<1>0. r = [kind |-> "Completion", st |-> "None", op |-> 0, lease |-> NoLease, done |-> done]
    BY DEF Completion
<1>1. r \in Resources /\ r.kind = "Completion"
  <2> HIDE DEF r
  <2>1. "None" \in States
      BY DEF States
  <2>2. QED
      BY <1>0, <2>1, EmptyType DEF Resources
<1> HIDE DEF r
<1>2. r # Empty /\ Plain(r)
    BY <1>1, EmptyType DEF Plain
<1>3. QED
    BY <1>1, <1>2 DEF r

\* A resource whose lease is not that of any pending task may change, as long
\* as it is not offered again while a future holds it.
LEMMA WriteGood ==
    ASSUME NEW s, NEW fs, NEW n, NEW X, NEW gs, Good(s, fs, n, X),
           NEW w \in Handles, Resolves(s, w), At(s, w).kind \in StatefulKinds,
           NEW r \in Resources, r # Empty, r.kind \in StatefulKinds, gs \subseteq fs,
           NEW Y, X \subseteq Y,
           \A k \in Handles \ Y : TaskIn(s, k, {"Pending"}) =>
                \E f \in gs : f.task = k /\ f.lease = At(s, k).lease,
           \A k \in Handles \ Y : TaskIn(s, k, {"Pending"}) /\ At(s, k).lease # NoLease
                => At(s, k).lease.handle # w,
           r.st = "Open" => \A f \in gs : f.lease # NoLease => f.lease.handle # w
    PROVE  Good(Put(s, w, r), gs, n, Y)
<1> DEFINE t == Put(s, w, r)
<1>1. /\ Arena(t) /\ \A k \in Handles : Resolves(t, k) <=> Resolves(s, k)
      /\ \A k \in Handles : Past(t, k) <=> Past(s, k)
      /\ \A k \in Handles : Resolves(s, k) => At(t, k) = IF k = w THEN r ELSE At(s, k)
    BY PutArena DEF Good
<1> HIDE DEF t
<1>2. \A k \in Handles : Known(s, k) => Known(t, k)
    BY <1>1 DEF Known
<1>3. \A k \in Handles : Leased(t, k) => Leased(s, k) /\ At(t, k) = At(s, k)
    BY <1>1 DEF Leased, StatefulKinds
<1>4. \A k \in Handles : TaskIn(t, k, {"Pending"}) =>
          TaskIn(s, k, {"Pending"}) /\ At(t, k) = At(s, k)
    BY <1>1 DEF TaskIn, StatefulKinds
<1>5. LeasesTyped(t, n, Y)
    BY <1>2, <1>3 DEF Good, LeasesTyped
<1>6. LeasesDiffer(t, Y)
    BY <1>3 DEF Good, LeasesDiffer
<1>7. PendingAwaited(t, gs, Y)
    BY <1>4 DEF PendingAwaited
<1>8. PendingBusy(t, Y)
  <2>1. SUFFICES ASSUME NEW k \in Handles \ Y, TaskIn(t, k, {"Pending"}),
                        At(t, k).lease # NoLease, Resolves(t, At(t, k).lease.handle)
        PROVE  Holds(t, At(t, k).lease, {"Busy"})
      BY DEF PendingBusy
  <2>2. At(t, k) = At(s, k) /\ TaskIn(s, k, {"Pending"}) /\ Leased(s, k)
      BY <1>4, <2>1 DEF TaskIn, Leased
  <2>3. At(s, k).lease.handle \in Handles /\ At(s, k).lease.handle # w
      BY <2>2 DEF Good, LeasesTyped, Leased
  <2>4. Holds(s, At(s, k).lease, {"Busy"})
      BY <1>1, <2>1, <2>2, <2>3 DEF Good, PendingBusy
  <2>5. QED
      BY <1>1, <2>1, <2>2, <2>3, <2>4 DEF Holds
<1>9. FuturesOne(t, gs)
  <2>1. SUFFICES ASSUME NEW f \in gs, f.lease # NoLease
        PROVE  /\ f.lease.handle \in Handles /\ Known(t, f.lease.handle)
               /\ ~(Resolves(t, f.lease.handle) /\ At(t, f.lease.handle).st = "Open")
               /\ \A g \in gs : g.lease.handle = f.lease.handle => g = f
      BY DEF FuturesOne
  <2>2. /\ f.lease.handle \in Handles /\ Known(s, f.lease.handle)
        /\ ~(Resolves(s, f.lease.handle) /\ At(s, f.lease.handle).st = "Open")
        /\ \A g \in gs : g.lease.handle = f.lease.handle => g = f
      BY <2>1 DEF Good, FuturesOne
  <2>3. QED
      BY <1>1, <1>2, <2>1, <2>2
<1>10. QED
    BY <1>1, <1>5, <1>6, <1>7, <1>8, <1>9 DEF Good, t

\* terminalize_lease fails the resource of this task's lease and no other.
LEMMA TerminalizeGood ==
    ASSUME NEW s, NEW fs, NEW n, Good(s, fs, n, {}), NEW h \in Handles,
           Resolves(s, h), At(s, h).kind = "Task"
    PROVE  LET t == terminalize_lease(s, At(s, h).lease)
           IN /\ Good(t, fs, n, {h}) /\ Occupied(t) = Occupied(s)
              /\ \A k \in Handles : Resolves(t, k) <=> Resolves(s, k)
              /\ \A k \in Handles : Past(t, k) <=> Past(s, k)
              /\ At(t, h) = At(s, h)
              /\ \A k \in Handles : Resolves(s, k) =>
                    At(t, k) = At(s, k) \/ At(s, k).st \in {"Open", "Busy"}
<1> DEFINE lease == At(s, h).lease  w == lease.handle
           t == terminalize_lease(s, lease)  r == Stateful(lease.kind, "Failed", 0)
<1>1. CASE ~(lease # NoLease /\ Holds(s, lease, {"Open", "Busy"}))
  <2>1. t = s
      BY <1>1 DEF terminalize_lease
  <2>2. QED
      BY <2>1, GoodWithout
<1>2. CASE lease # NoLease /\ Holds(s, lease, {"Open", "Busy"})
  <2>1. t = Put(s, w, r)
      BY <1>2 DEF terminalize_lease
  <2>2. w \in Handles /\ lease.kind \in StatefulKinds
      BY <1>2 DEF Good, LeasesTyped, Leased
  <2>3. /\ Resolves(s, w) /\ At(s, w).kind \in StatefulKinds
        /\ At(s, w).st \in {"Open", "Busy"} /\ At(s, w).op = lease.operation
      BY <1>2, <2>2 DEF Holds
  <2>4. r \in Resources /\ r # Empty /\ r.kind \in StatefulKinds /\ r.st = "Failed"
    <3>1. "Failed" \in States /\ 0 \in Nat
        BY DEF States
    <3>2. QED
        BY <2>2, <3>1, StatefulType
  <2>5. ASSUME NEW k \in Handles \ {h}, TaskIn(s, k, {"Pending"}), At(s, k).lease # NoLease
        PROVE  At(s, k).lease.handle # w
    <3>1. SUFFICES ASSUME At(s, k).lease.handle = w PROVE FALSE
        OBVIOUS
    <3>2. Holds(s, At(s, k).lease, {"Busy"})
        BY <2>3, <2>5, <3>1 DEF Good, PendingBusy
    <3>3. At(s, k).lease.operation = lease.operation
        BY <2>3, <3>1, <3>2 DEF Holds
    <3>4. Leased(s, k) /\ Leased(s, h)
        BY <1>2, <2>5 DEF Leased, TaskIn
    <3>5. QED
        BY <3>3, <3>4 DEF Good, LeasesDiffer
  <2>6. \A k \in Handles \ {h} : TaskIn(s, k, {"Pending"}) =>
            \E f \in fs : f.task = k /\ f.lease = At(s, k).lease
      BY DEF Good, PendingAwaited
  <2> HIDE DEF w, r, t, lease
  <2>7. Good(Put(s, w, r), fs, n, {h})
      BY <2>2, <2>3, <2>4, <2>5, <2>6, WriteGood
  <2>8. /\ Occupied(Put(s, w, r)) = Occupied(s)
        /\ \A k \in Handles : Resolves(Put(s, w, r), k) <=> Resolves(s, k)
        /\ \A k \in Handles : Past(Put(s, w, r), k) <=> Past(s, k)
        /\ \A k \in Handles : Resolves(s, k) =>
              At(Put(s, w, r), k) = IF k = w THEN r ELSE At(s, k)
      BY <2>2, <2>3, <2>4, PutArena DEF Good
  <2>9. h # w
      BY <2>3 DEF StatefulKinds
  <2>10. QED
      BY <2>1, <2>3, <2>7, <2>8, <2>9 DEF t, lease
<1>3. QED
    BY <1>1, <1>2

-----------------------------------------------------------------------------
(* What a step does to the handles *)

Terminal == {"End", "Failed", "Finished", "Aborted"}

\* From s to t the handles gone are retired and the handles new are issued for
\* the first time; every other resource stays, and a terminal one as it is.
Moves(s, t, gone, new) ==
    /\ \A k \in Handles : Resolves(t, k) <=> (Resolves(s, k) /\ k \notin gone) \/ k \in new
    /\ \A k \in Handles : Past(s, k) \/ k \in gone => Past(t, k)
    /\ \A k \in new : ~Known(s, k)
    /\ \A k \in Handles : Resolves(s, k) /\ k \notin gone /\ At(s, k).st \in Terminal
          => At(t, k) = At(s, k)

Live(s) == Cardinality(Occupied(s))

\* The slots in use are finitely many.
LEMMA OccupiedFinite ==
    ASSUME NEW s, Arena(s)
    PROVE  IsFiniteSet(Occupied(s)) /\ Live(s) \in Nat
<1>1. Len(s) \in Nat /\ DOMAIN s = 1..Len(s)
    BY DEF Arena
<1>2. IsFiniteSet(1..Len(s))
    BY <1>1, FS_Interval
<1>3. Occupied(s) \in SUBSET (1..Len(s))
    BY <1>1 DEF Occupied
<1>4. IsFiniteSet(Occupied(s))
    BY <1>2, <1>3, FS_Subset
<1>5. QED
    BY <1>4, FS_CardinalityType DEF Live

\* Replacing a resource that is not terminal.
LEMMA PutMoves ==
    ASSUME NEW s, Arena(s), NEW h \in Handles, Resolves(s, h), At(s, h).st \notin Terminal,
           NEW r \in Resources, r # Empty
    PROVE  Moves(s, Put(s, h, r), {}, {}) /\ Live(Put(s, h, r)) = Live(s)
<1> DEFINE t == Put(s, h, r)
<1>1. /\ Occupied(t) = Occupied(s)
      /\ \A k \in Handles : Resolves(t, k) <=> Resolves(s, k)
      /\ \A k \in Handles : Past(t, k) <=> Past(s, k)
      /\ \A k \in Handles : Resolves(s, k) => At(t, k) = IF k = h THEN r ELSE At(s, k)
    BY PutArena
<1> HIDE DEF t
<1>2. QED
    BY <1>1 DEF Moves, Live, t

\* Taking one out.
LEMMA TakeMoves ==
    ASSUME NEW s, Arena(s), NEW h \in Handles, Resolves(s, h)
    PROVE  Moves(s, take(s, h), {h}, {}) /\ Live(take(s, h)) = Live(s) - 1
<1> DEFINE t == take(s, h)
<1>1. /\ Occupied(t) = Occupied(s) \ {SlotOf(h)} /\ SlotOf(h) \in Occupied(s)
      /\ \A k \in Handles : Resolves(t, k) <=> Resolves(s, k) /\ k # h
      /\ \A k \in Handles : Past(s, k) => Past(t, k)
      /\ Past(t, h)
      /\ \A k \in Handles : Resolves(s, k) /\ k # h => At(t, k) = At(s, k)
    BY TakeArena
<1> HIDE DEF t
<1>2. Moves(s, t, {h}, {})
    BY <1>1 DEF Moves
<1>3. IsFiniteSet(Occupied(s))
    BY OccupiedFinite
<1>4. Cardinality(Occupied(s) \ {SlotOf(h)}) = Cardinality(Occupied(s)) - 1
    BY <1>1, <1>3, FS_RemoveElement
<1>5. QED
    BY <1>1, <1>2, <1>4 DEF Live, t

\* Inserting one.
LEMMA InsertMoves ==
    ASSUME NEW s, Arena(s), can_insert(s), NEW r \in Resources, r # Empty
    PROVE  /\ Moves(s, insert(s, r), {}, {inserted(s)}) /\ inserted(s) \in Handles
           /\ Live(insert(s, r)) = Live(s) + 1
<1> DEFINE t == insert(s, r)  new == inserted(s)
<1>1. /\ new \in Handles /\ ~Known(s, new)
      /\ \E n \in Nat : n \notin Occupied(s) /\ Occupied(t) = Occupied(s) \cup {n}
      /\ \A k \in Handles : Resolves(t, k) <=> Resolves(s, k) \/ k = new
      /\ \A k \in Handles : Past(s, k) => Past(t, k)
      /\ \A k \in Handles : Resolves(s, k) => At(t, k) = At(s, k)
    BY InsertArena
<1> HIDE DEF t, new
<1>2. Moves(s, t, {}, {new})
    BY <1>1 DEF Moves
<1>3. PICK n \in Nat : n \notin Occupied(s) /\ Occupied(t) = Occupied(s) \cup {n}
    BY <1>1
<1>4. IsFiniteSet(Occupied(s))
    BY OccupiedFinite
<1>5. Cardinality(Occupied(s) \cup {n}) = Cardinality(Occupied(s)) + 1
    BY <1>3, <1>4, FS_AddElement
<1>6. QED
    BY <1>1, <1>2, <1>3, <1>5 DEF Live, t, new

\* One change of the arena after another.
LEMMA MovesCompose ==
    ASSUME NEW s, NEW t, NEW u, NEW A \in SUBSET Handles, NEW B \in SUBSET Handles,
           NEW C \in SUBSET Handles, Moves(s, t, A, {}), Moves(t, u, B, C)
    PROVE  Moves(s, u, A \cup B, C)
<1>1. \A k \in Handles : Resolves(u, k) <=> (Resolves(s, k) /\ k \notin A \cup B) \/ k \in C
    BY DEF Moves
<1>2. \A k \in Handles : Past(s, k) \/ k \in A \cup B => Past(u, k)
    BY DEF Moves
<1>3. \A k \in C : ~Known(s, k)
    BY DEF Moves, Known
<1>4. ASSUME NEW k \in Handles, Resolves(s, k), k \notin A \cup B, At(s, k).st \in Terminal
      PROVE  At(u, k) = At(s, k)
  <2>1. At(t, k) = At(s, k) /\ Resolves(t, k)
      BY <1>4 DEF Moves
  <2>2. QED
      BY <1>4, <2>1 DEF Moves
<1>5. QED
    BY <1>1, <1>2, <1>3, <1>4 DEF Moves

\* Whether there is room does not depend on what the resources are.
LEMMA PutRoom ==
    ASSUME NEW s, Arena(s), NEW h \in Handles, Resolves(s, h),
           NEW r \in Resources, r # Empty
    PROVE  can_insert(Put(s, h, r)) <=> can_insert(s)
<1> DEFINE n == SlotOf(h)  t == Put(s, h, r)  e == [s[n] EXCEPT !.resource = r]
<1>1. /\ n \in DOMAIN s /\ s \in Seq(Slot) /\ s[n] \in Slot
      /\ s[n].resource # Empty /\ s[n].generation # 0
    BY DEF Arena, Resolves
<1>2. e \in Slot /\ e.resource = r /\ e.generation = s[n].generation
    BY <1>1 DEF Slot
<1>3. t = [s EXCEPT ![n] = e]
    BY DEF Put
<1> HIDE DEF n, t, e
<1>4. /\ Len(t) = Len(s) /\ DOMAIN t = DOMAIN s
      /\ t[n] = e /\ \A i \in DOMAIN s : i # n => t[i] = s[i]
    BY <1>1, <1>2, <1>3, SlotUpdate
<1>5. \A i \in DOMAIN s : Vacant(t, i) <=> Vacant(s, i)
    BY <1>1, <1>2, <1>4 DEF Vacant
<1>6. QED
    BY <1>4, <1>5 DEF can_insert, t

\* ensure_insert_capacity_after_take: the slot that is freed can be used again,
\* or there was another.
LEMMA TakeRoom ==
    ASSUME NEW s, Arena(s), NEW h \in Handles, Resolves(s, h),
           ensure_insert_capacity_after_take(s, h)
    PROVE  can_insert(take(s, h))
<1> DEFINE n == SlotOf(h)  t == take(s, h)  g == s[n].generation
           e == [generation |-> next_generation(g), resource |-> Empty]
<1>1. /\ n \in DOMAIN s /\ s \in Seq(Slot) /\ s[n] \in Slot
      /\ s[n].resource # Empty /\ g = GenerationOf(h) /\ g \in 1..MaxGeneration
    BY HandleRange DEF Arena, Resolves
<1>2. next_generation(g) \in 0..MaxGeneration /\ (next_generation(g) = 0 <=> g = MaxGeneration)
    BY <1>1 DEF next_generation
<1>3. e \in Slot /\ e.resource = Empty /\ e.generation = next_generation(g)
    BY <1>2, EmptyType DEF Slot
<1>4. t = [s EXCEPT ![n] = e]
    BY DEF take
<1> HIDE DEF n, t, g, e
<1>5. /\ Len(t) = Len(s) /\ DOMAIN t = DOMAIN s
      /\ t[n] = e /\ \A i \in DOMAIN s : i # n => t[i] = s[i]
    BY <1>1, <1>3, <1>4, SlotUpdate
<1>6. CASE g = MaxGeneration
  <2>1. can_insert(s)
      BY <1>1, <1>6 DEF ensure_insert_capacity_after_take
  <2>2. \A i \in DOMAIN s : Vacant(s, i) => Vacant(t, i)
      BY <1>1, <1>5 DEF Vacant
  <2>3. QED
      BY <1>5, <2>1, <2>2 DEF can_insert, t
<1>7. CASE g # MaxGeneration
    BY <1>1, <1>2, <1>3, <1>5, <1>7 DEF can_insert, Vacant, t
<1>8. QED
    BY <1>6, <1>7

-----------------------------------------------------------------------------
(* Tasks begin and end *)

\* A task that is spawned comes with its future; its lease is on a resource
\* that is Busy under it and that no other future holds.
LEMMA SpawnGood ==
    ASSUME NEW s, NEW fs, NEW n \in Nat, NEW m \in Nat, n <= m, Good(s, fs, n, {}), can_insert(s),
           NEW lease \in Leases, NEW call,
           lease # NoLease =>
              /\ lease.handle \in Handles /\ lease.kind \in StatefulKinds
              /\ lease.operation \in 1 .. m /\ n < lease.operation
              /\ Holds(s, lease, {"Busy"})
              /\ \A f \in fs : f.lease # NoLease => f.lease.handle # lease.handle
    PROVE  Good(insert(s, Task("Pending", lease, NoDone)),
                fs \cup {[task |-> inserted(s), lease |-> lease, call |-> call]}, m, {})
<1> DEFINE r == Task("Pending", lease, NoDone)
           t == insert(s, r)  new == inserted(s)
           a == [task |-> new, lease |-> lease, call |-> call]  gs == fs \cup {a}
<1>1. /\ r \in Resources /\ r # Empty /\ r.kind = "Task" /\ r.st = "Pending" /\ r.lease = lease
  <2>1. "Pending" \in States /\ NoDone \in Dones
      BY EmptyType DEF States
  <2>2. QED
      BY <2>1, TaskType
<1> HIDE DEF r
<1>2. /\ Arena(t) /\ new \in Handles /\ ~Known(s, new)
      /\ \A k \in Handles : Resolves(t, k) <=> Resolves(s, k) \/ k = new
      /\ \A k \in Handles : Past(s, k) => Past(t, k)
      /\ At(t, new) = r
      /\ \A k \in Handles : Resolves(s, k) => At(t, k) = At(s, k)
    BY <1>1, InsertArena DEF Good
<1> HIDE DEF t, new
<1>3. \A k \in Handles : Known(s, k) => Known(t, k) /\ k # new
    BY <1>2 DEF Known
<1>4. \A k \in Handles : Resolves(t, k) /\ k # new => Resolves(s, k) /\ At(t, k) = At(s, k)
    BY <1>2
<1>5. a.task = new /\ a.lease = lease /\ a \in gs
    OBVIOUS
<1> HIDE DEF a
<1>6. LeasesTyped(t, m, {})
  <2>1. SUFFICES ASSUME NEW k \in Handles, Leased(t, k)
        PROVE  /\ At(t, k).lease.handle \in Handles /\ At(t, k).lease.kind \in StatefulKinds
               /\ At(t, k).lease.operation \in 1 .. m
               /\ Known(t, At(t, k).lease.handle)
      BY DEF LeasesTyped
  <2>2. CASE k = new
      BY <1>1, <1>2, <1>3, <2>1, <2>2 DEF Leased, Holds, Known
  <2>3. CASE k # new
    <3>1. Leased(s, k) /\ At(t, k) = At(s, k)
        BY <1>4, <2>1, <2>3 DEF Leased
    <3>2. /\ At(s, k).lease.handle \in Handles /\ At(s, k).lease.kind \in StatefulKinds
          /\ At(s, k).lease.operation \in 1 .. n /\ Known(s, At(s, k).lease.handle)
        BY <3>1 DEF Good, LeasesTyped
    <3>3. QED
        BY <1>3, <3>1, <3>2
  <2>4. QED
      BY <2>2, <2>3
<1>7. LeasesDiffer(t, {})
  <2>1. \A k \in Handles : Leased(t, k) /\ k # new => Leased(s, k) /\ At(t, k) = At(s, k)
      BY <1>4 DEF Leased
  <2>2. \A k \in Handles : Leased(t, k) /\ k # new => At(t, k).lease.operation <= n
    <3>1. \A k \in Handles : Leased(s, k) => At(s, k).lease.operation \in 1 .. n
        BY DEF Good, LeasesTyped
    <3>2. QED
        BY <2>1, <3>1
  <2>3. Leased(t, new) => At(t, new).lease.operation \in Nat /\ n < At(t, new).lease.operation
      BY <1>1, <1>2 DEF Leased
  <2>4. \A k \in Handles : Leased(t, k) /\ k # new => At(t, k).lease.operation \in Nat
    <3>1. \A k \in Handles : Leased(s, k) => At(s, k).lease.operation \in 1 .. n
        BY DEF Good, LeasesTyped
    <3>2. QED
        BY <2>1, <3>1
  <2>5. SUFFICES ASSUME NEW h \in Handles, NEW k \in Handles, Leased(t, h), Leased(t, k),
                        At(t, h).lease.operation = At(t, k).lease.operation
        PROVE  h = k
      BY DEF LeasesDiffer
  <2>6. CASE h # new /\ k # new
    <3>1. Leased(s, h) /\ Leased(s, k) /\ At(t, h) = At(s, h) /\ At(t, k) = At(s, k)
        BY <2>1, <2>5, <2>6
    <3>2. QED
        BY <2>5, <3>1 DEF Good, LeasesDiffer
  <2>7. CASE h = new
      BY <2>2, <2>3, <2>4, <2>5, <2>7
  <2>8. CASE k = new
      BY <2>2, <2>3, <2>4, <2>5, <2>8
  <2>9. QED
      BY <2>6, <2>7, <2>8
<1>8. PendingAwaited(t, gs, {})
  <2>1. SUFFICES ASSUME NEW k \in Handles, TaskIn(t, k, {"Pending"})
        PROVE  \E f \in gs : f.task = k /\ f.lease = At(t, k).lease
      BY DEF PendingAwaited
  <2>2. CASE k = new
      BY <1>1, <1>2, <1>5, <2>2
  <2>3. CASE k # new
    <3>1. TaskIn(s, k, {"Pending"}) /\ At(t, k) = At(s, k)
        BY <1>4, <2>1, <2>3 DEF TaskIn
    <3>2. QED
        BY <3>1 DEF Good, PendingAwaited
  <2>4. QED
      BY <2>2, <2>3
<1>9. PendingBusy(t, {})
  <2>1. SUFFICES ASSUME NEW k \in Handles, TaskIn(t, k, {"Pending"}), At(t, k).lease # NoLease,
                        Resolves(t, At(t, k).lease.handle)
        PROVE  Holds(t, At(t, k).lease, {"Busy"})
      BY DEF PendingBusy
  <2>2. CASE k = new
    <3>1. At(t, k).lease = lease /\ lease # NoLease /\ lease.handle \in Handles
        BY <1>1, <1>2, <2>1, <2>2
    <3>2. At(t, lease.handle) = At(s, lease.handle)
        BY <1>2, <3>1 DEF Holds
    <3>3. QED
        BY <2>1, <3>1, <3>2 DEF Holds
  <2>3. CASE k # new
    <3>1. At(t, k) = At(s, k) /\ TaskIn(s, k, {"Pending"}) /\ Leased(s, k)
        BY <1>4, <2>1, <2>3 DEF TaskIn, Leased
    <3>2. At(s, k).lease.handle \in Handles /\ At(s, k).lease.handle # new
        BY <1>3, <3>1 DEF Good, LeasesTyped
    <3>3. Holds(s, At(s, k).lease, {"Busy"})
        BY <1>4, <2>1, <3>1, <3>2 DEF Good, PendingBusy
    <3>4. QED
        BY <1>4, <2>1, <3>1, <3>2, <3>3 DEF Holds
  <2>4. QED
      BY <2>2, <2>3
<1>10. FuturesOne(t, gs)
  <2>1. SUFFICES ASSUME NEW f \in gs, f.lease # NoLease
        PROVE  /\ f.lease.handle \in Handles /\ Known(t, f.lease.handle)
               /\ ~(Resolves(t, f.lease.handle) /\ At(t, f.lease.handle).st = "Open")
               /\ \A g \in gs : g.lease.handle = f.lease.handle => g = f
      BY DEF FuturesOne
  <2>2. NoLease.handle = 0 /\ \A k \in Handles : k # 0
      BY EmptyType, HandleRange
  <2>3. CASE f \in fs
    <3>1. /\ f.lease.handle \in Handles /\ Known(s, f.lease.handle)
          /\ ~(Resolves(s, f.lease.handle) /\ At(s, f.lease.handle).st = "Open")
          /\ \A g \in fs : g.lease.handle = f.lease.handle => g = f
        BY <2>1, <2>3 DEF Good, FuturesOne
    <3>2. lease.handle # f.lease.handle
        BY <2>1, <2>2, <2>3, <3>1
    <3>3. QED
        BY <1>3, <1>4, <1>5, <3>1, <3>2
  <2>4. CASE f = a
    <3>1. f.lease = lease /\ lease # NoLease /\ lease.handle \in Handles
        BY <1>5, <2>1, <2>4
    <3>2. Resolves(s, lease.handle) /\ At(s, lease.handle).st = "Busy"
        BY <3>1 DEF Holds
    <3>3. Known(t, lease.handle) /\ At(t, lease.handle).st # "Open"
        BY <1>2, <1>3, <3>1, <3>2 DEF Known
    <3>4. \A g \in fs : g.lease.handle # lease.handle
        BY <2>2, <3>1
    <3>5. QED
        BY <2>4, <3>1, <3>3, <3>4
  <2>5. QED
      BY <2>3, <2>4
<1>11. QED
    BY <1>2, <1>6, <1>7, <1>8, <1>9, <1>10 DEF Good, t, r, new, a

\* The update a leased future publishes is a resource of the lease's kind.
LEMMA AfterType ==
    ASSUME NEW lease, lease.kind \in StatefulKinds, lease.operation \in Nat, NEW call, NEW out
    PROVE  LET r == After(lease, call, out)
           IN r \in Resources /\ r # Empty /\ r.kind \in StatefulKinds
<1> DEFINE st == CASE out = "Err" -> "Failed"
                   [] out = "End" -> "End"
                   [] call = "WriterFinish" -> "Finished"
                   [] call = "WriterAbort" -> "Aborted"
                   [] OTHER -> "Open"
           op == IF st = "Open" THEN lease.operation ELSE 0
<1>1. st \in States
    BY DEF States
<1>2. op \in Nat
    OBVIOUS
<1>3. After(lease, call, out) = Stateful(lease.kind, st, op)
    BY DEF After
<1> HIDE DEF st, op
<1>4. QED
    BY <1>1, <1>2, <1>3, StatefulType

\* A future nobody awaits may go.
LEMMA DropFutureGood ==
    ASSUME NEW s, NEW fs, NEW n, Good(s, fs, n, {}), NEW f \in fs,
           ~(TaskIn(s, f.task, {"Pending"}) /\ At(s, f.task).lease = f.lease)
    PROVE  Good(s, fs \ {f}, n, {})
<1>1. PendingAwaited(s, fs \ {f}, {})
  <2>1. SUFFICES ASSUME NEW k \in Handles, TaskIn(s, k, {"Pending"})
        PROVE  \E g \in fs \ {f} : g.task = k /\ g.lease = At(s, k).lease
      BY DEF PendingAwaited
  <2>2. PICK g \in fs : g.task = k /\ g.lease = At(s, k).lease
      BY <2>1 DEF Good, PendingAwaited
  <2>3. g # f
      BY <2>1, <2>2
  <2>4. QED
      BY <2>2, <2>3
<1>2. FuturesOne(s, fs \ {f})
    BY DEF Good, FuturesOne
<1>3. QED
    BY <1>1, <1>2 DEF Good

\* Handing the result to the task keeps its lease.
LEMMA ReadyGood ==
    ASSUME NEW s, NEW fs, NEW n, NEW h \in Handles, Good(s, fs, n, {h}),
           LeasesTyped(s, n, {}), LeasesDiffer(s, {}),
           Resolves(s, h), At(s, h).kind = "Task",
           NEW r \in Resources, r # Empty, r.kind = "Task", r.st = "Ready",
           r.lease = At(s, h).lease
    PROVE  Good(Put(s, h, r), fs, n, {})
<1> DEFINE t == Put(s, h, r)
<1>1. /\ Arena(t) /\ \A k \in Handles : Resolves(t, k) <=> Resolves(s, k)
      /\ \A k \in Handles : Past(t, k) <=> Past(s, k)
      /\ \A k \in Handles : Resolves(s, k) => At(t, k) = IF k = h THEN r ELSE At(s, k)
    BY PutArena DEF Good
<1> HIDE DEF t
<1>2. \A k \in Handles : Known(s, k) => Known(t, k)
    BY <1>1 DEF Known
<1>3. \A k \in Handles : Leased(t, k) => Leased(s, k) /\ At(t, k).lease = At(s, k).lease
    BY <1>1 DEF Leased
<1>4. \A k \in Handles : TaskIn(t, k, {"Pending"}) =>
          k \in Handles \ {h} /\ TaskIn(s, k, {"Pending"}) /\ At(t, k) = At(s, k)
    BY <1>1 DEF TaskIn
<1>5. LeasesTyped(t, n, {})
    BY <1>2, <1>3 DEF LeasesTyped
<1>6. LeasesDiffer(t, {})
    BY <1>3 DEF LeasesDiffer
<1>7. PendingAwaited(t, fs, {})
    BY <1>4 DEF Good, PendingAwaited
<1>8. PendingBusy(t, {})
  <2>1. SUFFICES ASSUME NEW k \in Handles, TaskIn(t, k, {"Pending"}), At(t, k).lease # NoLease,
                        Resolves(t, At(t, k).lease.handle)
        PROVE  Holds(t, At(t, k).lease, {"Busy"})
      BY DEF PendingBusy
  <2>2. /\ k \in Handles \ {h} /\ At(t, k) = At(s, k)
        /\ TaskIn(s, k, {"Pending"}) /\ Leased(s, k)
      BY <1>4, <2>1 DEF TaskIn, Leased
  <2>3. At(s, k).lease.handle \in Handles /\ At(s, k).lease.kind \in StatefulKinds
      BY <2>2 DEF LeasesTyped
  <2>4. Holds(s, At(s, k).lease, {"Busy"})
      BY <1>1, <2>1, <2>2, <2>3 DEF Good, PendingBusy
  <2>5. At(s, k).lease.handle # h
      BY <2>3, <2>4 DEF Holds, StatefulKinds
  <2>6. QED
      BY <1>1, <2>1, <2>2, <2>3, <2>4, <2>5 DEF Holds
<1>9. FuturesOne(t, fs)
  <2>1. \A k \in Handles : Resolves(t, k) /\ At(t, k).st = "Open" =>
            Resolves(s, k) /\ At(s, k).st = "Open"
      BY <1>1
  <2>2. QED
      BY <1>2, <2>1 DEF Good, FuturesOne
<1>10. QED
    BY <1>1, <1>5, <1>6, <1>7, <1>8, <1>9 DEF Good, t

\* The update of an awaited future: its resource, if it still is Busy under the
\* lease, and nothing that another task waits for.
LEMMA UpdatedGood ==
    ASSUME NEW n \in Nat, Good(slots, futures, n, {}), NEW f \in futures, f.task \in Handles,
           Awaited(f), NEW out
    PROVE  LET t == Updated(f, out)
           IN /\ Good(t, futures \ {f}, n, {f.task})
              /\ LeasesTyped(t, n, {}) /\ LeasesDiffer(t, {})
              /\ Moves(slots, t, {}, {}) /\ Live(t) = Live(slots)
              /\ Resolves(t, f.task) /\ At(t, f.task) = At(slots, f.task)
<1> DEFINE lease == f.lease  w == lease.handle  h == f.task  gs == futures \ {f}
           t == Updated(f, out)  r == After(lease, f.call, out)
<1>1. /\ Resolves(slots, h) /\ TaskIn(slots, h, {"Pending"}) /\ At(slots, h).kind = "Task"
      /\ At(slots, h).lease = lease
    BY DEF Awaited, IsTask, TaskIn
<1>2. \A k \in Handles \ {h} : TaskIn(slots, k, {"Pending"}) =>
          \E g \in gs : g.task = k /\ g.lease = At(slots, k).lease
  <2>1. SUFFICES ASSUME NEW k \in Handles \ {h}, TaskIn(slots, k, {"Pending"})
        PROVE  \E g \in gs : g.task = k /\ g.lease = At(slots, k).lease
      OBVIOUS
  <2>2. PICK g \in futures : g.task = k /\ g.lease = At(slots, k).lease
      BY <2>1 DEF Good, PendingAwaited
  <2>3. QED
      BY <2>1, <2>2
<1>3. CASE ~(lease # NoLease /\ Holds(slots, lease, {"Busy"}))
  <2>1. t = slots
      BY <1>3 DEF Updated
  <2>2. PendingAwaited(slots, gs, {h}) /\ FuturesOne(slots, gs)
      BY <1>2 DEF PendingAwaited, Good, FuturesOne
  <2>3. Good(slots, futures, n, {h})
      BY GoodWithout
  <2>4. Good(slots, gs, n, {h})
      BY <2>2, <2>3 DEF Good
  <2>5. Moves(slots, slots, {}, {})
      BY DEF Moves
  <2>6. QED
      BY <1>1, <2>1, <2>4, <2>5 DEF Good
<1>4. CASE lease # NoLease /\ Holds(slots, lease, {"Busy"})
  <2>1. t = Put(slots, w, r)
      BY <1>4 DEF Updated
  <2>2. /\ w \in Handles /\ lease.kind \in StatefulKinds /\ lease.operation \in 1 .. n
        /\ Leased(slots, h)
      BY <1>1, <1>4 DEF Good, LeasesTyped, Leased
  <2>3. /\ Resolves(slots, w) /\ At(slots, w).kind \in StatefulKinds
        /\ At(slots, w).st = "Busy" /\ At(slots, w).op = lease.operation
      BY <1>4, <2>2 DEF Holds
  <2>4. r \in Resources /\ r # Empty /\ r.kind \in StatefulKinds
    <3>1. lease.operation \in Nat
        BY <2>2
    <3>2. QED
        BY <2>2, <3>1, AfterType
  <2>5. ASSUME NEW k \in Handles \ {h}, TaskIn(slots, k, {"Pending"}), At(slots, k).lease # NoLease
        PROVE  At(slots, k).lease.handle # w
    <3>1. SUFFICES ASSUME At(slots, k).lease.handle = w PROVE FALSE
        OBVIOUS
    <3>2. Holds(slots, At(slots, k).lease, {"Busy"})
        BY <2>3, <2>5, <3>1 DEF Good, PendingBusy
    <3>3. At(slots, k).lease.operation = lease.operation
        BY <2>3, <3>1, <3>2 DEF Holds
    <3>4. Leased(slots, k)
        BY <2>5 DEF Leased, TaskIn
    <3>5. QED
        BY <1>1, <2>2, <3>3, <3>4 DEF Good, LeasesDiffer
  <2>6. \A g \in gs : g.lease # NoLease => g.lease.handle # w
      BY <1>4 DEF Good, FuturesOne
  <2> HIDE DEF w, r, t, lease, h, gs
  <2>7. Good(Put(slots, w, r), gs, n, {h})
    <3>1. gs \subseteq futures /\ {} \subseteq {h}
        BY DEF gs
    <3>2. QED
        BY <1>2, <2>2, <2>3, <2>4, <2>5, <2>6, <3>1, WriteGood
  <2>8. /\ \A k \in Handles : Resolves(Put(slots, w, r), k) <=> Resolves(slots, k)
        /\ \A k \in Handles : Past(Put(slots, w, r), k) <=> Past(slots, k)
        /\ \A k \in Handles : Resolves(slots, k) =>
              At(Put(slots, w, r), k) = IF k = w THEN r ELSE At(slots, k)
      BY <2>2, <2>3, <2>4, PutArena DEF Good
  <2>9. Moves(slots, Put(slots, w, r), {}, {}) /\ Live(Put(slots, w, r)) = Live(slots)
    <3>1. At(slots, w).st \notin Terminal
        BY <2>3 DEF Terminal
    <3>2. QED
        BY <2>2, <2>3, <2>4, <3>1, PutMoves DEF Good
  <2>10. \A k \in Handles : Leased(Put(slots, w, r), k) =>
            Leased(slots, k) /\ At(Put(slots, w, r), k) = At(slots, k)
      BY <2>4, <2>8 DEF Leased, StatefulKinds
  <2>11. \A k \in Handles : Known(slots, k) => Known(Put(slots, w, r), k)
      BY <2>8 DEF Known
  <2>12. LeasesTyped(Put(slots, w, r), n, {}) /\ LeasesDiffer(Put(slots, w, r), {})
      BY <2>10, <2>11 DEF Good, LeasesTyped, LeasesDiffer
  <2>13. h # w /\ h \in Handles
      BY <1>1, <2>3 DEF StatefulKinds, h
  <2>14. QED
      BY <1>1, <2>1, <2>7, <2>8, <2>9, <2>12, <2>13 DEF t, h, gs
<1>5. QED
    BY <1>3, <1>4

-----------------------------------------------------------------------------
(* The actions, while the bridge is up *)

HIDE ArenaAssumption

FutureType == [task : Handles, lease : Leases, call : Calls]

Running ==
    /\ Good(slots, futures, next_resource_operation, {})
    /\ torn_down = FALSE /\ live = Live(slots)
    /\ next_resource_operation \in 0 .. MaxOperation
    /\ futures \subseteq FutureType

\* A step that keeps the bridge running, retires gone and issues new.
Works(gone, new) ==
    /\ Running' /\ Moves(slots, slots', gone, new)
    /\ gone \subseteq Handles /\ new \subseteq Handles
    /\ \A k \in gone : Resolves(slots, k)
    /\ retired' = retired \cup gone

\* The invariant says so of the state.
LEMMA IsRunning ==
    ASSUME IInv, torn_down # TRUE
    PROVE  Running
<1>1. torn_down = FALSE
  <2>1. torn_down \in BOOLEAN
      BY DEF IInv, LeasesHold, TypeOK
  <2>2. QED
      BY <2>1, Zenon
<1>2. Arena(slots)
    BY DEF IInv, LeasesHold, TypeOK, ArenaInv, Arena, Slot
<1>3. /\ live = Live(slots) /\ next_resource_operation \in 0 .. MaxOperation
      /\ futures \subseteq FutureType
    BY DEF IInv, LeasesHold, TypeOK, LiveCount, Live, Occupied, FutureType
<1>4. LeasesTyped(slots, next_resource_operation, {}) /\ LeasesDiffer(slots, {})
    BY DEF IInv, TaskInv, HasLease, LeasesTyped, LeasesDiffer, Leased
<1>5. PendingAwaited(slots, futures, {})
    BY DEF IInv, TaskInv, IsTask, TaskIn, PendingAwaited
<1>6. PendingBusy(slots, {})
    BY DEF IInv, LeasesHold, PendingHoldsResource, PendingBusy, IsTask, TaskIn
<1>7. FuturesOne(slots, futures)
    BY <1>1 DEF IInv, LeasesHold, OneUpstream, FutureInv, FuturesOne
<1>8. QED
    BY <1>1, <1>2, <1>3, <1>4, <1>5, <1>6, <1>7 DEF Running, Good

\* ... and holds again after any step that works.
LEMMA WorksInv ==
    ASSUME IInv, torn_down = FALSE, NEW gone, NEW new, Works(gone, new)
    PROVE  IInv'
<1>1. /\ Good(slots', futures', next_resource_operation', {})
      /\ torn_down' = FALSE /\ live' = Live(slots')
      /\ next_resource_operation' \in 0 .. MaxOperation
      /\ futures' \subseteq FutureType
    BY DEF Works, Running
<1>2. Arena(slots')
    BY <1>1 DEF Good
<1>3. retired' \subseteq Handles /\ \A h \in retired' : Past(slots', h)
    BY DEF Works, Moves, IInv, LeasesHold, TypeOK, ArenaInv
<1>4. TypeOK'
  <2>1. live' \in Nat
      BY <1>1, <1>2, OccupiedFinite
  <2>2. torn_down' \in BOOLEAN
      BY <1>1, Zenon
  <2>3. slots' \in Seq([generation : 0 .. MaxGeneration, resource : Resources])
      BY <1>2 DEF Arena, Slot
  <2>4. Len(slots') <= MaxSlots
      BY <1>2 DEF Arena
  <2>5. futures' \subseteq [task : Handles, lease : Leases, call : Calls]
      BY <1>1 DEF FutureType
  <2>6. QED
      BY <1>1, <1>3, <2>1, <2>2, <2>3, <2>4, <2>5, Zenon DEF TypeOK
<1>5. LiveCount'
    BY <1>1 DEF LiveCount, Live, Occupied
<1>6. PendingHoldsResource'
    BY <1>1 DEF Good, PendingHoldsResource, PendingBusy, IsTask, TaskIn
<1>7. OneUpstream' /\ FutureInv'
    BY <1>1 DEF Good, OneUpstream, FutureInv, FuturesOne
<1>8. ArenaInv'
    BY <1>1, <1>2, <1>3 DEF ArenaInv, Arena
<1>9. TaskInv'
  <2>1. \A h \in Handles : HasLease(h)' <=> Leased(slots', h)
      BY DEF HasLease, Leased
  <2>2. \A h \in Handles : IsTask(h, {"Pending"})' <=> TaskIn(slots', h, {"Pending"})
      BY DEF IsTask, TaskIn
  <2>3. QED
      BY <1>1, <2>1, <2>2 DEF TaskInv, Good, LeasesTyped, LeasesDiffer, PendingAwaited
<1>10. QED
    BY <1>4, <1>5, <1>6, <1>7, <1>8, <1>9 DEF IInv, LeasesHold

\* insert_resource and last_error_take.
LEMMA InsertValueWorks ==
    ASSUME Running, NEW r \in {Value, Error}, InsertValue(r)
    PROVE  Works({}, {inserted(slots)})
<1>1. r \in Resources /\ r # Empty /\ Plain(r)
    BY ValueType
<1>2. Arena(slots) /\ can_insert(slots)
    BY DEF Running, Good, InsertValue
<1>3. Good(insert(slots, r), futures, next_resource_operation, {})
    BY <1>1, <1>2, InsertGood DEF Running
<1>4. /\ Moves(slots, insert(slots, r), {}, {inserted(slots)}) /\ inserted(slots) \in Handles
      /\ Live(insert(slots, r)) = Live(slots) + 1
    BY <1>1, <1>2, InsertMoves
<1>5. QED
    BY <1>3, <1>4 DEF Works, Running, InsertValue

\* release_resource.
LEMMA ReleaseWorks ==
    ASSUME Running, NEW h \in Handles, Release(h)
    PROVE  Works({h}, {})
<1>1. Arena(slots) /\ Resolves(slots, h)
    BY DEF Running, Good, Release
<1>2. Good(slots, futures, next_resource_operation, {h})
    BY GoodWithout DEF Running
<1>3. Good(take(slots, h), futures, next_resource_operation, {})
    BY <1>1, <1>2, TakeGood
<1>4. Moves(slots, take(slots, h), {h}, {}) /\ Live(take(slots, h)) = Live(slots) - 1
    BY <1>1, TakeMoves
<1>5. QED
    BY <1>1, <1>3, <1>4 DEF Works, Running, Release

\* Starting a task that works on no resource.
LEMMA StartWorks ==
    ASSUME Running, NEW call \in Calls, start_task(call)
    PROVE  Works({}, {inserted(slots)})
<1> DEFINE r == Task("Pending", NoLease, NoDone)
           a == [task |-> inserted(slots), lease |-> NoLease, call |-> call]
           n == next_resource_operation
<1>1. r \in Resources /\ r # Empty /\ NoLease \in Leases
  <2>1. "Pending" \in States /\ NoDone \in Dones /\ NoLease \in Leases
      BY EmptyType DEF States
  <2>2. QED
      BY <2>1, TaskType
<1>2. Arena(slots) /\ can_insert(slots) /\ n \in Nat /\ n <= n
    BY DEF Running, Good, start_task
<1> HIDE DEF r
<1>3. Good(insert(slots, Task("Pending", NoLease, NoDone)), futures \cup {a}, n, {})
  <2>1. ASSUME NEW lease \in Leases, lease = NoLease
        PROVE  Good(insert(slots, Task("Pending", lease, NoDone)),
                    futures \cup {[task |-> inserted(slots), lease |-> lease, call |-> call]}, n, {})
    <3>1. Good(slots, futures, n, {})
        BY DEF Running
    <3> HIDE DEF n
    <3>2. QED
        BY <1>2, <2>1, <3>1, SpawnGood
  <2>2. QED
      BY <1>1, <2>1
<1>4. /\ Moves(slots, insert(slots, r), {}, {inserted(slots)}) /\ inserted(slots) \in Handles
      /\ Live(insert(slots, r)) = Live(slots) + 1
    BY <1>1, <1>2, InsertMoves
<1>5. a \in FutureType
    BY <1>1, <1>4 DEF FutureType
<1>6. /\ slots' = insert(slots, r) /\ live' = live + 1 /\ futures' = futures \cup {a}
      /\ next_resource_operation' = n /\ torn_down' = torn_down /\ retired' = retired
    BY DEF start_task, Spawn, r
<1> HIDE DEF a
<1>7. QED
    BY <1>3, <1>4, <1>5, <1>6 DEF Works, Running, r

\* reserve_*: the resource becomes Busy under a new token, then the task begins.
LEMMA ReserveWorks ==
    ASSUME Running, NEW h \in Handles, NEW call \in LeasedCalls, Reserve(h, call)
    PROVE  \E new \in Handles : Works({}, {new})
<1> DEFINE n == next_resource_operation  op == n + 1
           lease == [handle |-> h, kind |-> KindOf(call), operation |-> op]
           b == Stateful(KindOf(call), "Busy", op)  busy == Put(slots, h, b)
           r == Task("Pending", lease, NoDone)  new == inserted(busy)
           a == [task |-> new, lease |-> lease, call |-> call]
<1>1. /\ Arena(slots) /\ can_insert(slots) /\ Resolves(slots, h) /\ n \in Nat /\ n < MaxOperation
      /\ At(slots, h).kind = KindOf(call) /\ At(slots, h).st = "Open" /\ op \in Nat
      /\ op \in 0 .. MaxOperation /\ n <= op /\ op \in 1 .. op /\ n < op
    BY ArenaAssumption DEF Running, Good, Reserve
<1>2. KindOf(call) \in StatefulKinds
    BY DEF KindOf, StatefulKinds
<1>3. b \in Resources /\ b # Empty /\ b.kind = KindOf(call) /\ b.st = "Busy" /\ b.op = op
  <2>1. "Busy" \in States
      BY DEF States
  <2>2. QED
      BY <1>1, <1>2, <2>1, StatefulType
<1>4. /\ lease \in Leases /\ lease.handle = h /\ lease.kind = KindOf(call) /\ lease.operation = op
    BY <1>1, <1>2, HandleRange DEF Leases
<1>5. r \in Resources /\ r # Empty
  <2>1. "Pending" \in States /\ NoDone \in Dones
      BY EmptyType DEF States
  <2>2. QED
      BY <1>4, <2>1, TaskType
<1>6. /\ slots' = insert(busy, Task("Pending", lease, NoDone)) /\ live' = live + 1
      /\ futures' = futures \cup {a} /\ next_resource_operation' = op
      /\ torn_down' = torn_down /\ retired' = retired
    BY DEF Reserve, Spawn
<1>7. a = [task |-> new, lease |-> lease, call |-> call]
    OBVIOUS
<1>8. busy = Put(slots, h, b) /\ new = inserted(busy) /\ r = Task("Pending", lease, NoDone)
    OBVIOUS
<1> HIDE DEF lease, b, busy, r, new, a, op
<1>9. \A f \in futures : f.lease # NoLease => f.lease.handle # h
    BY <1>1 DEF Running, Good, FuturesOne
<1>10. \A k \in Handles : TaskIn(slots, k, {"Pending"}) /\ At(slots, k).lease # NoLease =>
            At(slots, k).lease.handle # h
  <2>1. SUFFICES ASSUME NEW k \in Handles, TaskIn(slots, k, {"Pending"}),
                        At(slots, k).lease # NoLease, At(slots, k).lease.handle = h
        PROVE  FALSE
      OBVIOUS
  <2>2. Holds(slots, At(slots, k).lease, {"Busy"})
      BY <1>1, <2>1 DEF Running, Good, PendingBusy
  <2>3. QED
      BY <1>1, <2>1, <2>2 DEF Holds
<1>11. Good(busy, futures, n, {})
  <2>1. \A k \in Handles \ {} : TaskIn(slots, k, {"Pending"}) =>
            \E f \in futures : f.task = k /\ f.lease = At(slots, k).lease
      BY DEF Running, Good, PendingAwaited
  <2>2. /\ At(slots, h).kind \in StatefulKinds /\ b.kind \in StatefulKinds /\ b.st # "Open"
        /\ futures \subseteq futures /\ {} \subseteq {}
      BY <1>1, <1>2, <1>3
  <2>3. QED
      BY <1>1, <1>3, <1>8, <1>10, <2>1, <2>2, WriteGood DEF Running
<1>12. /\ \A k \in Handles : Resolves(busy, k) <=> Resolves(slots, k)
       /\ \A k \in Handles : Resolves(slots, k) => At(busy, k) = IF k = h THEN b ELSE At(slots, k)
    BY <1>1, <1>3, <1>8, PutArena
<1>13. can_insert(busy) /\ Arena(busy)
    BY <1>1, <1>3, <1>8, <1>11, PutRoom DEF Good
<1>14. Holds(busy, lease, {"Busy"})
    BY <1>1, <1>3, <1>4, <1>12 DEF Holds
<1>15. Good(slots', futures', op, {})
  <2>1. /\ lease.handle \in Handles /\ lease.kind \in StatefulKinds
        /\ lease.operation \in 1 .. op /\ n < lease.operation
      BY <1>1, <1>2, <1>4
  <2>2. \A f \in futures : f.lease # NoLease => f.lease.handle # lease.handle
      BY <1>4, <1>9
  <2>3. Good(insert(busy, Task("Pending", lease, NoDone)),
             futures \cup {[task |-> inserted(busy), lease |-> lease, call |-> call]}, op, {})
    <3>1. n \in Nat /\ op \in Nat /\ n <= op /\ lease \in Leases
        BY <1>1, <1>4
    <3> HIDE DEF n
    <3>2. QED
        BY <1>11, <1>13, <1>14, <2>1, <2>2, <3>1, SpawnGood
  <2>4. QED
      BY <1>6, <1>7, <1>8, <2>3
<1>16. Moves(slots, busy, {}, {}) /\ Live(busy) = Live(slots)
  <2>1. At(slots, h).st \notin Terminal
      BY <1>1 DEF Terminal
  <2>2. QED
      BY <1>1, <1>3, <1>8, <2>1, PutMoves
<1>17. /\ Moves(busy, slots', {}, {new}) /\ new \in Handles /\ Live(slots') = Live(busy) + 1
    BY <1>5, <1>6, <1>8, <1>13, InsertMoves
<1>18. Moves(slots, slots', {}, {new})
  <2>1. {} \in SUBSET Handles /\ {new} \in SUBSET Handles /\ {} \cup {} = {}
      BY <1>17
  <2>2. Moves(slots, slots', {} \cup {}, {new})
      BY <1>16, <1>17, <2>1, MovesCompose
  <2>3. QED
      BY <2>1, <2>2
<1>19. a \in FutureType
    BY <1>4, <1>7, <1>17 DEF FutureType, Calls
<1>20. Running'
    BY <1>1, <1>6, <1>15, <1>16, <1>17, <1>19 DEF Running
<1>21. QED
    BY <1>6, <1>17, <1>18, <1>20 DEF Works

\* A refused reserve only uses up a token.
LEMMA RefusedWorks ==
    ASSUME Running, NEW h, NEW call, ReserveRefused(h, call)
    PROVE  Works({}, {})
<1> DEFINE n == next_resource_operation
<1>1. /\ n \in Nat /\ n + 1 \in 0 .. MaxOperation /\ \A i \in 1 .. n : i \in 1 .. n + 1
    BY ArenaAssumption DEF Running, ReserveRefused
<1>2. /\ n' = n + 1 /\ slots' = slots /\ live' = live /\ torn_down' = torn_down
      /\ futures' = futures /\ retired' = retired
    BY DEF ReserveRefused
<1> HIDE DEF n
<1>3. Good(slots, futures, n, {})
    BY DEF Running, n
<1>4. LeasesTyped(slots, n + 1, {})
    BY <1>1, <1>3 DEF Good, LeasesTyped
<1>5. Good(slots, futures, n + 1, {})
    BY <1>3, <1>4 DEF Good
<1>6. Moves(slots, slots, {}, {})
    BY DEF Moves
<1>7. Running'
    BY <1>1, <1>2, <1>5 DEF Running, n
<1>8. QED
    BY <1>2, <1>6, <1>7 DEF Works

\* task_take: the task is consumed, and a completion inserted.
LEMMA TaskTakeWorks ==
    ASSUME Running, NEW h \in Handles, TaskTake(h)
    PROVE  \E new \in Handles : Works({}, {new})
<1> DEFINE r == Task("Consumed", NoLease, NoDone)  c == Completion(At(slots, h).done)
           t == Put(slots, h, r)  new == inserted(t)
<1>1. /\ Arena(slots) /\ can_insert(slots) /\ Resolves(slots, h)
      /\ At(slots, h).kind = "Task" /\ At(slots, h).st = "Ready"
    BY DEF Running, Good, TaskTake, IsTask
<1>2. /\ r \in Resources /\ r # Empty /\ r.kind = "Task" /\ r.st = "Consumed" /\ r.lease = NoLease
  <2>1. "Consumed" \in States /\ NoDone \in Dones /\ NoLease \in Leases
      BY EmptyType DEF States
  <2>2. QED
      BY <2>1, TaskType
<1>3. c \in Resources /\ c # Empty /\ Plain(c)
  <2>1. slots[SlotOf(h)] \in Slot
      BY <1>1 DEF Arena, Resolves
  <2>2. At(slots, h) \in Resources
      BY <2>1 DEF At, Slot
  <2>3. At(slots, h).done \in Dones
      BY <2>2 DEF Resources
  <2>4. QED
      BY <2>3, CompletionType
<1>4. /\ slots' = insert(t, c) /\ live' = live + 1
      /\ next_resource_operation' = next_resource_operation
      /\ torn_down' = torn_down /\ futures' = futures /\ retired' = retired
    BY DEF TaskTake
<1>5. t = Put(slots, h, r) /\ new = inserted(t)
    OBVIOUS
<1> HIDE DEF r, c, t, new
<1>6. Plain(r) /\ r.st # "Open"
    BY <1>2 DEF Plain
<1>7. Good(slots, futures, next_resource_operation, {h})
    BY GoodWithout DEF Running
<1>8. Good(t, futures, next_resource_operation, {})
    BY <1>1, <1>2, <1>5, <1>6, <1>7, EndTaskGood
<1>9. can_insert(t) /\ Arena(t)
    BY <1>1, <1>2, <1>5, <1>8, PutRoom DEF Good
<1>10. Good(slots', futures, next_resource_operation, {})
    BY <1>3, <1>4, <1>8, <1>9, InsertGood
<1>11. Moves(slots, t, {}, {}) /\ Live(t) = Live(slots)
  <2>1. At(slots, h).st \notin Terminal
      BY <1>1 DEF Terminal
  <2>2. QED
      BY <1>1, <1>2, <1>5, <2>1, PutMoves
<1>12. Moves(t, slots', {}, {new}) /\ new \in Handles /\ Live(slots') = Live(t) + 1
    BY <1>3, <1>4, <1>5, <1>9, InsertMoves
<1>13. Moves(slots, slots', {}, {new})
  <2>1. {} \in SUBSET Handles /\ {new} \in SUBSET Handles /\ {} \cup {} = {}
      BY <1>12
  <2>2. Moves(slots, slots', {} \cup {}, {new})
      BY <1>11, <1>12, <2>1, MovesCompose
  <2>3. QED
      BY <2>1, <2>2
<1>14. Running'
    BY <1>4, <1>10, <1>11, <1>12 DEF Running
<1>15. QED
    BY <1>4, <1>12, <1>13, <1>14 DEF Works

\* What terminalize_lease fails was Open or Busy, and no handle moves.
LEMMA TerminalizeMoves ==
    ASSUME Running, NEW h \in Handles, Resolves(slots, h), At(slots, h).kind = "Task"
    PROVE  LET t == terminalize_lease(slots, At(slots, h).lease)
           IN /\ Good(t, futures, next_resource_operation, {h})
              /\ Resolves(t, h) /\ At(t, h) = At(slots, h)
              /\ Moves(slots, t, {}, {}) /\ Live(t) = Live(slots)
<1> DEFINE t == terminalize_lease(slots, At(slots, h).lease)
<1>1. /\ Good(t, futures, next_resource_operation, {h}) /\ Occupied(t) = Occupied(slots)
      /\ \A k \in Handles : Resolves(t, k) <=> Resolves(slots, k)
      /\ \A k \in Handles : Past(t, k) <=> Past(slots, k)
      /\ At(t, h) = At(slots, h)
      /\ \A k \in Handles : Resolves(slots, k) =>
            At(t, k) = At(slots, k) \/ At(slots, k).st \in {"Open", "Busy"}
    BY TerminalizeGood DEF Running
<1> HIDE DEF t
<1>2. Moves(slots, t, {}, {})
    BY <1>1 DEF Moves, Terminal
<1>3. QED
    BY <1>1, <1>2 DEF Live, t

\* task_cancel: the leased resource fails, and the task is over.
LEMMA TaskCancelWorks ==
    ASSUME Running, NEW h \in Handles, TaskCancel(h)
    PROVE  Works({}, {})
<1> DEFINE r == Task("Cancelled", NoLease, NoDone)
           t == terminalize_lease(slots, At(slots, h).lease)
<1>1. /\ Resolves(slots, h) /\ At(slots, h).kind = "Task"
      /\ At(slots, h).st \in {"Pending", "Ready"}
    BY DEF TaskCancel, IsTask
<1>2. /\ r \in Resources /\ r # Empty /\ r.kind = "Task" /\ r.st = "Cancelled" /\ r.lease = NoLease
  <2>1. "Cancelled" \in States /\ NoDone \in Dones /\ NoLease \in Leases
      BY EmptyType DEF States
  <2>2. QED
      BY <2>1, TaskType
<1>3. /\ Good(t, futures, next_resource_operation, {h})
      /\ Resolves(t, h) /\ At(t, h) = At(slots, h)
      /\ Moves(slots, t, {}, {}) /\ Live(t) = Live(slots)
    BY <1>1, TerminalizeMoves
<1>4. /\ slots' = Put(t, h, r) /\ live' = live
      /\ next_resource_operation' = next_resource_operation
      /\ torn_down' = torn_down /\ futures' = futures /\ retired' = retired
    BY DEF TaskCancel
<1> HIDE DEF r, t
<1>5. Plain(r) /\ r.st # "Open"
    BY <1>2 DEF Plain
<1>6. Good(slots', futures, next_resource_operation, {})
    BY <1>1, <1>2, <1>3, <1>4, <1>5, EndTaskGood
<1>7. Moves(t, slots', {}, {}) /\ Live(slots') = Live(t)
  <2>1. At(t, h).st \notin Terminal /\ Arena(t)
      BY <1>1, <1>3 DEF Terminal, Good
  <2>2. QED
      BY <1>2, <1>3, <1>4, <2>1, PutMoves
<1>8. Moves(slots, slots', {}, {})
  <2>1. {} \in SUBSET Handles /\ {} \cup {} = {}
      OBVIOUS
  <2>2. Moves(slots, slots', {} \cup {}, {})
      BY <1>3, <1>7, <2>1, MovesCompose
  <2>3. QED
      BY <2>1, <2>2
<1>9. Running'
    BY <1>3, <1>4, <1>6, <1>7 DEF Running
<1>10. QED
    BY <1>4, <1>8, <1>9 DEF Works

\* task_release: the same, and the handle goes too.
LEMMA TaskReleaseWorks ==
    ASSUME Running, NEW h \in Handles, TaskRelease(h)
    PROVE  Works({h}, {})
<1> DEFINE t == terminalize_lease(slots, At(slots, h).lease)
<1>1. Resolves(slots, h) /\ At(slots, h).kind = "Task"
    BY DEF TaskRelease, IsTask
<1>2. /\ Good(t, futures, next_resource_operation, {h})
      /\ Resolves(t, h) /\ Moves(slots, t, {}, {}) /\ Live(t) = Live(slots)
    BY <1>1, TerminalizeMoves
<1>3. /\ slots' = take(t, h) /\ live' = live - 1
      /\ next_resource_operation' = next_resource_operation
      /\ torn_down' = torn_down /\ futures' = futures /\ retired' = retired \cup {h}
    BY DEF TaskRelease
<1> HIDE DEF t
<1>4. Good(slots', futures, next_resource_operation, {})
    BY <1>2, <1>3, TakeGood
<1>5. Moves(t, slots', {h}, {}) /\ Live(slots') = Live(t) - 1
  <2>1. Arena(t)
      BY <1>2 DEF Good
  <2>2. QED
      BY <1>2, <1>3, <2>1, TakeMoves
<1>6. Moves(slots, slots', {h}, {})
  <2>1. {} \in SUBSET Handles /\ {h} \in SUBSET Handles /\ {} \cup {h} = {h}
      OBVIOUS
  <2>2. Moves(slots, slots', {} \cup {h}, {})
      BY <1>2, <1>5, <2>1, MovesCompose
  <2>3. QED
      BY <2>1, <2>2
<1>7. Running'
    BY <1>2, <1>3, <1>4, <1>5 DEF Running
<1>8. QED
    BY <1>1, <1>3, <1>6, <1>7 DEF Works

\* A completion or an error that gives way to another resource is never lost
\* with it: the arena has room for the resource that replaces it.
LEMMA ExchangeWorks ==
    ASSUME Running, NEW h \in Handles, Resolves(slots, h), NEW r, Exchange(h, r),
           r # Empty => r \in Resources /\ Plain(r)
    PROVE  /\ \E new \in SUBSET Handles : Works({h}, new)
           /\ r # Empty => live' = live
<1> DEFINE t == take(slots, h)
<1>1. Arena(slots) /\ torn_down = FALSE
    BY DEF Running, Good
<1>2. Good(t, futures, next_resource_operation, {})
  <2>1. Good(slots, futures, next_resource_operation, {h})
      BY GoodWithout DEF Running
  <2>2. QED
      BY <2>1, TakeGood
<1>3. Moves(slots, t, {h}, {}) /\ Live(t) = Live(slots) - 1
    BY <1>1, TakeMoves
<1>4. r # Empty => can_insert(t)
    BY <1>1, TakeRoom DEF Exchange
<1>5. /\ next_resource_operation' = next_resource_operation
      /\ torn_down' = torn_down /\ futures' = futures /\ retired' = retired \cup {h}
    BY DEF Exchange
<1>6. /\ r # Empty => slots' = insert(t, r) /\ live' = live
      /\ r = Empty => slots' = t /\ live' = live - 1
    BY <1>1, <1>4 DEF Exchange
<1> HIDE DEF t
<1>7. CASE r = Empty
  <2>1. Running'
      BY <1>2, <1>3, <1>5, <1>6, <1>7 DEF Running
  <2>2. Works({h}, {})
      BY <1>3, <1>5, <1>6, <1>7, <2>1 DEF Works
  <2>3. QED
      BY <1>7, <2>2
<1>8. CASE r # Empty
  <2>1. r \in Resources /\ Plain(r) /\ Arena(t) /\ can_insert(t)
      BY <1>2, <1>4, <1>8 DEF Good
  <2>2. Good(slots', futures, next_resource_operation, {})
      BY <1>2, <1>6, <1>8, <2>1, InsertGood
  <2>3. /\ Moves(t, slots', {}, {inserted(t)}) /\ inserted(t) \in Handles
        /\ Live(slots') = Live(t) + 1
      BY <1>6, <1>8, <2>1, InsertMoves
  <2>4. Moves(slots, slots', {h}, {inserted(t)})
    <3>1. /\ {} \in SUBSET Handles /\ {h} \in SUBSET Handles /\ {inserted(t)} \in SUBSET Handles
          /\ {h} \cup {} = {h}
        BY <2>3
    <3>2. Moves(slots, slots', {h} \cup {}, {inserted(t)})
        BY <1>3, <2>3, <3>1, MovesCompose
    <3>3. QED
        BY <3>1, <3>2
  <2>5. Live(slots) \in Int /\ Live(slots') = Live(slots)
    <3>1. Live(slots) \in Nat
        BY <1>1, OccupiedFinite
    <3>2. QED
        BY <1>3, <2>3, <3>1
  <2>6. Running'
      BY <1>5, <1>6, <1>8, <2>2, <2>5 DEF Running
  <2>7. Works({h}, {inserted(t)}) /\ {inserted(t)} \in SUBSET Handles
      BY <1>5, <2>3, <2>4, <2>6 DEF Works
  <2>8. QED
      BY <1>6, <1>8, <2>7
<1>9. QED
    BY <1>7, <1>8

\* What a completion is exchanged for.
LEMMA YieldsType ==
    ASSUME NEW done
    PROVE  /\ done.out # "End" => Yields(done) # Empty
           /\ Yields(done) # Empty => Yields(done) \in Resources /\ Plain(Yields(done))
<1>1. "Open" \in States /\ 0 \in Nat
    BY DEF States
<1>2. \A kind \in StatefulKinds : LET r == Stateful(kind, "Open", 0)
                                  IN r \in Resources /\ r # Empty /\ Plain(r)
    BY <1>1, StatefulType
<1>3. \/ Yields(done) \in {Error, Value}
      \/ done.out = "End" /\ Yields(done) = Empty
      \/ \E kind \in StatefulKinds : Yields(done) = Stateful(kind, "Open", 0)
    BY DEF Yields, StatefulKinds
<1>4. QED
    BY <1>2, <1>3, ValueType

\* A future publishes: to its task and resource, or to nobody.
LEMMA PublishWorks ==
    ASSUME Running, NEW f \in futures, NEW out \in {"Ok", "End", "Err"}, Publish(f, out)
    PROVE  Works({}, {})
<1> DEFINE h == f.task  d == [call |-> f.call, out |-> out]
           r == Task("Ready", f.lease, d)  t == Updated(f, out)  n == next_resource_operation
<1>1. /\ live' = live /\ n' = n /\ torn_down' = torn_down /\ retired' = retired
      /\ futures' = futures \ {f}
    BY DEF Publish
<1>2. h \in Handles /\ f.lease \in Leases /\ f.call \in Calls
    BY DEF Running, FutureType
<1>3. Good(slots, futures, n, {}) /\ n \in Nat
    BY ArenaAssumption DEF Running
<1>4. CASE ~Awaited(f)
  <2>1. slots' = slots
      BY <1>4 DEF Publish
  <2>2. Good(slots, futures \ {f}, n, {})
    <3>1. ~(TaskIn(slots, f.task, {"Pending"}) /\ At(slots, f.task).lease = f.lease)
        BY <1>4 DEF Awaited, IsTask, TaskIn
    <3> HIDE DEF n
    <3>2. QED
        BY <1>3, <3>1, DropFutureGood
  <2>3. Moves(slots, slots, {}, {})
      BY DEF Moves
  <2>4. QED
      BY <1>1, <2>1, <2>2, <2>3 DEF Works, Running
<1>5. CASE Awaited(f)
  <2>1. slots' = Put(t, h, r)
      BY <1>5 DEF Publish
  <2>2. r \in Resources /\ r # Empty /\ r.kind = "Task" /\ r.st = "Ready" /\ r.lease = f.lease
    <3>1. "Ready" \in States /\ d \in Dones
        BY <1>2 DEF States, Dones
    <3>2. QED
        BY <1>2, <3>1, TaskType
  <2>3. At(slots, h).kind = "Task" /\ At(slots, h).st = "Pending" /\ At(slots, h).lease = f.lease
      BY <1>5 DEF Awaited, IsTask
  <2>4. /\ Good(t, futures \ {f}, n, {h}) /\ LeasesTyped(t, n, {}) /\ LeasesDiffer(t, {})
        /\ Moves(slots, t, {}, {}) /\ Live(t) = Live(slots)
        /\ Resolves(t, h) /\ At(t, h) = At(slots, h)
    <3> HIDE DEF n
    <3>1. QED
        BY <1>2, <1>3, <1>5, UpdatedGood
  <2> HIDE DEF r, t, h, n
  <2>5. Good(slots', futures \ {f}, n, {})
      BY <1>2, <2>1, <2>2, <2>3, <2>4, ReadyGood
  <2>6. Moves(t, slots', {}, {}) /\ Live(slots') = Live(t)
    <3>1. At(t, h).st \notin Terminal /\ Arena(t)
        BY <2>3, <2>4 DEF Terminal, Good
    <3>2. QED
        BY <1>2, <2>1, <2>2, <2>4, <3>1, PutMoves
  <2>7. Moves(slots, slots', {}, {})
    <3>1. {} \in SUBSET Handles /\ {} \cup {} = {}
        OBVIOUS
    <3>2. Moves(slots, slots', {} \cup {}, {})
        BY <2>4, <2>6, <3>1, MovesCompose
    <3>3. QED
        BY <3>1, <3>2
  <2>8. Running'
      BY <1>1, <2>4, <2>5, <2>6 DEF Running, n
  <2>9. QED
      BY <1>1, <2>7, <2>8 DEF Works
<1>6. QED
    BY <1>4, <1>5

-----------------------------------------------------------------------------
(* Every step *)

\* While the bridge is up a step tears it down or keeps it running.
LEMMA NextWorks ==
    ASSUME IInv, torn_down = FALSE, Next
    PROVE  Teardown \/ \E gone, new \in SUBSET Handles : Works(gone, new)
<1>0. Running
    BY IsRunning, Zenon
<1>1. ASSUME NEW r \in {Value, Error}, InsertValue(r)
      PROVE  Works({}, {inserted(slots)})
    BY <1>0, <1>1, InsertValueWorks
<1>2. ASSUME NEW call \in Calls, start_task(call)
      PROVE  Works({}, {inserted(slots)})
    BY <1>0, <1>2, StartWorks
<1>3. ASSUME NEW h \in Handles, AnswerStart(h)
      PROVE  Works({}, {inserted(slots)})
    BY <1>2, <1>3 DEF AnswerStart, Calls, LeasedCalls, WriterCalls
<1>4. ASSUME NEW h \in Handles, NEW call \in LeasedCalls, Reserve(h, call)
      PROVE  \E new \in Handles : Works({}, {new})
    BY <1>0, <1>4, ReserveWorks
<1>5. ASSUME NEW h \in Handles, NEW call, ReserveRefused(h, call)
      PROVE  Works({}, {})
    BY <1>0, <1>5, RefusedWorks
<1>6. ASSUME NEW h \in Handles, Release(h)
      PROVE  Works({h}, {})
    BY <1>0, <1>6, ReleaseWorks
<1>7. ASSUME NEW h \in Handles, TaskTake(h)
      PROVE  \E new \in Handles : Works({}, {new})
    BY <1>0, <1>7, TaskTakeWorks
<1>8. ASSUME NEW h \in Handles, TaskCancel(h)
      PROVE  Works({}, {})
    BY <1>0, <1>8, TaskCancelWorks
<1>9. ASSUME NEW h \in Handles, TaskRelease(h)
      PROVE  Works({h}, {})
    BY <1>0, <1>9, TaskReleaseWorks
<1>10. ASSUME NEW h \in Handles, CompletionTake(h)
       PROVE  \E new \in SUBSET Handles : Works({h}, new)
  <2>1. Resolves(slots, h) /\ Exchange(h, Yields(At(slots, h).done))
      BY <1>10 DEF CompletionTake
  <2>2. QED
      BY <1>0, <2>1, YieldsType, ExchangeWorks
<1>11. ASSUME NEW h \in Handles, ErrorSnapshotTake(h)
       PROVE  \E new \in SUBSET Handles : Works({h}, new)
  <2>1. Resolves(slots, h) /\ Exchange(h, Value)
      BY <1>11 DEF ErrorSnapshotTake
  <2>2. QED
      BY <1>0, <2>1, ValueType, ExchangeWorks
<1>12. ASSUME NEW h \in Handles, Completes(h)
       PROVE  Works({}, {})
    BY <1>0, <1>12, PublishWorks DEF Completes
<1>13. \A h \in Handles : {h} \in SUBSET Handles
    OBVIOUS
<1>14. CASE \E gone, new : Works(gone, new)
    BY <1>14 DEF Works
<1>15. QED
  <2>1. CASE \E h \in Handles : Completes(h)
      BY <1>12, <1>14, <2>1
  <2>2. CASE Export
    <3>1. CASE \E r \in {Value, Error} : InsertValue(r)
        BY <1>1, <1>14, <3>1
    <3>2. CASE \E call \in CallsInUse \cap TaskCalls : start_task(call)
        BY <1>2, <1>14, <3>2 DEF Calls
    <3>3. CASE \E h \in Handles, call \in CallsInUse \cap LeasedCalls :
                  Reserve(h, call) \/ ReserveRefused(h, call)
        BY <1>4, <1>5, <1>14, <3>3
    <3>4. CASE \E h \in Handles :
                  \/ Release(h) \/ AnswerStart(h)
                  \/ TaskTake(h) \/ TaskCancel(h) \/ TaskRelease(h)
                  \/ CompletionTake(h) \/ ErrorSnapshotTake(h)
        BY <1>3, <1>6, <1>7, <1>8, <1>9, <1>10, <1>11, <1>14, <3>4
    <3>5. QED
        BY <2>2, <3>1, <3>2, <3>3, <3>4 DEF Export
  <2>3. QED
      BY <2>1, <2>2 DEF Next

\* No handle resolves in a bridge that is torn down.
LEMMA NothingResolves ==
    \A h : ~Resolves(<<>>, h)
BY DEF Resolves

\* A torn down bridge only loses futures.
LEMMA NextWhenDown ==
    ASSUME IInv, torn_down = TRUE, Next
    PROVE  \/ Teardown
           \/ futures' \subseteq futures /\ UNCHANGED <<slots, live, next_resource_operation,
                                                       torn_down, retired>>
<1>1. slots = <<>>
    BY DEF IInv, ArenaInv
<1>2. \A h : ~Resolves(slots, h)
    BY <1>1, NothingResolves
<1>3. CASE Export
    BY <1>2, <1>3 DEF Export, InsertValue, start_task, Reserve, ReserveRefused, Release,
       AnswerStart, TaskTake, TaskCancel, TaskRelease, IsTask, CompletionTake, ErrorSnapshotTake
<1>4. ASSUME NEW h \in Handles, Completes(h)
      PROVE  futures' \subseteq futures /\ UNCHANGED <<slots, live, next_resource_operation,
                                                     torn_down, retired>>
    BY <1>2, <1>4 DEF Completes, Publish, Awaited, IsTask
<1>5. QED
    BY <1>3, <1>4 DEF Next

\* Teardown, and what comes after it.
LEMMA DownInv ==
    ASSUME IInv, torn_down' = TRUE, slots' = <<>>, live' = 0,
           futures' \subseteq futures, next_resource_operation' = next_resource_operation,
           retired' \subseteq Handles
    PROVE  IInv'
<1>1. \A h : ~Resolves(slots', h)
    BY NothingResolves
<1>2. TypeOK'
  <2>1. slots' \in Seq([generation : 0 .. MaxGeneration, resource : Resources]) /\ Len(slots') = 0
      OBVIOUS
  <2>2. Len(slots') <= MaxSlots
      BY <2>1, ArenaAssumption
  <2>3. /\ next_resource_operation' \in 0 .. MaxOperation
        /\ futures' \subseteq [task : Handles, lease : Leases, call : Calls]
      BY DEF IInv, LeasesHold, TypeOK
  <2>4. torn_down' \in BOOLEAN /\ live' \in Nat
    <3>1. torn_down' \in BOOLEAN
        BY Zenon
    <3>2. live' \in Nat
        OBVIOUS
    <3>3. QED
        BY <3>1, <3>2
  <2>5. QED
      BY <2>1, <2>2, <2>3, <2>4, Zenon DEF TypeOK
<1>3. LiveCount'
  <2>1. {i \in DOMAIN slots' : slots'[i].resource # Empty} = {}
      OBVIOUS
  <2>2. QED
      BY <2>1, FS_EmptySet DEF LiveCount
<1>4. PendingHoldsResource'
    BY <1>1 DEF PendingHoldsResource, IsTask
<1>5. OneUpstream'
    BY <1>1 DEF IInv, LeasesHold, OneUpstream
<1>6. ArenaInv' /\ TaskInv'
    BY <1>1 DEF ArenaInv, TaskInv, HasLease, IsTask
<1>7. FutureInv'
    BY DEF IInv, FutureInv
<1>8. QED
    BY <1>2, <1>3, <1>4, <1>5, <1>6, <1>7 DEF IInv, LeasesHold

\* The invariant is inductive.
LEMMA NextInv ==
    ASSUME IInv, [Next]_vars
    PROVE  IInv'
<1>1. CASE UNCHANGED vars
  <2>1. /\ slots' = slots /\ live' = live /\ next_resource_operation' = next_resource_operation
        /\ torn_down' = torn_down /\ futures' = futures /\ retired' = retired
      BY <1>1 DEF vars
  <2>2. QED
      BY <2>1 DEF IInv, LeasesHold, TypeOK, LiveCount, PendingHoldsResource, OneUpstream,
         ArenaInv, TaskInv, FutureInv, HasLease, IsTask
<1>2. CASE Teardown
  <2>1. /\ torn_down' = TRUE /\ slots' = <<>> /\ live' = 0 /\ futures' \subseteq futures
        /\ next_resource_operation' = next_resource_operation
        /\ retired' \subseteq Handles
      BY <1>2 DEF Teardown, IInv, LeasesHold, TypeOK
  <2>2. QED
      BY <2>1, DownInv
<1>3. CASE Next /\ torn_down = FALSE
    BY <1>2, <1>3, NextWorks, WorksInv
<1>4. CASE Next /\ torn_down = TRUE
  <2>1. CASE ~Teardown
    <3>1. /\ torn_down' = torn_down /\ slots' = slots /\ live' = live /\ futures' \subseteq futures
          /\ next_resource_operation' = next_resource_operation /\ retired' = retired
        BY <1>4, <2>1, NextWhenDown
    <3>2. slots = <<>>
        BY <1>4 DEF IInv, ArenaInv
    <3>3. live = 0
      <4>1. {i \in DOMAIN slots : slots[i].resource # Empty} = {}
          BY <3>2
      <4>2. QED
          BY <4>1, FS_EmptySet DEF IInv, LeasesHold, LiveCount
    <3>4. retired' \subseteq Handles
        BY <3>1 DEF IInv, LeasesHold, TypeOK
    <3>5. QED
        BY <1>4, <3>1, <3>2, <3>3, <3>4, DownInv
  <2>2. QED
      BY <1>2, <2>1
<1>5. torn_down = FALSE \/ torn_down = TRUE
  <2>1. torn_down \in BOOLEAN
      BY DEF IInv, LeasesHold, TypeOK
  <2>2. QED
      BY <2>1, Zenon
<1>6. QED
    BY <1>1, <1>3, <1>4, <1>5

\* The invariant holds of the bridge as it is created.
LEMMA InitInv == Init => IInv
<1> SUFFICES ASSUME Init PROVE IInv
    OBVIOUS
<1>1. slots = <<>> /\ live = 0 /\ next_resource_operation = 0 /\ torn_down = FALSE
      /\ futures = {} /\ retired = {}
    BY DEF Init
<1>2. \A h : ~Resolves(slots, h)
    BY <1>1, NothingResolves
<1>3. TypeOK
  <2>1. slots \in Seq([generation : 0 .. MaxGeneration, resource : Resources]) /\ Len(slots) = 0
      BY <1>1
  <2>2. Len(slots) <= MaxSlots /\ next_resource_operation \in 0 .. MaxOperation
      BY <1>1, <2>1, ArenaAssumption
  <2>3. torn_down \in BOOLEAN
      BY <1>1, Zenon
  <2>4. live \in Nat /\ futures \subseteq [task : Handles, lease : Leases, call : Calls]
        /\ retired \subseteq Handles
      BY <1>1
  <2>5. QED
      BY <2>1, <2>2, <2>3, <2>4, Zenon DEF TypeOK
<1>4. LiveCount
  <2>1. {i \in DOMAIN slots : slots[i].resource # Empty} = {}
      BY <1>1
  <2>2. QED
      BY <1>1, <2>1, FS_EmptySet DEF LiveCount
<1>5. PendingHoldsResource /\ OneUpstream /\ TaskInv /\ FutureInv
    BY <1>1, <1>2 DEF PendingHoldsResource, OneUpstream, TaskInv, FutureInv, IsTask, HasLease
<1>6. ArenaInv
    BY <1>1 DEF ArenaInv
<1>7. QED
    BY <1>3, <1>4, <1>5, <1>6 DEF IInv, LeasesHold

-----------------------------------------------------------------------------
(* Theorems *)

\* The inductive invariant holds, for any capacity and any calls of the host.
THEOREM Invariance == Spec => []IInv
<1>1. Init => IInv
    BY InitInv
<1>2. IInv /\ [Next]_vars => IInv'
    BY NextInv
<1>3. QED
    BY <1>1, <1>2, PTL DEF Spec

\* Every lease is between a task that will publish and a resource that is Busy
\* under it (reserve_*, publish_resource_task, terminalize_lease), no two
\* futures hold one cursor, and live_handle_count is right.
THEOREM LeasesAreExclusive == Spec => []LeasesHold
<1>1. IInv => LeasesHold
    BY DEF IInv
<1>2. QED
    BY <1>1, Invariance, PTL

\* The step of TerminalSticks.
LEMMA TerminalStep ==
    ASSUME IInv, [Next]_vars, NEW h \in Handles, Resolves(slots, h), Resolves(slots', h),
           At(slots, h).st \in {"End", "Failed", "Finished", "Aborted"}
    PROVE  At(slots', h) = At(slots, h)
<1>1. CASE UNCHANGED vars
    BY <1>1 DEF vars
<1>2. ~Teardown
    BY NothingResolves DEF Teardown
<1>3. torn_down = FALSE
  <2>1. torn_down \in BOOLEAN
      BY DEF IInv, LeasesHold, TypeOK
  <2>2. torn_down # TRUE
      BY NothingResolves DEF IInv, ArenaInv
  <2>3. QED
      BY <2>1, <2>2, Zenon
<1>4. CASE Next
  <2>1. PICK gone \in SUBSET Handles, new \in SUBSET Handles : Works(gone, new)
      BY <1>2, <1>3, <1>4, NextWorks
  <2>2. Arena(slots') /\ Moves(slots, slots', gone, new)
      BY <2>1 DEF Works, Running, Good
  <2>3. h \notin gone
    <3>1. h \in gone => Past(slots', h)
        BY <2>2 DEF Moves
    <3>2. QED
        BY <2>2, <3>1, ArenaAssumption, PastIsGone
  <2>4. QED
      BY <2>2, <2>3 DEF Moves, Terminal
<1>5. QED
    BY <1>1, <1>4

\* A terminal stream, writer or lister is never reopened nor failed again: late
\* publications and cancelled tasks leave it alone (publish_resource_task,
\* terminalize_lease).
THEOREM TerminalStays == Spec => TerminalSticks
<1> DEFINE Stays == \A h \in Handles :
          /\ Resolves(slots, h) /\ Resolves(slots', h)
          /\ At(slots, h).st \in {"End", "Failed", "Finished", "Aborted"}
          => At(slots', h) = At(slots, h)
<1>1. IInv /\ [Next]_vars => [Stays]_vars
    BY TerminalStep
<1>2. Spec => [][Stays]_vars
    BY <1>1, Invariance, PTL DEF Spec
<1>3. QED
    BY <1>2 DEF TerminalSticks

\* The step of ExchangeIsWhole: a handle that resolves finds the bridge up.
LEMMA ExchangeStep ==
    ASSUME IInv, NEW h \in Handles,
           \/ CompletionTake(h) /\ At(slots, h).done.out # "End"
           \/ ErrorSnapshotTake(h)
    PROVE  live' = live
<1>1. Resolves(slots, h)
    BY DEF CompletionTake, ErrorSnapshotTake
<1>2. torn_down # TRUE
    BY <1>1, NothingResolves DEF IInv, ArenaInv
<1>3. Running
    BY <1>2, IsRunning
<1>4. CASE CompletionTake(h) /\ At(slots, h).done.out # "End"
  <2>1. Exchange(h, Yields(At(slots, h).done)) /\ Yields(At(slots, h).done) # Empty
      BY <1>4, YieldsType DEF CompletionTake
  <2>2. QED
      BY <1>1, <1>3, <2>1, YieldsType, ExchangeWorks
<1>5. CASE ErrorSnapshotTake(h)
  <2>1. Exchange(h, Value)
      BY <1>5 DEF ErrorSnapshotTake
  <2>2. QED
      BY <1>1, <1>3, <2>1, ValueType, ExchangeWorks
<1>6. QED
    BY <1>4, <1>5

\* completion_take_* and error_snapshot_take never lose both the completion and
\* what replaces it: ensure_insert_capacity_after_take is enough.
THEOREM ExchangesAreWhole == Spec => ExchangeIsWhole
<1> DEFINE Whole == \A h \in Handles :
          \/ CompletionTake(h) /\ At(slots, h).done.out # "End"
          \/ ErrorSnapshotTake(h)
          => live' = live
<1>1. IInv => [Whole]_vars
    BY ExchangeStep
<1>2. Spec => [][Whole]_vars
    BY <1>1, Invariance, PTL
<1>3. QED
    BY <1>2 DEF ExchangeIsWhole

\* Every step is one of the table of one-time handles, or changes no handle.
LEMMA TableStep ==
    ASSUME IInv, [Next]_vars
    PROVE  [Table!Call \/ Table!Teardown]_(Table!vars)
<1> DEFINE L == {h \in Handles : Resolves(slots, h)}
<1>1. CASE UNCHANGED vars
    BY <1>1 DEF vars, Table!vars
<1>2. CASE Teardown
  <2>1. {h \in Handles : Resolves(slots', h)} = {}
      BY <1>2, NothingResolves DEF Teardown
  <2>2. Table!Teardown
      BY <1>2, <2>1 DEF Teardown, Table!Teardown
  <2>3. QED
      BY <2>2
<1>3. CASE Next /\ torn_down = TRUE /\ ~Teardown
  <2>1. UNCHANGED <<slots, torn_down, retired>>
      BY <1>3, NextWhenDown
  <2>2. QED
      BY <2>1 DEF Table!vars
<1>4. CASE Next /\ torn_down = FALSE /\ ~Teardown
  <2>1. PICK gone \in SUBSET Handles, new \in SUBSET Handles : Works(gone, new)
      BY <1>4, NextWorks
  <2>2. /\ Moves(slots, slots', gone, new) /\ \A k \in gone : Resolves(slots, k)
        /\ retired' = retired \cup gone /\ torn_down' = FALSE
      BY <2>1 DEF Works, Running
  <2>3. gone \in SUBSET L
      BY <2>2
  <2>4. new \in SUBSET (Handles \ (L \cup retired))
      BY <1>4, <2>2 DEF Moves, Known, IInv, ArenaInv
  <2>5. {h \in Handles : Resolves(slots', h)} = (L \ gone) \cup new
      BY <2>2 DEF Moves
  <2>6. Table!Call
      BY <1>4, <2>2, <2>3, <2>4, <2>5 DEF Table!Call
  <2>7. QED
      BY <2>6
<1>5. torn_down = FALSE \/ torn_down = TRUE
  <2>1. torn_down \in BOOLEAN
      BY DEF IInv, LeasesHold, TypeOK
  <2>2. QED
      BY <2>1, Zenon
<1>6. QED
    BY <1>1, <1>2, <1>3, <1>4, <1>5

\* Slots, generations and exchanges implement one-time handles: a handle that
\* was given up (Arena.take, teardown) never names a resource again.
THEOREM HandlesAreOneTime == Spec => ImplementsHandleTable
<1>1. Init => Table!Init
    BY NothingResolves DEF Init, Table!Init
<1>2. IInv /\ [Next]_vars => [Table!Call \/ Table!Teardown]_(Table!vars)
    BY TableStep
<1>3. QED
    BY <1>1, <1>2, Invariance, PTL DEF Spec, ImplementsHandleTable, Table!Spec
=============================================================================
