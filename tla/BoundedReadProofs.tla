------------------------- MODULE BoundedReadProofs -------------------------
(***************************************************************************)
(* The truth of a bounded read for every word, limit, object, range and     *)
(* sequence of buffers: IInv of BoundedRead is inductive.  The lemmas about *)
(* Bytes come first, then the two arithmetic facts about the growth of the  *)
(* output and about a resolved range, then one lemma per action.            *)
(***************************************************************************)
EXTENDS BoundedRead, SequenceTheorems, TLAPS

USE WordAssumption

Object == 0..MaxObject

-----------------------------------------------------------------------------
(* The bytes of the object *)

\* A stretch of the object is a sequence of its positions.
LEMMA BytesType ==
    \A a \in Nat : \A b \in Nat : a <= b /\ b <= MaxObject =>
        /\ Bytes(a, b) \in Seq(Object)
        /\ Len(Bytes(a, b)) = b - a
        /\ \A i \in 1..(b - a) : Bytes(a, b)[i] = a + i - 1
<1>1. SUFFICES ASSUME NEW a \in Nat, NEW b \in Nat, a <= b, b <= MaxObject
      PROVE  /\ Bytes(a, b) \in Seq(Object)
             /\ Len(Bytes(a, b)) = b - a
             /\ \A i \in 1..(b - a) : Bytes(a, b)[i] = a + i - 1
    OBVIOUS
<1> DEFINE n == b - a
<1>2. (IF a < b THEN b - a ELSE 0) = n
    BY <1>1
<1>3. n \in Nat /\ \A i \in 1..n : a + i - 1 \in Object
    BY <1>1 DEF Object
<1>4. Bytes(a, b) = [i \in 1..n |-> a + i - 1]
    BY <1>2 DEF Bytes
<1> HIDE DEF n
<1>5. [i \in 1..n |-> a + i - 1] \in Seq(Object)
    BY <1>3, IsASeq
<1>6. Len([i \in 1..n |-> a + i - 1]) = n
    BY <1>3
<1>7. /\ Bytes(a, b) \in Seq(Object) /\ Len(Bytes(a, b)) = n
      /\ \A i \in 1..n : Bytes(a, b)[i] = a + i - 1
    BY <1>3, <1>4, <1>5, <1>6
<1>8. QED
    BY <1>7 DEF n

\* An empty stretch is no bytes.
LEMMA NoBytes ==
    ASSUME NEW a \in Nat, a <= MaxObject
    PROVE  Bytes(a, a) = <<>>
<1>1. Bytes(a, a) \in Seq(Object) /\ Len(Bytes(a, a)) = 0
    BY BytesType
<1>2. QED
    BY <1>1, EmptySeq

\* Adjacent stretches make one stretch.
LEMMA BytesConcat ==
    ASSUME NEW a \in Nat, NEW b \in Nat, NEW c \in Nat, a <= b, b <= c, c <= MaxObject
    PROVE  Bytes(a, b) \o Bytes(b, c) = Bytes(a, c)
<1> DEFINE s == Bytes(a, b)  t == Bytes(b, c)  u == Bytes(a, c)
<1>1. /\ s \in Seq(Object) /\ Len(s) = b - a
      /\ \A i \in 1..(b - a) : s[i] = a + i - 1
    BY BytesType
<1>2. /\ t \in Seq(Object) /\ Len(t) = c - b
      /\ \A i \in 1..(c - b) : t[i] = b + i - 1
    BY BytesType
<1>3. /\ u \in Seq(Object) /\ Len(u) = c - a
      /\ \A i \in 1..(c - a) : u[i] = a + i - 1
    BY BytesType
<1> HIDE DEF s, t, u
<1>4. /\ s \o t \in Seq(Object) /\ Len(s \o t) = Len(s) + Len(t)
      /\ \A i \in 1..(Len(s) + Len(t)) :
            (s \o t)[i] = IF i <= Len(s) THEN s[i] ELSE t[i - Len(s)]
    BY <1>1, <1>2, ConcatProperties
<1>5. Len(s \o t) = Len(u)
    BY <1>1, <1>2, <1>3, <1>4
<1>6. ASSUME NEW i \in 1..Len(s \o t)
      PROVE  (s \o t)[i] = u[i]
    BY <1>1, <1>2, <1>3, <1>4, SMTT(60)
<1>7. s \o t = u
    BY <1>3, <1>4, <1>5, <1>6, SeqEqual
<1>8. QED
    BY <1>7 DEF s, t, u

\* A beginning of a stretch is a stretch.
LEMMA BytesPrefix ==
    ASSUME NEW a \in Nat, NEW b \in Nat, a <= b, b <= MaxObject,
           NEW s \in Seq(Object), NEW t \in Seq(Object), s \o t = Bytes(a, b)
    PROVE  s = Bytes(a, a + Len(s))
<1> DEFINE u == Bytes(a, b)
<1>1. /\ u \in Seq(Object) /\ Len(u) = b - a
      /\ \A i \in 1..(b - a) : u[i] = a + i - 1
    BY BytesType
<1>2. /\ Len(s \o t) = Len(s) + Len(t) /\ Len(s) \in Nat /\ Len(t) \in Nat
      /\ \A i \in 1..(Len(s) + Len(t)) :
            (s \o t)[i] = IF i <= Len(s) THEN s[i] ELSE t[i - Len(s)]
    BY ConcatProperties, LenProperties
<1> DEFINE e == a + Len(s)
<1>3. e \in Nat /\ a <= e /\ e <= MaxObject /\ e - a = Len(s)
    BY <1>1, <1>2
<1> DEFINE v == Bytes(a, e)
<1>4. /\ v \in Seq(Object) /\ Len(v) = Len(s)
      /\ \A i \in 1..Len(s) : v[i] = a + i - 1
  <2> HIDE DEF e
  <2>1. /\ Bytes(a, e) \in Seq(Object) /\ Len(Bytes(a, e)) = e - a
        /\ \A i \in 1..(e - a) : Bytes(a, e)[i] = a + i - 1
      BY <1>3, BytesType
  <2>2. QED
      BY <1>3, <2>1
<1> HIDE DEF u, v
<1>5. ASSUME NEW i \in 1..Len(s)
      PROVE  s[i] = v[i]
    BY <1>1, <1>2, <1>4 DEF u
<1>6. s = v
    BY <1>4, <1>5, SeqEqual
<1>7. QED
    BY <1>6 DEF v

\* Appending to the output can be regrouped.
LEMMA BytesAssociative ==
    \A s, t, u \in Seq(Object) : (s \o t) \o u = s \o (t \o u)
BY ConcatAssociative, SMTT(60)

\* Splitting a buffer loses nothing, and its first part has at most chunk bytes.
LEMMA SplitWhole ==
    ASSUME NEW s \in Seq(Object), NEW chunk \in Nat
    PROVE  /\ Split(s, chunk).chunk \in Seq(Object)
           /\ Split(s, chunk).rest \in Seq(Object)
           /\ Split(s, chunk).chunk \o Split(s, chunk).rest = s
           /\ Len(Split(s, chunk).chunk) <= chunk
<1> DEFINE k == Least(Len(s), chunk)
<1>1. k \in 0..Len(s) /\ k <= chunk /\ Len(s) \in Nat
    BY LenProperties DEF Least
<1>2. /\ Split(s, chunk).chunk = SubSeq(s, 1, k)
      /\ Split(s, chunk).rest = SubSeq(s, k + 1, Len(s))
    BY DEF Split
<1> HIDE DEF k
<1>3. \A i \in 1..Len(s) : s[i] \in Object
    BY ElementOfSeq
<1>4. SubSeq(s, 1, k) \in Seq(Object) /\ Len(SubSeq(s, 1, k)) = k
    BY <1>1, <1>3, SubSeqProperties
<1>5. SubSeq(s, k + 1, Len(s)) \in Seq(Object)
    BY <1>1, <1>3, SubSeqProperties
<1>6. SubSeq(s, 1, k) \o SubSeq(s, k + 1, Len(s)) = SubSeq(s, 1, Len(s))
  <2>1. 1 \in 1..(Len(s) + 1) /\ k \in (1 - 1)..Len(s) /\ Len(s) \in k..Len(s)
      BY <1>1
  <2>2. QED
      BY <2>1, ConcatAdjacentSubSeq
<1>7. SubSeq(s, 1, Len(s)) = s
    BY SubSeqFull
<1>8. QED
    BY <1>1, <1>2, <1>4, <1>5, <1>6, <1>7, ZenonT(60)

-----------------------------------------------------------------------------
(* Arithmetic *)

\* What append_bounded_read_chunk reserves holds the bytes it then copies and
\* stays in the limit: the subtraction does not wrap and the doubling is capped.
LEMMA GrowthFits ==
    ASSUME NEW cap \in Nat, NEW length \in Nat, NEW more \in Nat, NEW bound \in 0..MaxOutput,
           length <= cap, cap <= bound, ~TooLong(length, more, bound), length + more > cap
    PROVE  LET new == Reserve(cap, length, Target(cap, length + more, bound) - length)
           IN new \in Nat /\ length + more <= new /\ new <= bound
<1> DEFINE target == Target(cap, length + more, bound)
<1>1. target \in Nat /\ length + more <= target /\ target <= bound
    BY DEF Target, Least, Greatest, TooLong
<1> HIDE DEF target
<1>2. (target - length) % (WordMax + 1) = target - length
    BY <1>1
<1>3. QED
    BY <1>1, <1>2 DEF Reserve, Greatest, target

\* A range parse_range lets through, resolved against an object of n bytes, lies
\* in the object and is as long as was asked, or reaches the object's end.
LEMMA ResolvedRange ==
    ASSUME NEW r \in RawRanges, NEW b \in ParseRange(r), NEW n \in 0..MaxObject
    PROVE  LET first == First(b, n)
               end   == Greatest(First(b, n), Last(b, n))
           IN /\ first \in 0..n /\ end \in first..n
              /\ Size(b) \in 0..WordMax /\ b.size \in 0..WordMax
              /\ b.bounded \in BOOLEAN
              /\ b.bounded => Size(b) = b.size /\ end - first = Least(b.size, n - first)
              /\ ~b.bounded => Size(b) = 0
<1> USE DEF RawRanges, RangeKinds
<1>1. /\ b.suffix = (r.kind = "Suffix") /\ b.bounded = (r.kind \in {"OffsetLength", "Suffix"})
      /\ b.offset = r.offset /\ b.size = r.length
      /\ r.kind \in RangeKinds /\ r.offset \in 0..WordMax /\ r.length \in 0..WordMax
      /\ r.kind = "OffsetLength" => r.offset + r.length <= WordMax
    BY DEF ParseRange
<1>2. CASE b.suffix
    BY <1>1, <1>2 DEF First, Last, Greatest, Least, Size
<1>3. CASE ~b.suffix /\ ~b.bounded
    BY <1>1, <1>3 DEF First, Last, Greatest, Least, Size
<1>4. CASE ~b.suffix /\ b.bounded
  <2>1. (b.offset + b.size) % (WordMax + 1) = b.offset + b.size
      BY <1>1, <1>4
  <2>2. QED
      BY <1>1, <1>4, <2>1 DEF First, Last, Greatest, Least, Size
<1>5. QED
    BY <1>1, <1>2, <1>3, <1>4

-----------------------------------------------------------------------------
(* One lemma per action *)

\* A refused call leaves a session that has read nothing.
LEMMA RefusedInv ==
    ASSUME NEW k \in {"Whole", "Stream"}, NEW size \in 0..WordMax, NEW bound \in 0..MaxOutput,
           NEW s \in Statuses \ {"Ok"}, s = "TooLarge" => size > bound,
           Refused(k, s, size, bound)
    PROVE  IInv'
<1>0. Bytes(0, 0) = <<>>
    BY NoBytes
<1>1. TypeOK'
    BY DEF Refused, TypeOK, Kinds, Phases, Statuses
<1>2. Bounded'
    BY <1>1 DEF Refused, Bounded
<1>3. ReadVerdict'
    BY DEF Refused, ReadVerdict, Least
<1>4. StreamLossless'
    BY <1>0 DEF Refused, StreamLossless
<1>5. Collected'
    BY DEF Refused, Collected
<1>6. QED
    BY <1>2, <1>3, <1>4, <1>5 DEF IInv

\* A session that begins has collected the empty beginning of its range.
LEMMA BeginInv ==
    ASSUME NEW k \in {"Whole", "Stream"}, NEW r \in RawRanges, NEW b \in ParseRange(r),
           NEW n \in 0..MaxObject, NEW bound \in 0..MaxOutput,
           Begin(k, b, n, bound), phase' = "Reading", status' \in {"None", "Ok"}
    PROVE  IInv'
<1> DEFINE first == First(b, n)
           end   == Greatest(First(b, n), Last(b, n))
<1>0. /\ first \in 0..n /\ end \in first..n /\ Size(b) \in 0..WordMax
      /\ Size(b) # 0 => end - first = Least(Size(b), n - first)
    BY ResolvedRange
<1>1. /\ lo' = first /\ hi' = end /\ at' = first /\ asked' = Size(b) /\ object' = n
      /\ kind' = k /\ limit' = bound /\ output' = <<>> /\ capacity' = 0 /\ pending' = <<>>
      /\ last' = [len |-> 0, of |-> bound]
    BY DEF Begin
<1> HIDE DEF first, end
<1>2. Bytes(first, first) = <<>>
    BY <1>0, NoBytes
<1>3. TypeOK'
    BY <1>0, <1>1 DEF TypeOK, Kinds, Phases, Statuses
<1>4. Bounded'
    BY <1>1, <1>3 DEF Bounded
<1>5. ReadVerdict'
    BY <1>0, <1>1 DEF ReadVerdict
<1>6. StreamLossless'
    BY <1>0, <1>1, <1>2 DEF StreamLossless
<1>7. Collected'
    BY <1>1, <1>2 DEF Collected
<1>8. QED
    BY <1>4, <1>5, <1>6, <1>7 DEF IInv

\* A range read by one call of OpenDAL is whole, or refused as too large.
LEMMA ReadAtOnceInv ==
    ASSUME NEW r \in RawRanges, NEW b \in ParseRange(r), b.bounded,
           NEW n \in 0..MaxObject, NEW bound \in 0..MaxOutput, ReadAtOnce(b, n, bound)
    PROVE  IInv'
<1> DEFINE first == First(b, n)
           end   == Greatest(First(b, n), Last(b, n))
           fits  == Fits(end - first, bound)
<1>0. /\ first \in 0..n /\ end \in first..n /\ b.size \in 0..WordMax
      /\ end - first = Least(b.size, n - first)
    BY ResolvedRange
<1>1. /\ lo' = first /\ hi' = end /\ at' = end /\ asked' = b.size /\ object' = n
      /\ kind' = "Whole" /\ phase' = "Done" /\ limit' = bound /\ pending' = <<>>
      /\ last' = [len |-> 0, of |-> bound]
      /\ status' = (IF fits THEN "Ok" ELSE "TooLarge")
      /\ output' = (IF fits THEN Bytes(first, end) ELSE <<>>)
      /\ capacity' = (IF fits THEN end - first ELSE 0)
    BY DEF ReadAtOnce
<1>2. fits <=> end - first <= bound
    BY <1>0 DEF Fits
<1> HIDE DEF first, end, fits
<1>3. Bytes(first, end) \in Seq(Object) /\ Len(Bytes(first, end)) = end - first
  <2>1. first \in Nat /\ end \in Nat /\ first <= end /\ end <= MaxObject
      BY <1>0
  <2>2. QED
      BY <2>1, BytesType
<1>4. TypeOK'
  <2>1. output' \in Seq(Object) /\ capacity' \in Nat /\ status' \in Statuses
    <3>1. CASE fits
        BY <1>0, <1>1, <1>3, <3>1 DEF Statuses
    <3>2. CASE ~fits
        BY <1>1, <3>2 DEF Statuses
    <3>3. QED
        BY <3>1, <3>2
  <2>2. QED
      BY <1>0, <1>1, <2>1 DEF TypeOK, Kinds, Phases, Object
<1>5. Bounded'
    BY <1>0, <1>1, <1>2, <1>3, <1>4 DEF Bounded
<1>6. ReadVerdict'
    BY <1>0, <1>1, <1>2 DEF ReadVerdict
<1>7. StreamLossless' /\ Collected'
    BY <1>1 DEF StreamLossless, Collected
<1>8. QED
    BY <1>5, <1>6, <1>7 DEF IInv

\* The calls that begin a session.
LEMMA OpenInv ==
    ASSUME Open
    PROVE  IInv'
<1>1. PICK r \in RawRanges, n \in 0..MaxObject, max \in 0..WordMax, native \in BOOLEAN :
        \/ WholeReadStart(r, n, max, native)
        \/ ReaderRead(r, n, max, native)
        \/ OpenStream(r, n, max, native)
    BY DEF Open
<1> DEFINE bound == Least(max, MaxOutput)
<1>2. bound \in 0..MaxOutput
    BY DEF Least
<1>3. ASSUME NEW b \in ParseRange(r)
      PROVE  b.size \in 0..WordMax
    BY <1>3, ResolvedRange
<1>4. CASE WholeReadStart(r, n, max, native)
  <2>1. CASE Refused("Whole", "AbiMismatch", 0, 0)
      BY <2>1, RefusedInv DEF Statuses
  <2>2. ASSUME NEW b \in ParseRange(r), Exceeds(b, bound),
               Refused("Whole", "TooLarge", b.size, bound)
        PROVE  IInv'
      BY <1>2, <1>3, <2>2, RefusedInv DEF Statuses, Exceeds
  <2>3. ASSUME NEW b \in ParseRange(r), Refused("Whole", "Unsupported", b.size, bound)
        PROVE  IInv'
      BY <1>2, <1>3, <2>3, RefusedInv DEF Statuses
  <2>4. ASSUME NEW b \in ParseRange(r), Begin("Whole", b, n, bound),
               phase' = "Reading", status' = "None"
        PROVE  IInv'
      BY <1>2, <2>4, BeginInv
  <2>5. QED
      BY <1>4, <2>1, <2>2, <2>3, <2>4 DEF WholeReadStart
<1>5. CASE ReaderRead(r, n, max, native)
  <2>1. CASE Refused("Whole", "AbiMismatch", 0, 0)
      BY <2>1, RefusedInv DEF Statuses
  <2>2. ASSUME NEW b \in ParseRange(r), Exceeds(b, bound),
               Refused("Whole", "TooLarge", b.size, bound)
        PROVE  IInv'
      BY <1>2, <1>3, <2>2, RefusedInv DEF Statuses, Exceeds
  <2>3. ASSUME NEW b \in ParseRange(r), NEW s \in {"Unsupported", "Upstream", "Panic"},
               Refused("Whole", s, b.size, bound)
        PROVE  IInv'
      BY <1>2, <1>3, <2>3, RefusedInv DEF Statuses
  <2>4. ASSUME NEW b \in ParseRange(r), b.bounded, ReadAtOnce(b, n, bound)
        PROVE  IInv'
      BY <1>2, <2>4, ReadAtOnceInv
  <2>5. ASSUME NEW b \in ParseRange(r), Begin("Whole", b, n, bound),
               phase' = "Reading", status' = "None"
        PROVE  IInv'
      BY <1>2, <2>5, BeginInv
  <2>6. QED
      BY <1>5, <2>1, <2>2, <2>3, <2>4, <2>5 DEF ReaderRead
<1>6. CASE OpenStream(r, n, max, native)
  <2>1. CASE Refused("Stream", "InvalidArgument", 0, 0)
      BY <2>1, RefusedInv DEF Statuses
  <2>2. CASE max <= MaxOutput /\ Refused("Stream", "AbiMismatch", 0, max)
      BY <2>2, RefusedInv DEF Statuses
  <2>3. ASSUME NEW b \in ParseRange(r), max <= MaxOutput,
               Refused("Stream", "Unsupported", b.size, max)
        PROVE  IInv'
      BY <1>3, <2>3, RefusedInv DEF Statuses
  <2>4. ASSUME NEW b \in ParseRange(r), max <= MaxOutput, Begin("Stream", b, n, max),
               phase' = "Reading", status' = "Ok"
        PROVE  IInv'
      BY <2>4, BeginInv
  <2>5. QED
      BY <1>6, <2>1, <2>2, <2>3, <2>4 DEF OpenStream
<1>7. QED
    BY <1>1, <1>4, <1>5, <1>6

\* The state of an open session: its counts are naturals in order and its
\* sequences are bytes of the object.
LEMMA Typed ==
    ASSUME IInv
    PROVE  /\ lo \in Nat /\ hi \in Nat /\ at \in Nat /\ lo <= at /\ at <= hi /\ hi <= MaxObject
           /\ limit \in 0..MaxOutput /\ capacity \in Nat
           /\ output \in Seq(Object) /\ pending \in Seq(Object)
           /\ Len(output) \in Nat
BY LenProperties DEF IInv, Bounded, TypeOK, Object

\* One more buffer is appended, or is one too many.
LEMMA AppendChunkInv ==
    ASSUME IInv, NEW n \in 0..MaxObject, AppendChunk(n)
    PROVE  IInv'
<1>0. /\ kind = "Whole" /\ phase = "Reading" /\ n \in 0..(hi - at) /\ at' = at + n
      /\ UNCHANGED <<kind, range, limit, pending, last>>
      /\ output = Bytes(lo, at) /\ Len(output) = at - lo
      /\ Len(output) <= capacity /\ capacity <= limit
  <2>1. output = Bytes(lo, at)
      BY DEF IInv, Collected, AppendChunk
  <2>2. Len(output) = at - lo
    <3>1. lo \in Nat /\ at \in Nat /\ lo <= at /\ at <= MaxObject
        BY Typed
    <3>2. Len(Bytes(lo, at)) = at - lo
        BY <3>1, BytesType
    <3>3. QED
        BY <2>1, <3>2
  <2>3. QED
      BY <2>1, <2>2 DEF IInv, Bounded, AppendChunk
<1>1. CASE /\ TooLong(Len(output), n, limit)
           /\ phase' = "Done" /\ status' = "TooLarge" /\ output' = <<>> /\ capacity' = 0
  <2>1. TypeOK'
      BY <1>0, <1>1, Typed DEF IInv, Bounded, TypeOK, Phases, Statuses, range
  <2>2. hi - lo > limit
      BY <1>0, <1>1, Typed, SMTT(60) DEF TooLong
  <2>3. Bounded'
      BY <1>0, <1>1, <2>1, Typed DEF Bounded
  <2>4. ReadVerdict'
      BY <1>0, <1>1, <2>2 DEF IInv, ReadVerdict, range
  <2>5. StreamLossless' /\ Collected'
      BY <1>0, <1>1 DEF StreamLossless, Collected
  <2>6. QED
      BY <2>3, <2>4, <2>5 DEF IInv
<1>2. CASE /\ ~TooLong(Len(output), n, limit)
           /\ output' = output \o Bytes(at, at + n)
           /\ capacity' = IF Len(output) + n > capacity
                          THEN Reserve(capacity, Len(output),
                                   Target(capacity, Len(output) + n, limit) - Len(output))
                          ELSE capacity
           /\ UNCHANGED <<phase, status>>
  <2>1. at + n \in Nat /\ at <= at + n /\ at + n <= hi /\ lo <= at + n /\ at + n <= MaxObject
      BY <1>0, Typed
  <2>2. output' = Bytes(lo, at + n)
    <3>1. Bytes(lo, at) \o Bytes(at, at + n) = Bytes(lo, at + n)
        BY <2>1, Typed, BytesConcat
    <3>2. QED
        BY <1>0, <1>2, <3>1
  <2>3. output' \in Seq(Object) /\ Len(output') = Len(output) + n
    <3> DEFINE e == at + n
    <3>1. Bytes(lo, e) \in Seq(Object) /\ Len(Bytes(lo, e)) = e - lo
        <4> HIDE DEF e
        <4> QED BY <2>1, Typed, BytesType DEF e
    <3>2. QED
        BY <1>0, <2>1, <2>2, <3>1, Typed, SMTT(60)
  <2>4. capacity' \in Nat /\ Len(output) + n <= capacity' /\ capacity' <= limit
    <3>1. CASE Len(output) + n > capacity
      <4> DEFINE new == Reserve(capacity, Len(output),
                            Target(capacity, Len(output) + n, limit) - Len(output))
      <4>1. /\ capacity \in Nat /\ Len(output) \in Nat /\ n \in Nat /\ limit \in 0..MaxOutput
            /\ Len(output) <= capacity /\ capacity <= limit
          BY <1>0, Typed
      <4>2. new \in Nat /\ Len(output) + n <= new /\ new <= limit
          BY <1>2, <3>1, <4>1, GrowthFits
      <4>3. QED
          BY <1>2, <3>1, <4>2
    <3>2. CASE ~(Len(output) + n > capacity)
        BY <1>0, <1>2, <3>2, Typed, SMTT(60)
    <3>3. QED
        BY <3>1, <3>2
  <2>5. TypeOK'
    <3>1. at' \in lo'..hi'
        BY <1>0, <2>1, Typed DEF range
    <3>2. QED
        BY <1>0, <1>2, <2>3, <2>4, <3>1 DEF IInv, Bounded, TypeOK, Object, range
  <2>6. Bounded'
      BY <1>0, <2>3, <2>4, <2>5 DEF Bounded
  <2>7. ReadVerdict' /\ StreamLossless'
      BY <1>0, <1>2 DEF IInv, ReadVerdict, StreamLossless, range
  <2>8. Collected'
      BY <1>0, <1>2, <2>2 DEF IInv, Collected, range
  <2>9. QED
      BY <2>6, <2>7, <2>8 DEF IInv
<1>3. QED
    BY <1>1, <1>2 DEF AppendChunk

\* The buffers are exhausted: what was collected is the range.
LEMMA ReadEndsInv ==
    ASSUME IInv, ReadEnds
    PROVE  IInv'
<1>1. TypeOK'
    BY DEF IInv, Bounded, ReadEnds, TypeOK, Phases, Statuses, range
<1>2. Bounded'
    BY <1>1 DEF IInv, Bounded, ReadEnds
<1>3. ReadVerdict'
  <2>1. Len(output) = hi - lo /\ output = Bytes(lo, hi)
      BY Typed, BytesType DEF IInv, Collected, ReadEnds
  <2>2. hi - lo <= limit
      BY <2>1, Typed DEF IInv, Bounded, ReadEnds
  <2>3. QED
      BY <2>1, <2>2 DEF IInv, ReadVerdict, ReadEnds, range
<1>4. StreamLossless' /\ Collected'
    BY DEF StreamLossless, Collected, ReadEnds
<1>5. QED
    BY <1>2, <1>3, <1>4 DEF IInv

\* OpenDAL fails: nothing collected is kept.
LEMMA ReadFailsInv ==
    ASSUME IInv, NEW s \in {"Upstream", "Panic"}, ReadFails(s)
    PROVE  IInv'
<1>1. TypeOK'
    BY DEF IInv, Bounded, ReadFails, TypeOK, Phases, Statuses, range
<1>2. Bounded'
    BY <1>1, Typed DEF IInv, Bounded, ReadFails
<1>3. ReadVerdict'
    BY DEF IInv, ReadVerdict, ReadFails, range
<1>4. StreamLossless' /\ Collected'
    BY DEF StreamLossless, Collected, ReadFails
<1>5. QED
    BY <1>2, <1>3, <1>4 DEF IInv

\* MoonBit takes the bytes of an OK read: the copy is complete, and the checks
\* on its way never refuse it.
LEMMA TakeBytesInv ==
    ASSUME IInv, TakeBytes
    PROVE  IInv'
<1>1. /\ BufferCopy(output, Len(output)).status = "Ok"
      /\ BufferCopy(output, Len(output)).required = Len(output)
      /\ BufferCopy(output, Len(output)).copied = output
    BY Typed DEF BufferCopy
<1>2. /\ kind = "Whole" /\ phase = "Done" /\ status = "Ok"
      /\ Len(output) <= MaxOutput /\ Len(output) <= limit
    BY Typed DEF TakeBytes, IInv, Bounded
<1>3. /\ phase' = "Taken" /\ status' = "Ok" /\ output' = output /\ capacity' = Len(output)
      /\ UNCHANGED <<kind, range, at, limit, pending, last>>
    BY <1>1, <1>2, Typed DEF TakeBytes
<1>4. TypeOK'
    BY <1>2, <1>3, Typed DEF IInv, Bounded, TypeOK, Phases, Statuses, range
<1>5. Bounded'
    BY <1>2, <1>3, <1>4, Typed DEF Bounded
<1>6. ReadVerdict'
    BY <1>2, <1>3 DEF IInv, ReadVerdict, range
<1>7. StreamLossless' /\ Collected'
    BY <1>2, <1>3 DEF StreamLossless, Collected
<1>8. QED
    BY <1>5, <1>6, <1>7 DEF IInv

\* The first part of a buffer goes to the caller, or the stream fails.  The
\* buffer is what follows, in the object, the bytes already handed over.
LEMMA HandInv ==
    ASSUME IInv, kind = "Stream", phase = "Reading",
           NEW bytes \in Seq(Object), NEW max \in 0..WordMax, NEW to \in at..hi,
           output \o bytes = Bytes(lo, to),
           Hand(bytes, max), at' = to, UNCHANGED <<kind, range, limit, capacity>>
    PROVE  IInv'
<1> DEFINE part  == Split(bytes, limit)
           bound == Least(max, limit)
<1>1. /\ part.chunk \in Seq(Object) /\ part.rest \in Seq(Object)
      /\ part.chunk \o part.rest = bytes /\ Len(part.chunk) \in Nat
  <2>1. limit \in Nat
      BY Typed
  <2>2. /\ Split(bytes, limit).chunk \in Seq(Object) /\ Split(bytes, limit).rest \in Seq(Object)
        /\ Split(bytes, limit).chunk \o Split(bytes, limit).rest = bytes
      BY <2>1, SplitWhole
  <2>3. QED
      BY <2>2
<1>2. bound \in 0..MaxOutput /\ bound <= limit
    BY Typed DEF Least
<1>3. to \in Nat /\ lo <= to /\ to <= hi /\ to <= MaxObject
    BY Typed
<1>4. CASE /\ Fits(Len(part.chunk), bound)
           /\ output' = output \o part.chunk /\ pending' = part.rest
           /\ last' = [len |-> Len(part.chunk), of |-> bound]
           /\ status' = "Ok" /\ UNCHANGED phase
  <2> HIDE DEF part, bound
  <2>1. output' \in Seq(Object) /\ pending' \in Seq(Object)
      BY <1>1, <1>4, Typed, ConcatProperties
  <2>2. output' \o pending' = Bytes(lo, to)
    <3>1. (output \o part.chunk) \o part.rest = output \o (part.chunk \o part.rest)
        BY <1>1, Typed, BytesAssociative, ZenonT(60)
    <3>2. QED
        BY <1>1, <1>4, <3>1
  <2>3. output' = Bytes(lo, lo + Len(output'))
      BY <1>3, <2>1, <2>2, Typed, BytesPrefix
  <2>4. TypeOK'
    <3>1. last' \in [len : Nat, of : 0..MaxOutput] /\ at' \in lo'..hi'
        BY <1>1, <1>2, <1>3, <1>4, Typed DEF range
    <3>2. QED
        BY <1>4, <2>1, <3>1 DEF IInv, Bounded, TypeOK, Statuses, Object, range
  <2>5. last'.len <= last'.of /\ last'.of <= limit'
      BY <1>1, <1>2, <1>4 DEF Fits
  <2>6. Bounded' /\ ReadVerdict' /\ Collected'
      BY <1>4, <2>4 DEF IInv, Bounded, ReadVerdict, Collected, range
  <2>7. StreamLossless'
      BY <1>4, <2>2, <2>3, <2>5 DEF StreamLossless, range
  <2>8. QED
      BY <2>6, <2>7 DEF IInv
<1>5. CASE /\ phase' = "Failed" /\ status' = "TooLarge"
           /\ pending' = <<>> /\ UNCHANGED <<output, last>>
  <2>1. TypeOK'
    <3>1. at' \in lo'..hi'
        BY <1>3, Typed DEF range
    <3>2. QED
        BY <1>5, <3>1 DEF IInv, Bounded, TypeOK, Phases, Statuses, range
  <2>2. Bounded' /\ ReadVerdict' /\ Collected'
      BY <1>5, <2>1 DEF IInv, Bounded, ReadVerdict, Collected, range
  <2>3. StreamLossless'
      BY <1>5 DEF IInv, StreamLossless, range
  <2>4. QED
      BY <2>2, <2>3 DEF IInv
<1>6. QED
    BY <1>4, <1>5 DEF Hand

\* The next chunk of a stream: the remainder of the last buffer, or a new one.
LEMMA StreamNextInv ==
    ASSUME IInv, NEW n \in 0..MaxObject, NEW max \in 0..WordMax, StreamNext(n, max)
    PROVE  IInv'
<1>1. /\ kind = "Stream" /\ phase = "Reading"
      /\ output \o pending = Bytes(lo, at) /\ UNCHANGED <<kind, range, limit, capacity>>
    BY DEF IInv, StreamLossless, StreamNext
<1>2. CASE FromPending /\ Hand(pending, max) /\ UNCHANGED at
  <2>1. at \in at..hi
      BY Typed
  <2>2. QED
      BY <1>1, <1>2, <2>1, Typed, HandInv
<1>3. CASE ~FromPending /\ n \in 0..(hi - at) /\ at' = at + n /\ Hand(Bytes(at, at + n), max)
  <2>1. /\ at + n \in at..hi /\ at + n \in Nat /\ at <= at + n /\ at + n <= MaxObject
      BY <1>3, Typed
  <2>2. Bytes(at, at + n) \in Seq(Object)
    <3> DEFINE e == at + n
    <3>1. e \in Nat /\ at \in Nat /\ at <= e /\ e <= MaxObject
        BY <2>1, Typed
    <3> HIDE DEF e
    <3>2. Bytes(at, e) \in Seq(Object)
        BY <3>1, BytesType
    <3>3. QED
        BY <3>2 DEF e
  <2>3. output = Bytes(lo, at)
    <3>1. output \o <<>> = output
        BY Typed, ConcatEmptySeq
    <3>2. QED
        BY <1>1, <1>3, <3>1 DEF FromPending
  <2>4. output \o Bytes(at, at + n) = Bytes(lo, at + n)
      BY <2>1, <2>3, Typed, BytesConcat
  <2>5. QED
      BY <1>1, <1>3, <2>1, <2>2, <2>4, HandInv
<1>4. QED
    BY <1>2, <1>3 DEF StreamNext

\* A stream that ends has handed over everything.
LEMMA StreamEndsInv ==
    ASSUME IInv, StreamEnds
    PROVE  IInv'
<1>1. TypeOK'
    BY DEF IInv, Bounded, StreamEnds, TypeOK, Phases, Statuses, range
<1>2. Bounded' /\ ReadVerdict' /\ Collected'
    BY <1>1 DEF IInv, Bounded, ReadVerdict, Collected, StreamEnds, range
<1>3. output = Bytes(lo, hi)
  <2>1. output \o <<>> = output
      BY Typed, ConcatEmptySeq
  <2>2. QED
      BY <2>1 DEF IInv, StreamLossless, StreamEnds, FromPending
<1>4. StreamLossless'
    BY <1>3 DEF IInv, StreamLossless, StreamEnds, range
<1>5. QED
    BY <1>2, <1>4 DEF IInv

\* A stream that fails, answers from its final state or is closed keeps what it
\* has handed over.
LEMMA StreamStopsInv ==
    ASSUME IInv, StreamAnswers \/ StreamClose \/ \E s \in {"Upstream", "Panic"} : StreamFails(s)
    PROVE  IInv'
<1>1. /\ kind = "Stream" /\ phase \in Phases \ {"Idle"}
      /\ UNCHANGED <<kind, range, at, limit, output, capacity, last>>
      /\ phase' \in Phases \ {"Idle", "Reading"} /\ (phase' = "End" => phase = "End")
      /\ status' \in Statuses /\ pending' \in {pending, <<>>}
    BY DEF StreamAnswers, StreamClose, StreamFails, Phases, Statuses, IInv, Bounded, TypeOK
<1>2. TypeOK'
  <2>1. pending' \in Seq(0..MaxObject)
    <3>1. pending \in Seq(0..MaxObject) /\ <<>> \in Seq(0..MaxObject)
        BY EmptySeq DEF IInv, Bounded, TypeOK
    <3>2. pending' = pending \/ pending' = <<>>
        BY <1>1
    <3>3. QED
        BY <3>1, <3>2, Zenon
  <2>2. UNCHANGED <<kind, object, lo, hi, at, asked, limit, output, capacity, last>>
      BY <1>1 DEF range
  <2>3. QED
      BY <1>1, <2>1, <2>2 DEF IInv, Bounded, TypeOK
<1>3. Bounded' /\ ReadVerdict' /\ Collected'
    BY <1>1, <1>2 DEF IInv, Bounded, ReadVerdict, Collected, range
<1>4. StreamLossless'
    BY <1>1 DEF IInv, StreamLossless, range
<1>5. QED
    BY <1>3, <1>4 DEF IInv

-----------------------------------------------------------------------------
(* Theorems *)

\* IInv holds in every state of every session: what the initial state sets up,
\* each call, buffer, failure and copy keeps.
THEOREM Invariance == Spec => []IInv
<1>1. Init => IInv
  <2>1. SUFFICES ASSUME Init PROVE IInv
      OBVIOUS
  <2>2. TypeOK
      BY <2>1 DEF Init, TypeOK, Kinds, Phases, Statuses
  <2>3. QED
      BY <2>1, <2>2 DEF Init, IInv, Bounded, ReadVerdict, StreamLossless, Collected
<1>2. IInv /\ [Next]_vars => IInv'
  <2>1. SUFFICES ASSUME IInv, [Next]_vars PROVE IInv'
      OBVIOUS
  <2>2. CASE Open
      BY <2>2, OpenInv
  <2>3. CASE Deliver
      BY <2>1, <2>3, AppendChunkInv, StreamNextInv, ReadFailsInv, StreamStopsInv,
         ReadEndsInv, StreamEndsInv DEF Deliver
  <2>4. CASE TakeBytes
      BY <2>1, <2>4, TakeBytesInv
  <2>5. CASE StreamAnswers \/ StreamClose
      BY <2>1, <2>5, StreamStopsInv
  <2>6. CASE UNCHANGED vars
      BY <2>1, <2>6 DEF vars, IInv, Bounded, TypeOK, ReadVerdict, StreamLossless, Collected
  <2>7. QED
      BY <2>1, <2>2, <2>3, <2>4, <2>5, <2>6 DEF Next
<1>3. QED
    BY <1>1, <1>2, PTL DEF Spec

\* append_bounded_read_chunk keeps the output in its capacity and the capacity
\* in the limit, for every word, limit and sequence of buffers.
THEOREM AllocationBounded == Spec => []Bounded
BY Invariance, PTL DEF IInv

\* A whole read answers with exactly the range, or says truthfully why not, for
\* every range a caller can fill in.
THEOREM ReadsAreTrue == Spec => []ReadVerdict
BY Invariance, PTL DEF IInv

\* A stream loses, repeats and reorders no byte, whatever the chunk size, the
\* lengths of the buffers and the callers' limits.
THEOREM StreamsAreLossless == Spec => []StreamLossless
BY Invariance, PTL DEF IInv
=============================================================================
