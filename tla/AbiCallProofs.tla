--------------------------- MODULE AbiCallProofs ---------------------------
(***************************************************************************)
(* Proofs about AbiCall: its inductive invariant, and with it that every    *)
(* call ends with honest outputs, that no option and no credential goes     *)
(* where the caller did not put it, that the output limit is exact and that *)
(* a view struct is written whole, for every size of the address space and  *)
(* every limit.                                                             *)
(***************************************************************************)
EXTENDS AbiCall, SequenceTheorems, FiniteSetTheorems, WellFoundedInduction, TLAPS

USE LengthAssumption

-----------------------------------------------------------------------------
(* Verdicts *)

\* A set of naturals that has a member has a least one.
LEMMA LeastMember ==
    ASSUME NEW T \in SUBSET Nat, T # {}
    PROVE  \E x \in T : \A y \in T : x <= y
<1> DEFINE R == OpToRel(<, Nat)
<1>1. IsWellFoundedOn(R, Nat)
    BY NatLessThanWellFounded, Zenon
<1>2. \A x, y \in Nat : x < y => <<x, y>> \in R
    BY DEF OpToRel
<1> HIDE DEF R
<1>3. PICK x \in T : \A y \in T : ~(<<y, x>> \in R)
    BY <1>1, WFMin, Zenon
<1>4. ASSUME NEW y \in T PROVE x <= y
  <2>1. x \in Nat /\ y \in Nat /\ ~(y < x)
      BY <1>2, <1>3, <1>4
  <2>2. QED
      BY <2>1
<1>5. QED
    BY <1>4

\* The verdict on a sequence of checks is that of one of them, and good only if
\* all of them are.
LEMMA FirstOf ==
    ASSUME NEW n \in Nat, NEW c, DOMAIN c = 1..n
    PROVE  /\ FirstFailure(c) = "Ok" <=> \A i \in 1..n : c[i] = "Ok"
           /\ FirstFailure(c) = "Ok" \/ \E i \in 1..n : FirstFailure(c) = c[i]
<1>1. CASE \A i \in 1..n : c[i] = "Ok"
    BY <1>1 DEF FirstFailure
<1>2. CASE ~(\A i \in 1..n : c[i] = "Ok")
  <2> DEFINE Failed == {i \in 1..n : c[i] # "Ok"}
             First(i) == i \in 1..n /\ c[i] # "Ok" /\ \A j \in 1..(i - 1) : c[j] = "Ok"
  <2>1. Failed \in SUBSET Nat /\ Failed # {}
      BY <1>2
  <2>2. PICK f \in Failed : \A y \in Failed : f <= y
      BY <2>1, LeastMember
  <2>3. First(f)
      BY <2>2
  <2>4. First(CHOOSE i \in 1..n : First(i))
      BY <2>3, Zenon
  <2>5. FirstFailure(c) = c[CHOOSE i \in 1..n : First(i)]
    <3>1. FirstFailure(c) = c[CHOOSE i \in DOMAIN c : c[i] # "Ok" /\ \A j \in 1..(i - 1) : c[j] = "Ok"]
        BY <1>2 DEF FirstFailure
    <3>2. (CHOOSE i \in 1..n : c[i] # "Ok" /\ \A j \in 1..(i - 1) : c[j] = "Ok")
            = CHOOSE i \in 1..n : First(i)
        BY Zenon
    <3>3. QED
        BY <3>1, <3>2
  <2>6. QED
      BY <1>2, <2>4, <2>5
<1>3. QED
    BY <1>1, <1>2

\* Two checks: the second counts once the first is good.
LEMMA FirstOfTwo ==
    ASSUME NEW a, NEW b
    PROVE  FirstFailure(<<a, b>>) = IF a = "Ok" THEN b ELSE a
<1> DEFINE c == <<a, b>>
           k == CHOOSE i \in DOMAIN c : c[i] # "Ok" /\ \A j \in 1..(i - 1) : c[j] = "Ok"
<1>1. DOMAIN c = {1, 2} /\ c[1] = a /\ c[2] = b
    OBVIOUS
<1>2. CASE a = "Ok" /\ b = "Ok"
    BY <1>1, <1>2 DEF FirstFailure
<1>3. CASE ~(a = "Ok" /\ b = "Ok")
  <2>1. FirstFailure(c) = c[k]
      BY <1>1, <1>3 DEF FirstFailure
  <2> HIDE DEF c
  <2>2. \E i \in DOMAIN c : c[i] # "Ok" /\ \A j \in 1..(i - 1) : c[j] = "Ok"
    <3>1. CASE a # "Ok"
        BY <1>1, <3>1
    <3>2. CASE a = "Ok"
        BY <1>1, <1>3, <3>2
    <3>3. QED
        BY <3>1, <3>2
  <2>3. k \in DOMAIN c /\ c[k] # "Ok" /\ \A j \in 1..(k - 1) : c[j] = "Ok"
      BY <2>2
  <2> HIDE DEF k
  <2>4. c[k] = IF a = "Ok" THEN b ELSE a
      BY <1>1, <2>3
  <2>5. QED
      BY <2>1, <2>4 DEF c
<1>4. QED
    BY <1>2, <1>3

\* Three checks.
LEMMA FirstOfThree ==
    ASSUME NEW a, NEW b, NEW d
    PROVE  FirstFailure(<<a, b, d>>) = IF a # "Ok" THEN a ELSE IF b # "Ok" THEN b ELSE d
<1> DEFINE c == <<a, b, d>>
           k == CHOOSE i \in DOMAIN c : c[i] # "Ok" /\ \A j \in 1..(i - 1) : c[j] = "Ok"
<1>1. DOMAIN c = {1, 2, 3} /\ c[1] = a /\ c[2] = b /\ c[3] = d
    OBVIOUS
<1>2. CASE a = "Ok" /\ b = "Ok" /\ d = "Ok"
    BY <1>1, <1>2 DEF FirstFailure
<1>3. CASE ~(a = "Ok" /\ b = "Ok" /\ d = "Ok")
  <2>1. FirstFailure(c) = c[k]
      BY <1>1, <1>3 DEF FirstFailure
  <2> HIDE DEF c
  <2>2. \E i \in DOMAIN c : c[i] # "Ok" /\ \A j \in 1..(i - 1) : c[j] = "Ok"
    <3>1. CASE a # "Ok"
        BY <1>1, <3>1
    <3>2. CASE a = "Ok" /\ b # "Ok"
        BY <1>1, <3>2
    <3>3. CASE a = "Ok" /\ b = "Ok"
        BY <1>1, <1>3, <3>3
    <3>4. QED
        BY <3>1, <3>2, <3>3
  <2>3. k \in DOMAIN c /\ c[k] # "Ok" /\ \A j \in 1..(k - 1) : c[j] = "Ok"
      BY <2>2
  <2> HIDE DEF k
  <2>4. c[k] = IF a # "Ok" THEN a ELSE IF b # "Ok" THEN b ELSE d
      BY <1>1, <2>3
  <2>5. QED
      BY <2>1, <2>4 DEF c
<1>4. QED
    BY <1>2, <1>3

-----------------------------------------------------------------------------
(* Totals *)

\* A running total is what its recursive definition says: induction over the
\* lengths, as the least length at which no such function exists.
LEMMA RunningUnfolds ==
    ASSUME NEW start \in Nat, NEW n \in Nat, NEW L \in [1..n -> Nat], Len(L) = n
    PROVE  Running(start, L) =
             [i \in 0..n |-> IF i = 0 THEN start ELSE Running(start, L)[i - 1] + L[i]]
<1> DEFINE Is(g, m) == g = [i \in 0..m |-> IF i = 0 THEN start ELSE g[i - 1] + L[i]]
           Has(m) == \E g : Is(g, m)
           Bad == {m \in 0..n : ~Has(m)}
<1> HIDE DEF Has
<1>1. Bad = {}
  <2> SUFFICES ASSUME Bad # {} PROVE FALSE
      OBVIOUS
  <2>1. PICK m \in Bad : \A y \in Bad : m <= y
    <3>1. Bad \in SUBSET Nat
        OBVIOUS
    <3>2. QED
        BY <3>1, LeastMember
  <2>2. CASE m = 0
    <3>1. Is([i \in 0..0 |-> start], 0)
        OBVIOUS
    <3>2. Has(0)
        BY <3>1 DEF Has
    <3>3. QED
        BY <2>1, <2>2, <3>2
  <2>3. CASE m # 0
    <3>1. m - 1 \in 0..n /\ m - 1 \notin Bad /\ m \in 1..n
        BY <2>1, <2>3
    <3>2. PICK g : Is(g, m - 1)
        BY <3>1 DEF Has
    <3> DEFINE h == [i \in 0..m |-> IF i = m THEN g[m - 1] + L[m] ELSE g[i]]
    <3>3. \A i \in 0..(m - 1) : g[i] = IF i = 0 THEN start ELSE g[i - 1] + L[i]
        BY <3>1, <3>2
    <3>4. \A i \in 0..m : h[i] = IF i = 0 THEN start ELSE h[i - 1] + L[i]
        BY <2>3, <3>1, <3>3
    <3>5. Is(h, m)
        BY <3>4
    <3> HIDE DEF h
    <3>6. Has(m)
        BY <3>5 DEF Has
    <3>7. QED
        BY <2>1, <3>6
  <2>4. QED
      BY <2>2, <2>3
<1>2. \E g : Is(g, n)
  <2>1. Has(n)
      BY <1>1
  <2>2. QED
      BY <2>1 DEF Has
<1>3. Is(CHOOSE g : Is(g, n), n)
    BY <1>2, Zenon
<1>4. Running(start, L) = CHOOSE g : Is(g, n)
    BY DEF Running
<1>5. QED
    BY <1>3, <1>4

\* A running total is a natural number that never decreases.
LEMMA RunningGrows ==
    ASSUME NEW start \in Nat, NEW n \in Nat, NEW L \in [1..n -> Nat], Len(L) = n
    PROVE  /\ Running(start, L)[0] = start
           /\ \A i \in 0..n : Running(start, L)[i] \in Nat
           /\ \A i \in 1..n : Running(start, L)[i] = Running(start, L)[i - 1] + L[i]
           /\ \A i, j \in 0..n : i <= j => Running(start, L)[i] <= Running(start, L)[j]
<1> DEFINE r == Running(start, L)
<1>0. r = [i \in 0..n |-> IF i = 0 THEN start ELSE r[i - 1] + L[i]]
    BY RunningUnfolds
<1> HIDE DEF r
<1>1. r[0] = start /\ \A i \in 1..n : r[i] = r[i - 1] + L[i]
  <2>1. \A i \in 0..n : r[i] = IF i = 0 THEN start ELSE r[i - 1] + L[i]
      BY <1>0
  <2>2. QED
      BY <2>1
<1>2. \A i \in 0..n : r[i] \in Nat
  <2> DEFINE Bad == {i \in 0..n : r[i] \notin Nat}
  <2> SUFFICES ASSUME Bad # {} PROVE FALSE
      OBVIOUS
  <2>1. Bad \in SUBSET Nat
      OBVIOUS
  <2>2. PICK m \in Bad : \A y \in Bad : m <= y
      BY <2>1, LeastMember
  <2>3. m # 0 /\ m \in 1..n
      BY <1>1, <2>2
  <2>4. m - 1 \in 0..n /\ m - 1 \notin Bad
      BY <2>2, <2>3
  <2>5. r[m - 1] \in Nat /\ L[m] \in Nat
      BY <2>3, <2>4
  <2>6. QED
      BY <1>1, <2>2, <2>3, <2>5
<1>3. ASSUME NEW i \in 0..n PROVE \A j \in 0..n : i <= j => r[i] <= r[j]
  <2> DEFINE Bad == {j \in 0..n : i <= j /\ ~(r[i] <= r[j])}
  <2> SUFFICES ASSUME Bad # {} PROVE FALSE
      OBVIOUS
  <2>1. Bad \in SUBSET Nat
      OBVIOUS
  <2>2. PICK m \in Bad : \A y \in Bad : m <= y
      BY <2>1, LeastMember
  <2>3. m # i /\ m \in 1..n /\ i <= m - 1
      BY <1>2, <1>3, <2>2
  <2>4. m - 1 \in 0..n /\ m - 1 \notin Bad
      BY <2>2, <2>3
  <2>5. r[i] <= r[m - 1] /\ r[m] = r[m - 1] + L[m]
      BY <1>1, <2>3, <2>4
  <2>6. r[i] \in Nat /\ r[m - 1] \in Nat /\ L[m] \in Nat
      BY <1>2, <2>3
  <2>7. QED
      BY <2>2, <2>5, <2>6
<1>4. QED
    BY <1>1, <1>2, <1>3 DEF r

-----------------------------------------------------------------------------
(* Inputs *)

\* The verdicts on anything but a total.
Plain == {"Ok", "AbiMismatch", "InvalidArgument"}

\* A function on an initial segment of the positive integers is a sequence.
LEMMA MadeSeq ==
    ASSUME NEW S, NEW n \in Nat, NEW f \in [1..n -> S]
    PROVE  f \in Seq(S) /\ Len(f) = n /\ DOMAIN f = 1..n
<1>1. f \in Seq(S)
    BY SeqDef
<1>2. DOMAIN f = 1..n /\ DOMAIN f = 1..Len(f) /\ Len(f) \in Nat
    BY <1>1, LenProperties
<1>3. QED
    BY <1>1, <1>2

\* Checks that are made one group after the other.
LEMMA Joined ==
    ASSUME NEW a \in Seq(Plain), NEW b \in Seq(Plain)
    PROVE  /\ FirstFailure(a \o b) \in Plain
           /\ FirstFailure(a \o b) = "Ok" => /\ \A i \in 1..Len(a) : a[i] = "Ok"
                                             /\ \A i \in 1..Len(b) : b[i] = "Ok"
<1> DEFINE c == a \o b
           n == Len(a) + Len(b)
<1>1. Len(a) \in Nat /\ Len(b) \in Nat /\ n \in Nat
    OBVIOUS
<1>2. c \in Seq(Plain) /\ Len(c) = n
    BY ConcatProperties
<1>3. \A i \in 1..n : c[i] = IF i <= Len(a) THEN a[i] ELSE b[i - Len(a)]
    BY ConcatProperties
<1>4. DOMAIN c = 1..n /\ \A i \in 1..n : c[i] \in Plain
    BY <1>2
<1> HIDE DEF c, n
<1>5. /\ FirstFailure(c) = "Ok" <=> \A i \in 1..n : c[i] = "Ok"
      /\ FirstFailure(c) = "Ok" \/ \E i \in 1..n : FirstFailure(c) = c[i]
    BY <1>1, <1>4, FirstOf
<1>6. FirstFailure(c) \in Plain
    BY <1>4, <1>5 DEF Plain
<1>7. ASSUME FirstFailure(c) = "Ok"
      PROVE  /\ \A i \in 1..Len(a) : a[i] = "Ok"
             /\ \A i \in 1..Len(b) : b[i] = "Ok"
  <2>1. \A i \in 1..n : c[i] = "Ok"
      BY <1>5, <1>7
  <2>2. ASSUME NEW i \in 1..Len(a) PROVE a[i] = "Ok"
    <3>1. i \in 1..n /\ i <= Len(a)
        BY <1>1 DEF n
    <3>2. QED
        BY <1>3, <2>1, <3>1
  <2>3. ASSUME NEW i \in 1..Len(b) PROVE b[i] = "Ok"
    <3>1. i + Len(a) \in 1..n /\ ~(i + Len(a) <= Len(a)) /\ (i + Len(a)) - Len(a) = i
        BY <1>1 DEF n
    <3>2. QED
        BY <1>3, <2>1, <3>1
  <2>4. QED
      BY <2>2, <2>3
<1>8. QED
    BY <1>6, <1>7 DEF c

\* Reading a text, bytes or a pointer never fails for its size alone.
LEMMA TextVerdicts ==
    ASSUME NEW p, NEW v
    PROVE  /\ borrowed_bytes(v) \in Plain /\ read_text_value(v) \in Plain
           /\ read_required(p) \in Plain
           /\ read_text(p, v) \in Plain /\ read_binary(p, v) \in Plain
<1>1. read_required(p) \in Plain
    BY DEF read_required, Check, Plain
<1>2. borrowed_bytes(v) \in Plain
  <2>1. checked_len(v.len) \in Plain /\ checked_region(v.data, v.len) \in Plain
      BY DEF checked_len, checked_region, Check, Plain
  <2>2. QED
      BY <2>1, FirstOfTwo DEF borrowed_bytes
<1>3. read_text_value(v) \in Plain
  <2>1. Check(v.utf8, "InvalidArgument") \in Plain
      BY DEF Check, Plain
  <2>2. QED
      BY <1>2, <2>1, FirstOfTwo DEF read_text_value
<1>4. read_text(p, v) \in Plain /\ read_binary(p, v) \in Plain
    BY <1>1, <1>2, <1>3, FirstOfTwo DEF read_text, read_binary
<1>5. QED
    BY <1>1, <1>2, <1>3, <1>4

\* An optional text that is accepted has its present bit, or is not there.
LEMMA OptionalText ==
    ASSUME NEW o, NEW f
    PROVE  /\ optional_text(o, f) \in Plain
           /\ optional_text(o, f) = "Ok" => (f \in o.present \/ Canonical(o.views[f]))
<1>1. read_text_value(o.views[f]) \in Plain
    BY TextVerdicts
<1>2. Check(Canonical(o.views[f]), "AbiMismatch") \in Plain
    BY DEF Check, Plain
<1>3. QED
    BY <1>1, <1>2 DEF optional_text, Check

\* The texts of an option struct, field by field.
LEMMA TextsVerdict ==
    ASSUME NEW o, NEW n \in Nat, NEW fields, DOMAIN fields = 1..n
    PROVE  /\ Texts(o, fields) \in Seq(Plain) /\ Len(Texts(o, fields)) = n
           /\ \A i \in 1..n : Texts(o, fields)[i] = "Ok" =>
                (fields[i] \in o.present \/ Canonical(o.views[fields[i]]))
<1>1. Texts(o, fields) \in [1..n -> Plain]
    BY OptionalText DEF Texts
<1>2. Texts(o, fields) \in Seq(Plain) /\ Len(Texts(o, fields)) = n
    BY <1>1, MadeSeq
<1>3. \A i \in 1..n : Texts(o, fields)[i] = optional_text(o, fields[i])
    BY DEF Texts
<1>4. QED
    BY <1>2, <1>3, OptionalText

\* A struct whose checks are plain has a plain verdict; accepted, it has only
\* bits that this version knows and passes each check.
LEMMA StructVerdict ==
    ASSUME NEW o, NEW bits, NEW flags, NEW checks \in Seq(Plain)
    PROVE  /\ Struct(o, bits, flags, checks) \in Plain
           /\ Struct(o, bits, flags, checks) = "Ok" =>
                /\ o.present \subseteq bits /\ o.flags \subseteq flags
                /\ \A i \in 1..Len(checks) : checks[i] = "Ok"
<1> DEFINE a == read_input_struct(o)
           b == Check(o.present \subseteq bits /\ o.flags \subseteq flags, "AbiMismatch")
<1>1. a \in Plain
  <2>1. read_required(o.pointer) \in Plain /\ Check(o.header, "AbiMismatch") \in Plain
      BY DEF read_required, Check, Plain
  <2>2. QED
      BY <2>1, FirstOfTwo DEF read_input_struct
<1>2. b \in Plain
    BY DEF Check, Plain
<1>3. b = "Ok" => o.present \subseteq bits /\ o.flags \subseteq flags
    BY DEF Check
<1>4. Struct(o, bits, flags, checks) = FirstFailure(<<a, b>> \o checks)
    BY DEF Struct
<1> HIDE DEF a, b
<1>5. <<a, b>> \in Seq(Plain) /\ Len(<<a, b>>) = 2 /\ <<a, b>>[2] = b
    BY <1>1, <1>2
<1>6. QED
  <2>1. /\ FirstFailure(<<a, b>> \o checks) \in Plain
        /\ FirstFailure(<<a, b>> \o checks) = "Ok" =>
             /\ \A i \in 1..Len(<<a, b>>) : <<a, b>>[i] = "Ok"
             /\ \A i \in 1..Len(checks) : checks[i] = "Ok"
      BY <1>5, Joined
  <2>2. 2 \in 1..Len(<<a, b>>)
      BY <1>5
  <2>3. QED
      BY <1>3, <1>4, <1>5, <2>1, <2>2

\* Options are kept once every view has its bit, every number is given, and
\* no bit is unknown.
LEMMA Kept ==
    ASSUME NEW o,
           "unknown" \notin o.present, "unknown" \notin o.flags,
           \A f \in DOMAIN o.views : f \in o.present \/ Canonical(o.views[f]),
           \A n \in DOMAIN o.counts : o.counts[n] = 0 \/ n = "chunk_size" \/ n \in o.present
    PROVE  Asked(o) \subseteq Applied(o)
<1> SUFFICES ASSUME NEW x \in Asked(o), o.pointer # "Null" PROVE x \in Applied(o)
    BY DEF Asked
<1>1. \/ x \in o.present \/ x \in o.flags
      \/ x \in DOMAIN o.views /\ ~Canonical(o.views[x])
      \/ x \in DOMAIN o.counts /\ o.counts[x] # 0
    BY DEF Asked
<1>2. \/ x \in o.present \/ x \in o.flags
      \/ x \in DOMAIN o.counts /\ x = "chunk_size"
    BY <1>1
<1>3. QED
    BY <1>2 DEF Applied

\* What every option struct a caller passes looks like.
LEMMA RawShape ==
    ASSUME NEW fields, NEW bits, NEW flags, NEW counts, NEW ranges,
           NEW o \in RawOptions(fields, bits, flags, counts, ranges)
    PROVE  DOMAIN o.views = fields /\ o.counts \in counts /\ o.range \in ranges
BY DEF RawOptions

-----------------------------------------------------------------------------
(* Option structs: what is accepted is kept. *)

\* The fields of the conditions and of the headers.
LEMMA FieldLists ==
    /\ DOMAIN Conditions = 1..3 /\ Range(Conditions) = {"version", "if_match", "if_none_match"}
    /\ DOMAIN Headers = 1..6
    /\ Range(Headers) = {"content_type", "content_disposition", "content_encoding",
                         "cache_control", "if_match", "if_none_match"}
    /\ \A f \in Range(Conditions) : \E i \in 1..3 : f = Conditions[i]
    /\ \A f \in Range(Headers) : \E i \in 1..6 : f = Headers[i]
<1>1. DOMAIN Conditions = 1..3 /\ DOMAIN Headers = 1..6
    BY DEF Conditions, Headers
<1>2. Range(Conditions) = {Conditions[1], Conditions[2], Conditions[3]}
    BY <1>1 DEF Range
<1>3. Range(Headers) = {Headers[1], Headers[2], Headers[3], Headers[4], Headers[5], Headers[6]}
    BY <1>1 DEF Range
<1>4. /\ Conditions[1] = "version" /\ Conditions[2] = "if_match" /\ Conditions[3] = "if_none_match"
      /\ Headers[1] = "content_type" /\ Headers[2] = "content_disposition"
      /\ Headers[3] = "content_encoding" /\ Headers[4] = "cache_control"
      /\ Headers[5] = "if_match" /\ Headers[6] = "if_none_match"
    BY DEF Conditions, Headers
<1>5. QED
    BY <1>1, <1>2, <1>3, <1>4

\* A struct of texts only: conditions, or headers.
LEMMA TextsKept ==
    ASSUME NEW o, NEW n \in Nat, NEW fields, DOMAIN fields = 1..n, NEW bits, NEW flags,
           "unknown" \notin bits, "unknown" \notin flags,
           NEW front \in Seq(Plain),
           \A f \in DOMAIN o.views : \E i \in 1..n : f = fields[i],
           \A c \in DOMAIN o.counts : c = "chunk_size"
    PROVE  /\ Struct(o, bits, flags, front \o Texts(o, fields)) \in Plain
           /\ Struct(o, bits, flags, front \o Texts(o, fields)) = "Ok" =>
                Asked(o) \subseteq Applied(o)
<1> DEFINE checks == front \o Texts(o, fields)
<1>1. /\ Texts(o, fields) \in Seq(Plain) /\ Len(Texts(o, fields)) = n
      /\ \A i \in 1..n : Texts(o, fields)[i] = "Ok" =>
           (fields[i] \in o.present \/ Canonical(o.views[fields[i]]))
    BY TextsVerdict
<1>2. checks \in Seq(Plain) /\ Len(checks) = Len(front) + n /\ Len(front) \in Nat
    BY <1>1, ConcatProperties
<1>3. \A i \in 1..Len(front) + n :
        checks[i] = IF i <= Len(front) THEN front[i] ELSE Texts(o, fields)[i - Len(front)]
    BY <1>1, ConcatProperties
<1> HIDE DEF checks
<1>4. /\ Struct(o, bits, flags, checks) \in Plain
      /\ Struct(o, bits, flags, checks) = "Ok" =>
           /\ o.present \subseteq bits /\ o.flags \subseteq flags
           /\ \A i \in 1..Len(checks) : checks[i] = "Ok"
    BY <1>2, StructVerdict
<1>5. ASSUME Struct(o, bits, flags, checks) = "Ok" PROVE Asked(o) \subseteq Applied(o)
  <2>1. ASSUME NEW i \in 1..n PROVE fields[i] \in o.present \/ Canonical(o.views[fields[i]])
    <3>1. i + Len(front) \in 1..Len(front) + n /\ ~(i + Len(front) <= Len(front))
          /\ (i + Len(front)) - Len(front) = i
        BY <1>2
    <3>2. Texts(o, fields)[i] = "Ok"
        BY <1>2, <1>3, <1>4, <1>5, <3>1
    <3>3. QED
        BY <1>1, <3>2
  <2>2. \A f \in DOMAIN o.views : f \in o.present \/ Canonical(o.views[f])
      BY <2>1
  <2>3. "unknown" \notin o.present /\ "unknown" \notin o.flags
      BY <1>4, <1>5
  <2>4. \A c \in DOMAIN o.counts : o.counts[c] = 0 \/ c = "chunk_size" \/ c \in o.present
      OBVIOUS
  <2>5. QED
      BY <2>2, <2>3, <2>4, Kept
<1>6. QED
    BY <1>4, <1>5 DEF checks

\* Without options nothing is asked for.
LEMMA NullAsksNothing ==
    ASSUME NEW o, NEW verdict,
           verdict \in Plain /\ (verdict = "Ok" => Asked(o) \subseteq Applied(o))
    PROVE  /\ Defaulted(o, verdict) \in Plain
           /\ Defaulted(o, verdict) = "Ok" => Asked(o) \subseteq Applied(o)
BY DEF Defaulted, Asked, Plain

\* parse_read_options: the range, then the conditions.
LEMMA ReadKept ==
    ASSUME NEW o \in RawRead
    PROVE  /\ parse_read_options(o) \in Plain
           /\ parse_read_options(o) = "Ok" => Asked(o) \subseteq Applied(o)
<1> DEFINE n == 3
           fields == Conditions
           bits == Range(Conditions)
           flags == {}
           front == <<o.range>>
           verdict == Struct(o, bits, flags, front \o Texts(o, fields))
<1>1. /\ \A f \in DOMAIN o.views : \E i \in 1..n : f = fields[i]
      /\ n \in Nat /\ DOMAIN fields = 1..n
      /\ "unknown" \notin bits /\ "unknown" \notin flags
    BY RawShape, FieldLists DEF RawRead
<1>2. \A c \in DOMAIN o.counts : c = "chunk_size"
  <2>1. o.counts = <<>>
      BY RawShape DEF RawRead
  <2>2. QED
      BY <2>1
<1>3. front \in Seq(Plain)
  <2>1. o.range \in Plain
      BY RawShape DEF RawRead, Ranges, Plain
  <2>2. QED
      BY <2>1
<1>4. parse_read_options(o) = Defaulted(o, verdict)
    BY DEF parse_read_options
<1> HIDE DEF n, fields, bits, flags, front
<1>5. verdict \in Plain /\ (verdict = "Ok" => Asked(o) \subseteq Applied(o))
    BY <1>1, <1>2, <1>3, TextsKept, SMTT(60)
<1> HIDE DEF verdict
<1>6. QED
    BY <1>4, <1>5, NullAsksNothing

\* parse_reader_options: the conditions.
LEMMA ReaderKept ==
    ASSUME NEW o \in RawReader
    PROVE  /\ parse_reader_options(o) \in Plain
           /\ parse_reader_options(o) = "Ok" => Asked(o) \subseteq Applied(o)
<1> DEFINE n == 3
           fields == Conditions
           bits == Range(Conditions)
           flags == {}
           front == <<>>
           verdict == Struct(o, bits, flags, front \o Texts(o, fields))
<1>1. /\ \A f \in DOMAIN o.views : \E i \in 1..n : f = fields[i]
      /\ n \in Nat /\ DOMAIN fields = 1..n
      /\ "unknown" \notin bits /\ "unknown" \notin flags
    BY RawShape, FieldLists DEF RawReader
<1>2. \A c \in DOMAIN o.counts : c = "chunk_size"
  <2>1. o.counts = <<>>
      BY RawShape DEF RawReader
  <2>2. QED
      BY <2>1
<1>3. front \in Seq(Plain)
    OBVIOUS
<1>4. parse_reader_options(o) = Defaulted(o, verdict)
  <2>1. front \o Texts(o, fields) = Texts(o, fields)
      BY <1>1, TextsVerdict, ConcatEmptySeq
  <2>2. QED
      BY <2>1 DEF parse_reader_options
<1> HIDE DEF n, fields, bits, flags, front
<1>5. verdict \in Plain /\ (verdict = "Ok" => Asked(o) \subseteq Applied(o))
    BY <1>1, <1>2, <1>3, TextsKept, SMTT(60)
<1> HIDE DEF verdict
<1>6. QED
    BY <1>4, <1>5, NullAsksNothing

\* parse_read_stream_options: the chunk size, the range, the conditions.
LEMMA StreamKept ==
    ASSUME NEW o \in RawStream
    PROVE  /\ parse_read_stream_options(o) \in Plain
           /\ parse_read_stream_options(o) = "Ok" => Asked(o) \subseteq Applied(o)
<1> DEFINE n == 3
           fields == Conditions
           bits == Range(Conditions)
           flags == {}
           front == <<Check(o.counts["chunk_size"] \in 1..MaxOutput, "InvalidArgument"), o.range>>
           verdict == Struct(o, bits, flags, front \o Texts(o, fields))
<1>1. /\ \A f \in DOMAIN o.views : \E i \in 1..n : f = fields[i]
      /\ n \in Nat /\ DOMAIN fields = 1..n
      /\ "unknown" \notin bits /\ "unknown" \notin flags
    BY RawShape, FieldLists DEF RawStream
<1>2. \A c \in DOMAIN o.counts : c = "chunk_size"
    BY RawShape DEF RawStream
<1>3. front \in Seq(Plain)
  <2>1. o.range \in Plain
      BY RawShape DEF RawStream, Ranges, Plain
  <2>2. Check(o.counts["chunk_size"] \in 1..MaxOutput, "InvalidArgument") \in Plain
      BY DEF Check, Plain
  <2>3. QED
      BY <2>1, <2>2
<1>4. parse_read_stream_options(o) = verdict
    BY DEF parse_read_stream_options
<1> HIDE DEF n, fields, bits, flags, front
<1>5. verdict \in Plain /\ (verdict = "Ok" => Asked(o) \subseteq Applied(o))
    BY <1>1, <1>2, <1>3, TextsKept, SMTT(60)
<1> HIDE DEF verdict
<1>6. QED
    BY <1>4, <1>5

\* parse_stat_options: the conditions.
LEMMA StatKept ==
    ASSUME NEW o \in RawReader
    PROVE  /\ parse_stat_options(o) \in Plain
           /\ parse_stat_options(o) = "Ok" => Asked(o) \subseteq Applied(o)
<1> DEFINE n == 3
           fields == Conditions
           bits == Range(Conditions)
           flags == {}
           front == <<>>
           verdict == Struct(o, bits, flags, front \o Texts(o, fields))
<1>1. /\ \A f \in DOMAIN o.views : \E i \in 1..n : f = fields[i]
      /\ n \in Nat /\ DOMAIN fields = 1..n
      /\ "unknown" \notin bits /\ "unknown" \notin flags
    BY RawShape, FieldLists DEF RawReader
<1>2. \A c \in DOMAIN o.counts : c = "chunk_size"
  <2>1. o.counts = <<>>
      BY RawShape DEF RawReader
  <2>2. QED
      BY <2>1
<1>3. front \in Seq(Plain)
    OBVIOUS
<1>4. parse_stat_options(o) = Defaulted(o, verdict)
  <2>1. front \o Texts(o, fields) = Texts(o, fields)
      BY <1>1, TextsVerdict, ConcatEmptySeq
  <2>2. QED
      BY <2>1 DEF parse_stat_options
<1> HIDE DEF n, fields, bits, flags, front
<1>5. verdict \in Plain /\ (verdict = "Ok" => Asked(o) \subseteq Applied(o))
    BY <1>1, <1>2, <1>3, TextsKept, SMTT(60)
<1> HIDE DEF verdict
<1>6. QED
    BY <1>4, <1>5, NullAsksNothing

\* parse_write_options: the headers.
LEMMA WriteKept ==
    ASSUME NEW o \in RawWrite
    PROVE  /\ parse_write_options(o) \in Plain
           /\ parse_write_options(o) = "Ok" => Asked(o) \subseteq Applied(o)
<1> DEFINE n == 6
           fields == Headers
           bits == Range(Headers)
           flags == {"append"}
           front == <<>>
           verdict == Struct(o, bits, flags, front \o Texts(o, fields))
<1>1. /\ \A f \in DOMAIN o.views : \E i \in 1..n : f = fields[i]
      /\ n \in Nat /\ DOMAIN fields = 1..n
      /\ "unknown" \notin bits /\ "unknown" \notin flags
    BY RawShape, FieldLists DEF RawWrite
<1>2. \A c \in DOMAIN o.counts : c = "chunk_size"
  <2>1. o.counts = <<>>
      BY RawShape DEF RawWrite
  <2>2. QED
      BY <2>1
<1>3. front \in Seq(Plain)
    OBVIOUS
<1>4. parse_write_options(o) = Defaulted(o, verdict)
  <2>1. front \o Texts(o, fields) = Texts(o, fields)
      BY <1>1, TextsVerdict, ConcatEmptySeq
  <2>2. QED
      BY <2>1 DEF parse_write_options
<1> HIDE DEF n, fields, bits, flags, front
<1>5. verdict \in Plain /\ (verdict = "Ok" => Asked(o) \subseteq Applied(o))
    BY <1>1, <1>2, <1>3, TextsKept, SMTT(60)
<1> HIDE DEF verdict
<1>6. QED
    BY <1>4, <1>5, NullAsksNothing

\* parse_list_options: a limit has its bit or is zero.
LEMMA ListKept ==
    ASSUME NEW o \in RawList
    PROVE  /\ parse_list_options(o) \in Plain
           /\ parse_list_options(o) = "Ok" => Asked(o) \subseteq Applied(o)
<1> DEFINE a == IF "limit" \in o.present THEN checked_len(o.counts["limit"])
                ELSE Check(o.counts["limit"] = 0, "AbiMismatch")
           b == optional_text(o, "start_after")
           bits == {"limit", "start_after"}
           flags == {"recursive"}
           checks == <<a, b>>
           verdict == Struct(o, bits, flags, checks)
<1>1. DOMAIN o.views = {"start_after"} /\ DOMAIN o.counts = {"limit"}
    BY RawShape DEF RawList
<1>2. a \in Plain /\ b \in Plain
    BY OptionalText DEF checked_len, Check, Plain
<1>3. a = "Ok" => ("limit" \in o.present \/ o.counts["limit"] = 0)
    BY DEF Check
<1>4. b = "Ok" => ("start_after" \in o.present \/ Canonical(o.views["start_after"]))
    BY OptionalText
<1>5. parse_list_options(o) = Defaulted(o, verdict)
    BY DEF parse_list_options
<1> HIDE DEF a, b
<1>6. checks \in Seq(Plain) /\ Len(checks) = 2 /\ checks[1] = a /\ checks[2] = b
    BY <1>2
<1> HIDE DEF bits, flags, checks
<1>7. /\ verdict \in Plain
      /\ verdict = "Ok" => /\ o.present \subseteq bits /\ o.flags \subseteq flags
                           /\ \A i \in 1..Len(checks) : checks[i] = "Ok"
    BY <1>6, StructVerdict
<1> HIDE DEF verdict
<1>8. verdict = "Ok" => Asked(o) \subseteq Applied(o)
  <2> SUFFICES ASSUME verdict = "Ok" PROVE Asked(o) \subseteq Applied(o)
      OBVIOUS
  <2>1. 1 \in 1..Len(checks) /\ 2 \in 1..Len(checks)
      BY <1>6
  <2>2. a = "Ok" /\ b = "Ok"
      BY <1>6, <1>7, <2>1
  <2>3. "unknown" \notin o.present /\ "unknown" \notin o.flags
      BY <1>7 DEF bits, flags
  <2>4. /\ \A f \in DOMAIN o.views : f \in o.present \/ Canonical(o.views[f])
        /\ \A n \in DOMAIN o.counts : o.counts[n] = 0 \/ n = "chunk_size" \/ n \in o.present
      BY <1>1, <1>3, <1>4, <2>2
  <2>5. QED
      BY <2>3, <2>4, Kept
<1>9. QED
    BY <1>5, <1>7, <1>8, NullAsksNothing

\* parse_delete_options: a version.
LEMMA DeleteKept ==
    ASSUME NEW o \in RawDelete
    PROVE  /\ parse_delete_options(o) \in Plain
           /\ parse_delete_options(o) = "Ok" => Asked(o) \subseteq Applied(o)
<1> DEFINE b == optional_text(o, "version")
           bits == {"version"}
           flags == {"recursive"}
           checks == <<b>>
           verdict == Struct(o, bits, flags, checks)
<1>1. DOMAIN o.views = {"version"} /\ o.counts = <<>>
    BY RawShape DEF RawDelete
<1>2. b \in Plain /\ (b = "Ok" => ("version" \in o.present \/ Canonical(o.views["version"])))
    BY OptionalText
<1>3. parse_delete_options(o) = Defaulted(o, verdict)
    BY DEF parse_delete_options
<1> HIDE DEF b
<1>4. checks \in Seq(Plain) /\ Len(checks) = 1 /\ checks[1] = b
    BY <1>2
<1> HIDE DEF bits, flags, checks
<1>5. /\ verdict \in Plain
      /\ verdict = "Ok" => /\ o.present \subseteq bits /\ o.flags \subseteq flags
                           /\ \A i \in 1..Len(checks) : checks[i] = "Ok"
    BY <1>4, StructVerdict
<1> HIDE DEF verdict
<1>6. verdict = "Ok" => Asked(o) \subseteq Applied(o)
  <2> SUFFICES ASSUME verdict = "Ok" PROVE Asked(o) \subseteq Applied(o)
      OBVIOUS
  <2>1. 1 \in 1..Len(checks)
      BY <1>4
  <2>2. b = "Ok"
      BY <1>4, <1>5, <2>1
  <2>3. "unknown" \notin o.present /\ "unknown" \notin o.flags
      BY <1>5 DEF bits, flags
  <2>4. /\ \A f \in DOMAIN o.views : f \in o.present \/ Canonical(o.views[f])
        /\ \A n \in DOMAIN o.counts : o.counts[n] = 0 \/ n = "chunk_size" \/ n \in o.present
      BY <1>1, <1>2, <2>2
  <2>5. QED
      BY <2>3, <2>4, Kept
<1>7. QED
    BY <1>3, <1>5, <1>6, NullAsksNothing

-----------------------------------------------------------------------------
(* S3 options: every authentication mode uses or refuses each of them. *)

\* Every check of a sequence is good.
Passed(checks) == \A i \in 1..Len(checks) : checks[i] = "Ok"

\* Groups of checks pass together.
LEMMA PassedJoined ==
    ASSUME NEW a \in Seq(Plain), NEW b \in Seq(Plain)
    PROVE  a \o b \in Seq(Plain) /\ (Passed(a \o b) => Passed(a) /\ Passed(b))
<1> DEFINE c == a \o b
<1>1. c \in Seq(Plain) /\ Len(c) = Len(a) + Len(b) /\ Len(a) \in Nat /\ Len(b) \in Nat
    BY ConcatProperties
<1>2. \A i \in 1..Len(a) + Len(b) : c[i] = IF i <= Len(a) THEN a[i] ELSE b[i - Len(a)]
    BY ConcatProperties
<1> HIDE DEF c
<1>3. ASSUME Passed(c) PROVE Passed(a) /\ Passed(b)
  <2>1. ASSUME NEW i \in 1..Len(a) PROVE a[i] = "Ok"
    <3>1. i \in 1..Len(a) + Len(b) /\ i <= Len(a)
        BY <1>1
    <3>2. QED
        BY <1>1, <1>2, <1>3, <3>1 DEF Passed
  <2>2. ASSUME NEW i \in 1..Len(b) PROVE b[i] = "Ok"
    <3>1. i + Len(a) \in 1..Len(a) + Len(b) /\ ~(i + Len(a) <= Len(a))
          /\ (i + Len(a)) - Len(a) = i
        BY <1>1
    <3>2. QED
        BY <1>1, <1>2, <1>3, <3>1 DEF Passed
  <2>3. QED
      BY <2>1, <2>2 DEF Passed
<1>4. QED
    BY <1>1, <1>3 DEF c

\* The checks of single fields, and what passing them says.
LEMMA FieldChecks ==
    ASSUME NEW o, NEW f
    PROVE  /\ required_nonempty_text(o, f) \in Plain
           /\ optional_nonempty_text(o, f) \in Plain
           /\ optional_nonempty_text(o, f) = "Ok" => (f \in o.present \/ Canonical(o.views[f]))
           /\ require_absent_view(o, f) \in Plain
           /\ require_absent_view(o, f) = "Ok" => Canonical(o.views[f])
           /\ reject_present_field(o, f) \in Plain
           /\ reject_present_field(o, f) = "Ok" => f \notin o.present
           /\ SourceIs(o, f) \in Plain /\ (SourceIs(o, f) = "Ok" => o.source = f)
           /\ SignsByKey(o) \in Plain
           /\ SignsByKey(o) = "Ok" => "disable_ec2_metadata" \notin o.flags
           /\ parse_duration(o) \in Plain
           /\ parse_duration(o) = "Ok" => ("duration" \in o.present \/ o.counts["duration"] = 0)
           /\ Check(o.counts["duration"] = 0, "AbiMismatch") \in Plain
           /\ Check(o.counts["duration"] = 0, "AbiMismatch") = "Ok" => o.counts["duration"] = 0
<1>1. required_nonempty_text(o, f) \in Plain
  <2>1. read_text_value(o.views[f]) \in Plain
      BY TextVerdicts
  <2>2. Check(o.views[f].len # 0, "InvalidArgument") \in Plain
      BY DEF Check, Plain
  <2>3. QED
      BY <2>1, <2>2, FirstOfTwo DEF required_nonempty_text
<1>2. /\ optional_nonempty_text(o, f) \in Plain
      /\ optional_nonempty_text(o, f) = "Ok" => (f \in o.present \/ Canonical(o.views[f]))
  <2>1. /\ optional_text(o, f) \in Plain
        /\ optional_text(o, f) = "Ok" => (f \in o.present \/ Canonical(o.views[f]))
      BY OptionalText
  <2>2. Check(f \in o.present => o.views[f].len # 0, "InvalidArgument") \in Plain
      BY DEF Check, Plain
  <2>3. QED
      BY <2>1, <2>2, FirstOfTwo DEF optional_nonempty_text
<1>3. /\ require_absent_view(o, f) \in Plain
      /\ require_absent_view(o, f) = "Ok" => Canonical(o.views[f])
      /\ reject_present_field(o, f) \in Plain
      /\ reject_present_field(o, f) = "Ok" => f \notin o.present
    BY DEF require_absent_view, reject_present_field, Check, Plain
<1>4. /\ SourceIs(o, f) \in Plain /\ (SourceIs(o, f) = "Ok" => o.source = f)
      /\ SignsByKey(o) \in Plain
      /\ SignsByKey(o) = "Ok" => "disable_ec2_metadata" \notin o.flags
    BY DEF SourceIs, SignsByKey, Check, Plain
<1>5. /\ parse_duration(o) \in Plain
      /\ parse_duration(o) = "Ok" => ("duration" \in o.present \/ o.counts["duration"] = 0)
      /\ Check(o.counts["duration"] = 0, "AbiMismatch") \in Plain
      /\ Check(o.counts["duration"] = 0, "AbiMismatch") = "Ok" => o.counts["duration"] = 0
    BY DEF parse_duration, Check, Plain
<1>6. QED
    BY <1>1, <1>2, <1>3, <1>4, <1>5

\* No role: neither its bits nor its views nor its duration are set.
NoRole(o) ==
    /\ {"external_id", "role_session_name", "duration"} \cap o.present = {}
    /\ \A f \in S3Role : Canonical(o.views[f])
    /\ o.counts["duration"] = 0

\* reject_role_fields refuses every trace of a role.
LEMMA RoleRejected ==
    ASSUME NEW o
    PROVE  reject_role_fields(o) \in Seq(Plain) /\ (Passed(reject_role_fields(o)) => NoRole(o))
<1> DEFINE a == reject_present_field(o, "external_id")
           b == reject_present_field(o, "role_session_name")
           c == reject_present_field(o, "duration")
           d == require_absent_view(o, "role_arn")
           e == require_absent_view(o, "external_id")
           g == require_absent_view(o, "role_session_name")
           h == Check(o.counts["duration"] = 0, "AbiMismatch")
<1>1. /\ a \in Plain /\ (a = "Ok" => "external_id" \notin o.present)
      /\ b \in Plain /\ (b = "Ok" => "role_session_name" \notin o.present)
      /\ c \in Plain /\ (c = "Ok" => "duration" \notin o.present)
      /\ d \in Plain /\ (d = "Ok" => Canonical(o.views["role_arn"]))
      /\ e \in Plain /\ (e = "Ok" => Canonical(o.views["external_id"]))
      /\ g \in Plain /\ (g = "Ok" => Canonical(o.views["role_session_name"]))
      /\ h \in Plain /\ (h = "Ok" => o.counts["duration"] = 0)
    BY FieldChecks
<1>2. reject_role_fields(o) = <<a, b, c, d, e, g, h>>
    BY DEF reject_role_fields
<1> HIDE DEF a, b, c, d, e, g, h
<1>3. reject_role_fields(o) \in Seq(Plain) /\ Len(reject_role_fields(o)) = 7
    BY <1>1, <1>2
<1>4. Passed(reject_role_fields(o)) =>
        a = "Ok" /\ b = "Ok" /\ c = "Ok" /\ d = "Ok" /\ e = "Ok" /\ g = "Ok" /\ h = "Ok"
    BY <1>2, <1>3 DEF Passed
<1>5. QED
    BY <1>1, <1>3, <1>4 DEF NoRole, S3Role

\* No keys: none of the static credentials is set.
NoKeys(o) == "session_token" \notin o.present /\ \A f \in S3Keys : Canonical(o.views[f])

\* reject_static_credentials refuses every trace of a key.
LEMMA KeysRejected ==
    ASSUME NEW o
    PROVE  /\ reject_static_credentials(o) \in Seq(Plain)
           /\ Passed(reject_static_credentials(o)) => NoKeys(o)
<1> DEFINE a == reject_present_field(o, "session_token")
           b == require_absent_view(o, "access_key_id")
           c == require_absent_view(o, "secret_access_key")
           d == require_absent_view(o, "session_token")
<1>1. /\ a \in Plain /\ (a = "Ok" => "session_token" \notin o.present)
      /\ b \in Plain /\ (b = "Ok" => Canonical(o.views["access_key_id"]))
      /\ c \in Plain /\ (c = "Ok" => Canonical(o.views["secret_access_key"]))
      /\ d \in Plain /\ (d = "Ok" => Canonical(o.views["session_token"]))
    BY FieldChecks
<1>2. reject_static_credentials(o) = <<a, b, c, d>>
    BY DEF reject_static_credentials
<1> HIDE DEF a, b, c, d
<1>3. reject_static_credentials(o) \in Seq(Plain) /\ Len(reject_static_credentials(o)) = 4
    BY <1>1, <1>2
<1>4. Passed(reject_static_credentials(o)) => a = "Ok" /\ b = "Ok" /\ c = "Ok" /\ d = "Ok"
    BY <1>2, <1>3 DEF Passed
<1>5. QED
    BY <1>1, <1>3, <1>4 DEF NoKeys, S3Keys

\* parse_static_credentials: a session token that is set has its bit.
LEMMA KeysParsed ==
    ASSUME NEW o
    PROVE  /\ parse_static_credentials(o) \in Seq(Plain)
           /\ Passed(parse_static_credentials(o)) =>
                ("session_token" \in o.present \/ Canonical(o.views["session_token"]))
<1> DEFINE a == required_nonempty_text(o, "access_key_id")
           b == required_nonempty_text(o, "secret_access_key")
           c == optional_nonempty_text(o, "session_token")
<1>1. /\ a \in Plain /\ b \in Plain /\ c \in Plain
      /\ c = "Ok" => ("session_token" \in o.present \/ Canonical(o.views["session_token"]))
    BY FieldChecks
<1>2. parse_static_credentials(o) = <<a, b, c>>
    BY DEF parse_static_credentials
<1> HIDE DEF a, b, c
<1>3. parse_static_credentials(o) \in Seq(Plain) /\ Len(parse_static_credentials(o)) = 3
    BY <1>1, <1>2
<1>4. Passed(parse_static_credentials(o)) => c = "Ok"
    BY <1>2, <1>3 DEF Passed
<1>5. QED
    BY <1>1, <1>3, <1>4

\* What an accepted authentication mode has, and has not.
TokenGiven(o) == "session_token" \in o.present \/ Canonical(o.views["session_token"])
RoleGiven(o) ==
    /\ "external_id" \in o.present \/ Canonical(o.views["external_id"])
    /\ "role_session_name" \in o.present \/ Canonical(o.views["role_session_name"])
    /\ "duration" \in o.present \/ o.counts["duration"] = 0
NoMetadataFlag(o) == "disable_ec2_metadata" \notin o.flags
Authentic(o) ==
    \/ /\ o.auth = "DefaultChain" /\ o.source = "DefaultChain"
       /\ NoKeys(o) /\ NoRole(o)
    \/ /\ o.auth = "Static" /\ o.source = "Static"
       /\ NoMetadataFlag(o) /\ TokenGiven(o) /\ NoRole(o)
    \/ /\ o.auth = "Unsigned" /\ NoMetadataFlag(o) /\ NoKeys(o) /\ NoRole(o)
    \/ /\ o.auth = "AssumeRole" /\ o.source = "DefaultChain"
       /\ RoleGiven(o) /\ NoKeys(o)
    \/ /\ o.auth = "AssumeRole" /\ o.source = "Static"
       /\ RoleGiven(o) /\ NoMetadataFlag(o) /\ TokenGiven(o)

\* A single check, and a pair, as sequences.
LEMMA Singles ==
    ASSUME NEW a \in Plain, NEW b \in Plain
    PROVE  /\ <<a>> \in Seq(Plain) /\ (Passed(<<a>>) => a = "Ok")
           /\ <<a, b>> \in Seq(Plain) /\ (Passed(<<a, b>>) => a = "Ok" /\ b = "Ok")
BY DEF Passed

\* parse_s3_auth accepts exactly such modes.
LEMMA AuthChecked ==
    ASSUME NEW o
    PROVE  parse_s3_auth(o) \in Seq(Plain) /\ (Passed(parse_s3_auth(o)) => Authentic(o))
<1> DEFINE chain == SourceIs(o, "DefaultChain")
           static == SourceIs(o, "Static")
           signs == SignsByKey(o)
           noKeys == reject_static_credentials(o)
           noRole == reject_role_fields(o)
           keys == parse_static_credentials(o)
           refused == <<"InvalidArgument">>
<1>1. /\ chain \in Plain /\ (chain = "Ok" => o.source = "DefaultChain")
      /\ static \in Plain /\ (static = "Ok" => o.source = "Static")
      /\ signs \in Plain /\ (signs = "Ok" => NoMetadataFlag(o))
    BY FieldChecks DEF NoMetadataFlag
<1>2. /\ noKeys \in Seq(Plain) /\ (Passed(noKeys) => NoKeys(o))
      /\ noRole \in Seq(Plain) /\ (Passed(noRole) => NoRole(o))
      /\ keys \in Seq(Plain) /\ (Passed(keys) => TokenGiven(o))
    BY KeysRejected, RoleRejected, KeysParsed DEF TokenGiven
<1>3. refused \in Seq(Plain) /\ ~Passed(refused)
  <2>1. "InvalidArgument" \in Plain /\ "InvalidArgument" # "Ok"
      BY DEF Plain
  <2>2. QED
      BY <2>1, Singles
<1>4. CASE o.auth = "DefaultChain"
  <2>1. parse_s3_auth(o) = <<chain>> \o noKeys \o noRole
      BY <1>4 DEF parse_s3_auth
  <2> HIDE DEF chain, static, signs, noKeys, noRole, keys
  <2>2. <<chain>> \in Seq(Plain) /\ (Passed(<<chain>>) => chain = "Ok")
      BY <1>1, Singles
  <2>3. /\ <<chain>> \o noKeys \in Seq(Plain)
        /\ Passed(<<chain>> \o noKeys) => Passed(<<chain>>) /\ Passed(noKeys)
      BY <1>2, <2>2, PassedJoined
  <2>4. /\ <<chain>> \o noKeys \o noRole \in Seq(Plain)
        /\ Passed(<<chain>> \o noKeys \o noRole) => Passed(<<chain>> \o noKeys) /\ Passed(noRole)
      BY <1>2, <2>3, PassedJoined
  <2>5. QED
      BY <1>1, <1>2, <1>4, <2>1, <2>2, <2>3, <2>4 DEF Authentic
<1>5. CASE o.auth = "Static"
  <2>1. parse_s3_auth(o) = <<static, signs>> \o noRole \o keys
      BY <1>5 DEF parse_s3_auth
  <2> HIDE DEF chain, static, signs, noKeys, noRole, keys
  <2>2. /\ <<static, signs>> \in Seq(Plain)
        /\ Passed(<<static, signs>>) => static = "Ok" /\ signs = "Ok"
      BY <1>1, Singles
  <2>3. /\ <<static, signs>> \o noRole \in Seq(Plain)
        /\ Passed(<<static, signs>> \o noRole) => Passed(<<static, signs>>) /\ Passed(noRole)
      BY <1>2, <2>2, PassedJoined
  <2>4. /\ <<static, signs>> \o noRole \o keys \in Seq(Plain)
        /\ Passed(<<static, signs>> \o noRole \o keys) =>
             Passed(<<static, signs>> \o noRole) /\ Passed(keys)
      BY <1>2, <2>3, PassedJoined
  <2>5. QED
      BY <1>1, <1>2, <1>5, <2>1, <2>2, <2>3, <2>4 DEF Authentic
<1>6. CASE o.auth = "Unsigned"
  <2>1. parse_s3_auth(o) = <<chain, signs>> \o noKeys \o noRole
      BY <1>6 DEF parse_s3_auth
  <2> HIDE DEF chain, static, signs, noKeys, noRole, keys
  <2>2. /\ <<chain, signs>> \in Seq(Plain)
        /\ Passed(<<chain, signs>>) => chain = "Ok" /\ signs = "Ok"
      BY <1>1, Singles
  <2>3. /\ <<chain, signs>> \o noKeys \in Seq(Plain)
        /\ Passed(<<chain, signs>> \o noKeys) => Passed(<<chain, signs>>) /\ Passed(noKeys)
      BY <1>2, <2>2, PassedJoined
  <2>4. /\ <<chain, signs>> \o noKeys \o noRole \in Seq(Plain)
        /\ Passed(<<chain, signs>> \o noKeys \o noRole) =>
             Passed(<<chain, signs>> \o noKeys) /\ Passed(noRole)
      BY <1>2, <2>3, PassedJoined
  <2>5. QED
      BY <1>1, <1>2, <1>6, <2>1, <2>2, <2>3, <2>4 DEF Authentic
<1>7. CASE o.auth = "AssumeRole"
  <2> DEFINE a == required_nonempty_text(o, "role_arn")
             b == optional_nonempty_text(o, "external_id")
             c == optional_nonempty_text(o, "role_session_name")
             d == parse_duration(o)
             role == <<a, b, c, d>>
  <2>1. parse_s3_auth(o) = role \o (CASE o.source = "DefaultChain" -> noKeys
                                      [] o.source = "Static" -> <<signs>> \o keys
                                      [] OTHER -> refused)
      BY <1>7 DEF parse_s3_auth
  <2>2. role \in Seq(Plain) /\ (Passed(role) => RoleGiven(o))
    <3>1. /\ a \in Plain /\ b \in Plain /\ c \in Plain /\ d \in Plain
          /\ b = "Ok" => ("external_id" \in o.present \/ Canonical(o.views["external_id"]))
          /\ c = "Ok" => ("role_session_name" \in o.present
                            \/ Canonical(o.views["role_session_name"]))
          /\ d = "Ok" => ("duration" \in o.present \/ o.counts["duration"] = 0)
        BY FieldChecks
    <3> HIDE DEF a, b, c, d
    <3>2. role \in Seq(Plain) /\ (Passed(role) => b = "Ok" /\ c = "Ok" /\ d = "Ok")
        BY <3>1 DEF Passed
    <3>3. QED
        BY <3>1, <3>2 DEF RoleGiven
  <2> HIDE DEF chain, static, signs, noKeys, noRole, keys, role, refused
  <2>3. CASE o.source = "DefaultChain"
    <3>1. parse_s3_auth(o) = role \o noKeys
        BY <2>1, <2>3
    <3>2. role \o noKeys \in Seq(Plain) /\ (Passed(role \o noKeys) => Passed(role) /\ Passed(noKeys))
        BY <1>2, <2>2, PassedJoined
    <3>3. QED
        BY <1>2, <1>7, <2>2, <2>3, <3>1, <3>2 DEF Authentic
  <2>4. CASE o.source = "Static"
    <3>1. parse_s3_auth(o) = role \o (<<signs>> \o keys)
        BY <2>1, <2>4
    <3>2. <<signs>> \in Seq(Plain) /\ (Passed(<<signs>>) => signs = "Ok")
        BY <1>1, Singles
    <3>3. /\ <<signs>> \o keys \in Seq(Plain)
          /\ Passed(<<signs>> \o keys) => Passed(<<signs>>) /\ Passed(keys)
        BY <1>2, <3>2, PassedJoined
    <3>4. /\ role \o (<<signs>> \o keys) \in Seq(Plain)
          /\ Passed(role \o (<<signs>> \o keys)) => Passed(role) /\ Passed(<<signs>> \o keys)
        BY <2>2, <3>3, PassedJoined
    <3>5. QED
        BY <1>1, <1>2, <1>7, <2>2, <2>4, <3>1, <3>2, <3>3, <3>4 DEF Authentic
  <2>5. CASE ~(o.source = "DefaultChain" \/ o.source = "Static")
    <3>1. parse_s3_auth(o) = role \o refused
        BY <2>1, <2>5
    <3>2. role \o refused \in Seq(Plain) /\ ~Passed(role \o refused)
        BY <1>3, <2>2, PassedJoined
    <3>3. QED
        BY <3>1, <3>2
  <2>6. QED
      BY <2>3, <2>4, <2>5
<1>8. CASE o.auth \notin {"DefaultChain", "Static", "Unsigned", "AssumeRole"}
  <2>1. parse_s3_auth(o) = refused
      BY <1>8 DEF parse_s3_auth
  <2>2. QED
      BY <1>3, <2>1
<1>9. QED
    BY <1>4, <1>5, <1>6, <1>7, <1>8

\* An accepted S3OptionsV1 goes to the builder whole.
LEMMA S3Kept ==
    ASSUME NEW o, o.pointer = "Good", DOMAIN o.views = S3Fields, DOMAIN o.counts = {"duration"}
    PROVE  /\ parse_s3_options(o) \in Plain
           /\ parse_s3_options(o) = "Ok" => Asked(o) \subseteq build_s3_operator(o)
<1> DEFINE bits == S3Bits
           flags == {"virtual_host_style", "disable_ec2_metadata"}
           a == required_nonempty_text(o, "bucket")
           b == required_nonempty_text(o, "region")
           c == optional_nonempty_text(o, "root")
           d == optional_nonempty_text(o, "endpoint")
           common == <<a, b, c, d>>
           auth == parse_s3_auth(o)
           checks == common \o auth
<1>1. parse_s3_options(o) = Struct(o, bits, flags, checks)
    BY DEF parse_s3_options
<1>2. /\ common \in Seq(Plain)
      /\ Passed(common) => /\ "root" \in o.present \/ Canonical(o.views["root"])
                           /\ "endpoint" \in o.present \/ Canonical(o.views["endpoint"])
  <2>1. /\ a \in Plain /\ b \in Plain /\ c \in Plain /\ d \in Plain
        /\ c = "Ok" => ("root" \in o.present \/ Canonical(o.views["root"]))
        /\ d = "Ok" => ("endpoint" \in o.present \/ Canonical(o.views["endpoint"]))
      BY FieldChecks
  <2> HIDE DEF a, b, c, d
  <2>2. common \in Seq(Plain) /\ (Passed(common) => c = "Ok" /\ d = "Ok")
      BY <2>1 DEF Passed
  <2>3. QED
      BY <2>1, <2>2
<1>3. auth \in Seq(Plain) /\ (Passed(auth) => Authentic(o))
    BY AuthChecked
<1>4. bits = S3Bits /\ flags = {"virtual_host_style", "disable_ec2_metadata"}
    OBVIOUS
<1> HIDE DEF bits, flags, common, auth
<1>5. checks \in Seq(Plain) /\ (Passed(checks) => Passed(common) /\ Passed(auth))
    BY <1>2, <1>3, PassedJoined
<1> HIDE DEF checks
<1>6. /\ Struct(o, bits, flags, checks) \in Plain
      /\ Struct(o, bits, flags, checks) = "Ok" =>
           /\ o.present \subseteq bits /\ o.flags \subseteq flags
           /\ \A i \in 1..Len(checks) : checks[i] = "Ok"
    BY <1>5, StructVerdict
<1>7. ASSUME parse_s3_options(o) = "Ok" PROVE Asked(o) \subseteq build_s3_operator(o)
  <2>1. Passed(checks) /\ o.present \subseteq S3Bits
        /\ o.flags \subseteq {"virtual_host_style", "disable_ec2_metadata"}
      BY <1>1, <1>4, <1>6, <1>7 DEF Passed
  <2>2. /\ "root" \in o.present \/ Canonical(o.views["root"])
        /\ "endpoint" \in o.present \/ Canonical(o.views["endpoint"])
        /\ Authentic(o)
      BY <1>2, <1>3, <1>5, <2>1
  <2> SUFFICES ASSUME NEW x \in Asked(o) PROVE x \in build_s3_operator(o)
      OBVIOUS
  <2>3. \/ x \in o.present \/ x \in o.flags
        \/ x \in S3Fields /\ ~Canonical(o.views[x])
        \/ x = "duration" /\ o.counts["duration"] # 0
      BY DEF Asked
  <2>4. CASE x \in {"bucket", "region"}
      BY <2>4 DEF build_s3_operator
  <2>5. CASE x \in {"root", "endpoint"}
    <3>1. x \in o.present
        BY <2>1, <2>2, <2>3, <2>5
    <3>2. QED
        BY <2>5, <3>1 DEF build_s3_operator, Given
  <2>6. CASE x = "virtual_host_style"
    <3>1. x \in o.flags
        BY <2>1, <2>3, <2>6 DEF S3Bits, S3Fields, S3Keys, S3Role
    <3>2. QED
        BY <2>6, <3>1 DEF build_s3_operator
  <2>7. CASE x = "disable_ec2_metadata"
    <3>1. x \in o.flags
        BY <2>1, <2>3, <2>7 DEF S3Bits, S3Fields, S3Keys, S3Role
    <3>2. o.source = "DefaultChain" /\ o.auth \in {"DefaultChain", "AssumeRole"}
        BY <2>2, <2>7, <3>1 DEF Authentic, NoMetadataFlag
    <3>3. x \in configure_s3_source(o)
        BY <2>7, <3>1, <3>2 DEF configure_s3_source
    <3>4. QED
        BY <3>2, <3>3 DEF build_s3_operator
  <2>8. CASE x \in S3Keys
    <3>1. (x = "session_token" /\ x \in o.present) \/ ~Canonical(o.views[x])
        BY <2>1, <2>3, <2>8 DEF S3Bits, S3Keys
    <3>2. ~NoKeys(o)
        BY <2>8, <3>1 DEF NoKeys
    <3>3. o.source = "Static" /\ o.auth \in {"Static", "AssumeRole"} /\ TokenGiven(o)
        BY <2>2, <3>2 DEF Authentic
    <3>4. x = "session_token" => x \in o.present
        BY <3>1, <3>3 DEF TokenGiven
    <3>5. x \in configure_s3_source(o)
        BY <2>8, <3>3, <3>4 DEF configure_s3_source, S3Keys, Given
    <3>6. QED
        BY <3>3, <3>5 DEF build_s3_operator
  <2>9. CASE x \in S3Role \cup {"duration"}
    <3>1. ~NoRole(o)
        BY <2>1, <2>3, <2>9 DEF NoRole, S3Bits, S3Role, S3Fields, S3Keys
    <3>2. o.auth = "AssumeRole" /\ RoleGiven(o)
        BY <2>2, <3>1 DEF Authentic
    <3>3. x = "role_arn" \/ x \in o.present
        BY <2>1, <2>3, <2>9, <3>2 DEF RoleGiven, S3Role, S3Fields, S3Keys
    <3>4. QED
        BY <2>9, <3>2, <3>3 DEF build_s3_operator, S3Role, Given
  <2>10. QED
      BY <2>1, <2>3, <2>4, <2>5, <2>6, <2>7, <2>8, <2>9 DEF S3Bits, S3Fields, S3Keys, S3Role
<1>8. QED
    BY <1>1, <1>6, <1>7

\* However the options are set, a builder that gets keys or goes unsigned does
\* not look elsewhere.
LEMMA BuildsKeysAlone ==
    ASSUME NEW o
    PROVE  KeysAlone(build_s3_operator(o))
<1>1. CASE o.auth = "Unsigned"
  <2>1. /\ {"disable_config_load", "disable_ec2_metadata"} \subseteq build_s3_operator(o)
        /\ "access_key_id" \notin build_s3_operator(o)
      BY <1>1 DEF build_s3_operator, Given
  <2>2. QED
      BY <2>1 DEF KeysAlone
<1>2. CASE o.auth # "Unsigned"
  <2>1. "skip_signature" \notin configure_s3_source(o)
      BY DEF configure_s3_source, Given
  <2>2. "access_key_id" \in configure_s3_source(o) =>
          {"disable_config_load", "disable_ec2_metadata"} \subseteq configure_s3_source(o)
      BY DEF configure_s3_source, Given
  <2>3. configure_s3_source(o) \subseteq build_s3_operator(o)
      BY <1>2 DEF build_s3_operator
  <2>4. "skip_signature" \notin build_s3_operator(o)
      BY <1>2, <2>1 DEF build_s3_operator, Given
  <2>5. "access_key_id" \in build_s3_operator(o) => "access_key_id" \in configure_s3_source(o)
      BY <1>2 DEF build_s3_operator, Given
  <2>6. QED
      BY <2>2, <2>3, <2>4, <2>5 DEF KeysAlone
<1>3. QED
    BY <1>1, <1>2

-----------------------------------------------------------------------------
(* Arrays *)

\* A short sequence is a sequence.
LEMMA ShortSeq ==
    ASSUME NEW S, NEW m \in Nat, NEW s \in SeqOf(S, m)
    PROVE  \E n \in 0..m : s \in [1..n -> S] /\ Len(s) = n /\ DOMAIN s = 1..n
<1>1. PICK n \in 0..m : s \in [1..n -> S]
    BY DEF SeqOf
<1>2. Len(s) = n /\ DOMAIN s = 1..n
    BY <1>1, MadeSeq
<1>3. QED
    BY <1>1, <1>2

\* The slice around an array.
LEMMA SliceVerdict ==
    ASSUME NEW p, NEW n, NEW size
    PROVE  read_slice(p, n, size) \in Plain
<1>1. /\ checked_len(n) \in Plain /\ Check(n * size <= MaxLen, "AbiMismatch") \in Plain
      /\ Check(n = 0 \/ p = "Good", "AbiMismatch") \in Plain
    BY DEF checked_len, Check, Plain
<1>2. QED
    BY <1>1, FirstOfThree DEF read_slice

\* The name of an entry that read_config compares.
NameOf(entries, i) == Lower(entries[i].name)

\* read_config accepts no key twice, whatever its case.
LEMMA ConfigDistinct ==
    ASSUME NEW n \in Nat, NEW entries, DOMAIN entries = 1..n
    PROVE  /\ read_config(entries) \in Plain
           /\ read_config(entries) = "Ok" =>
                \A i \in 1..n, j \in 1..n : j < i => NameOf(entries, j) # NameOf(entries, i)
<1> DEFINE fresh(i) == \A j \in 1..(i - 1) : Lower(entries[j].name) # Lower(entries[i].name)
           check(i) == FirstFailure(<<read_text_value(entries[i].key),
                                      Check(fresh(i), "InvalidArgument"),
                                      read_text_value(entries[i].value)>>)
           checks == [i \in DOMAIN entries |-> check(i)]
<1>1. ASSUME NEW i \in 1..n PROVE check(i) \in Plain /\ (check(i) = "Ok" => fresh(i))
  <2> DEFINE a == read_text_value(entries[i].key)
             b == Check(fresh(i), "InvalidArgument")
             c == read_text_value(entries[i].value)
  <2>1. a \in Plain /\ c \in Plain
      BY TextVerdicts
  <2>2. b \in Plain /\ (b = "Ok" => fresh(i))
      BY DEF Check, Plain
  <2>3. check(i) = FirstFailure(<<a, b, c>>)
      OBVIOUS
  <2> HIDE DEF a, b, c, check, fresh
  <2>4. QED
      BY <2>1, <2>2, <2>3, FirstOfThree
<1>2. read_config(entries) = FirstFailure(checks)
    BY DEF read_config
<1>3. DOMAIN checks = 1..n /\ \A i \in 1..n : checks[i] = check(i)
    OBVIOUS
<1> HIDE DEF check, checks
<1>4. /\ FirstFailure(checks) = "Ok" <=> \A i \in 1..n : checks[i] = "Ok"
      /\ FirstFailure(checks) = "Ok" \/ \E i \in 1..n : FirstFailure(checks) = checks[i]
    BY <1>3, FirstOf
<1>5. read_config(entries) \in Plain
    BY <1>1, <1>2, <1>3, <1>4 DEF Plain
<1>6. ASSUME read_config(entries) = "Ok", NEW i \in 1..n, NEW j \in 1..n, j < i
      PROVE  NameOf(entries, j) # NameOf(entries, i)
  <2>1. fresh(i)
      BY <1>1, <1>2, <1>3, <1>4, <1>6
  <2>2. j \in 1..(i - 1)
      BY <1>6
  <2>3. QED
      BY <2>1, <2>2 DEF NameOf
<1>7. QED
    BY <1>5, <1>6

\* What ReadConfig asks for: every entry under a name of its own.
LEMMA ConfigKept ==
    ASSUME NEW p, NEW size, NEW entries \in RawConfig
    PROVE  LET verdict == FirstFailure(<<read_slice(p, Len(entries), size), read_config(entries)>>)
           IN /\ verdict \in Plain
              /\ verdict = "Ok" =>
                   Cardinality({Lower(entries[i].name) : i \in DOMAIN entries}) = Len(entries)
<1> DEFINE names == {Lower(entries[i].name) : i \in DOMAIN entries}
           verdict == FirstFailure(<<read_slice(p, Len(entries), size), read_config(entries)>>)
<1>1. PICK n \in 0..2 : Len(entries) = n /\ DOMAIN entries = 1..n
  <2>1. PICK S : entries \in SeqOf(S, 2)
      BY Zenon DEF RawConfig
  <2> HIDE DEF names, verdict
  <2>2. \E n \in 0..2 : entries \in [1..n -> S] /\ Len(entries) = n /\ DOMAIN entries = 1..n
      BY <2>1, ShortSeq
  <2>3. QED
      BY <2>2
<1>2. /\ read_config(entries) \in Plain
      /\ read_config(entries) = "Ok" =>
           \A i \in 1..n, j \in 1..n : j < i => NameOf(entries, j) # NameOf(entries, i)
    BY <1>1, ConfigDistinct
<1>3. verdict \in Plain /\ (verdict = "Ok" => read_config(entries) = "Ok")
    BY <1>2, SliceVerdict, FirstOfTwo
<1>4. ASSUME verdict = "Ok" PROVE Cardinality(names) = n
  <2>1. \A i \in 1..n, j \in 1..n : j < i => NameOf(entries, j) # NameOf(entries, i)
      BY <1>2, <1>3, <1>4
  <2>2. names = {NameOf(entries, i) : i \in 1..n}
      BY <1>1 DEF NameOf
  <2> HIDE DEF names
  <2>3. CASE n = 0
    <3>1. names = {}
        BY <2>2, <2>3
    <3>2. QED
        BY <2>3, <3>1, FS_EmptySet
  <2>4. CASE n = 1
    <3>1. names = {NameOf(entries, 1)}
        BY <2>2, <2>4
    <3>2. QED
        BY <2>4, <3>1, FS_Singleton
  <2>5. CASE n = 2
    <3>1. names = {NameOf(entries, 1)} \cup {NameOf(entries, 2)}
        BY <2>2, <2>5
    <3>2. NameOf(entries, 2) \notin {NameOf(entries, 1)}
        BY <2>1, <2>5
    <3>3. IsFiniteSet({NameOf(entries, 1)}) /\ Cardinality({NameOf(entries, 1)}) = 1
        BY FS_Singleton
    <3>4. Cardinality({NameOf(entries, 1)} \cup {NameOf(entries, 2)}) = 1 + 1
        BY <3>2, <3>3, FS_AddElement
    <3>5. QED
        BY <2>5, <3>1, <3>4
  <2>6. QED
      BY <2>3, <2>4, <2>5
<1>5. QED
    BY <1>1, <1>3, <1>4

\* The paths of a batch: a natural number of bytes each.
LEMMA PathShape ==
    ASSUME NEW values \in RawPaths
    PROVE  /\ Len(values) \in Nat /\ DOMAIN values = 1..Len(values)
           /\ \A i \in 1..Len(values) : values[i].len \in Nat
<1>1. \A v \in RawViews : v.len \in Nat
    BY DEF RawViews, Absent, Text, View
<1>2. CASE values \in SeqOf(RawViews, 2)
  <2>1. PICK n \in 0..2 : values \in [1..n -> RawViews] /\ Len(values) = n /\ DOMAIN values = 1..n
      BY <1>2, ShortSeq
  <2>2. QED
      BY <1>1, <2>1
<1>3. CASE values \in {[i \in 1..n |-> View(1, 0, TRUE)] : n \in MaxOutput..(MaxOutput + 1)}
  <2>1. PICK n \in MaxOutput..(MaxOutput + 1) : values = [i \in 1..n |-> View(1, 0, TRUE)]
      BY <1>3
  <2>2. n \in Nat /\ values \in [1..n -> {View(1, 0, TRUE)}]
      BY <2>1
  <2>3. Len(values) = n /\ DOMAIN values = 1..n
      BY <2>2, MadeSeq
  <2>4. View(1, 0, TRUE).len \in Nat
      BY DEF View
  <2>5. QED
      BY <2>1, <2>2, <2>3, <2>4
<1>4. QED
    BY <1>2, <1>3 DEF RawPaths

\* read_text_array: for any number of paths the limit is exact for the carriers
\* and the texts together, although the code compares one path at a time and
\* stops at the first that is over.
THEOREM PathsExact ==
    ASSUME NEW p, NEW values, Len(values) \in Nat, DOMAIN values = 1..Len(values),
           \A i \in 1..Len(values) : values[i].len \in Nat
    PROVE  LET verdict == FirstFailure(<<read_slice(p, Len(values), CarrierSize),
                                         read_text_array(values)>>)
           IN /\ Total(values) \in Nat
              /\ verdict = "Ok" => Total(values) <= MaxOutput
              /\ verdict = "BufferTooLarge" => Total(values) > MaxOutput
<1> DEFINE n == Len(values)
           L == [i \in DOMAIN values |-> values[i].len]
           T == Totals(values)
           head == Check(T[0] <= MaxOutput, "BufferTooLarge")
           check(i) == FirstFailure(<<read_text_value(values[i]),
                                      Check(T[i] <= MaxOutput, "BufferTooLarge")>>)
           rest == [i \in DOMAIN values |-> check(i)]
           checks == <<head>> \o rest
           slice == read_slice(p, Len(values), CarrierSize)
           verdict == FirstFailure(<<slice, read_text_array(values)>>)
<1>1. n \in Nat /\ DOMAIN values = 1..n /\ \A i \in 1..n : values[i].len \in Nat
    OBVIOUS
<1>2. L \in [1..n -> Nat] /\ Len(L) = n
  <2>1. L \in [1..n -> Nat]
      BY <1>1
  <2>2. QED
      BY <1>1, <2>1, MadeSeq
<1>3. n * CarrierSize \in Nat
    BY <1>1 DEF CarrierSize
<1>4. T = Running(n * CarrierSize, L)
    BY DEF Totals
<1> HIDE DEF L, T
<1>5. /\ \A i \in 0..n : T[i] \in Nat
      /\ \A i, j \in 0..n : i <= j => T[i] <= T[j]
    BY <1>1, <1>2, <1>3, <1>4, RunningGrows
<1>6. Total(values) = T[n]
    BY DEF Total, T
<1>7. read_text_array(values) = FirstFailure(checks)
    BY DEF read_text_array, T
<1>8. /\ head \in {"Ok", "BufferTooLarge"}
      /\ head = "Ok" => T[0] <= MaxOutput
      /\ head = "BufferTooLarge" => T[0] > MaxOutput
    BY <1>1, <1>5 DEF Check
<1>9. ASSUME NEW i \in 1..n
      PROVE  /\ check(i) \in Plain \cup {"BufferTooLarge"}
             /\ check(i) = "Ok" => T[i] <= MaxOutput
             /\ check(i) = "BufferTooLarge" => T[i] > MaxOutput
  <2> DEFINE a == read_text_value(values[i])
             b == Check(T[i] <= MaxOutput, "BufferTooLarge")
  <2>1. a \in Plain
      BY TextVerdicts
  <2>2. /\ b \in {"Ok", "BufferTooLarge"}
        /\ b = "Ok" => T[i] <= MaxOutput
        /\ b = "BufferTooLarge" => T[i] > MaxOutput
      BY <1>5 DEF Check
  <2>3. check(i) = FirstFailure(<<a, b>>)
      OBVIOUS
  <2> HIDE DEF a, b, check
  <2>4. check(i) = IF a = "Ok" THEN b ELSE a
      BY <2>3, FirstOfTwo
  <2>5. QED
      BY <2>1, <2>2, <2>4 DEF Plain
<1> DEFINE All == Plain \cup {"BufferTooLarge"}
<1>10. rest \in [1..n -> All] /\ \A i \in 1..n : rest[i] = check(i)
    BY <1>1, <1>9
<1> HIDE DEF head, check, rest
<1>11. rest \in Seq(All) /\ Len(rest) = n
    BY <1>1, <1>10, MadeSeq
<1>12. <<head>> \in Seq(All) /\ Len(<<head>>) = 1 /\ <<head>>[1] = head
    BY <1>8 DEF Plain
<1>13. checks \in Seq(All) /\ Len(checks) = 1 + n
    BY <1>11, <1>12, ConcatProperties
<1>14. \A i \in 1..1 + n : checks[i] = IF i <= 1 THEN head ELSE rest[i - 1]
  <2>1. \A i \in 1..Len(<<head>>) + Len(rest) :
          checks[i] = IF i <= Len(<<head>>) THEN <<head>>[i] ELSE rest[i - Len(<<head>>)]
      BY <1>11, <1>12, ConcatProperties
  <2> HIDE DEF checks
  <2>2. QED
      BY <1>1, <1>11, <1>12, <2>1
<1> HIDE DEF checks
<1>15. DOMAIN checks = 1..1 + n /\ 1 + n \in Nat
    BY <1>1, <1>13
<1>16. /\ FirstFailure(checks) = "Ok" <=> \A i \in 1..1 + n : checks[i] = "Ok"
       /\ FirstFailure(checks) = "Ok" \/ \E i \in 1..1 + n : FirstFailure(checks) = checks[i]
    BY <1>15, FirstOf
<1>17. FirstFailure(checks) = "Ok" => T[n] <= MaxOutput
  <2>1. CASE n = 0
      BY <1>8, <1>14, <1>16, <2>1
  <2>2. CASE n # 0
    <3>1. n \in 1..n /\ 1 + n \in 1..1 + n /\ ~(1 + n <= 1) /\ (1 + n) - 1 = n
        BY <1>1, <2>2
    <3>2. checks[1 + n] = check(n)
        BY <1>10, <1>14, <3>1
    <3>3. QED
        BY <1>9, <1>16, <3>1, <3>2
  <2>3. QED
      BY <2>1, <2>2
<1>18. FirstFailure(checks) = "BufferTooLarge" => T[n] > MaxOutput
  <2> SUFFICES ASSUME FirstFailure(checks) = "BufferTooLarge" PROVE T[n] > MaxOutput
      OBVIOUS
  <2>1. PICK i \in 1..1 + n : checks[i] = "BufferTooLarge"
      BY <1>16
  <2>2. PICK k \in 0..n : T[k] > MaxOutput
    <3>1. CASE i = 1
        BY <1>1, <1>8, <1>14, <2>1, <3>1
    <3>2. CASE i # 1
      <4>1. i - 1 \in 1..n /\ ~(i <= 1)
          BY <1>1, <3>2
      <4>2. check(i - 1) = "BufferTooLarge"
          BY <1>10, <1>14, <2>1, <4>1
      <4>3. QED
          BY <1>9, <4>1, <4>2
    <3>3. QED
        BY <3>1, <3>2
  <2>3. T[k] <= T[n] /\ T[k] \in Nat /\ T[n] \in Nat
      BY <1>1, <1>5
  <2>4. QED
      BY <2>2, <2>3
<1>19. /\ verdict = "Ok" => FirstFailure(checks) = "Ok"
       /\ verdict = "BufferTooLarge" => FirstFailure(checks) = "BufferTooLarge"
  <2>1. slice \in Plain
      BY SliceVerdict
  <2> HIDE DEF slice
  <2>2. verdict = IF slice = "Ok" THEN read_text_array(values) ELSE slice
      BY FirstOfTwo
  <2>3. QED
      BY <1>7, <2>1, <2>2 DEF Plain
<1>20. T[n] \in Nat
    BY <1>1, <1>5
<1>21. QED
    BY <1>6, <1>17, <1>18, <1>19, <1>20

-----------------------------------------------------------------------------
(* Results *)

\* A group of strings passes exactly when each of them does, and fails for
\* nothing but its size.
LEMMA StringsChecked ==
    ASSUME NEW n \in Nat, NEW s \in [1..n -> Nat]
    PROVE  /\ checked_metadata(s) \in {"Ok", "BufferTooLarge"}
           /\ checked_metadata(s) = "Ok" <=> \A i \in 1..n : s[i] <= MaxOutput
<1> DEFINE c == [i \in DOMAIN s |-> check_output_string(s[i])]
<1>1. DOMAIN c = 1..n
    OBVIOUS
<1>2. \A i \in 1..n : /\ c[i] \in {"Ok", "BufferTooLarge"}
                      /\ c[i] = "Ok" <=> s[i] <= MaxOutput
    BY DEF check_output_string, Check
<1>3. checked_metadata(s) = FirstFailure(c)
    BY DEF checked_metadata
<1> HIDE DEF c
<1>4. /\ FirstFailure(c) = "Ok" <=> \A i \in 1..n : c[i] = "Ok"
      /\ FirstFailure(c) = "Ok" \/ \E i \in 1..n : FirstFailure(c) = c[i]
    BY <1>1, FirstOf
<1>5. QED
    BY <1>2, <1>3, <1>4

\* An entry: its path, its name and its metadata.
LEMMA EntryChecked ==
    ASSUME NEW s \in [1..4 -> Nat]
    PROVE  checked_entry(s) = "Ok" <=> \A i \in 1..4 : s[i] <= MaxOutput
<1> DEFINE a == check_output_string(s[1])
           b == check_output_string(s[2])
           t == SubSeq(s, 3, Len(s))
           c == checked_metadata(t)
<1>1. s \in Seq(Nat) /\ Len(s) = 4
    BY MadeSeq
<1>2. t \in [1..2 -> Nat] /\ t[1] = s[3] /\ t[2] = s[4]
  <2>1. \A i \in 3..4 : s[i] \in Nat
      OBVIOUS
  <2>2. t = SubSeq(s, 3, 4)
      BY <1>1
  <2> HIDE DEF t
  <2>3. t \in Seq(Nat) /\ Len(t) = 2 /\ t[1] = s[3] /\ t[2] = s[4]
    <3>1. /\ SubSeq(s, 3, 4) \in Seq(Nat)
          /\ Len(SubSeq(s, 3, 4)) = IF 3 <= 4 THEN 4 - 3 + 1 ELSE 0
          /\ \A i \in 1..(4 - 3 + 1) : SubSeq(s, 3, 4)[i] = s[3 + i - 1]
        BY <2>1, SubSeqProperties
    <3>2. QED
        BY <2>2, <3>1
  <2>4. QED
      BY <2>3, LenProperties
<1>3. (a = "Ok" <=> s[1] <= MaxOutput) /\ (b = "Ok" <=> s[2] <= MaxOutput)
    BY DEF check_output_string, Check
<1>4. c = "Ok" <=> (s[3] <= MaxOutput /\ s[4] <= MaxOutput)
  <2> HIDE DEF t
  <2>1. 2 \in Nat
      OBVIOUS
  <2>2. c = "Ok" <=> \A i \in 1..2 : t[i] <= MaxOutput
      BY <1>2, <2>1, StringsChecked
  <2>3. QED
      BY <1>2, <2>2
<1>5. checked_entry(s) = FirstFailure(<<a, b, c>>)
    BY DEF checked_entry
<1> HIDE DEF a, b, c
<1>6. checked_entry(s) = "Ok" <=> (a = "Ok" /\ b = "Ok" /\ c = "Ok")
    BY <1>5, FirstOfThree
<1>7. QED
    BY <1>3, <1>4, <1>6

\* The longest of four sizes is one of them, and none is longer.
LEMMA LongestIs ==
    ASSUME NEW s \in [1..4 -> Nat]
    PROVE  /\ \E i \in 1..4 : Longest(s) = s[i]
           /\ \A i \in 1..4 : s[i] <= Longest(s)
<1>1. Range(s) = {s[i] : i \in 1..4}
    BY DEF Range
<1>2. \E n \in Range(s) : \A m \in Range(s) : m <= n
  <2> DEFINE a == IF s[1] <= s[2] THEN s[2] ELSE s[1]
             b == IF s[3] <= s[4] THEN s[4] ELSE s[3]
             d == IF a <= b THEN b ELSE a
  <2>1. s[1] \in Nat /\ s[2] \in Nat /\ s[3] \in Nat /\ s[4] \in Nat
      OBVIOUS
  <2>2. d \in {s[1], s[2], s[3], s[4]} /\ s[1] <= d /\ s[2] <= d /\ s[3] <= d /\ s[4] <= d
      BY <2>1
  <2> HIDE DEF d
  <2>3. Range(s) = {s[1], s[2], s[3], s[4]}
      BY <1>1
  <2>4. QED
      BY <2>2, <2>3
<1>3. /\ Longest(s) \in Range(s)
      /\ \A m \in Range(s) : m <= Longest(s)
    BY <1>2 DEF Longest
<1>4. QED
    BY <1>1, <1>3

\* A result fits exactly when what is compared with the limit is within it.
LEMMA FitsExact ==
    ASSUME NEW result \in Limited, NEW sizes \in [1..4 -> Sizes]
    PROVE  /\ Weighs(result, sizes) \in Nat
           /\ Fits(result, sizes) = "Ok" <=> Weighs(result, sizes) <= MaxOutput
<1>1. sizes \in [1..4 -> Nat]
    BY DEF Sizes
<1>2. 4 \in Nat /\ Len(sizes) = 4
    BY <1>1, MadeSeq
<1>3. CASE result = "Request"
  <2>1. Sum(sizes) \in Nat
    <3>1. 0 \in Nat /\ 4 \in 0..4
        OBVIOUS
    <3>2. \A i \in 0..4 : Running(0, sizes)[i] \in Nat
        BY <1>1, <1>2, <3>1, RunningGrows
    <3>3. QED
        BY <1>2, <3>1, <3>2 DEF Sum
  <2>2. Weighs(result, sizes) = Sum(sizes)
      BY <1>3 DEF Weighs
  <2>3. Fits(result, sizes) = checked_presigned_request(sizes)
      BY <1>3 DEF Fits
  <2>4. checked_presigned_request(sizes) = "Ok" <=> Sum(sizes) <= MaxOutput
    <3>1. (4 - 2) \div 2 = 1 /\ 1 <= MaxOutput
        OBVIOUS
    <3>2. checked_presigned_request(sizes) = Check(Sum(sizes) <= MaxOutput, "BufferTooLarge")
        BY <1>2, <3>1 DEF checked_presigned_request
    <3>3. QED
        BY <3>2 DEF Check
  <2>5. QED
      BY <2>1, <2>2, <2>3, <2>4
<1>4. CASE result # "Request"
  <2>1. Weighs(result, sizes) = Longest(sizes)
      BY <1>4 DEF Weighs
  <2>2. Fits(result, sizes) = "Ok" <=> \A i \in 1..4 : sizes[i] <= MaxOutput
    <3>1. CASE result = "Entry"
        BY <1>1, <3>1, EntryChecked DEF Fits
    <3>2. CASE result # "Entry"
      <4>1. Fits(result, sizes) = checked_metadata(sizes)
          BY <1>4, <3>2 DEF Fits
      <4>2. QED
          BY <1>1, <1>2, <4>1, StringsChecked
    <3>3. QED
        BY <3>1, <3>2
  <2>3. /\ \E i \in 1..4 : Longest(sizes) = sizes[i]
        /\ \A i \in 1..4 : sizes[i] <= Longest(sizes)
      BY <1>1, LongestIs
  <2>4. Longest(sizes) \in Nat
      BY <1>1, <2>3
  <2>5. Longest(sizes) <= MaxOutput <=> \A i \in 1..4 : sizes[i] <= MaxOutput
      BY <1>1, <2>3, <2>4
  <2>6. QED
      BY <2>1, <2>2, <2>4, <2>5
<1>5. QED
    BY <1>3, <1>4

\* The outputs of an entry point are different slots, none of them the error's.
LEMMA OutputsApart ==
    ASSUME NEW c \in Calls \cup {NoCall}
    PROVE  /\ "Error" \notin Range(c.outs)
           /\ IsFiniteSet(Range(c.outs)) /\ Cardinality(Range(c.outs)) = Len(c.outs)
           /\ \E n \in Nat : DOMAIN c.outs = 1..n
<1>1. \/ c.outs = <<>>
      \/ \E a \in {"Scalar", "Metadata", "Lister", "Entry", "Reader", "Stream", "Writer",
                   "Copier", "Request"} : c.outs = <<a>>
      \/ c.outs = <<"Operator", "Info">>
    BY DEF Calls, NoCall, Entry, operator_new, operator_s3, operator_check, operator_exists,
           operator_stat, operator_write, operator_create_dir, operator_delete,
           operator_delete_many, operator_copy, operator_rename, operator_lister, lister_next,
           operator_reader, operator_read_stream, operator_writer, operator_copier,
           operator_presign_read, operator_presign_write, operator_presign_stat
<1>2. CASE c.outs = <<>>
  <2>1. Range(c.outs) = {} /\ Len(c.outs) = 0 /\ DOMAIN c.outs = 1..0
      BY <1>2 DEF Range
  <2>2. QED
      BY <2>1, FS_EmptySet
<1>3. ASSUME NEW a \in {"Scalar", "Metadata", "Lister", "Entry", "Reader", "Stream", "Writer",
                        "Copier", "Request"}, c.outs = <<a>>
      PROVE  /\ "Error" \notin Range(c.outs)
             /\ IsFiniteSet(Range(c.outs)) /\ Cardinality(Range(c.outs)) = Len(c.outs)
             /\ \E n \in Nat : DOMAIN c.outs = 1..n
  <2>1. Range(c.outs) = {a} /\ Len(c.outs) = 1 /\ DOMAIN c.outs = 1..1 /\ a # "Error"
      BY <1>3 DEF Range
  <2>2. IsFiniteSet({a}) /\ Cardinality({a}) = 1
      BY FS_Singleton
  <2>3. QED
      BY <2>1, <2>2
<1>4. CASE c.outs = <<"Operator", "Info">>
  <2>1. /\ Range(c.outs) = {"Operator"} \cup {"Info"}
        /\ Len(c.outs) = 2 /\ DOMAIN c.outs = 1..2
      BY <1>4 DEF Range
  <2>2. IsFiniteSet({"Operator"}) /\ Cardinality({"Operator"}) = 1 /\ "Info" \notin {"Operator"}
      BY FS_Singleton
  <2>3. /\ IsFiniteSet({"Operator"} \cup {"Info"})
        /\ Cardinality({"Operator"} \cup {"Info"}) = 1 + 1
      BY <2>2, FS_AddElement
  <2>4. QED
      BY <2>1, <2>3
<1>5. QED
    BY <1>1, <1>2, <1>3, <1>4

-----------------------------------------------------------------------------
(* Endings *)

\* The outputs of a call that has ended.
Story ==
    /\ \A s \in given : slot[s] # "Stale"
    /\ \A s \in Range(call.outs) : slot[s] = "Fresh" <=> status = "Ok"
    /\ slot["Error"] = "Fresh" <=> (status = "Error" /\ "Error" \in given)
    /\ boxes = Cardinality({s \in DOMAIN slot : slot[s] = "Fresh"})

\* Once a call has ended the invariant asks for its story, its limit, its
\* options and its credentials.
LEMMA EndingForm ==
    ASSUME IInv, phase' = "Done", UNCHANGED <<call, given, view>>, phase # "View",
           slot' \in [Slots(call) -> {"Stale", "Null", "Fresh"}], measured' \in Nat,
           "read_with_suffix" \in operator'.advertised => operator'.native,
           Story', OneSource',
           worked' => asked' \subseteq applied',
           Builds(call) => error'.text # "Upstream",
           status' = "Ok" => measured' <= MaxOutput,
           error'.kind = "BufferTooLarge" => measured' > MaxOutput
    PROVE  IInv'
<1>1. Shape'
    BY DEF IInv, Shape, Slots
<1>2. NothingYet' /\ OutputsReady' /\ ViewFirst' /\ ViewIsWhole'
    BY DEF IInv, NothingYet, OutputsReady, ViewFirst, ViewIsWhole
<1>3. OutputsHonest'
    BY DEF OutputsHonest, Story
<1>4. NoSilentOption'
    BY DEF NoSilentOption
<1>5. CredentialsContained'
    BY DEF CredentialsContained, OneSource, KeysAlone, Builds
<1>6. LimitsExact'
    BY DEF LimitsExact
<1>7. QED
    BY <1>1, <1>2, <1>3, <1>4, <1>5, <1>6 DEF IInv

\* Until then no slot is filled.
LEMMA NoneFresh ==
    ASSUME IInv, phase = "Inputs"
    PROVE  /\ {s \in DOMAIN slot : slot[s] = "Fresh"} = {} /\ boxes = 0 /\ error = NoError
           /\ DOMAIN slot = Range(call.outs) \cup {"Error"}
           /\ given \subseteq DOMAIN slot /\ Range(call.outs) \subseteq given
           /\ \A s \in given : slot[s] = "Null"
           /\ call \in Calls
BY DEF IInv, Shape, NothingYet, OutputsReady, Slots

\* A call that leaves its outputs as they were cleared: none is filled.
LEMMA EmptyStory ==
    ASSUME IInv, phase = "Inputs", UNCHANGED <<call, given, slot, boxes>>,
           status' \notin {"Ok", "Error"}
    PROVE  Story' /\ slot' \in [Slots(call) -> {"Stale", "Null", "Fresh"}]
<1>1. boxes = Cardinality({s \in DOMAIN slot : slot[s] = "Fresh"})
    BY NoneFresh, FS_EmptySet
<1>2. QED
    BY <1>1, NoneFresh DEF Story, IInv, Shape

\* A failure fills the error slot, if there is one and the caller is to read it.
LEMMA FailureStory ==
    ASSUME IInv, phase = "Inputs", NEW kind, NEW text, finish_failure(kind, text),
           UNCHANGED <<call, given>>
    PROVE  /\ Story' /\ slot' \in [Slots(call) -> {"Stale", "Null", "Fresh"}]
           /\ status' # "Ok"
           /\ error'.kind \in {"None", kind} /\ error'.text \in {"None", text}
<1>1. CASE kind = "AbiMismatch"
  <2>1. status' = "AbiMismatch" /\ UNCHANGED <<slot, boxes, error>>
      BY <1>1 DEF finish_failure
  <2>2. error'.kind = "None" /\ error'.text = "None"
      BY <2>1, NoneFresh DEF NoError
  <2>3. QED
      BY <2>1, <2>2, EmptyStory
<1>2. CASE kind # "AbiMismatch"
  <2>1. status' = "Error" /\ error' = [kind |-> kind, text |-> text]
      BY <1>2 DEF finish_failure
  <2>2. error'.kind = kind /\ error'.text = text
      BY <2>1
  <2>3. CASE "Error" \in given
    <3>1. boxes' = 1 /\ slot' = [slot EXCEPT !["Error"] = "Fresh"]
        BY <1>2, <2>3, NoneFresh DEF finish_failure
    <3>2. slot \in [Slots(call) -> {"Stale", "Null", "Fresh"}] /\ "Error" \in Slots(call)
        BY DEF IInv, Shape, Slots
    <3>3. slot' \in [Slots(call) -> {"Stale", "Null", "Fresh"}]
        BY <3>1, <3>2
    <3>4. \A s \in Slots(call) : slot'[s] = IF s = "Error" THEN "Fresh" ELSE slot[s]
        BY <3>1, <3>2
    <3>5. DOMAIN slot' = Slots(call) /\ DOMAIN slot = Slots(call)
        BY <3>2, <3>3
    <3>6. {s \in DOMAIN slot' : slot'[s] = "Fresh"} = {"Error"}
        BY <3>2, <3>4, <3>5, NoneFresh
    <3>7. Cardinality({"Error"}) = 1
        BY FS_Singleton
    <3>8. "Error" \notin Range(call.outs)
        BY NoneFresh, OutputsApart
    <3>9. Story'
        BY <2>1, <2>3, <3>1, <3>2, <3>4, <3>5, <3>6, <3>7, <3>8, NoneFresh DEF Story, Slots
    <3>10. QED
        BY <2>1, <2>2, <3>3, <3>9
  <2>4. CASE "Error" \notin given
    <3>1. UNCHANGED <<boxes, slot>>
        BY <1>2, <2>4 DEF finish_failure
    <3>2. boxes = Cardinality({s \in DOMAIN slot : slot[s] = "Fresh"})
        BY NoneFresh, FS_EmptySet
    <3>3. Story' /\ slot' \in [Slots(call) -> {"Stale", "Null", "Fresh"}]
        BY <2>1, <2>4, <3>1, <3>2, NoneFresh DEF Story, IInv, Shape
    <3>4. QED
        BY <2>1, <2>2, <3>3
  <2>5. QED
      BY <2>3, <2>4
<1>3. QED
    BY <1>1, <1>2

\* Success fills every output and not the error.
LEMMA SuccessStory ==
    ASSUME IInv, phase = "Inputs", NEW built, Succeed(built), UNCHANGED <<call, given>>
    PROVE  /\ Story' /\ slot' \in [Slots(call) -> {"Stale", "Null", "Fresh"}]
           /\ operator' = built /\ error' = NoError
<1>1. /\ status' = "Ok" /\ operator' = built /\ error' = error
      /\ slot' = [s \in DOMAIN slot |-> IF s = "Error" THEN slot[s] ELSE "Fresh"]
      /\ boxes' = boxes + Len(call.outs)
    BY DEF Succeed
<1>2. slot \in [Slots(call) -> {"Stale", "Null", "Fresh"}] /\ DOMAIN slot = Slots(call)
    BY DEF IInv, Shape
<1>3. slot' \in [Slots(call) -> {"Stale", "Null", "Fresh"}]
    BY <1>1, <1>2
<1>4. \A s \in Slots(call) : slot'[s] = IF s = "Error" THEN slot[s] ELSE "Fresh"
    BY <1>1, <1>2
<1>5. /\ "Error" \notin Range(call.outs) /\ Cardinality(Range(call.outs)) = Len(call.outs)
      /\ IsFiniteSet(Range(call.outs))
    BY NoneFresh, OutputsApart
<1>6. DOMAIN slot' = Slots(call)
    BY <1>3
<1>7. slot["Error"] # "Fresh" /\ "Error" \in DOMAIN slot
    BY <1>2, NoneFresh DEF Slots
<1>8. {s \in DOMAIN slot' : slot'[s] = "Fresh"} = Range(call.outs)
    BY <1>2, <1>4, <1>5, <1>6, <1>7 DEF Slots
<1>9. Cardinality(Range(call.outs)) \in Nat
    BY <1>5, FS_CardinalityType
<1>10. boxes' = Cardinality({s \in DOMAIN slot' : slot'[s] = "Fresh"})
  <2>1. boxes = 0
      BY NoneFresh
  <2>2. boxes' = Cardinality(Range(call.outs))
      BY <1>1, <1>5, <1>9, <2>1
  <2>3. QED
      BY <1>8, <2>2
<1>11. Story'
    BY <1>1, <1>2, <1>4, <1>5, <1>6, <1>7, <1>10, NoneFresh DEF Story, Slots
<1>12. QED
    BY <1>1, <1>3, <1>11, NoneFresh

-----------------------------------------------------------------------------
(* Steps *)

\* An input that is read: what the caller asks for with it is used if it is
\* accepted, and its weight is on the right side of the limit.
LEMMA ReadsStep ==
    ASSUME IInv, NEW input, NEW verdict, NEW wants, NEW uses, NEW weight \in Nat,
           Reads(input, verdict, wants, uses, weight),
           verdict = "Ok" => wants \subseteq uses,
           verdict = "Ok" => weight <= MaxOutput,
           verdict = "BufferTooLarge" => weight > MaxOutput,
           input = "S3" => KeysAlone(uses)
    PROVE  IInv'
<1>1. /\ phase = "Inputs" /\ todo # <<>> /\ Head(todo) = input
      /\ asked' = asked \cup wants /\ measured' = weight
      /\ UNCHANGED <<call, given, worked, operator, view>>
    BY DEF Reads
<1>2. /\ ~worked /\ asked \subseteq applied /\ ~worked'
    BY <1>1 DEF IInv, NothingYet
<1>3. call = operator_s3 => todo = <<"S3">> /\ applied = {} /\ KeysAlone(applied)
    BY <1>1 DEF IInv, OneSource
<1>4. CASE verdict = "Ok"
  <2>1. /\ todo' = Tail(todo) /\ applied' = applied \cup uses
        /\ UNCHANGED <<phase, slot, boxes, status, error>>
      BY <1>4 DEF Reads
  <2>2. Shape' /\ NothingYet' /\ OutputsReady'
    <3>1. asked' \subseteq applied' /\ measured' <= MaxOutput
        BY <1>1, <1>2, <1>4, <2>1
    <3>2. QED
        BY <1>1, <1>2, <2>1, <3>1 DEF IInv, Shape, NothingYet, OutputsReady
  <2>3. OneSource'
    <3>1. ASSUME call = operator_s3
          PROVE  todo' = <<>> /\ KeysAlone(applied')
      <4>1. todo' = <<>> /\ input = "S3" /\ applied' = uses
          BY <1>1, <1>3, <2>1, <3>1
      <4>2. QED
          BY <4>1
    <3>2. QED
        BY <1>1, <2>1, <3>1 DEF OneSource
  <2>4. ViewFirst' /\ ViewIsWhole'
      BY <1>1, <2>1 DEF IInv, ViewFirst, ViewIsWhole
  <2>5. OutputsHonest' /\ LimitsExact' /\ NoSilentOption'
      BY <1>1, <1>2, <2>1 DEF IInv, OutputsHonest, LimitsExact, NoSilentOption
  <2>6. CredentialsContained'
      BY <1>1, <1>2, <2>1 DEF IInv, CredentialsContained, Builds
  <2>7. QED
      BY <2>2, <2>3, <2>4, <2>5, <2>6 DEF IInv
<1>5. CASE verdict # "Ok"
  <2>1. finish_failure(verdict, "Binding") /\ UNCHANGED <<todo, applied>>
      BY <1>5 DEF Reads
  <2>2. phase' = "Done"
      BY <2>1 DEF finish_failure
  <2>3. /\ Story' /\ slot' \in [Slots(call) -> {"Stale", "Null", "Fresh"}]
        /\ status' # "Ok"
        /\ error'.kind \in {"None", verdict} /\ error'.text \in {"None", "Binding"}
      BY <1>1, <2>1, FailureStory
  <2>4. OneSource'
      BY <1>1, <1>3, <2>1, <2>2 DEF IInv, OneSource
  <2>5. /\ "read_with_suffix" \in operator'.advertised => operator'.native
      BY <1>1 DEF IInv, OutputsHonest
  <2>6. error'.text # "Upstream" /\ (error'.kind = "BufferTooLarge" => measured' > MaxOutput)
      BY <1>1, <2>3
  <2>7. UNCHANGED <<call, given, view>> /\ phase # "View" /\ measured' \in Nat
      BY <1>1
  <2>8. QED
      BY <1>2, <2>2, <2>3, <2>4, <2>5, <2>6, <2>7, EndingForm
<1>6. QED
    BY <1>4, <1>5

\* Inputs that carry no option, and whose size is not limited.
LEMMA PlainReads ==
    ASSUME IInv, NEW input, NEW verdict, NEW wants, NEW uses,
           Reads(input, verdict, wants, uses, measured),
           verdict \in Plain \cup {"Unsupported"},
           verdict = "Ok" => wants \subseteq uses,
           input = "S3" => KeysAlone(uses)
    PROVE  IInv'
<1>1. measured \in Nat /\ measured <= MaxOutput
    BY DEF IInv, Shape, NothingYet, Reads
<1>2. verdict # "BufferTooLarge"
    BY DEF Plain
<1>3. QED
    BY <1>1, <1>2, ReadsStep

\* The inputs of every call keep the invariant.
LEMMA ReadInputStep == IInv /\ ReadInput => IInv'
<1> SUFFICES ASSUME IInv, ReadInput PROVE IInv'
    OBVIOUS
<1>0. {} \subseteq {}
    OBVIOUS
<1>1. CASE ReadHandle
  <2>1. PICK p \in Pointers : Reads("Handle", read_required(p), {}, {}, measured)
      BY <1>1 DEF ReadHandle
  <2>2. read_required(p) \in Plain \cup {"Unsupported"}
      BY TextVerdicts
  <2>3. QED
      BY <2>1, <2>2, PlainReads
<1>2. CASE ReadText
  <2>1. PICK p \in Pointers, v \in RawViews : Reads("Text", read_text(p, v), {}, {}, measured)
      BY <1>2 DEF ReadText
  <2>2. read_text(p, v) \in Plain \cup {"Unsupported"}
      BY TextVerdicts
  <2>3. QED
      BY <2>1, <2>2, PlainReads
<1>3. CASE ReadBinary
  <2>1. PICK p \in Pointers, v \in RawViews : Reads("Binary", read_binary(p, v), {}, {}, measured)
      BY <1>3 DEF ReadBinary
  <2>2. read_binary(p, v) \in Plain \cup {"Unsupported"}
      BY TextVerdicts
  <2>3. QED
      BY <2>1, <2>2, PlainReads
<1>4. CASE ReadExpiry
  <2>1. PICK s \in 0..1 : Reads("Expiry", presign_expiry(s), {}, {}, measured)
      BY <1>4 DEF ReadExpiry
  <2>2. presign_expiry(s) \in Plain \cup {"Unsupported"}
      BY DEF presign_expiry, Check, Plain
  <2>3. QED
      BY <2>1, <2>2, PlainReads
<1>5. CASE ReadSuffix
  <2>1. PICK v \in {"Ok", "Unsupported"} : Reads("Suffix", v, {}, {}, measured)
      BY <1>5 DEF ReadSuffix
  <2>2. v \in Plain \cup {"Unsupported"}
      BY DEF Plain
  <2>3. QED
      BY <2>1, <2>2, PlainReads
<1>6. CASE ReadOptions
  <2>1. PICK input, o, verdict :
          /\ ReadsOptions(input, o, verdict) /\ input # "S3"
          /\ verdict \in Plain /\ (verdict = "Ok" => Asked(o) \subseteq Applied(o))
    <3>1. CASE \E o \in RawRead : ReadsOptions("Read", o, parse_read_options(o))
        BY <3>1, ReadKept
    <3>2. CASE \E o \in RawReader : ReadsOptions("Reader", o, parse_reader_options(o))
        BY <3>2, ReaderKept
    <3>3. CASE \E o \in RawStream : ReadsOptions("Stream", o, parse_read_stream_options(o))
        BY <3>3, StreamKept
    <3>4. CASE \E o \in RawReader : ReadsOptions("Stat", o, parse_stat_options(o))
        BY <3>4, StatKept
    <3>5. CASE \E o \in RawWrite : ReadsOptions("Write", o, parse_write_options(o))
        BY <3>5, WriteKept
    <3>6. CASE \E o \in RawList : ReadsOptions("List", o, parse_list_options(o))
        BY <3>6, ListKept
    <3>7. CASE \E o \in RawDelete : ReadsOptions("Delete", o, parse_delete_options(o))
        BY <3>7, DeleteKept
    <3>8. QED
        BY <1>6, <3>1, <3>2, <3>3, <3>4, <3>5, <3>6, <3>7 DEF ReadOptions
  <2>2. Reads(input, verdict, Asked(o), Applied(o), measured)
      BY <2>1 DEF ReadsOptions
  <2>3. QED
      BY <2>1, <2>2, PlainReads
<1>7. CASE ReadS3
  <2> DEFINE Taken(o) ==
               Reads("S3", parse_s3_options(o), Asked(o), build_s3_operator(o), measured)
  <2>1. PICK auth \in AuthKinds, source \in {"DefaultChain", "Static", "Unknown"},
             base \in S3Bases, f \in S3Fields, v \in S3Views, seconds \in 0..1,
             flags \in SUBSET {"virtual_host_style", "disable_ec2_metadata", "unknown"} :
          \E bits \in SUBSET ((S3Bits \cap {f, "duration"}) \cup {"unknown"}) :
            Taken(RawS3(auth, source, base, f, v, bits, flags, seconds))
      BY <1>7, Zenon DEF ReadS3
  <2> HIDE DEF Taken
  <2>2. PICK o, bits : o = RawS3(auth, source, base, f, v, bits, flags, seconds) /\ Taken(o)
      BY <2>1, Zenon
  <2>3. o.pointer = "Good" /\ DOMAIN o.views = S3Fields /\ DOMAIN o.counts = {"duration"}
      BY <2>2 DEF RawS3
  <2>4. /\ parse_s3_options(o) \in Plain
        /\ parse_s3_options(o) = "Ok" => Asked(o) \subseteq build_s3_operator(o)
      BY <2>3, S3Kept
  <2>5. KeysAlone(build_s3_operator(o))
      BY BuildsKeysAlone
  <2>6. QED
      BY <2>2, <2>4, <2>5, PlainReads DEF Taken
<1>8. CASE ReadConfig
  <2>1. PICK p \in Pointers, entries \in RawConfig, size \in {1, MaxLen} :
          Reads("Config",
                FirstFailure(<<read_slice(p, Len(entries), size), read_config(entries)>>),
                IF Cardinality({Lower(entries[i].name) : i \in DOMAIN entries}) = Len(entries)
                THEN {} ELSE {"twice"},
                {}, measured)
      BY <1>8, Zenon DEF ReadConfig
  <2> DEFINE verdict == FirstFailure(<<read_slice(p, Len(entries), size), read_config(entries)>>)
             once == Cardinality({Lower(entries[i].name) : i \in DOMAIN entries}) = Len(entries)
             wants == IF once THEN {} ELSE {"twice"}
  <2>2. verdict \in Plain /\ (verdict = "Ok" => once)
      BY ConfigKept
  <2>3. Reads("Config", verdict, wants, {}, measured)
      BY <2>1
  <2> HIDE DEF verdict, once
  <2>4. verdict = "Ok" => wants \subseteq {}
      BY <2>2
  <2> HIDE DEF wants
  <2>5. QED
      BY <2>2, <2>3, <2>4, PlainReads
<1>9. CASE ReadPaths
  <2>1. PICK p \in Pointers, values \in RawPaths :
          Reads("Paths",
                FirstFailure(<<read_slice(p, Len(values), CarrierSize), read_text_array(values)>>),
                {}, {}, Total(values))
      BY <1>9, Zenon DEF ReadPaths
  <2> DEFINE verdict == FirstFailure(<<read_slice(p, Len(values), CarrierSize),
                                       read_text_array(values)>>)
  <2>2. /\ Total(values) \in Nat
        /\ verdict = "Ok" => Total(values) <= MaxOutput
        /\ verdict = "BufferTooLarge" => Total(values) > MaxOutput
      BY PathShape, PathsExact
  <2>3. Reads("Paths", verdict, {}, {}, Total(values))
      BY <2>1
  <2> HIDE DEF verdict
  <2>4. QED
      BY <2>2, <2>3, ReadsStep
<1>10. QED
    BY <1>1, <1>2, <1>3, <1>4, <1>5, <1>6, <1>7, <1>8, <1>9 DEF ReadInput

\* Clearing the outputs: a call goes on only if each of them could be cleared.
LEMMA BeginStep ==
    ASSUME IInv, NEW c \in Calls, NEW p \in [Slots(c) -> Pointers], Begin(c, p)
    PROVE  IInv'
<1>1. /\ phase = "Idle" /\ call' = c /\ slot' = Cleared(c, p)
      /\ given' = {s \in Slots(c) : Usable(s, p)}
      /\ UNCHANGED <<boxes, asked, applied, worked, measured, operator, error, view>>
    BY DEF Begin
<1>2. /\ boxes = 0 /\ ~worked /\ error = NoError /\ asked \subseteq applied
      /\ measured <= MaxOutput /\ measured \in Nat /\ applied = {} /\ view = Untouched
      /\ "read_with_suffix" \in operator.advertised => operator.native
    BY <1>1 DEF IInv, Shape, NothingYet, OneSource, ViewFirst, OutputsHonest
<1>3. /\ slot' \in [Slots(c) -> {"Stale", "Null", "Fresh"}] /\ DOMAIN slot' = Slots(c)
      /\ \A s \in Slots(c) : slot'[s] # "Fresh"
      /\ \A s \in given' : slot'[s] = "Null"
    BY <1>1 DEF Cleared
<1>4. /\ phase' \in {"Inputs", "Done"} /\ call' \in Calls
      /\ given' \subseteq Slots(call') /\ slot' \in [Slots(call') -> {"Stale", "Null", "Fresh"}]
    BY <1>1, <1>3 DEF Begin
<1>5. Shape'
    BY <1>1, <1>2, <1>4 DEF Shape
<1>6. NothingYet'
    BY <1>1, <1>2, <1>3 DEF NothingYet
<1>7. ViewFirst' /\ ViewIsWhole'
    BY <1>1, <1>2, <1>4 DEF ViewFirst, ViewIsWhole
<1>8. NoSilentOption' /\ CredentialsContained'
    BY <1>1, <1>2 DEF NoSilentOption, CredentialsContained, NoError
<1>9. KeysAlone({})
    BY DEF KeysAlone
<1>10. CASE combine_output_validation(c, p) = "Ok"
  <2>1. phase' = "Inputs" /\ todo' = c.ins
      BY <1>10 DEF Begin
  <2>2. OutputsReady'
    <3>1. PICK n \in Nat : DOMAIN c.outs = 1..n
        BY OutputsApart
    <3> DEFINE a == [i \in DOMAIN c.outs |-> clear_required_output(p[c.outs[i]])]
               b == <<clear_error_output(p["Error"])>>
    <3>2. a \in [1..n -> Plain]
        BY <3>1 DEF clear_required_output, Check, Plain
    <3>3. a \in Seq(Plain) /\ Len(a) = n
        BY <3>2, MadeSeq
    <3>4. b \in Seq(Plain)
        BY DEF clear_error_output, Check, Plain
    <3>5. \A i \in 1..n : a[i] = "Ok" => Usable(c.outs[i], p)
        BY <3>1 DEF clear_required_output, Check, Usable
    <3>6. FirstFailure(a \o b) = "Ok"
        BY <1>10 DEF combine_output_validation
    <3> HIDE DEF a, b
    <3>7. \A i \in 1..n : a[i] = "Ok"
        BY <3>3, <3>4, <3>6, Joined
    <3>8. \A i \in 1..n : Usable(c.outs[i], p)
        BY <3>5, <3>7
    <3>9. Range(c.outs) \subseteq given'
        BY <1>1, <3>1, <3>8 DEF Range, Slots
    <3>10. QED
        BY <1>1, <1>3, <3>9 DEF OutputsReady
  <2>3. OneSource'
    <3>1. c = operator_s3 => c.ins = <<"S3">>
        BY DEF operator_s3, Entry
    <3>2. QED
        BY <1>1, <1>2, <1>9, <2>1, <3>1 DEF OneSource
  <2>4. OutputsHonest' /\ LimitsExact'
      BY <1>1, <1>2, <2>1 DEF OutputsHonest, LimitsExact
  <2>5. QED
      BY <1>5, <1>6, <1>7, <1>8, <2>2, <2>3, <2>4 DEF IInv
<1>11. CASE combine_output_validation(c, p) # "Ok"
  <2>1. phase' = "Done" /\ todo' = <<>> /\ status' = "AbiMismatch"
      BY <1>11 DEF Begin
  <2>2. OutputsReady'
      BY <2>1 DEF OutputsReady
  <2>3. OneSource'
      BY <1>1, <1>2, <1>9, <2>1 DEF OneSource
  <2>4. LimitsExact'
      BY <1>1, <1>2, <2>1 DEF LimitsExact, NoError
  <2>5. OutputsHonest'
    <3>1. {s \in DOMAIN slot' : slot'[s] = "Fresh"} = {}
        BY <1>3
    <3>2. boxes' = Cardinality({s \in DOMAIN slot' : slot'[s] = "Fresh"})
        BY <1>1, <1>2, <3>1, FS_EmptySet
    <3>3. QED
        BY <1>1, <1>2, <1>3, <2>1, <3>2 DEF OutputsHonest, Slots
  <2>6. QED
      BY <1>5, <1>6, <1>7, <1>8, <2>2, <2>3, <2>4, <2>5 DEF IInv
<1>12. QED
    BY <1>10, <1>11

\* Working, and what becomes of the result.
LEMMA WorkStep == IInv /\ Work => IInv'
<1> SUFFICES ASSUME IInv, Work PROVE IInv'
    OBVIOUS
<1>1. Ready
    BY DEF Work, RuntimeFails, WorkFails, WorkPanics, WorkEnds
<1>2. /\ phase = "Inputs" /\ asked \subseteq applied /\ measured \in Nat /\ measured <= MaxOutput
      /\ "read_with_suffix" \in operator.advertised => operator.native
      /\ error = NoError
    BY <1>1 DEF Ready, IInv, Shape, NothingYet, OutputsHonest
<1>3. ASSUME UNCHANGED <<call, todo, applied>>, phase' = "Done" PROVE OneSource'
    BY <1>3 DEF IInv, OneSource
<1>4. CASE RuntimeFails
  <2>1. /\ finish_failure("Unexpected", "Binding")
        /\ UNCHANGED <<call, todo, given, asked, applied, worked, measured, operator, view>>
      BY <1>4 DEF RuntimeFails
  <2>2. phase' = "Done"
      BY <2>1 DEF finish_failure
  <2>3. /\ Story' /\ slot' \in [Slots(call) -> {"Stale", "Null", "Fresh"}] /\ status' # "Ok"
        /\ error'.kind \in {"None", "Unexpected"} /\ error'.text \in {"None", "Binding"}
      BY <1>2, <2>1, FailureStory
  <2>4. OneSource'
      BY <1>3, <2>1, <2>2
  <2>5. UNCHANGED <<call, given, view>> /\ phase # "View" /\ measured' \in Nat
        /\ ("read_with_suffix" \in operator'.advertised => operator'.native)
        /\ asked' \subseteq applied'
      BY <1>2, <2>1
  <2>6. error'.text # "Upstream" /\ error'.kind # "BufferTooLarge"
      BY <2>3
  <2>7. QED
      BY <2>2, <2>3, <2>4, <2>5, <2>6, EndingForm
<1>5. ASSUME NEW kind \in ErrorKinds \cup {"Other"}, NEW length \in {1, MaxOutput + 1},
             WorkFails(kind, length)
      PROVE  IInv'
  <2>1. PICK e : e = opendal_error(call, kind, length)
      OBVIOUS
  <2>2. /\ worked' = TRUE /\ finish_failure(e.kind, e.text)
        /\ UNCHANGED <<call, todo, given, asked, applied, measured, operator, view>>
      BY <1>5, <2>1 DEF WorkFails
  <2>3. e.kind # "BufferTooLarge" /\ (Builds(call) => e.text # "Upstream")
      BY <2>1 DEF opendal_error, construction_error, opendal_error_snapshot, ErrorKinds
  <2>4. phase' = "Done"
      BY <2>2 DEF finish_failure
  <2>5. /\ Story' /\ slot' \in [Slots(call) -> {"Stale", "Null", "Fresh"}] /\ status' # "Ok"
        /\ error'.kind \in {"None", e.kind} /\ error'.text \in {"None", e.text}
      BY <1>2, <2>2, FailureStory
  <2>6. OneSource'
      BY <1>3, <2>2, <2>4
  <2>7. UNCHANGED <<call, given, view>> /\ phase # "View" /\ measured' \in Nat
        /\ ("read_with_suffix" \in operator'.advertised => operator'.native)
        /\ asked' \subseteq applied'
      BY <1>2, <2>2
  <2>8. (Builds(call) => error'.text # "Upstream") /\ error'.kind # "BufferTooLarge"
      BY <2>3, <2>5
  <2>9. QED
      BY <2>4, <2>5, <2>6, <2>7, <2>8, EndingForm
<1>6. CASE WorkPanics \/ WorkEnds
  <2>1. /\ phase' = "Done" /\ status' \in {"Panic", "End"}
        /\ UNCHANGED <<call, todo, given, slot, boxes, asked, applied, measured, operator, error, view>>
      BY <1>6 DEF WorkPanics, WorkEnds
  <2>2. Story' /\ slot' \in [Slots(call) -> {"Stale", "Null", "Fresh"}]
      BY <1>2, <2>1, EmptyStory
  <2>3. OneSource'
      BY <1>3, <2>1
  <2>4. UNCHANGED <<call, given, view>> /\ phase # "View" /\ measured' \in Nat
        /\ ("read_with_suffix" \in operator'.advertised => operator'.native)
        /\ asked' \subseteq applied' /\ status' # "Ok"
        /\ error'.text # "Upstream" /\ error'.kind # "BufferTooLarge"
      BY <1>2, <2>1 DEF NoError
  <2>5. QED
      BY <2>1, <2>2, <2>3, <2>4, EndingForm
<1>7. ASSUME NEW sizes \in [1..4 -> Sizes], NEW native \in BOOLEAN,
             NEW effective \in SUBSET Capabilities, WorkReturns(sizes, native, effective)
      PROVE  IInv'
  <2>1. UNCHANGED <<call, todo, given, asked, applied, view>>
      BY <1>7 DEF WorkReturns
  <2>2. ASSUME NEW built, Succeed(built), measured' \in Nat, measured' <= MaxOutput,
               "read_with_suffix" \in built.advertised => built.native
        PROVE  IInv'
    <3>1. /\ Story' /\ slot' \in [Slots(call) -> {"Stale", "Null", "Fresh"}]
          /\ operator' = built /\ error' = NoError
        BY <1>2, <2>1, <2>2, SuccessStory
    <3>2. phase' = "Done"
        BY <2>2 DEF Succeed
    <3>3. OneSource'
        BY <1>3, <2>1, <3>2
    <3>4. UNCHANGED <<call, given, view>> /\ phase # "View"
          /\ ("read_with_suffix" \in operator'.advertised => operator'.native)
          /\ asked' \subseteq applied'
        BY <1>2, <2>1, <2>2, <3>1
    <3>5. error'.text # "Upstream" /\ error'.kind # "BufferTooLarge"
        BY <3>1 DEF NoError
    <3>6. QED
        BY <2>2, <3>1, <3>2, <3>3, <3>4, <3>5, EndingForm
  <2>3. CASE call.result \in Limited /\ Fits(call.result, sizes) = "Ok"
    <3>1. measured' = Weighs(call.result, sizes)
        BY <1>7, <2>3 DEF WorkReturns
    <3>2. PICK built :
            /\ built = IF Builds(call) THEN operator_handles_with_layers(native, effective)
                       ELSE NoHandle
            /\ Succeed(built)
        BY <1>7, <2>3 DEF WorkReturns
    <3>3. measured' \in Nat /\ measured' <= MaxOutput
        BY <2>3, <3>1, FitsExact
    <3>4. "read_with_suffix" \in built.advertised => built.native
        BY <3>2 DEF operator_handles_with_layers, NoHandle
    <3>5. QED
        BY <2>2, <3>2, <3>3, <3>4
  <2>4. CASE call.result \in Limited /\ Fits(call.result, sizes) # "Ok"
    <3>1. /\ measured' = Weighs(call.result, sizes)
          /\ finish_failure("BufferTooLarge", "Binding") /\ UNCHANGED operator
        BY <1>7, <2>4 DEF WorkReturns
    <3>2. measured' \in Nat /\ measured' > MaxOutput
        BY <2>4, <3>1, FitsExact
    <3>3. phase' = "Done"
        BY <3>1 DEF finish_failure
    <3>4. /\ Story' /\ slot' \in [Slots(call) -> {"Stale", "Null", "Fresh"}] /\ status' # "Ok"
          /\ error'.kind \in {"None", "BufferTooLarge"} /\ error'.text \in {"None", "Binding"}
        BY <1>2, <2>1, <3>1, FailureStory
    <3>5. OneSource'
        BY <1>3, <2>1, <3>3
    <3>6. UNCHANGED <<call, given, view>> /\ phase # "View"
          /\ ("read_with_suffix" \in operator'.advertised => operator'.native)
          /\ asked' \subseteq applied' /\ error'.text # "Upstream"
        BY <1>2, <2>1, <3>1, <3>4
    <3>7. QED
        BY <3>2, <3>3, <3>4, <3>5, <3>6, EndingForm
  <2>5. CASE call.result \notin Limited
    <3>1. Succeed(NoHandle) /\ UNCHANGED measured
        BY <1>7, <2>5 DEF WorkReturns
    <3>2. "read_with_suffix" \in NoHandle.advertised => NoHandle.native
        BY DEF NoHandle
    <3>3. QED
        BY <1>2, <2>2, <3>1, <3>2
  <2>6. QED
      BY <2>3, <2>4, <2>5
<1>8. QED
    BY <1>4, <1>5, <1>6, <1>7 DEF Work

\* A view call: the struct is left alone, cleared or filled as a whole.
LEMMA ViewStep ==
    ASSUME IInv, NEW v, NEW p, NEW version, NEW declared \in 1..ViewMemory, NEW handle, NEW value,
           ViewCall(v, p, version, declared, handle, value)
    PROVE  IInv'
<1> DEFINE prepared == prepare_view(p, version, declared, view)
<1>1. /\ phase = "Idle" /\ phase' = "View" /\ measured' = declared
      /\ UNCHANGED <<call, todo, given, slot, boxes, asked, applied, worked, operator, error>>
    BY DEF ViewCall
<1>2. view = Untouched /\ ~worked /\ error = NoError /\ asked \subseteq applied
    BY <1>1 DEF IInv, ViewFirst, NothingYet
<1>3. /\ DOMAIN view = 1..5 /\ view[1] = "Header"
      /\ \A i \in 2..5 : view[i] = "Old"
    BY <1>2 DEF Untouched, ViewMemory
<1>4. prepared.ok => /\ declared >= 3
                     /\ DOMAIN prepared.memory = 1..5 /\ prepared.memory[1] = "Header"
                     /\ \A i \in 2..3 : prepared.memory[i] = "Zero"
                     /\ \A i \in 4..5 : prepared.memory[i] = "Old"
    BY <1>3 DEF prepare_view, ViewSize, ViewMemory
<1>5. ViewIsWhole'
  <2>1. CASE ~prepared.ok /\ status' = "AbiMismatch" /\ UNCHANGED view
      BY <1>3, <2>1 DEF ViewIsWhole, ViewSize, ViewMemory
  <2>2. CASE prepared.ok /\ status' # "Ok" /\ view' = prepared.memory
      BY <1>1, <1>4, <2>2 DEF ViewIsWhole, ViewSize, ViewMemory
  <2>3. CASE prepared.ok /\ status' = "Ok" /\ view' = Filled(prepared.memory)
    <3>1. /\ view'[1] = "Header"
          /\ \A i \in 2..3 : view'[i] = "New"
          /\ \A i \in 4..5 : view'[i] = "Old"
        BY <1>4, <2>3 DEF Filled, ViewSize
    <3>2. QED
        BY <1>1, <1>4, <2>3, <3>1 DEF ViewIsWhole, ViewSize, ViewMemory
  <2>4. QED
    <3>1. \/ ~prepared.ok /\ status' = "AbiMismatch" /\ UNCHANGED view
          \/ prepared.ok /\ status' = "AbiMismatch" /\ view' = prepared.memory
          \/ /\ prepared.ok /\ status' = value
             /\ view' = IF value = "Ok" THEN Filled(prepared.memory) ELSE prepared.memory
        BY DEF ViewCall
    <3>2. QED
        BY <2>1, <2>2, <2>3, <3>1
<1>6. Shape'
    BY <1>1 DEF IInv, Shape, ViewMemory
<1>7. NothingYet' /\ OutputsReady' /\ ViewFirst'
    BY <1>1, <1>2 DEF NothingYet, OutputsReady, ViewFirst
<1>8. OneSource'
    BY <1>1 DEF IInv, OneSource
<1>9. OutputsHonest' /\ NoSilentOption' /\ LimitsExact'
    BY <1>1, <1>2 DEF IInv, OutputsHonest, NoSilentOption, LimitsExact
<1>10. CredentialsContained'
    BY <1>1, <1>2 DEF IInv, CredentialsContained, Builds, NoError
<1>11. QED
    BY <1>5, <1>6, <1>7, <1>8, <1>9, <1>10 DEF IInv

-----------------------------------------------------------------------------
(* The theorems *)

\* The invariant holds before any call.
LEMMA Initially == Init => IInv
<1> SUFFICES ASSUME Init PROVE IInv
    OBVIOUS
<1>1. /\ call = NoCall /\ phase = "Idle" /\ todo = <<>> /\ given = {}
      /\ slot = [s \in {"Error"} |-> "Stale"] /\ boxes = 0 /\ asked = {} /\ applied = {}
      /\ worked = FALSE /\ measured = 0 /\ operator = NoHandle /\ error = NoError
      /\ view = Untouched
    BY DEF Init
<1>2. Slots(NoCall) = {"Error"}
    BY DEF Slots, NoCall, Entry, Range
<1>3. Shape /\ NothingYet /\ OutputsReady /\ ViewFirst
    BY <1>1, <1>2 DEF Shape, NothingYet, OutputsReady, ViewFirst
<1>4. OneSource
  <2>1. KeysAlone({})
      BY DEF KeysAlone
  <2>2. QED
      BY <1>1, <2>1 DEF OneSource
<1>5. OutputsHonest /\ NoSilentOption /\ CredentialsContained /\ LimitsExact /\ ViewIsWhole
    BY <1>1 DEF OutputsHonest, NoSilentOption, CredentialsContained, LimitsExact, ViewIsWhole,
                NoHandle, NoError
<1>6. QED
    BY <1>3, <1>4, <1>5 DEF IInv

\* Every call and every step of one keeps the invariant.
LEMMA Inductive == IInv /\ [Next]_vars => IInv'
<1> SUFFICES ASSUME IInv, [Next]_vars PROVE IInv'
    OBVIOUS
<1>1. CASE \E c \in Calls : \E p \in [Slots(c) -> Pointers] : Begin(c, p)
    BY <1>1, BeginStep
<1>2. CASE ReadInput
    BY <1>2, ReadInputStep
<1>3. CASE Work
    BY <1>3, WorkStep
<1>4. CASE \E v \in Views, p \in Pointers, version \in BOOLEAN, declared \in 1..ViewMemory,
              handle \in Pointers : \E value \in v.values :
                ViewCall(v, p, version, declared, handle, value)
  <2>1. PICK v \in Views, p \in Pointers, version \in BOOLEAN, declared \in 1..ViewMemory,
             handle \in Pointers : \E value \in v.values :
               ViewCall(v, p, version, declared, handle, value)
      BY <1>4, Zenon
  <2>2. PICK value : ViewCall(v, p, version, declared, handle, value)
      BY <2>1, Zenon
  <2>3. QED
      BY <2>2, ViewStep
<1>5. CASE UNCHANGED vars
    BY <1>5 DEF vars, IInv, Shape, NothingYet, OutputsReady, OneSource, ViewFirst, OutputsHonest,
                NoSilentOption, CredentialsContained, LimitsExact, ViewIsWhole, Builds
<1>6. QED
    BY <1>1, <1>2, <1>3, <1>4, <1>5, Zenon DEF Next

\* The inductive invariant of the C ABI: what every call of every entry point
\* of native/rust/src/lib.rs keeps, for every address space and every limit.
THEOREM Invariant == Spec => []IInv
BY Initially, Inductive, PTL DEF Spec

\* Every entry point leaves its output slots telling one story: cleared before
\* anything is validated, filled together after STATUS_OK, an error exactly
\* after STATUS_ERROR, and no box that no slot holds.
THEOREM Honest == Spec => []OutputsHonest
<1>1. IInv => OutputsHonest
    BY DEF IInv
<1>2. QED
    BY <1>1, Invariant, PTL

\* No option parser of the C ABI drops an option: OpenDAL is asked to act only
\* with all that the caller set.
THEOREM NothingDropped == Spec => []NoSilentOption
<1>1. IInv => NoSilentOption
    BY DEF IInv
<1>2. QED
    BY <1>1, Invariant, PTL

\* S3 credentials stay where the caller put them, and a constructor's error
\* quotes no backend text.
THEOREM Contained == Spec => []CredentialsContained
<1>1. IInv => CredentialsContained
    BY DEF IInv
<1>2. QED
    BY <1>1, Invariant, PTL

\* MAX_OUTPUT_BYTES is exact, for single strings, for a presigned request and
\* for the carriers and paths of a batch.
THEOREM Exact == Spec => []LimitsExact
<1>1. IInv => LimitsExact
    BY DEF IInv
<1>2. QED
    BY <1>1, Invariant, PTL

\* A view call writes its struct whole and nothing beside it.
THEOREM Whole == Spec => []ViewIsWhole
<1>1. IInv => ViewIsWhole
    BY DEF IInv
<1>2. QED
    BY <1>1, Invariant, PTL
=============================================================================
