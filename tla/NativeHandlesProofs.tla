------------------------ MODULE NativeHandlesProofs ------------------------
(***************************************************************************)
(* Ownership of the native handles, the order of the layers and the         *)
(* wholeness of the negotiated table, for any number of objects and         *)
(* handles, any calls and every library: IInv of NativeHandles is inductive.*)
(***************************************************************************)
EXTENDS NativeHandles, TLAPS

USE CallAssumption

-----------------------------------------------------------------------------
(* The tables of the stub *)

\* The free function of a kind belongs to the group that its finalizer asks.
LEMMA FreeInGroup ==
    \A k \in Kinds : /\ GroupOf(k) \in Groups
                     /\ FreeField(k) \in GroupFields[GroupOf(k)]
<1>1. SUFFICES ASSUME NEW k \in Kinds
      PROVE  GroupOf(k) \in Groups /\ FreeField(k) \in GroupFields[GroupOf(k)]
    OBVIOUS
<1>2. CASE k \in BaseKinds
    BY <1>2 DEF BaseKinds, GroupOf, FreeField, Groups, GroupFields
<1>3. CASE k \notin BaseKinds
    BY <1>3 DEF Kinds, BaseKinds, GroupOf, FreeField, Groups, GroupFields
<1>4. QED
    BY <1>2, <1>3

\* What a wrapper may hold is of the wrapper's own group.
LEMMA HeldInGroup ==
    \A k \in Wrappers : \A x \in HeldKinds(k) : GroupOf(x) = GroupOf(k)
BY DEF Wrappers, Kinds, BaseKinds, HeldKinds, Wanted, GroupOf

\* A call makes handles of its own group, or of the base group.
LEMMA MakesInGroup ==
    \A c \in DOMAIN CallTable :
        /\ CallTable[c].group \in Groups
        /\ CallTable[c].makes \subseteq Kinds
        /\ \A k \in CallTable[c].makes : GroupOf(k) \in {"Base", CallTable[c].group}
BY DEF CallTable, Entry, Groups, GroupFields, Kinds, BaseKinds, GroupOf

\* The groups in use are groups, and their fields are fields of the table.
LEMMA GroupsAreGroups ==
    /\ GroupsInUse \subseteq Groups
    /\ \A g \in Groups : GroupFields[g] \subseteq Fields
<1>1. GroupsInUse \subseteq Groups
  <2>1. {"Base", "Layers", "Limit"} \subseteq Groups
      BY DEF Groups, GroupFields
  <2>2. QED
      BY <2>1, MakesInGroup DEF GroupsInUse
<1>2. Fields = {"base", "whole_object", "lister", "lister_free", "reader", "reader_free",
          "writer", "writer_free", "read_stream", "read_stream_free", "writer_abort", "s3",
          "presign", "presign_free", "timeout", "retry", "limit", "delete_many", "copier",
          "copier_free", "async", "async_free"}
  <2>1. DOMAIN TableFields = 1..22
      BY DEF TableFields
  <2>2. QED
      BY <2>1 DEF TableFields, Fields
<1>3. \A g \in Groups : GroupFields[g] \subseteq Fields
    BY <1>2 DEF Groups, GroupFields
<1>4. QED
    BY <1>1, <1>3

\* The table get_api hands over holds an entry point or a null in every field.
LEMMA NothingTorn ==
    \A caller, size \in Int, major \in Int, profile \in Profiles : \A f \in Fields :
        get_api(caller, major, size, profile).table[f] \in {"Entry", "Null"}
<1>1. SUFFICES ASSUME NEW caller \in Int, NEW size \in Int, NEW major \in Int,
                      NEW profile \in Profiles, NEW f \in Fields
      PROVE  get_api(caller, major, size, profile).table[f] \in {"Entry", "Null"}
    OBVIOUS
<1> DEFINE staged == stage_api(size, profile)
           limit  == IF caller <= size THEN caller ELSE size
<1>2. DOMAIN staged = Fields /\ staged[f] \in {"Entry", "Null"}
    BY DEF stage_api
<1>3. install_api(caller, size, staged)[f] = IF ~(End(f) <= limit) THEN "Null"
                                             ELSE IF End(f) > limit THEN "Torn" ELSE staged[f]
    BY <1>2 DEF install_api, Copied
<1>4. limit \in Int
    OBVIOUS
<1>5. End(f) \in Int
  <2>1. DOMAIN TableFields = 1..22
      BY DEF TableFields
  <2>2. Index[f] \in Int
      BY <2>1 DEF Index, Fields
  <2>3. QED
      BY <2>2 DEF End, Offset, PrefixSize, FieldSize
<1> HIDE DEF limit, staged
<1>6. install_api(caller, size, staged)[f] \in {"Entry", "Null"}
    BY <1>2, <1>3, <1>4, <1>5
<1>7. CASE caller < PrefixSize \/ major # 1
    BY <1>2, <1>7 DEF get_api, staged
<1>8. CASE ~(caller < PrefixSize \/ major # 1)
    BY <1>6, <1>8 DEF get_api, staged
<1>9. QED
    BY <1>7, <1>8

\* Whatever the two sides' tables are, the groups whose loaders succeed are whole.
LEMMA InitTable ==
    ASSUME Init
    PROVE  loaded \subseteq Groups /\ TableIsWhole
<1>1. PICK caller \in 0..TableSize, size \in PrefixSize..TableSize, major \in 1..2,
           profile \in Profiles :
        LET answer == get_api(caller, major, size, profile)
        IN /\ loaded = {g \in GroupsInUse :
                          /\ answer.status = "Ok"
                          /\ Loads(g, caller, size, profile, answer.table)}
           /\ table = [f \in UNION {GroupFields[g] : g \in GroupsInUse} |-> answer.table[f]]
    BY DEF Init
<1> DEFINE answer == get_api(caller, major, size, profile)
<1>2. \A f \in Fields : answer.table[f] \in {"Entry", "Null"}
    BY NothingTorn DEF PrefixSize
<1> HIDE DEF answer
<1>3. DOMAIN table \subseteq Fields /\ \A f \in DOMAIN table : table[f] = answer.table[f]
    BY <1>1, GroupsAreGroups DEF answer
<1>4. ASSUME NEW g \in loaded
      PROVE  "Base" \in loaded /\ \A f \in GroupFields[g] : table[f] = "Entry"
  <2>1. /\ g \in GroupsInUse /\ answer.status = "Ok"
        /\ Loads(g, caller, size, profile, answer.table)
      BY <1>1, <1>4 DEF answer
  <2>2. Loads("Base", caller, size, profile, answer.table)
      BY <2>1 DEF Loads
  <2>3. "Base" \in loaded
      BY <1>1, <2>1, <2>2 DEF GroupsInUse, answer
  <2>4. ASSUME NEW f \in GroupFields[g]
        PROVE  table[f] = "Entry"
    <3>1. answer.table[f] # "Null"
        BY <2>1 DEF Loads, Has
    <3>2. f \in Fields /\ f \in DOMAIN table
        BY <1>1, <2>1, GroupsAreGroups
    <3>3. QED
        BY <1>2, <1>3, <3>1, <3>2
  <2>5. QED
      BY <2>3, <2>4
<1>5. \A f \in DOMAIN table : table[f] # "Torn"
    BY <1>2, <1>3
<1>6. loaded \subseteq Groups
    BY <1>1, GroupsAreGroups
<1>7. QED
    BY <1>4, <1>5, <1>6 DEF TableIsWhole

-----------------------------------------------------------------------------
(* Results *)

\* A result that gets new boxes of loaded groups owns them, and only them.
LEMMA ResultInv ==
    ASSUME IInv, NEW r \in Objects, object[r] = "None", NEW s \in Statuses,
           NEW kinds \in SUBSET Kinds, \A k \in kinds : GroupOf(k) \in loaded,
           NEW box \in Boxes(kinds), Result(r, s, box), UNCHANGED <<loaded, table>>
    PROVE  /\ live' \in [Handles -> Kinds \cup {"None"}]
           /\ object' \in [Objects -> Wrappers \cup {"Result", "None"}]
           /\ status' \in [Objects -> Statuses]
           /\ held' \in [Objects -> SUBSET Handles]
           /\ \A o \in Objects : \A h \in held'[o] : live'[h] # "None"
           /\ \A o, p \in Objects : o # p => held'[o] \cap held'[p] = {}
           /\ \A h \in Handles : live'[h] # "None" => \E o \in Objects : h \in held'[o]
           /\ Kept'
           /\ \A k \in kinds : live'[box[k]] = k
           /\ \A h \in Handles : h \notin {box[k] : k \in kinds} => live'[h] = live[h]
<1> DEFINE new == {box[k] : k \in kinds}
<1>1. /\ box \in [kinds -> {h \in Handles : live[h] = "None"}]
      /\ \A k, j \in kinds : box[k] = box[j] => k = j
      /\ DOMAIN box = kinds
    BY DEF Boxes
<1>2. /\ new \subseteq Handles /\ \A h \in new : live[h] = "None"
    BY <1>1
<1>3. /\ object' = [object EXCEPT ![r] = "Result"]
      /\ status' = [status EXCEPT ![r] = s]
      /\ held' = [held EXCEPT ![r] = new]
      /\ live' = [h \in Handles |-> IF h \in new THEN CHOOSE k \in kinds : box[k] = h
                                    ELSE live[h]]
    BY <1>1 DEF Result
<1>4. \A k \in kinds : live'[box[k]] = k
  <2>1. SUFFICES ASSUME NEW k \in kinds PROVE live'[box[k]] = k
      OBVIOUS
  <2>2. live'[box[k]] = CHOOSE j \in kinds : box[j] = box[k]
      BY <1>1, <1>3
  <2>3. QED
      BY <1>1, <2>2
<1>5. \A h \in Handles : h \notin new => live'[h] = live[h]
    BY <1>3
<1>6. \A h \in new : live'[h] \in kinds
    BY <1>4
<1> HIDE DEF new
<1>7. TypeOK /\ held[r] = {}
    BY DEF IInv, Owned, Kept, TypeOK
<1>8. live' \in [Handles -> Kinds \cup {"None"}]
  <2>1. \A h \in Handles : live'[h] \in Kinds \cup {"None"}
      BY <1>5, <1>6, <1>7 DEF TypeOK
  <2>2. QED
      BY <1>3, <2>1
<1>9. /\ object' \in [Objects -> Wrappers \cup {"Result", "None"}]
      /\ status' \in [Objects -> Statuses]
      /\ held' \in [Objects -> SUBSET Handles]
    BY <1>2, <1>3, <1>7 DEF TypeOK
<1>10. \A o \in Objects : held'[o] = IF o = r THEN new ELSE held[o]
    BY <1>3, <1>7 DEF TypeOK
<1>11. \A o \in Objects : held[o] \cap new = {}
    BY <1>2 DEF IInv, Owned
<1>12. \A o \in Objects : \A h \in held'[o] : live'[h] # "None"
    BY <1>5, <1>6, <1>7, <1>10, <1>11 DEF IInv, Owned, TypeOK, Kinds, BaseKinds
<1>13. \A o, p \in Objects : o # p => held'[o] \cap held'[p] = {}
    BY <1>10, <1>11 DEF IInv, Owned
<1>14. \A h \in Handles : live'[h] # "None" => \E o \in Objects : h \in held'[o]
    BY <1>5, <1>7, <1>10 DEF IInv, Owned
<1>15. Kept'
  <2>1. SUFFICES ASSUME NEW o \in Objects, NEW h \in held'[o]
        PROVE  /\ object'[o] # "None" /\ GroupOf(live'[h]) \in loaded
               /\ object'[o] # "Result" => live'[h] \in HeldKinds(object'[o])
      BY DEF Kept
  <2>2. CASE o = r
      BY <1>3, <1>6, <1>7, <1>10, <2>2 DEF TypeOK
  <2>3. CASE o # r
    <3>1. h \in held[o] /\ live'[h] = live[h] /\ object'[o] = object[o]
        BY <1>3, <1>5, <1>7, <1>10, <1>11, <2>3 DEF TypeOK
    <3>2. QED
        BY <3>1 DEF IInv, Kept
  <2>4. QED
      BY <2>2, <2>3
<1>16. QED
    BY <1>4, <1>5, <1>8, <1>9, <1>12, <1>13, <1>14, <1>15 DEF new

\* A result without handles takes part in no ownership.
LEMMA EmptyInv ==
    ASSUME IInv, NEW r \in Objects, object[r] = "None", NEW s \in Statuses,
           Empty(r, s), UNCHANGED <<loaded, table>>
    PROVE  IInv'
<1>1. TypeOK'
    BY DEF IInv, Owned, Empty, TypeOK
<1>2. Owned'
    BY <1>1 DEF IInv, Owned, Empty
<1>3. Kept'
    BY DEF IInv, Owned, TypeOK, Kept, Empty
<1>4. LayersInOrder' /\ TableIsWhole'
    BY DEF IInv, LayersInOrder, TableIsWhole, Empty
<1>5. QED
    BY <1>2, <1>3, <1>4 DEF IInv

\* The library reports a failure, with an error handle or without one.
LEMMA FailsInv ==
    ASSUME IInv, NEW r \in Objects, object[r] = "None", loaded # {},
           Fails(r), UNCHANGED <<loaded, table>>
    PROVE  IInv'
<1>1. CASE \E s \in {"AbiMismatch", "Other"} : Empty(r, s)
    BY <1>1, EmptyInv DEF Statuses
<1>2. ASSUME NEW box \in Boxes({"Error"}), Result(r, "Error", box), UNCHANGED <<stack, bits>>
      PROVE  IInv'
  <2>1. {"Error"} \in SUBSET Kinds /\ \A k \in {"Error"} : GroupOf(k) \in loaded
      BY DEF IInv, TableIsWhole, Kinds, BaseKinds, GroupOf
  <2>2. /\ live' \in [Handles -> Kinds \cup {"None"}]
        /\ object' \in [Objects -> Wrappers \cup {"Result", "None"}]
        /\ status' \in [Objects -> Statuses]
        /\ held' \in [Objects -> SUBSET Handles]
        /\ \A o \in Objects : \A h \in held'[o] : live'[h] # "None"
        /\ \A o, p \in Objects : o # p => held'[o] \cap held'[p] = {}
        /\ \A h \in Handles : live'[h] # "None" => \E o \in Objects : h \in held'[o]
        /\ Kept'
        /\ live'[box["Error"]] = "Error"
        /\ \A h \in Handles : h # box["Error"] => live'[h] = live[h]
      BY <1>2, <2>1, ResultInv DEF Statuses
  <2>3. TypeOK'
      BY <1>2, <2>2 DEF IInv, Owned, TypeOK
  <2>4. Owned'
      BY <2>2, <2>3 DEF Owned
  <2>5. LayersInOrder'
      BY <1>2, <2>2 DEF IInv, LayersInOrder
  <2>6. TableIsWhole'
      BY DEF IInv, TableIsWhole
  <2>7. QED
      BY <2>2, <2>4, <2>5, <2>6 DEF IInv
<1>3. QED
    BY <1>1, <1>2 DEF Fails

\* Layers that are in order, with the bits that say which they are.
Ordered(ls, bs) ==
    /\ ls \in Seq(LayerKinds) /\ bs \in SUBSET LayerKinds
    /\ \A i, j \in DOMAIN ls : i < j => Rank[ls[i]] < Rank[ls[j]]
    /\ bs = {ls[i] : i \in DOMAIN ls}

\* The library answers, and a new operator has layers in order.
LEMMA AnswersInv ==
    ASSUME IInv, NEW r \in Objects, object[r] = "None", loaded # {},
           NEW kinds \in SUBSET Kinds, \A k \in kinds : GroupOf(k) \in loaded,
           NEW ls, NEW bs, Ordered(ls, bs),
           Answers(r, kinds, ls, bs), UNCHANGED <<loaded, table>>
    PROVE  IInv'
<1>1. CASE Fails(r)
    BY <1>1, FailsInv
<1>2. ASSUME NEW box \in Boxes(kinds), NEW s \in {"Ok", "AbiMismatch"},
             Result(r, s, box), Layered(box, ls, bs)
      PROVE  IInv'
  <2>1. /\ live' \in [Handles -> Kinds \cup {"None"}]
        /\ object' \in [Objects -> Wrappers \cup {"Result", "None"}]
        /\ status' \in [Objects -> Statuses]
        /\ held' \in [Objects -> SUBSET Handles]
        /\ \A o \in Objects : \A h \in held'[o] : live'[h] # "None"
        /\ \A o, p \in Objects : o # p => held'[o] \cap held'[p] = {}
        /\ \A h \in Handles : live'[h] # "None" => \E o \in Objects : h \in held'[o]
        /\ Kept'
        /\ \A k \in kinds : live'[box[k]] = k
        /\ \A h \in Handles : h \notin {box[k] : k \in kinds} => live'[h] = live[h]
    <3>1. s \in Statuses
        BY DEF Statuses
    <3>2. QED
        BY <1>2, <3>1, ResultInv
  <2>2. /\ DOMAIN box = kinds /\ \A k \in kinds : box[k] \in Handles
      BY DEF Boxes
  <2>3. TypeOK'
    <3>1. stack' \in [Handles -> Seq(LayerKinds)] /\ bits' \in [Handles -> SUBSET LayerKinds]
        BY <1>2 DEF Layered, Ordered, IInv, Owned, TypeOK
    <3>2. QED
        BY <2>1, <3>1 DEF IInv, Owned, TypeOK
  <2>4. Owned'
      BY <2>1, <2>3 DEF Owned
  <2>5. LayersInOrder'
    <3>1. SUFFICES ASSUME NEW h \in Handles, live'[h] = "Operator"
          PROVE  /\ \A i, j \in DOMAIN stack'[h] :
                       i < j => Rank[stack'[h][i]] < Rank[stack'[h][j]]
                 /\ bits'[h] = {stack'[h][i] : i \in DOMAIN stack'[h]}
        BY DEF LayersInOrder, Rank
    <3>2. CASE "Operator" \in kinds /\ h = box["Operator"]
      <4>1. stack'[h] = ls /\ bits'[h] = bs
          BY <1>2, <2>2, <3>2 DEF Layered
      <4>2. QED
          BY <4>1 DEF Ordered
    <3>3. CASE ~("Operator" \in kinds /\ h = box["Operator"])
      <4>1. stack'[h] = stack[h] /\ bits'[h] = bits[h]
          BY <1>2, <2>2, <3>3 DEF Layered
      <4>2. live[h] = "Operator"
          BY <2>1, <3>1, <3>3
      <4>3. QED
          BY <4>1, <4>2 DEF IInv, LayersInOrder
    <3>4. QED
        BY <3>2, <3>3
  <2>6. TableIsWhole'
      BY DEF IInv, TableIsWhole
  <2>7. QED
      BY <2>1, <2>4, <2>5, <2>6 DEF IInv
<1>3. QED
    BY <1>1, <1>2 DEF Answers

\* A call of the stub.
LEMMA CallInv ==
    ASSUME IInv, NEW c \in CallsInUse, NEW r \in Objects, NEW w \in Objects, Call(c, r, w)
    PROVE  IInv'
<1> DEFINE e == CallTable[c]
<1>1. object[r] = "None" /\ UNCHANGED <<loaded, table>>
    BY DEF Call, api
<1>2. e.makes \in SUBSET Kinds /\ \A k \in e.makes : GroupOf(k) \in {"Base", e.group}
    BY MakesInGroup
<1>3. Ordered(<<>>, {})
    BY DEF Ordered
<1> HIDE DEF e
<1>4. CASE \E s \in {"AbiMismatch", "Error"} : Empty(r, s)
    BY <1>1, <1>4, EmptyInv DEF Statuses
<1>5. CASE e.group \in loaded /\ Answers(r, e.makes, <<>>, {})
  <2>1. loaded # {} /\ \A k \in e.makes : GroupOf(k) \in loaded
      BY <1>2, <1>5 DEF IInv, TableIsWhole
  <2>2. QED
      BY <1>1, <1>2, <1>3, <1>5, <2>1, AnswersInv
<1>6. QED
    BY <1>4, <1>5 DEF Call, e

\* A layer is accepted only outside those an operator already has.
LEMMA LayerFits ==
    ASSUME NEW l \in LayerKinds, NEW ls, NEW bs, Ordered(ls, bs),
           NEW a \in 0..2, NEW b \in 0..2, NEW c \in 0..2, NEW flag \in BOOLEAN,
           Accepted(l, bs, a, b, c, flag)
    PROVE  Ordered(Append(ls, l), bs \cup {l})
<1>1. \A x \in bs : Rank[x] < Rank[l]
  <2>1. bs \subseteq {"Timeout", "Retry", "Limit"}
      BY DEF Ordered, LayerKinds
  <2>2. CASE l = "Timeout"
      BY <2>1, <2>2 DEF Accepted, operator_with_timeout, Rank
  <2>3. CASE l = "Retry"
      BY <2>1, <2>3 DEF Accepted, operator_with_retry, Rank
  <2>4. CASE l = "Limit"
      BY <2>1, <2>4 DEF Accepted, operator_with_concurrency_limit, Rank
  <2>5. QED
      BY <2>2, <2>3, <2>4 DEF LayerKinds
<1> DEFINE new == Append(ls, l)
<1>2. /\ new \in Seq(LayerKinds) /\ Len(ls) \in Nat /\ DOMAIN ls = 1..Len(ls)
      /\ DOMAIN new = 1..(Len(ls) + 1) /\ new[Len(ls) + 1] = l
      /\ \A i \in 1..Len(ls) : new[i] = ls[i]
    BY DEF Ordered
<1>3. \A i \in 1..Len(ls) : Rank[ls[i]] < Rank[l]
    BY <1>1, <1>2 DEF Ordered
<1> HIDE DEF new
<1>4. \A i, j \in DOMAIN new : i < j => Rank[new[i]] < Rank[new[j]]
  <2>1. SUFFICES ASSUME NEW i \in DOMAIN new, NEW j \in DOMAIN new, i < j
        PROVE  Rank[new[i]] < Rank[new[j]]
      OBVIOUS
  <2>2. i \in 1..Len(ls)
      BY <1>2, <2>1
  <2>3. CASE j = Len(ls) + 1
      BY <1>2, <1>3, <2>2, <2>3
  <2>4. CASE j \in 1..Len(ls)
      BY <1>2, <2>1, <2>2, <2>4 DEF Ordered
  <2>5. QED
      BY <1>2, <2>3, <2>4
<1>5. bs \cup {l} = {new[i] : i \in DOMAIN new}
  <2>1. ASSUME NEW x \in bs PROVE \E i \in DOMAIN new : x = new[i]
      BY <1>2, <2>1 DEF Ordered
  <2>2. ASSUME NEW i \in DOMAIN new PROVE new[i] \in bs \cup {l}
    <3>1. CASE i = Len(ls) + 1
        BY <1>2, <3>1
    <3>2. CASE i \in 1..Len(ls)
        BY <1>2, <3>2 DEF Ordered
    <3>3. QED
        BY <1>2, <3>1, <3>2
  <2>3. l = new[Len(ls) + 1] /\ Len(ls) + 1 \in DOMAIN new
      BY <1>2
  <2>4. QED
      BY <2>1, <2>2, <2>3
<1>6. QED
    BY <1>2, <1>4, <1>5 DEF Ordered, new

\* A layer makes a new operator out of one that keeps its own.
LEMMA WithLayerInv ==
    ASSUME IInv, NEW l \in LayerKinds, NEW r \in Objects, NEW w \in Objects, WithLayer(l, r, w)
    PROVE  IInv'
<1>1. object[r] = "None" /\ UNCHANGED <<loaded, table>>
    BY DEF WithLayer, api
<1>2. CASE \E s \in {"AbiMismatch", "Error"} : Empty(r, s)
    BY <1>1, <1>2, EmptyInv DEF Statuses
<1>3. ASSUME LayerGroup[l] \in loaded, NEW h \in Native(w, "Operator"),
             NEW accepted \in Verdicts(l, bits[h]),
             \/ ~accepted /\ Fails(r)
             \/ accepted /\ Answers(r, {"Operator", "Info"}, Append(stack[h], l), bits[h] \cup {l})
      PROVE  IInv'
  <2>1. CASE Fails(r)
      BY <1>1, <1>3, <2>1, FailsInv
  <2>2. CASE accepted /\ Answers(r, {"Operator", "Info"}, Append(stack[h], l), bits[h] \cup {l})
    <3>1. h \in Handles /\ live[h] = "Operator"
        BY DEF Native, IInv, Owned, TypeOK
    <3>2. Ordered(stack[h], bits[h])
        BY <3>1 DEF Ordered, IInv, LayersInOrder, Owned, TypeOK
    <3>3. PICK a \in 0..2, b \in 0..2, c \in 0..2, flag \in BOOLEAN :
            Accepted(l, bits[h], a, b, c, flag)
      <4>1. \E a, b, c \in 0..2, flag \in BOOLEAN : accepted = Accepted(l, bits[h], a, b, c, flag)
          BY DEF Verdicts
      <4>2. QED
          BY <2>2, <4>1, Zenon
    <3>4. Ordered(Append(stack[h], l), bits[h] \cup {l})
        BY <3>2, <3>3, LayerFits
    <3>5. /\ {"Operator", "Info"} \in SUBSET Kinds
          /\ \A k \in {"Operator", "Info"} : GroupOf(k) \in loaded
        BY <1>3 DEF IInv, TableIsWhole, Kinds, BaseKinds, GroupOf
    <3>6. QED
        BY <1>1, <1>3, <2>2, <3>4, <3>5, AnswersInv
  <2>3. QED
      BY <1>3, <2>1, <2>2
<1>4. QED
    BY <1>2, <1>3 DEF WithLayer

-----------------------------------------------------------------------------
(* Taking, releasing, finalizing *)

\* MoonBit takes a handle out of a result: it moves, or stays with the result.
LEMMA TakeInv ==
    ASSUME IInv, NEW r \in Objects, NEW o \in Objects, NEW k \in WrappersInUse,
           NEW valid \in BOOLEAN, Take(r, k, o, valid)
    PROVE  IInv'
<1> DEFINE hs == {h \in held[r] : live[h] \in Wanted(k)}
<1>1. /\ object[r] = "Result" /\ object[o] = "None" /\ r # o
      /\ object' = [object EXCEPT ![o] = k]
      /\ UNCHANGED <<loaded, table, live, stack, bits>>
      /\ \/ held' = [held EXCEPT ![r] = held[r] \ hs, ![o] = hs] /\ UNCHANGED status
         \/ status' = [status EXCEPT ![r] = "AbiMismatch"] /\ UNCHANGED held
    BY DEF Take, Moved
<1>2. TypeOK /\ k \in Wrappers /\ held[o] = {}
    BY <1>1 DEF IInv, Owned, Kept, TypeOK, WrappersInUse
<1>3. k # "None" /\ k # "Result"
    BY <1>2 DEF Wrappers, Kinds, BaseKinds
<1>4. TypeOK'
    BY <1>1, <1>2, ZenonT(60) DEF TypeOK, Statuses
<1>5. LayersInOrder' /\ TableIsWhole'
    BY <1>1 DEF IInv, LayersInOrder, TableIsWhole
<1>6. CASE UNCHANGED held
  <2>1. Owned'
      BY <1>1, <1>4, <1>6 DEF IInv, Owned
  <2>2. Kept'
      BY <1>1, <1>2, <1>6 DEF IInv, Kept, TypeOK
  <2>3. QED
      BY <1>5, <2>1, <2>2 DEF IInv
<1>7. CASE held' = [held EXCEPT ![r] = held[r] \ hs, ![o] = hs]
  <2>1. \A p \in Objects : held'[p] = IF p = o THEN hs ELSE IF p = r THEN held[r] \ hs ELSE held[p]
      BY <1>1, <1>2, <1>7 DEF TypeOK
  <2>2. hs \subseteq held[r] /\ \A h \in hs : live[h] \in HeldKinds(k)
      BY DEF HeldKinds
  <2> HIDE DEF hs
  <2>3. \A p \in Objects : \A h \in held'[p] : live'[h] # "None"
      BY <1>1, <2>1, <2>2 DEF IInv, Owned
  <2>4. \A p, q \in Objects : p # q => held'[p] \cap held'[q] = {}
    <3>1. \A p \in Objects : p # r => held[p] \cap held[r] = {}
        BY DEF IInv, Owned
    <3>2. QED
        BY <1>1, <2>1, <2>2, <3>1 DEF IInv, Owned
  <2>5. \A h \in Handles : live'[h] # "None" => \E p \in Objects : h \in held'[p]
    <3>1. SUFFICES ASSUME NEW h \in Handles, live[h] # "None"
          PROVE  \E p \in Objects : h \in held'[p]
        BY <1>1
    <3>2. PICK p \in Objects : h \in held[p]
        BY <3>1 DEF IInv, Owned
    <3>3. CASE h \in hs
        BY <2>1, <3>3
    <3>4. CASE h \notin hs
        BY <1>2, <2>1, <3>2, <3>4
    <3>5. QED
        BY <3>3, <3>4
  <2>6. Kept'
    <3>1. SUFFICES ASSUME NEW p \in Objects, NEW h \in held'[p]
          PROVE  /\ object'[p] # "None" /\ GroupOf(live[h]) \in loaded
                 /\ object'[p] # "Result" => live[h] \in HeldKinds(object'[p])
        BY <1>1 DEF Kept
    <3>2. CASE p = o
      <4>1. h \in hs /\ h \in held[r] /\ object'[p] = k
          BY <1>1, <1>2, <2>1, <2>2, <3>2 DEF TypeOK
      <4>2. QED
          BY <1>3, <2>2, <4>1 DEF IInv, Kept
    <3>3. CASE p # o
      <4>1. h \in held[p] /\ object'[p] = object[p]
          BY <1>1, <1>2, <2>1, <3>3 DEF TypeOK
      <4>2. QED
          BY <4>1 DEF IInv, Kept
    <3>4. QED
        BY <3>2, <3>3
  <2>7. QED
      BY <1>4, <1>5, <2>3, <2>4, <2>5, <2>6 DEF IInv, Owned
<1>8. QED
    BY <1>1, <1>6, <1>7

\* Everything an object holds can be freed with it, so no finalizer leaks.
LEMMA AllReleasable ==
    ASSUME IInv, NEW o \in Objects
    PROVE  Releasable(o) = held[o]
<1>1. \A h \in held[o] : /\ live[h] \in Kinds /\ GroupOf(live[h]) \in loaded
                         /\ object[o] # "None"
                         /\ object[o] # "Result" => live[h] \in HeldKinds(object[o])
    BY DEF IInv, Owned, TypeOK, Kept
<1>2. CASE object[o] = "Result"
  <2>1. ASSUME NEW h \in held[o]
        PROVE  "Base" \in loaded /\ table[FreeField(live[h])] # "Null"
      BY <1>1, FreeInGroup DEF IInv, TableIsWhole
  <2>2. QED
      BY <1>2, <2>1 DEF Releasable
<1>3. CASE object[o] # "Result" /\ held[o] = {}
    BY <1>3 DEF Releasable
<1>4. CASE object[o] # "Result" /\ held[o] # {}
  <2>1. PICK h \in held[o] : TRUE
      BY <1>4
  <2>2. object[o] \in Wrappers /\ live[h] \in HeldKinds(object[o]) /\ GroupOf(live[h]) \in loaded
      BY <1>1, <1>4 DEF IInv, Owned, TypeOK
  <2>3. GroupOf(object[o]) \in loaded
      BY <2>2, HeldInGroup
  <2>4. QED
      BY <1>4, <2>3 DEF Releasable
<1>5. QED
    BY <1>2, <1>3, <1>4

\* Freeing handles that one object held, and taking them from it, leaves every
\* other handle with its owner.  The object may be collected with it.
LEMMA FreedInv ==
    ASSUME IInv, NEW o \in Objects, NEW hs \in SUBSET held[o], Freed(hs),
           held' = [held EXCEPT ![o] = held[o] \ hs],
           object' \in [Objects -> Wrappers \cup {"Result", "None"}],
           status' \in [Objects -> Statuses],
           \A p \in Objects : object'[p] = object[p] \/ held'[p] = {},
           UNCHANGED <<loaded, table>>
    PROVE  IInv'
<1>1. TypeOK /\ hs \subseteq Handles
    BY DEF IInv, Owned, TypeOK
<1>2. /\ \A h \in hs : live'[h] = "None"
      /\ \A h \in Handles \ hs : live'[h] = live[h] /\ stack'[h] = stack[h] /\ bits'[h] = bits[h]
    BY <1>1 DEF Freed
<1>3. \A p \in Objects : held'[p] = IF p = o THEN held[o] \ hs ELSE held[p]
    BY <1>1 DEF TypeOK
<1>4. \A p \in Objects : held'[p] \cap hs = {} /\ held'[p] \subseteq held[p]
  <2>1. \A p \in Objects : p # o => held[p] \cap hs = {}
      BY DEF IInv, Owned
  <2>2. QED
      BY <1>3, <2>1
<1>5. TypeOK'
  <2>1. live' \in [Handles -> Kinds \cup {"None"}]
      BY <1>1 DEF TypeOK, Freed
  <2>2. stack' \in [Handles -> Seq(LayerKinds)]
    <3>1. \A h \in Handles : stack'[h] \in Seq(LayerKinds)
        BY <1>1 DEF TypeOK, Freed
    <3>2. QED
        BY <3>1 DEF Freed
  <2>3. bits' \in [Handles -> SUBSET LayerKinds]
      BY <1>1 DEF TypeOK, Freed
  <2>4. held' \in [Objects -> SUBSET Handles]
      BY <1>1 DEF TypeOK
  <2>5. QED
      BY <1>1, <2>1, <2>2, <2>3, <2>4 DEF TypeOK
<1>6. \A p \in Objects : \A h \in held'[p] : live'[h] = live[h] /\ live[h] # "None"
    BY <1>1, <1>2, <1>4 DEF IInv, Owned, TypeOK
<1>7. \A p, q \in Objects : p # q => held'[p] \cap held'[q] = {}
    BY <1>4 DEF IInv, Owned
<1>8. \A h \in Handles : live'[h] # "None" => \E p \in Objects : h \in held'[p]
  <2>1. SUFFICES ASSUME NEW h \in Handles, live'[h] # "None"
        PROVE  \E p \in Objects : h \in held'[p]
      OBVIOUS
  <2>2. h \notin hs /\ live[h] # "None"
      BY <1>2, <2>1
  <2>3. PICK p \in Objects : h \in held[p]
      BY <2>2 DEF IInv, Owned
  <2>4. QED
      BY <1>3, <2>2, <2>3
<1>9. Owned'
    BY <1>5, <1>6, <1>7, <1>8 DEF Owned
<1>10. Kept'
  <2>1. SUFFICES ASSUME NEW p \in Objects, NEW h \in held'[p]
        PROVE  /\ object'[p] # "None" /\ GroupOf(live'[h]) \in loaded
               /\ object'[p] # "Result" => live'[h] \in HeldKinds(object'[p])
      BY DEF Kept
  <2>2. object'[p] = object[p] /\ h \in held[p] /\ live'[h] = live[h]
      BY <1>4, <1>6
  <2>3. QED
      BY <2>2 DEF IInv, Kept
<1>11. LayersInOrder'
  <2>1. \A h \in Handles : live'[h] = "Operator" => h \notin hs
      BY <1>2
  <2>2. QED
      BY <1>2, <2>1 DEF IInv, LayersInOrder
<1>12. TableIsWhole'
    BY DEF IInv, TableIsWhole
<1>13. QED
    BY <1>9, <1>10, <1>11, <1>12 DEF IInv

\* release_result_payload.
LEMMA ReleaseInv ==
    ASSUME IInv, NEW r \in Objects, Release(r)
    PROVE  IInv'
<1>1. Releasable(r) = held[r]
    BY AllReleasable
<1>2. held' = [held EXCEPT ![r] = held[r] \ held[r]] /\ Freed(held[r])
    BY <1>1 DEF Release
<1>3. /\ UNCHANGED <<object, status, loaded, table>>
      /\ object \in [Objects -> Wrappers \cup {"Result", "None"}]
      /\ status \in [Objects -> Statuses]
    BY DEF Release, IInv, Owned, TypeOK
<1>4. QED
    BY <1>2, <1>3, FreedInv

\* The finalizer of any object.
LEMMA FinalizeInv ==
    ASSUME IInv, NEW o \in Objects, Finalize(o)
    PROVE  IInv'
<1>1. Releasable(o) = held[o] /\ TypeOK
    BY AllReleasable DEF IInv, Owned
<1>2. held' = [held EXCEPT ![o] = held[o] \ held[o]] /\ Freed(held[o])
    BY <1>1 DEF Finalize
<1>3. /\ UNCHANGED <<loaded, table>>
      /\ object' \in [Objects -> Wrappers \cup {"Result", "None"}]
      /\ status' \in [Objects -> Statuses]
    BY <1>1 DEF Finalize, TypeOK, Statuses, api
<1>4. \A p \in Objects : object'[p] = object[p] \/ held'[p] = {}
  <2>1. held' = [held EXCEPT ![o] = {}] /\ object' = [object EXCEPT ![o] = "None"]
      BY DEF Finalize
  <2>2. QED
      BY <1>1, <2>1 DEF TypeOK
<1>5. QED
    BY <1>2, <1>3, <1>4, FreedInv

\* An operator or a presigned request is closed.
LEMMA CloseInv ==
    ASSUME IInv, NEW o \in Objects, Close(o)
    PROVE  IInv'
<1> DEFINE hs == {h \in held[o] : live[h] \in {"Operator", "Request"}}
<1>1. /\ hs \in SUBSET held[o] /\ Freed(hs) /\ held' = [held EXCEPT ![o] = held[o] \ hs]
      /\ UNCHANGED <<loaded, table, object, status>>
    BY DEF Close
<1> HIDE DEF hs
<1>2. /\ object \in [Objects -> Wrappers \cup {"Result", "None"}]
      /\ status \in [Objects -> Statuses]
    BY DEF IInv, Owned, TypeOK
<1>3. QED
    BY <1>1, <1>2, FreedInv

\* An entry moves into its metadata.
LEMMA EntryTakeMetadataInv ==
    ASSUME IInv, NEW o \in Objects, NEW m \in Objects, EntryTakeMetadata(o, m)
    PROVE  IInv'
<1>1. /\ object[o] = "Entry" /\ object[m] = "None" /\ o # m
      /\ object' = [object EXCEPT ![m] = "Metadata"]
      /\ held' = [held EXCEPT ![o] = {}, ![m] = held[o]]
      /\ UNCHANGED <<loaded, table, live, status, stack, bits>>
    BY DEF EntryTakeMetadata
<1>2. TypeOK /\ held[m] = {}
    BY <1>1 DEF IInv, Owned, Kept, TypeOK
<1>3. \A p \in Objects : held'[p] = IF p = m THEN held[o] ELSE IF p = o THEN {} ELSE held[p]
    BY <1>1, <1>2 DEF TypeOK
<1>4. TypeOK'
    BY <1>1, <1>2 DEF TypeOK, Wrappers, Kinds, BaseKinds
<1>5. Owned'
  <2>1. \A h \in Handles : live'[h] # "None" => \E p \in Objects : h \in held'[p]
    <3>1. SUFFICES ASSUME NEW h \in Handles, live[h] # "None"
          PROVE  \E p \in Objects : h \in held'[p]
        BY <1>1
    <3>2. PICK p \in Objects : h \in held[p]
        BY <3>1 DEF IInv, Owned
    <3>3. QED
        BY <1>2, <1>3, <3>2
  <2>2. \A p \in Objects : \A h \in held'[p] : live'[h] # "None"
      BY <1>1, <1>3 DEF IInv, Owned
  <2>3. \A p, q \in Objects : p # q => held'[p] \cap held'[q] = {}
    <3>1. \A p, q \in Objects, h \in Handles : h \in held[p] /\ h \in held[q] => p = q
        BY DEF IInv, Owned
    <3>2. SUFFICES ASSUME NEW p \in Objects, NEW q \in Objects, NEW h \in held'[p],
                          h \in held'[q]
          PROVE  p = q
        OBVIOUS
    <3>3. h \in Handles
        BY <1>4 DEF TypeOK
    <3>4. QED
        BY <1>1, <1>2, <1>3, <3>1, <3>2, <3>3, ZenonT(60)
  <2>4. QED
      BY <1>4, <2>1, <2>2, <2>3 DEF Owned
<1>6. Kept'
  <2>1. SUFFICES ASSUME NEW p \in Objects, NEW h \in held'[p]
        PROVE  /\ object'[p] # "None" /\ GroupOf(live[h]) \in loaded
               /\ object'[p] # "Result" => live[h] \in HeldKinds(object'[p])
      BY <1>1 DEF Kept
  <2>2. CASE p = m
    <3>1. h \in held[o] /\ object'[p] = "Metadata"
        BY <1>1, <1>2, <1>3, <2>2 DEF TypeOK
    <3>2. live[h] \in HeldKinds("Entry") /\ GroupOf(live[h]) \in loaded
        BY <1>1, <3>1 DEF IInv, Kept
    <3>3. QED
        BY <3>1, <3>2 DEF HeldKinds, Wanted
  <2>3. CASE p # m
    <3>1. h \in held[p] /\ object'[p] = object[p]
        BY <1>1, <1>2, <1>3, <2>3 DEF TypeOK
    <3>2. QED
        BY <3>1 DEF IInv, Kept
  <2>4. QED
      BY <2>2, <2>3
<1>7. LayersInOrder' /\ TableIsWhole'
    BY <1>1 DEF IInv, LayersInOrder, TableIsWhole
<1>8. QED
    BY <1>5, <1>6, <1>7 DEF IInv

-----------------------------------------------------------------------------
(* Theorems *)

\* IInv holds in every state, whatever library the stub meets.
THEOREM Invariance == Spec => []IInv
<1>1. Init => IInv
  <2>1. SUFFICES ASSUME Init PROVE IInv
      OBVIOUS
  <2>2. TypeOK
      BY <2>1, InitTable DEF Init, TypeOK, Statuses
  <2>3. Owned /\ Kept
      BY <2>1, <2>2 DEF Init, Owned, Kept
  <2>4. LayersInOrder
      BY <2>1 DEF Init, LayersInOrder
  <2>5. QED
      BY <2>1, <2>3, <2>4, InitTable DEF IInv
<1>2. IInv /\ [Next]_vars => IInv'
  <2>1. SUFFICES ASSUME IInv, [Next]_vars PROVE IInv'
      OBVIOUS
  <2>2. CASE UNCHANGED vars
    <3>1. Owned'
        BY <2>1, <2>2 DEF vars, IInv, Owned, TypeOK
    <3>2. Kept'
        BY <2>1, <2>2 DEF vars, IInv, Kept
    <3>3. LayersInOrder' /\ TableIsWhole'
        BY <2>1, <2>2 DEF vars, IInv, LayersInOrder, TableIsWhole
    <3>4. QED
        BY <3>1, <3>2, <3>3 DEF IInv
  <2>3. QED
      BY <2>1, <2>2, CallInv, WithLayerInv, TakeInv, ReleaseInv, FinalizeInv, CloseInv,
         EntryTakeMetadataInv DEF Next
<1>3. QED
    BY <1>1, <1>2, PTL DEF Spec

\* Every native handle has exactly one owner: nothing is freed twice, used after
\* it was freed, or leaked by a result or a finalizer.
THEOREM EveryHandleIsOwned == Spec => []Owned
BY Invariance, PTL DEF IInv

\* The layers of every operator are in the order operator_with_* insists on,
\* and layer_bits say which they are.
THEOREM LayersStayInOrder == Spec => []LayersInOrder
BY Invariance, PTL DEF IInv

\* A loader that succeeds leads only to entry points the table holds as a whole.
THEOREM LoadedGroupsAreWhole == Spec => []TableIsWhole
BY Invariance, PTL DEF IInv
=============================================================================
