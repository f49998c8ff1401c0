------------------------ MODULE WicHandshake_proofs ------------------------
(***************************************************************************)
(* Proofs about the opening handshake: the request, the store of the       *)
(* response's headers, and what is read from it.                           *)
(***************************************************************************)
EXTENDS WicHandshake, SequenceTheorems, FiniteSetTheorems, Induction_proofs, TLAPS

Char == Letter \cup {Nul}

\* The end of a string is none of its letters.
LEMMA NulIsNoLetter == Nul \notin Letter
  BY DEF Nul, Letter

----------------------------------------------------------------------------
(* The request.                                                            *)

\* The list hangs together: each node points to the one linked before it.
ListInv ==
    /\ linked \in Seq(Nodes)
    /\ next \in [Nodes -> Nodes \cup {Null}]
    /\ head = IF linked = <<>> THEN Null ELSE linked[Len(linked)]
    /\ \A i, j \in DOMAIN linked : linked[i] = linked[j] => i = j
    /\ \A i \in DOMAIN linked :
          next[linked[i]] = IF i = 1 THEN Null ELSE linked[i - 1]
    /\ RequestRight

\* A walk along the list meets the nodes in the reverse order.
LEMMA WalkBack ==
    ASSUME ListInv, NEW n \in Nat, NEW list \in [1 .. n -> Nodes], IsWalk(list)
    PROVE  list = Reverse(linked)
<1> DEFINE k == Len(linked)
           S == {i \in Nat : i \in 1 .. n => i <= k /\ list[i] = linked[k - i + 1]}
<1>1. /\ linked \in Seq(Nodes) /\ k \in Nat /\ DOMAIN linked = 1 .. k
      /\ DOMAIN list = 1 .. n /\ list \in Seq(Nodes) /\ Len(list) = n
  BY DEF ListInv
<1>2. Null \notin Nodes
  BY HandshakeAssumption
<1>3. /\ head = IF list = <<>> THEN Null ELSE list[1]
      /\ \A i \in 1 .. n : next[list[i]] = IF i = n THEN Null ELSE list[i + 1]
  BY <1>1 DEF IsWalk
<1>4. /\ head = IF linked = <<>> THEN Null ELSE linked[k]
      /\ \A i \in 1 .. k : next[linked[i]] = IF i = 1 THEN Null ELSE linked[i - 1]
  BY <1>1 DEF ListInv
<1>5. n = 0 <=> k = 0
  BY <1>1, <1>2, <1>3, <1>4
<1>6. 0 \in S
  OBVIOUS
<1>7. ASSUME NEW i \in Nat, i \in S PROVE i + 1 \in S
  <2> SUFFICES ASSUME i + 1 \in 1 .. n
               PROVE  i + 1 <= k /\ list[i + 1] = linked[k - (i + 1) + 1]
    OBVIOUS
  <2>1. CASE i = 0
    BY <1>1, <1>3, <1>4, <1>5, <2>1
  <2>2. CASE i > 0
    <3>1. i \in 1 .. n /\ i # n /\ i <= k /\ list[i] = linked[k - i + 1]
      BY <1>7, <2>2
    <3>2. list[i + 1] = next[linked[k - i + 1]] /\ list[i + 1] \in Nodes
      BY <1>3, <3>1
    <3>3. k - i + 1 \in 1 .. k
      BY <1>1, <2>2, <3>1
    <3>4. k - i + 1 # 1
      BY <1>2, <1>4, <3>2, <3>3
    <3> QED
      BY <1>1, <1>4, <3>2, <3>3, <3>4
  <2> QED
    BY <2>1, <2>2
<1>8. Nat \subseteq S
  <2> HIDE DEF S
  <2> QED
    BY <1>6, <1>7, SetInduction
<1>9. \A i \in 1 .. n : i <= k /\ list[i] = linked[k - i + 1]
  BY <1>8
<1>10. n = k
  <2>1. CASE n = 0
    BY <1>5, <2>1
  <2>2. CASE n > 0
    <3>1. n <= k /\ list[n] = linked[k - n + 1] /\ next[list[n]] = Null
      BY <1>3, <1>9, <2>2
    <3>2. k - n + 1 \in 1 .. k
      BY <1>1, <2>2, <3>1
    <3>3. k - n + 1 = 1
      <4> SUFFICES ASSUME k - n + 1 # 1 PROVE FALSE
        OBVIOUS
      <4>1. linked[k - n + 1 - 1] = Null /\ k - n + 1 - 1 \in 1 .. k
        BY <1>1, <1>4, <3>1, <3>2
      <4> QED
        BY <1>1, <1>2, <4>1
    <3>4. k \in Int
      BY <1>1
    <3> HIDE DEF k
    <3> QED
      BY <3>3, <3>4
  <2> QED
    BY <2>1, <2>2
<1> QED
  BY <1>1, <1>9, <1>10 DEF Reverse

\* Linking a node makes it the head, whatever it pointed to before.
LEMMA LinkStep ==
    ASSUME ListInv, NEW n \in Nodes, WicSetHeader(n)
    PROVE  ListInv'
<1> DEFINE k == Len(linked)
<1>1. /\ linked \in Seq(Nodes) /\ k \in Nat /\ DOMAIN linked = 1 .. k
      /\ linked' = Append(linked, n) /\ head' = n /\ state' = "INIT"
      /\ next' = [next EXCEPT ![n] = head] /\ n \notin Range(linked)
      /\ next \in [Nodes -> Nodes \cup {Null}]
  BY DEF ListInv, WicSetHeader, NextOf
<1>2. /\ linked' \in Seq(Nodes) /\ DOMAIN linked' = 1 .. k + 1 /\ Len(linked') = k + 1
      /\ linked'[k + 1] = n /\ linked' # <<>>
      /\ \A i \in 1 .. k : linked'[i] = linked[i]
  BY <1>1
<1>3. \A i \in 1 .. k : linked[i] # n /\ linked[i] \in Nodes
  BY <1>1 DEF Range
<1>4. head \in Nodes \cup {Null} /\ head = IF k = 0 THEN Null ELSE linked[k]
  BY <1>1 DEF ListInv
<1>5. next' \in [Nodes -> Nodes \cup {Null}]
  BY <1>1, <1>4
<1>6. \A i, j \in DOMAIN linked' : linked'[i] = linked'[j] => i = j
  <2>1. \A i, j \in 1 .. k : linked[i] = linked[j] => i = j
    BY <1>1 DEF ListInv
  <2> QED
    BY <1>1, <1>2, <1>3, <2>1
<1>7. ASSUME NEW i \in 1 .. k + 1
      PROVE  next'[linked'[i]] = IF i = 1 THEN Null ELSE linked'[i - 1]
  <2>1. CASE i = k + 1
    <3>1. next'[linked'[i]] = head
      BY <1>1, <1>2, <2>1
    <3>2. i = 1 <=> k = 0
      BY <1>1, <2>1
    <3>3. k # 0 => k \in 1 .. k /\ i - 1 = k
      BY <1>1, <2>1
    <3>4. k # 0 => linked'[i - 1] = linked[k]
      BY <1>2, <3>3
    <3> QED
      BY <1>4, <3>1, <3>2, <3>4
  <2>2. CASE i \in 1 .. k
    <3>1. next'[linked'[i]] = next[linked[i]]
      BY <1>1, <1>2, <1>3, <2>2
    <3>2. next[linked[i]] = IF i = 1 THEN Null ELSE linked[i - 1]
      BY <1>1, <2>2 DEF ListInv
    <3> QED
      BY <1>1, <1>2, <2>2, <3>1, <3>2
  <2> QED
    BY <1>1, <2>1, <2>2
<1>8. RequestRight'
  BY <1>1 DEF RequestRight
<1> QED
  BY <1>1, <1>2, <1>5, <1>6, <1>7, <1>8 DEF ListInv

\* Every step keeps the list.
LEMMA ListStep ==
    ASSUME ListInv, [Next]_vars
    PROVE  ListInv'
<1>1. CASE WicInit
  BY <1>1 DEF WicInit, ListInv, RequestRight
<1>2. ASSUME NEW n \in Nodes, WicSetHeader(n) PROVE ListInv'
  BY <1>2, LinkStep
<1>3. CASE StartClient
  <2>1. UNCHANGED <<next, head, linked>>
    BY <1>3 DEF StartClient
  <2>2. PICK n \in 0 .. Cardinality(Nodes) :
           \E list \in [1 .. n -> Nodes] : IsWalk(list) /\ request' = list
    BY <1>3 DEF StartClient
  <2>3. PICK list \in [1 .. n -> Nodes] : IsWalk(list) /\ request' = list
    BY <2>2
  <2>4. list = Reverse(linked)
    BY <2>3, WalkBack
  <2>5. RequestRight'
    BY <2>1, <2>3, <2>4 DEF RequestRight
  <2> QED
    BY <2>1, <2>5 DEF ListInv
<1>4. ASSUME UNCHANGED request_vars,
             state' \in {"READY", "OPEN", "PARSE_HANDSHAKE"} =>
                state \in {"READY", "OPEN", "PARSE_HANDSHAKE"}
      PROVE  ListInv'
  <2>1. RequestRight'
    BY <1>4 DEF ListInv, RequestRight, request_vars
  <2> QED
    BY <1>4, <2>1 DEF ListInv, request_vars
<1>5. CASE UNCHANGED vars
  BY <1>4, <1>5 DEF vars, request_vars
<1>6. ASSUME NEW h \in Headers, FieldStarts(h) PROVE ListInv'
  BY <1>4, <1>6 DEF FieldStarts, Responding
<1>7. CASE FieldGoesOn \/ ValueStarts \/ ValueGoesOn
  BY <1>4, <1>7 DEF FieldGoesOn, ValueStarts, ValueGoesOn, Responding
<1>8. ASSUME NEW status \in Statuses, NEW upgrade \in BOOLEAN,
             Complete(status, upgrade)
      PROVE  ListInv'
  BY <1>4, <1>8 DEF Complete
<1>9. CASE Breaks \/ WicGetNextHeader \/ WicRewindGetNextHeader
           \/ OnOpenReturn \/ Frame \/ WicClose
  BY <1>4, <1>9 DEF Breaks, WicGetNextHeader, WicRewindGetNextHeader,
                    OnOpenReturn, Frame, WicClose
<1> QED
  BY <1>1, <1>2, <1>3, <1>5, <1>6, <1>7, <1>8, <1>9 DEF Next

\* The request has the headers of this instance, the last linked first, even
\* if the nodes still point to each other as an earlier instance left them.
THEOREM RequestRightHolds == Spec => []RequestRight
<1>1. Init => ListInv
  BY DEF Init, ListInv, RequestRight
<1>2. ListInv /\ [Next]_vars => ListInv'
  BY ListStep
<1>3. ListInv => RequestRight
  BY DEF ListInv
<1> QED
  BY <1>1, <1>2, <1>3, PTL DEF Spec

----------------------------------------------------------------------------
(* The headers one after the other.                                        *)

\* f is the function that FlattenSeq(ss) computes, up to n.
Flattens(f, ss, n) ==
    f = [i \in 1 .. n |-> IF i = 1 THEN ss[i] ELSE f[i - 1] \o ss[i]]

\* The function at one place.
LEMMA FlattenAt ==
    ASSUME NEW ss, NEW n \in Nat, NEW f, Flattens(f, ss, n), NEW i \in 1 .. n
    PROVE  f[i] = IF i = 1 THEN ss[i] ELSE f[i - 1] \o ss[i]
<1> DEFINE r == [j \in 1 .. n |-> IF j = 1 THEN ss[j] ELSE f[j - 1] \o ss[j]]
<1>1. r[i] = IF i = 1 THEN ss[i] ELSE f[i - 1] \o ss[i]
  OBVIOUS
<1>2. f = r
  BY DEF Flattens
<1> HIDE DEF r
<1>3. f[i] = r[i]
  BY <1>2
<1> QED
  BY <1>1, <1>3

\* There is one.
LEMMA FlattenExists ==
    ASSUME NEW ss, NEW n \in Nat
    PROVE  \E f : Flattens(f, ss, n)
<1> DEFINE S == {m \in Nat : \E f : Flattens(f, ss, m)}
<1>1. 0 \in S
  <2>1. Flattens([i \in 1 .. 0 |-> <<>>], ss, 0)
    BY DEF Flattens
  <2> QED
    BY <2>1
<1>2. ASSUME NEW m \in Nat, m \in S PROVE m + 1 \in S
  <2>1. PICK f : Flattens(f, ss, m)
    BY <1>2
  <2> DEFINE g == [i \in 1 .. m + 1 |-> IF i \in 1 .. m THEN f[i]
                                        ELSE IF i = 1 THEN ss[i] ELSE f[i - 1] \o ss[i]]
  <2>2. \A i \in 1 .. m : g[i] = f[i]
    OBVIOUS
  <2>3. ASSUME NEW i \in 1 .. m + 1
        PROVE  g[i] = IF i = 1 THEN ss[i] ELSE g[i - 1] \o ss[i]
    <3>1. CASE i \in 1 .. m
      <4>1. f[i] = IF i = 1 THEN ss[i] ELSE f[i - 1] \o ss[i]
        BY <2>1, <3>1 DEF Flattens
      <4>2. i # 1 => i - 1 \in 1 .. m
        BY <3>1
      <4> QED
        BY <2>2, <3>1, <4>1, <4>2
    <3>2. CASE i \notin 1 .. m
      <4>1. g[i] = IF i = 1 THEN ss[i] ELSE f[i - 1] \o ss[i]
        BY <3>2
      <4>2. i # 1 => i - 1 \in 1 .. m
        BY <3>2
      <4> QED
        BY <2>2, <4>1, <4>2
    <3> QED
      BY <3>1, <3>2
  <2>4. Flattens(g, ss, m + 1)
    <3>1. g = [i \in 1 .. m + 1 |-> g[i]]
      OBVIOUS
    <3> HIDE DEF g
    <3>2. [i \in 1 .. m + 1 |-> g[i]]
             = [i \in 1 .. m + 1 |-> IF i = 1 THEN ss[i] ELSE g[i - 1] \o ss[i]]
      BY <2>3
    <3> QED
      BY <3>1, <3>2 DEF Flattens
  <2> QED
    BY <2>4
<1>3. Nat \subseteq S
  <2> HIDE DEF S
  <2> QED
    BY <1>1, <1>2, SetInduction
<1> QED
  BY <1>3

\* Where two sequences agree, so do their functions.
LEMMA FlattenAgrees ==
    ASSUME NEW ss, NEW tt, NEW n \in Nat, \A i \in 1 .. n : tt[i] = ss[i],
           NEW m, m = n + 1, NEW f, Flattens(f, ss, n), NEW g, Flattens(g, tt, m)
    PROVE  \A i \in 1 .. n : f[i] = g[i]
<1> DEFINE S == {i \in Nat : i \in 1 .. n => f[i] = g[i]}
<1>1. 0 \in S
  OBVIOUS
<1>2. ASSUME NEW i \in Nat, i \in S PROVE i + 1 \in S
  <2> SUFFICES ASSUME i + 1 \in 1 .. n PROVE f[i + 1] = g[i + 1]
    OBVIOUS
  <2>1. i + 1 \in 1 .. m /\ m \in Nat /\ tt[i + 1] = ss[i + 1]
    OBVIOUS
  <2>2. f[i + 1] = IF i + 1 = 1 THEN ss[i + 1] ELSE f[i + 1 - 1] \o ss[i + 1]
    BY <2>1, FlattenAt
  <2>3. g[i + 1] = IF i + 1 = 1 THEN tt[i + 1] ELSE g[i + 1 - 1] \o tt[i + 1]
    BY <2>1, FlattenAt
  <2>4. i + 1 - 1 = i /\ (i + 1 # 1 => f[i] = g[i])
    BY <1>2
  <2> QED
    BY <2>1, <2>2, <2>3, <2>4
<1>3. Nat \subseteq S
  <2> HIDE DEF S
  <2> QED
    BY <1>1, <1>2, SetInduction
<1> QED
  BY <1>3

\* FlattenSeq, as its function says.
LEMMA FlattenIs ==
    ASSUME NEW ss, Len(ss) \in Nat \ {0}
    PROVE  \E f : Flattens(f, ss, Len(ss)) /\ FlattenSeq(ss) = f[Len(ss)]
<1> DEFINE f == CHOOSE g : Flattens(g, ss, Len(ss))
<1>1. Flattens(f, ss, Len(ss))
  BY FlattenExists
<1>2. FlattenSeq(ss) = f[Len(ss)]
  BY DEF FlattenSeq, Flattens
<1> QED
  BY <1>1, <1>2

\* One more sequence goes to the end.
LEMMA FlattenAppend ==
    ASSUME NEW ss, NEW tt, NEW n \in Nat, Len(ss) = n, Len(tt) = n + 1,
           \A i \in 1 .. n : tt[i] = ss[i]
    PROVE  FlattenSeq(tt) = IF n = 0 THEN tt[n + 1] ELSE FlattenSeq(ss) \o tt[n + 1]
<1>1. PICK m : m = n + 1
  OBVIOUS
<1>2. PICK g : Flattens(g, tt, m) /\ FlattenSeq(tt) = g[m]
  BY <1>1, FlattenIs
<1>3. g[m] = IF m = 1 THEN tt[m] ELSE g[m - 1] \o tt[m]
  <2>1. m \in Nat /\ m \in 1 .. m
    BY <1>1
  <2> QED
    BY <1>2, <2>1, FlattenAt
<1>4. CASE n = 0
  BY <1>1, <1>2, <1>3, <1>4
<1>5. CASE n # 0
  <2>1. PICK f : Flattens(f, ss, n) /\ FlattenSeq(ss) = f[n]
    BY <1>5, FlattenIs
  <2>2. \A i \in 1 .. n : f[i] = g[i]
    BY <1>1, <1>2, <2>1, FlattenAgrees
  <2>3. f[n] = g[n] /\ m - 1 = n /\ m # 1
    BY <1>1, <1>5, <2>2
  <2> QED
    BY <1>1, <1>2, <1>3, <1>5, <2>1, <2>3
<1> QED
  BY <1>4, <1>5

\* A whole header is letters and ends.
LEMMA WholeType ==
    ASSUME NEW h \in Headers
    PROVE  /\ h.name \in Seq(Letter) /\ h.value \in Seq(Letter) /\ Len(h.name) > 0
           /\ h = [name |-> h.name, value |-> h.value]
           /\ h.name \in Seq(Char) /\ h.value \in Seq(Char)
           /\ <<Nul>> \in Seq(Char) /\ Whole(h) \in Seq(Char)
           /\ Len(Whole(h)) = Len(h.name) + Len(h.value) + 2
<1>1. /\ h.name \in Seq(Letter) /\ h.name # <<>> /\ h.value \in Seq(Letter)
      /\ h = [name |-> h.name, value |-> h.value]
  BY HandshakeAssumption
<1>2. h.name \in Seq(Char) /\ h.value \in Seq(Char) /\ <<Nul>> \in Seq(Char)
  BY <1>1 DEF Char
<1> QED
  BY <1>1, <1>2 DEF Whole

\* The store of no header, and of one more.
LEMMA StoredEmpty == Stored(<<>>) = <<>>
  BY DEF Stored, FlattenSeq

\* One more header is stored behind the others.
LEMMA StoredAppend ==
    ASSUME NEW hs \in Seq(Headers), NEW h \in Headers
    PROVE  Stored(Append(hs, h)) = Stored(hs) \o Whole(h)
<1> DEFINE n == Len(hs)
           ss == [i \in DOMAIN hs |-> Whole(hs[i])]
           tt == [i \in DOMAIN Append(hs, h) |-> Whole(Append(hs, h)[i])]
<1>1. /\ n \in Nat /\ DOMAIN hs = 1 .. n /\ DOMAIN Append(hs, h) = 1 .. n + 1
      /\ Append(hs, h)[n + 1] = h /\ \A i \in 1 .. n : Append(hs, h)[i] = hs[i]
  OBVIOUS
<1>2. Len(ss) = n /\ Len(tt) = n + 1
  BY <1>1
<1>3. n = 0 => ss = <<>>
  BY <1>1
<1>4. \A i \in 1 .. n : tt[i] = ss[i]
  BY <1>1
<1>5. tt[n + 1] = Whole(h) /\ tt[n + 1] \in Seq(Char)
  <2>1. tt[n + 1] = Whole(h)
    BY <1>1
  <2> QED
    BY <2>1, WholeType
<1> HIDE DEF n, ss, tt
<1>6. FlattenSeq(tt) = IF n = 0 THEN tt[n + 1] ELSE FlattenSeq(ss) \o tt[n + 1]
  BY <1>1, <1>2, <1>4, FlattenAppend
<1>7. n = 0 => FlattenSeq(ss) = <<>> /\ <<>> \o tt[n + 1] = tt[n + 1]
  BY <1>2, <1>3, <1>5 DEF FlattenSeq
<1> QED
  BY <1>5, <1>6, <1>7 DEF Stored, ss, tt

\* The first k of the headers hs, as they are stored.
Part(hs, k) == Stored(SubSeq(hs, 1, k))

\* One header after the other.
LEMMA PartStep ==
    ASSUME NEW hs \in Seq(Headers)
    PROVE  /\ Part(hs, 0) = <<>> /\ Part(hs, Len(hs)) = Stored(hs)
           /\ \A k \in 0 .. Len(hs) - 1 :
                 /\ k + 1 \in DOMAIN hs /\ hs[k + 1] \in Headers
                 /\ Part(hs, k + 1) = Part(hs, k) \o Whole(hs[k + 1])
<1>1. SubSeq(hs, 1, 0) = <<>> /\ SubSeq(hs, 1, Len(hs)) = hs
  BY SubSeqFull, SubSeqEmpty
<1>2. ASSUME NEW k \in 0 .. Len(hs) - 1
      PROVE  /\ k + 1 \in DOMAIN hs /\ hs[k + 1] \in Headers
             /\ Part(hs, k + 1) = Part(hs, k) \o Whole(hs[k + 1])
  <2>1. k + 1 \in DOMAIN hs /\ hs[k + 1] \in Headers
    OBVIOUS
  <2>2. SubSeq(hs, 1, k) \in Seq(Headers)
    BY SubSeqProperties
  <2>3. SubSeq(hs, 1, k + 1) = Append(SubSeq(hs, 1, k), hs[k + 1])
    OBVIOUS
  <2> QED
    BY <2>1, <2>2, <2>3, StoredAppend DEF Part
<1> QED
  BY <1>1, <1>2, StoredEmpty DEF Part

\* The part of a header that has come is letters and ends.
LEMMA PartType ==
    ASSUME NEW hs \in Seq(Headers)
    PROVE  \A k \in 0 .. Len(hs) : Part(hs, k) \in Seq(Char)
<1> DEFINE S == {k \in Nat : k \in 0 .. Len(hs) => Part(hs, k) \in Seq(Char)}
<1>1. 0 \in S
  <2>1. Part(hs, 0) = <<>>
    BY PartStep
  <2>2. <<>> \in Seq(Char)
    OBVIOUS
  <2> QED
    BY <2>1, <2>2
<1>2. ASSUME NEW k \in Nat, k \in S PROVE k + 1 \in S
  <2> SUFFICES ASSUME k + 1 \in 0 .. Len(hs) PROVE Part(hs, k + 1) \in Seq(Char)
    OBVIOUS
  <2>1. k \in 0 .. Len(hs) - 1 /\ k \in 0 .. Len(hs)
    OBVIOUS
  <2>2. Part(hs, k + 1) = Part(hs, k) \o Whole(hs[k + 1]) /\ hs[k + 1] \in Headers
    BY <2>1, PartStep
  <2>3. Part(hs, k) \in Seq(Char) /\ Whole(hs[k + 1]) \in Seq(Char)
    BY <1>2, <2>1, <2>2, WholeType
  <2>4. Part(hs, k) \o Whole(hs[k + 1]) \in Seq(Char)
    BY <2>3, ConcatProperties
  <2> QED
    BY <2>2, <2>4
<1>3. Nat \subseteq S
  <2> HIDE DEF S
  <2> QED
    BY <1>1, <1>2, SetInduction
<1> QED
  BY <1>3

\* What is stored is letters and ends.
LEMMA StoredType ==
    ASSUME NEW hs \in Seq(Headers)
    PROVE  Stored(hs) \in Seq(Char)
<1>1. Len(hs) \in 0 .. Len(hs) /\ Part(hs, Len(hs)) = Stored(hs)
  BY PartStep
<1> QED
  BY <1>1, PartType

----------------------------------------------------------------------------
(* The store.                                                              *)

\* The stream s holds what it should hold of w: all of it, or a part after
\* which nothing was written.
Holds(s, w) ==
    /\ s \in [text : Seq(Char), error : BOOLEAN] /\ w \in Seq(Char)
    /\ Len(s.text) <= RxMax
    /\ IsPrefix(s.text, w)
    /\ ~s.error => s.text = w

\* A sequence is a prefix of whatever it is continued with.
LEMMA PrefixConcat ==
    ASSUME NEW s \in Seq(Char), NEW w \in Seq(Char), NEW x \in Seq(Char), IsPrefix(s, w)
    PROVE  IsPrefix(s, w \o x) /\ IsPrefix(w, w)
<1>1. Len(s) <= Len(w) /\ Len(w \o x) = Len(w) + Len(x) /\ Len(s) <= Len(w \o x)
  BY DEF IsPrefix
<1>2. SubSeq(w \o x, 1, Len(s)) = SubSeq(w, 1, Len(s))
  BY <1>1
<1> QED
  BY <1>1, <1>2 DEF IsPrefix

\* The stream is empty at first.
LEMMA HoldsEmpty == Holds([text |-> <<>>, error |-> FALSE], <<>>)
<1>1. Len(<<>>) = 0 /\ <<>> \in Seq(Char) /\ RxMax \in Nat
  BY HandshakeAssumption
<1>2. IsPrefix(<<>>, <<>>)
  BY <1>1, SubSeqEmpty DEF IsPrefix
<1> QED
  BY <1>1, <1>2 DEF Holds

\* A write, done or lost, keeps it so.
LEMMA WriteHolds ==
    ASSUME NEW s, NEW w, Holds(s, w), NEW x \in Seq(Char)
    PROVE  Holds(Write(s, x), w \o x)
<1>1. /\ s.text \in Seq(Char) /\ s.error \in BOOLEAN /\ w \in Seq(Char)
      /\ w \o x \in Seq(Char) /\ RxMax \in Nat
  BY HandshakeAssumption DEF Holds
<1>2. CASE ~s.error /\ Len(s.text) + Len(x) <= RxMax
  <2>1. Write(s, x) = [text |-> s.text \o x, error |-> FALSE] /\ s.text = w
    BY <1>2 DEF Write, Holds
  <2>2. Len(w \o x) <= RxMax
    BY <1>1, <1>2, <2>1
  <2>3. IsPrefix(w \o x, w \o x)
    BY <1>1 DEF IsPrefix
  <2> QED
    BY <1>1, <2>1, <2>2, <2>3 DEF Holds
<1>3. CASE ~(~s.error /\ Len(s.text) + Len(x) <= RxMax)
  <2>1. Write(s, x) = [text |-> s.text, error |-> TRUE]
    BY <1>3 DEF Write
  <2>2. IsPrefix(s.text, w \o x)
    BY <1>1, PrefixConcat DEF Holds
  <2> QED
    BY <1>1, <2>1, <2>2 DEF Holds
<1> QED
  BY <1>2, <1>3

\* A text is delivered in pieces.
LEMMA TakeDrop ==
    ASSUME NEW t \in Seq(Letter), NEW k \in 0 .. Len(t)
    PROVE  /\ Take(t, k) \in Seq(Letter) /\ Take(t, k) \in Seq(Char)
           /\ Drop(t, k) \in Seq(Letter)
           /\ Len(Drop(t, k)) = Len(t) - k /\ Len(t) - Len(Drop(t, k)) = k
           /\ Take(t, Len(t)) = t /\ Take(t, 0) = <<>> /\ Drop(t, 0) = t
           /\ Drop(t, k) = <<>> => k = Len(t)
<1>1. Len(t) \in Nat
  OBVIOUS
<1>2. Take(t, k) \in Seq(Letter) /\ Drop(t, k) \in Seq(Letter)
  BY <1>1 DEF Take, Drop
<1>3. Take(t, k) \in Seq(Char)
  BY <1>2 DEF Char
<1>4. Len(Drop(t, k)) = Len(t) - k
  BY <1>1 DEF Drop
<1>5. Take(t, Len(t)) = t /\ Take(t, 0) = <<>> /\ Drop(t, 0) = t
  BY <1>1, SubSeqFull, SubSeqEmpty DEF Take, Drop
<1>6. Drop(t, k) = <<>> => k = Len(t)
  BY <1>1, <1>4
<1> QED
  BY <1>1, <1>2, <1>3, <1>4, <1>5, <1>6

\* Two pieces that follow one another are one.
LEMMA TakeMore ==
    ASSUME NEW t \in Seq(Letter), NEW k \in 0 .. Len(t), NEW j \in 0 .. Len(Drop(t, k))
    PROVE  /\ k + j \in 0 .. Len(t)
           /\ Take(t, k) \o Take(Drop(t, k), j) = Take(t, k + j)
           /\ Drop(Drop(t, k), j) = Drop(t, k + j)
<1>1. Len(t) \in Nat /\ Len(Drop(t, k)) = Len(t) - k /\ Drop(t, k) \in Seq(Letter)
  BY TakeDrop
<1>2. k + j \in 0 .. Len(t)
  BY <1>1
<1>3. /\ Take(t, k) \in Seq(Letter) /\ Len(Take(t, k)) = k
      /\ \A i \in 1 .. k : Take(t, k)[i] = t[i]
      /\ \A i \in 1 .. Len(t) - k : Drop(t, k)[i] = t[k + i]
  BY <1>1 DEF Take, Drop
<1>4. /\ Take(Drop(t, k), j) \in Seq(Letter) /\ Len(Take(Drop(t, k), j)) = j
      /\ \A i \in 1 .. j : Take(Drop(t, k), j)[i] = Drop(t, k)[i]
  BY <1>1 DEF Take
<1>5. Take(t, k) \o Take(Drop(t, k), j) = Take(t, k + j)
  <2> DEFINE a == Take(t, k) \o Take(Drop(t, k), j)
             b == Take(t, k + j)
  <2>1. /\ a \in Seq(Letter) /\ Len(a) = k + j
        /\ \A i \in 1 .. k + j :
              a[i] = IF i <= k THEN Take(t, k)[i] ELSE Take(Drop(t, k), j)[i - k]
    <3> DEFINE c == Take(t, k)
               d == Take(Drop(t, k), j)
    <3>1. c \in Seq(Letter) /\ d \in Seq(Letter) /\ Len(c) = k /\ Len(d) = j
      BY <1>3, <1>4
    <3> HIDE DEF c, d
    <3>2. /\ c \o d \in Seq(Letter) /\ Len(c \o d) = k + j
          /\ \A i \in 1 .. k + j : (c \o d)[i] = IF i <= k THEN c[i] ELSE d[i - k]
      BY <3>1, ConcatProperties
    <3> QED
      BY <3>2 DEF c, d
  <2>2. b \in Seq(Letter) /\ Len(b) = k + j /\ \A i \in 1 .. k + j : b[i] = t[i]
    BY <1>1, <1>2 DEF Take
  <2> HIDE DEF a, b
  <2>3. ASSUME NEW i \in 1 .. k + j PROVE a[i] = b[i]
    <3>0. i \in Int /\ k \in Int
      BY <1>1
    <3>1. CASE i <= k
      BY <1>3, <2>1, <2>2, <3>1
    <3>2. CASE i > k
      <4>1. i - k \in 1 .. j /\ i - k \in 1 .. Len(t) - k /\ k + (i - k) = i
        BY <1>1, <3>2
      <4>2. Drop(t, k)[i - k] = t[i]
        BY <1>3, <4>1
      <4>3. Take(Drop(t, k), j)[i - k] = Drop(t, k)[i - k]
        BY <1>4, <4>1
      <4>4. a[i] = Take(Drop(t, k), j)[i - k]
        BY <2>1, <3>2
      <4> QED
        BY <2>2, <4>2, <4>3, <4>4
    <3> QED
      BY <3>0, <3>1, <3>2
  <2> QED
    BY <2>1, <2>2, <2>3, SeqEqual DEF a, b
<1>6. Drop(Drop(t, k), j) = Drop(t, k + j)
  <2> DEFINE a == Drop(Drop(t, k), j)
             b == Drop(t, k + j)
             n == Len(t) - k - j
  <2>1. a \in Seq(Letter) /\ Len(a) = n /\ \A i \in 1 .. n : a[i] = Drop(t, k)[j + i]
    BY <1>1 DEF Drop
  <2>2. b \in Seq(Letter) /\ Len(b) = n /\ \A i \in 1 .. n : b[i] = t[k + j + i]
    BY <1>1, <1>2 DEF Drop
  <2>3. ASSUME NEW i \in 1 .. n PROVE a[i] = b[i]
    <3>1. j + i \in 1 .. Len(t) - k /\ k + (j + i) = k + j + i
      BY <1>1
    <3> QED
      BY <1>3, <2>1, <2>2, <3>1
  <2> HIDE DEF a, b
  <2> QED
    BY <2>1, <2>2, <2>3, SeqEqual DEF a, b
<1> QED
  BY <1>2, <1>5, <1>6

\* The headers before the last, and the last.
LEMMA FrontLast ==
    ASSUME NEW hs \in Seq(Headers), hs # <<>>
    PROVE  /\ Front(hs) \in Seq(Headers) /\ Last(hs) \in Headers
           /\ Stored(hs) = Stored(Front(hs)) \o Whole(Last(hs))
<1>1. /\ Front(hs) \in Seq(Headers) /\ Last(hs) \in Headers
      /\ hs = Append(Front(hs), Last(hs))
  BY DEF Front, Last
<1> QED
  BY <1>1, StoredAppend

\* All but the last of a sequence with one more is the sequence.
LEMMA FrontAppend ==
    ASSUME NEW hs \in Seq(Headers), NEW h \in Headers
    PROVE  /\ Append(hs, h) \in Seq(Headers) /\ Append(hs, h) # <<>>
           /\ Front(Append(hs, h)) = hs /\ Last(Append(hs, h)) = h
  BY DEF Front, Last

\* Concatenation is associative.
LEMMA Assoc ==
    ASSUME NEW a \in Seq(Char), NEW b \in Seq(Char), NEW c \in Seq(Char)
    PROVE  /\ a \o b \in Seq(Char) /\ (a \o b) \o c = a \o (b \o c)
           /\ a \o <<>> = a /\ <<>> \o a = a
  BY ConcatProperties, ConcatAssociative, ConcatEmptySeq

\* Three sequences in a row.
LEMMA ThreeInARow ==
    ASSUME NEW a \in Seq(Char), NEW b \in Seq(Char), NEW c \in Seq(Char)
    PROVE  (a \o b) \o c = a \o (b \o c)
  BY ONLY ConcatAssociative, a \in Seq(Char), b \in Seq(Char), c \in Seq(Char)

\* A header that is stored piece by piece is stored.
LEMMA WholeStored ==
    ASSUME NEW p \in Seq(Char), NEW h \in Headers
    PROVE  p \o h.name \o <<Nul>> \o h.value \o <<Nul>> = p \o Whole(h)
<1>1. /\ h.name \in Seq(Char) /\ h.value \in Seq(Char) /\ <<Nul>> \in Seq(Char)
      /\ Whole(h) = h.name \o <<Nul>> \o h.value \o <<Nul>>
  BY WholeType DEF Whole
<1> DEFINE n == h.name
           v == h.value
           z == <<Nul>>
<1> HIDE DEF n, v, z
<1>2. n \in Seq(Char) /\ v \in Seq(Char) /\ z \in Seq(Char)
  BY <1>1 DEF n, v, z
<1>3. p \o n \in Seq(Char) /\ n \o z \in Seq(Char) /\ n \o z \o v \in Seq(Char)
  BY <1>2, Assoc
<1>4. p \o n \o z = p \o (n \o z)
  BY <1>2, Assoc
<1>5. p \o (n \o z) \o v = p \o (n \o z \o v)
  <2> DEFINE m == n \o z
  <2>1. m \in Seq(Char)
    BY <1>3, Zenon
  <2> HIDE DEF m
  <2>2. (p \o m) \o v = p \o (m \o v)
    BY ONLY <1>2, <2>1, ThreeInARow, Zenon
  <2> QED
    BY ONLY <2>2, Zenon DEF m
<1>6. p \o (n \o z \o v) \o z = p \o (n \o z \o v \o z)
  <2> DEFINE m == n \o z \o v
  <2>1. m \in Seq(Char)
    BY <1>3, Zenon
  <2> HIDE DEF m
  <2>2. (p \o m) \o z = p \o (m \o z)
    BY ONLY <1>2, <2>1, ThreeInARow, Zenon
  <2> QED
    BY ONLY <2>2, Zenon DEF m
<1>7. p \o n \o z \o v \o z = p \o (n \o z \o v \o z)
  BY <1>4, <1>5, <1>6
<1> QED
  BY <1>1, <1>7 DEF n, v, z

\* What is left of a text is its end.
Rest(text) == \E k \in 0 .. Len(text) : todo = Drop(text, k)

\* Where the parser stands in the response, which the buffer holds.
Place ==
    /\ held
    /\ headers \in Seq(Headers)
    /\ hstate \in {"IDLE", "FIELD", "VALUE"}
    /\ (hstate = "IDLE") = (headers = <<>>)
    /\ hstate = "IDLE" => todo = <<>>
    /\ hstate = "FIELD" => Rest(Last(headers).name)
    /\ hstate = "VALUE" => Rest(Last(headers).value)
    /\ state = "INIT" => headers = <<>>
    /\ state \in {"INIT", "PARSE_HANDSHAKE"} => ~answer.given
    /\ state \in {"READY", "OPEN"} => answer.given
    /\ answer.given \in BOOLEAN
    /\ answer.given => hstate # "FIELD" /\ todo = <<>>

\* Wanted, by the state of the parser.
WantedIs(c, hs, k) ==
    LET p == Stored(Front(hs))
        h == Last(hs)
    IN  CASE c = "IDLE" -> <<>>
          [] c = "FIELD" -> p \o Take(h.name, k)
          [] c = "VALUE" -> p \o h.name \o <<Nul>> \o Take(h.value, k)
          [] c = "DONE" -> p \o Whole(h)

WantedIn(c, hs, left, given) ==
    LET past == Stored(Front(hs))
        h == Last(hs)
        come(text) == Take(text, Len(text) - Len(left))
    IN  CASE c = "IDLE" -> <<>>
          [] c = "FIELD" -> past \o come(h.name)
          [] c = "VALUE" /\ ~given -> past \o h.name \o <<Nul>> \o come(h.value)
          [] c = "VALUE" /\ given -> past \o Whole(h)

\* Wanted, as an operator of what it depends on.
LEMMA WantedSame ==
    /\ Wanted = WantedIn(hstate, headers, todo, answer.given)
    /\ Wanted' = WantedIn(hstate', headers', todo', answer'.given)
  BY DEF Wanted, WantedIn

\* What must be stored while a name comes, and while a value comes.
LEMMA WantedCases ==
    ASSUME NEW hs \in Seq(Headers), hs # <<>>
    PROVE  LET h == Last(hs)
           IN  /\ \A k \in 0 .. Len(h.name) : \A given :
                     WantedIn("FIELD", hs, Drop(h.name, k), given)
                        = WantedIs("FIELD", hs, k)
               /\ \A k \in 0 .. Len(h.value) :
                     WantedIn("VALUE", hs, Drop(h.value, k), FALSE)
                        = WantedIs("VALUE", hs, k)
               /\ \A left : WantedIn("VALUE", hs, left, TRUE) = WantedIs("DONE", hs, 0)
<1> DEFINE h == Last(hs)
<1>1. h.name \in Seq(Letter) /\ h.value \in Seq(Letter)
  BY FrontLast, WholeType
<1>2. ASSUME NEW k \in 0 .. Len(h.name), NEW given
      PROVE  WantedIn("FIELD", hs, Drop(h.name, k), given) = WantedIs("FIELD", hs, k)
  <2>1. Len(h.name) - Len(Drop(h.name, k)) = k
    BY <1>1, TakeDrop
  <2> QED
    BY <2>1 DEF WantedIn, WantedIs
<1>3. ASSUME NEW k \in 0 .. Len(h.value)
      PROVE  WantedIn("VALUE", hs, Drop(h.value, k), FALSE) = WantedIs("VALUE", hs, k)
  <2>1. Len(h.value) - Len(Drop(h.value, k)) = k
    BY <1>1, TakeDrop
  <2> QED
    BY <2>1 DEF WantedIn, WantedIs
<1>4. ASSUME NEW left
      PROVE  WantedIn("VALUE", hs, left, TRUE) = WantedIs("DONE", hs, 0)
  BY DEF WantedIn, WantedIs
<1> QED
  BY <1>2, <1>3, <1>4

\* What a piece adds to what is wanted.
LEMMA WantedGrows ==
    ASSUME NEW hs \in Seq(Headers), hs # <<>>
    PROVE  LET h == Last(hs)
           IN  /\ WantedIs("FIELD", hs, Len(h.name)) \o <<Nul>> = WantedIs("VALUE", hs, 0)
               /\ WantedIs("VALUE", hs, Len(h.value)) \o <<Nul>> = Stored(hs)
               /\ WantedIs("DONE", hs, 0) = Stored(hs)
               /\ \A k \in 0 .. Len(h.name) : \A j \in 0 .. Len(Drop(h.name, k)) :
                     WantedIs("FIELD", hs, k) \o Take(Drop(h.name, k), j)
                        = WantedIs("FIELD", hs, k + j)
               /\ \A k \in 0 .. Len(h.value) : \A j \in 0 .. Len(Drop(h.value, k)) :
                     WantedIs("VALUE", hs, k) \o Take(Drop(h.value, k), j)
                        = WantedIs("VALUE", hs, k + j)
<1> DEFINE p == Stored(Front(hs))
           h == Last(hs)
<1>1. /\ p \in Seq(Char) /\ h \in Headers /\ Stored(hs) = p \o Whole(h)
  BY FrontLast, StoredType
<1>2. /\ h.name \in Seq(Letter) /\ h.value \in Seq(Letter) /\ h.name \in Seq(Char)
      /\ h.value \in Seq(Char) /\ <<Nul>> \in Seq(Char)
  BY <1>1, WholeType
<1>3. /\ \A k : WantedIs("FIELD", hs, k) = p \o Take(h.name, k)
      /\ \A k : WantedIs("VALUE", hs, k) = p \o h.name \o <<Nul>> \o Take(h.value, k)
      /\ WantedIs("DONE", hs, 0) = p \o Whole(h)
  BY DEF WantedIs
<1> HIDE DEF p, h
<1>4. p \o h.name \in Seq(Char) /\ p \o h.name \o <<Nul>> \in Seq(Char)
  BY <1>1, <1>2, Assoc
<1>5. Take(h.name, Len(h.name)) = h.name /\ Take(h.value, Len(h.value)) = h.value
      /\ Take(h.value, 0) = <<>>
  <2>1. Len(h.name) \in 0 .. Len(h.name) /\ Len(h.value) \in 0 .. Len(h.value)
    BY <1>2
  <2> QED
    BY <1>2, <2>1, TakeDrop
<1>6. WantedIs("FIELD", hs, Len(h.name)) \o <<Nul>> = WantedIs("VALUE", hs, 0)
  <2>1. WantedIs("FIELD", hs, Len(h.name)) = p \o h.name
    BY <1>3, <1>5
  <2>2. WantedIs("VALUE", hs, 0) = p \o h.name \o <<Nul>> \o <<>>
    BY <1>3, <1>5
  <2>3. p \o h.name \o <<Nul>> \o <<>> = p \o h.name \o <<Nul>>
    BY <1>4, Assoc
  <2> QED
    BY <2>1, <2>2, <2>3
<1>7. WantedIs("VALUE", hs, Len(h.value)) \o <<Nul>> = Stored(hs)
  BY <1>1, <1>3, <1>5, WholeStored
<1>8. ASSUME NEW k \in 0 .. Len(h.name), NEW j \in 0 .. Len(Drop(h.name, k))
      PROVE  WantedIs("FIELD", hs, k) \o Take(Drop(h.name, k), j)
                = WantedIs("FIELD", hs, k + j)
  <2>1. /\ Take(h.name, k) \in Seq(Char) /\ Drop(h.name, k) \in Seq(Letter)
        /\ Take(Drop(h.name, k), j) \in Seq(Char)
    BY <1>2, TakeDrop
  <2>2. Take(h.name, k) \o Take(Drop(h.name, k), j) = Take(h.name, k + j)
    BY <1>2, TakeMore
  <2>3. p \o Take(h.name, k) \o Take(Drop(h.name, k), j)
           = p \o (Take(h.name, k) \o Take(Drop(h.name, k), j))
    <3> DEFINE t == Take(h.name, k)
               u == Take(Drop(h.name, k), j)
    <3>1. p \in Seq(Char) /\ t \in Seq(Char) /\ u \in Seq(Char)
      BY <1>1, <2>1
    <3> HIDE DEF p, t, u
    <3>2. p \o t \o u = p \o (t \o u)
      BY ONLY <3>1, ThreeInARow, Zenon
    <3> QED
      BY ONLY <3>2 DEF t, u
  <2> QED
    BY <1>3, <2>2, <2>3
<1>9. ASSUME NEW k \in 0 .. Len(h.value), NEW j \in 0 .. Len(Drop(h.value, k))
      PROVE  WantedIs("VALUE", hs, k) \o Take(Drop(h.value, k), j)
                = WantedIs("VALUE", hs, k + j)
  <2>1. /\ Take(h.value, k) \in Seq(Char) /\ Drop(h.value, k) \in Seq(Letter)
        /\ Take(Drop(h.value, k), j) \in Seq(Char)
    BY <1>2, TakeDrop
  <2>2. Take(h.value, k) \o Take(Drop(h.value, k), j) = Take(h.value, k + j)
    BY <1>2, TakeMore
  <2>3. p \o h.name \o <<Nul>> \o Take(h.value, k) \o Take(Drop(h.value, k), j)
           = p \o h.name \o <<Nul>> \o (Take(h.value, k) \o Take(Drop(h.value, k), j))
    <3> DEFINE q == p \o h.name \o <<Nul>>
               t == Take(h.value, k)
               u == Take(Drop(h.value, k), j)
    <3>1. q \in Seq(Char) /\ t \in Seq(Char) /\ u \in Seq(Char)
      BY <1>4, <2>1
    <3> HIDE DEF q, t, u
    <3>2. q \o t \o u = q \o (t \o u)
      BY ONLY <3>1, ThreeInARow, Zenon
    <3> QED
      BY ONLY <3>2 DEF q, t, u
  <2> QED
    BY <1>3, <2>2, <2>3
<1> QED
  BY <1>1, <1>3, <1>6, <1>7, <1>8, <1>9 DEF h

\* The store holds what the parser has delivered.
StoreInv == Place /\ Holds(Rx, Wanted)

\* One write, and two.
LEMMA StoreHolds ==
    ASSUME NEW s, NEW w, Store(s), Holds(s, w)
    PROVE  Holds(Rx', w)
<1>1. s = [text |-> s.text, error |-> s.error]
  BY DEF Holds
<1>2. store' = s.text /\ error' = s.error
  BY DEF Store
<1>3. Rx' = s
  BY <1>1, <1>2 DEF Rx
<1> QED
  BY <1>3

\* A piece that fits is stored whole.
LEMMA StoreOne ==
    ASSUME StoreInv, NEW x \in Seq(Char), Store(Write(Rx, x))
    PROVE  Holds(Rx', Wanted \o x)
<1>1. Holds(Write(Rx, x), Wanted \o x)
  BY WriteHolds DEF StoreInv
<1> QED
  BY <1>1, StoreHolds

\* A piece and an end that fit are stored whole.
LEMMA StoreTwo ==
    ASSUME StoreInv, NEW x \in Seq(Char), NEW y \in Seq(Char),
           Store(Write(Write(Rx, x), y))
    PROVE  Holds(Rx', Wanted \o x \o y)
<1>1. Holds(Write(Rx, x), Wanted \o x)
  BY WriteHolds DEF StoreInv
<1>2. Holds(Write(Write(Rx, x), y), Wanted \o x \o y)
  BY <1>1, WriteHolds
<1> QED
  BY <1>2, StoreHolds

\* The first piece of a name.
LEMMA FieldStartsStores ==
    ASSUME StoreInv, NEW h \in Headers, FieldStarts(h)
    PROVE  StoreInv'
<1>1. PICK k \in DOMAIN h.name : OnHeaderField(Take(h.name, k)) /\ todo' = Drop(h.name, k)
  BY DEF FieldStarts
<1> DEFINE x == Take(h.name, k)
<1>2. /\ k \in 0 .. Len(h.name) /\ h.name \in Seq(Letter) /\ x \in Seq(Char)
      /\ Drop(h.name, k) \in Seq(Letter)
  <2>1. h.name \in Seq(Letter)
    BY WholeType
  <2>2. k \in 0 .. Len(h.name)
    BY <2>1
  <2> QED
    BY <2>1, <2>2, TakeDrop
<1>3. /\ headers \in Seq(Headers) /\ headers' = Append(headers, h) /\ hstate' = "FIELD"
      /\ hstate \in {"IDLE", "VALUE"} /\ todo = <<>> /\ ~answer.given
      /\ UNCHANGED <<state, answer, held>> /\ state = "PARSE_HANDSHAKE"
  BY <1>1 DEF FieldStarts, Responding, OnHeaderField, StoreInv, Place
<1>4. headers' \in Seq(Headers) /\ headers' # <<>> /\ Front(headers') = headers
      /\ Last(headers') = h
  BY <1>3, FrontAppend
<1>5. Place'
  BY <1>1, <1>2, <1>3, <1>4 DEF Place, Rest, StoreInv
<1>6. Wanted' = Stored(headers) \o x
  <2>1. Wanted' = WantedIn("FIELD", headers', Drop(h.name, k), answer.given)
    BY <1>1, <1>3, WantedSame
  <2>2. Wanted' = WantedIs("FIELD", headers', k)
    BY <1>2, <1>4, <2>1, WantedCases
  <2> QED
    BY <1>4, <2>2 DEF WantedIs
<1>7. Store(FieldWritten(x))
  BY <1>1 DEF OnHeaderField
<1>8. CASE hstate = "IDLE"
  <2>1. Wanted = <<>> /\ headers = <<>>
    BY <1>8, WantedSame DEF WantedIn, StoreInv, Place
  <2>2. Stored(headers) = Wanted
    BY <2>1, StoredEmpty
  <2>3. Store(Write(Rx, x))
    BY <1>7, <1>8 DEF FieldWritten
  <2>4. Holds(Rx', Wanted \o x)
    BY <1>2, <2>3, StoreOne
  <2> QED
    BY <1>5, <1>6, <2>2, <2>4 DEF StoreInv
<1>9. CASE hstate = "VALUE"
  <2>1. headers # <<>> /\ Last(headers).value \in Seq(Letter)
    BY <1>3, <1>9, FrontLast, WholeType DEF StoreInv, Place
  <2>2. PICK j \in 0 .. Len(Last(headers).value) : todo = Drop(Last(headers).value, j)
    BY <1>9 DEF StoreInv, Place, Rest
  <2>3. j = Len(Last(headers).value)
    BY <1>3, <2>1, <2>2, TakeDrop
  <2>4. Wanted = WantedIs("VALUE", headers, Len(Last(headers).value))
    <3>1. Wanted = WantedIn("VALUE", headers, Drop(Last(headers).value, j), FALSE)
      BY <1>3, <1>9, <2>2, WantedSame DEF StoreInv, Place
    <3> QED
      BY <1>3, <2>1, <2>3, <3>1, WantedCases
  <2>5. Wanted \o <<Nul>> = Stored(headers)
    BY <1>3, <2>1, <2>4, WantedGrows
  <2>6. Store(Write(Write(Rx, <<Nul>>), x)) /\ <<Nul>> \in Seq(Char)
    BY <1>7, <1>9, WholeType DEF FieldWritten
  <2>7. Holds(Rx', Wanted \o <<Nul>> \o x)
    BY <1>2, <2>6, StoreTwo
  <2> QED
    BY <1>5, <1>6, <2>5, <2>7 DEF StoreInv
<1> QED
  BY <1>3, <1>8, <1>9

\* The pieces that follow it.
LEMMA FieldGoesOnStores ==
    ASSUME StoreInv, FieldGoesOn
    PROVE  StoreInv'
<1> DEFINE h == Last(headers)
<1>1. /\ headers \in Seq(Headers) /\ headers' = headers /\ hstate' = "FIELD"
      /\ hstate = "FIELD" /\ headers # <<>> /\ ~answer.given
      /\ UNCHANGED <<state, answer, held>> /\ state = "PARSE_HANDSHAKE"
  BY DEF FieldGoesOn, Responding, OnHeaderField, StoreInv, Place
<1>2. h.name \in Seq(Letter)
  BY <1>1, FrontLast, WholeType
<1>3. PICK k \in 0 .. Len(h.name) : todo = Drop(h.name, k)
  BY <1>1 DEF StoreInv, Place, Rest
<1>4. PICK j \in 0 .. Len(todo) : OnHeaderField(Take(todo, j)) /\ todo' = Drop(todo, j)
  BY DEF FieldGoesOn
<1> DEFINE x == Take(todo, j)
<1>5. /\ j \in 0 .. Len(Drop(h.name, k)) /\ x = Take(Drop(h.name, k), j)
      /\ k + j \in 0 .. Len(h.name) /\ todo' = Drop(h.name, k + j)
  BY <1>2, <1>3, <1>4, TakeMore
<1>6. x \in Seq(Char)
  <2>1. todo \in Seq(Letter)
    BY <1>2, <1>3, TakeDrop
  <2> QED
    BY <1>4, <2>1, TakeDrop
<1>7. Place'
  BY <1>1, <1>5 DEF Place, Rest, StoreInv
<1>8. Wanted = WantedIs("FIELD", headers, k)
  BY <1>1, <1>3, WantedSame, WantedCases
<1>9. Wanted' = WantedIs("FIELD", headers, k + j)
  BY <1>1, <1>5, WantedSame, WantedCases
<1>10. Wanted' = Wanted \o x
  BY <1>1, <1>5, <1>8, <1>9, WantedGrows
<1>11. Store(Write(Rx, x))
  BY <1>1, <1>4 DEF OnHeaderField, FieldWritten
<1>12. Holds(Rx', Wanted \o x)
  BY <1>6, <1>11, StoreOne
<1> QED
  BY <1>7, <1>10, <1>12 DEF StoreInv

\* The first piece of a value.
LEMMA ValueStartsStores ==
    ASSUME StoreInv, ValueStarts
    PROVE  StoreInv'
<1> DEFINE h == Last(headers)
<1>1. /\ headers \in Seq(Headers) /\ headers' = headers
      /\ hstate = "FIELD" /\ headers # <<>> /\ ~answer.given /\ todo = <<>>
      /\ UNCHANGED <<state, answer, held>> /\ state = "PARSE_HANDSHAKE"
  BY DEF ValueStarts, Responding, StoreInv, Place
<1>2. h.name \in Seq(Letter) /\ h.value \in Seq(Letter)
  BY <1>1, FrontLast, WholeType
<1>3. PICK k \in IF h.value = <<>> THEN {0} ELSE DOMAIN h.value :
         OnHeaderValue(Take(h.value, k)) /\ todo' = Drop(h.value, k)
  BY DEF ValueStarts
<1> DEFINE x == Take(h.value, k)
<1>4. k \in 0 .. Len(h.value)
  BY <1>2, <1>3
<1>5. x \in Seq(Char) /\ Drop(h.value, 0) = h.value /\ 0 \in 0 .. Len(h.value)
      /\ k \in 0 .. Len(Drop(h.value, 0)) /\ 0 + k = k
  <2>1. 0 \in 0 .. Len(h.value)
    BY <1>2
  <2>2. Drop(h.value, 0) = h.value
    BY <1>2, <2>1, TakeDrop
  <2>3. x \in Seq(Char)
    BY <1>2, <1>4, TakeDrop
  <2> QED
    BY <1>4, <2>1, <2>2, <2>3
<1>6. hstate' = "VALUE"
  BY <1>3 DEF OnHeaderValue
<1>7. Place'
  BY <1>1, <1>3, <1>4, <1>6 DEF Place, Rest, StoreInv
<1>8. Wanted \o <<Nul>> = WantedIs("VALUE", headers, 0)
  <2>1. PICK j \in 0 .. Len(h.name) : todo = Drop(h.name, j)
    BY <1>1 DEF StoreInv, Place, Rest
  <2>2. j = Len(h.name)
    BY <1>1, <1>2, <2>1, TakeDrop
  <2>3. Wanted = WantedIs("FIELD", headers, Len(h.name))
    <3>1. Wanted = WantedIn("FIELD", headers, Drop(h.name, j), answer.given)
      BY <1>1, <2>1, WantedSame
    <3> QED
      BY <1>1, <2>2, <3>1, WantedCases
  <2> QED
    BY <1>1, <2>3, WantedGrows
<1>9. Wanted' = WantedIs("VALUE", headers, k)
  <2>1. Wanted' = WantedIn("VALUE", headers, Drop(h.value, k), FALSE)
    BY <1>1, <1>3, <1>6, WantedSame DEF StoreInv, Place
  <2> QED
    BY <1>1, <1>4, <2>1, WantedCases
<1>10. Wanted' = Wanted \o <<Nul>> \o x
  <2>1. WantedIs("VALUE", headers, 0) \o Take(Drop(h.value, 0), k)
           = WantedIs("VALUE", headers, 0 + k)
    BY <1>1, <1>5, WantedGrows
  <2> QED
    BY <1>5, <1>8, <1>9, <2>1
<1>11. Store(Write(Write(Rx, <<Nul>>), x)) /\ <<Nul>> \in Seq(Char)
  BY <1>1, <1>3, FrontLast, WholeType DEF OnHeaderValue, ValueWritten
<1>12. Holds(Rx', Wanted \o <<Nul>> \o x)
  BY <1>5, <1>11, StoreTwo
<1> QED
  BY <1>7, <1>10, <1>12 DEF StoreInv

\* The pieces that follow it.
LEMMA ValueGoesOnStores ==
    ASSUME StoreInv, ValueGoesOn
    PROVE  StoreInv'
<1> DEFINE h == Last(headers)
<1>1. /\ headers \in Seq(Headers) /\ headers' = headers /\ hstate' = "VALUE"
      /\ hstate = "VALUE" /\ headers # <<>> /\ ~answer.given /\ answer.given = FALSE
      /\ UNCHANGED <<state, answer, held>> /\ state = "PARSE_HANDSHAKE"
  BY DEF ValueGoesOn, Responding, OnHeaderValue, StoreInv, Place
<1>2. h.value \in Seq(Letter)
  BY <1>1, FrontLast, WholeType
<1>3. PICK k \in 0 .. Len(h.value) : todo = Drop(h.value, k)
  BY <1>1 DEF StoreInv, Place, Rest
<1>4. PICK j \in 0 .. Len(todo) : OnHeaderValue(Take(todo, j)) /\ todo' = Drop(todo, j)
  BY DEF ValueGoesOn
<1> DEFINE x == Take(todo, j)
<1>5. /\ j \in 0 .. Len(Drop(h.value, k)) /\ x = Take(Drop(h.value, k), j)
      /\ k + j \in 0 .. Len(h.value) /\ todo' = Drop(h.value, k + j)
  BY <1>2, <1>3, <1>4, TakeMore
<1>6. x \in Seq(Char)
  <2>1. todo \in Seq(Letter)
    BY <1>2, <1>3, TakeDrop
  <2> QED
    BY <1>4, <2>1, TakeDrop
<1>7. Place'
  BY <1>1, <1>5 DEF Place, Rest, StoreInv
<1>8. Wanted = WantedIs("VALUE", headers, k)
  BY <1>1, <1>3, WantedSame, WantedCases
<1>9. Wanted' = WantedIs("VALUE", headers, k + j)
  BY <1>1, <1>5, WantedSame, WantedCases
<1>10. Wanted' = Wanted \o x
  BY <1>1, <1>5, <1>8, <1>9, WantedGrows
<1>11. Store(Write(Rx, x))
  BY <1>1, <1>4 DEF OnHeaderValue, ValueWritten
<1>12. Holds(Rx', Wanted \o x)
  BY <1>6, <1>11, StoreOne
<1> QED
  BY <1>7, <1>10, <1>12 DEF StoreInv

\* The end of the response ends the last value.
LEMMA CompleteStores ==
    ASSUME StoreInv, NEW status, NEW upgrade, Complete(status, upgrade)
    PROVE  /\ StoreInv'
           /\ Wanted' = Stored(headers)
<1> DEFINE h == Last(headers)
<1>1. /\ headers \in Seq(Headers) /\ headers' = headers /\ hstate' = hstate
      /\ hstate \in {"IDLE", "VALUE"} /\ ~answer.given /\ answer.given = FALSE
      /\ (hstate = "IDLE") = (headers = <<>>)
      /\ todo = <<>> /\ todo' = todo /\ answer'.given = TRUE
      /\ state' \in {"READY", "CLOSED"} /\ Store(Finished) /\ held' = held
  BY DEF Complete, StoreInv, Place
<1>2. Place'
  BY <1>1 DEF StoreInv, Place, Rest
<1>3. CASE hstate = "IDLE"
  <2>1. Wanted = <<>> /\ Wanted' = <<>> /\ Stored(headers) = <<>>
    BY <1>1, <1>3, WantedSame, StoredEmpty DEF WantedIn
  <2>2. Holds(Rx, Wanted) /\ Finished = Rx
    BY <1>3 DEF StoreInv, Finished
  <2>3. Holds(Rx', Wanted)
    BY <1>1, <2>2, StoreHolds
  <2> QED
    BY <1>2, <2>1, <2>3 DEF StoreInv
<1>4. CASE hstate = "VALUE"
  <2>1. headers # <<>> /\ h.value \in Seq(Letter) /\ <<Nul>> \in Seq(Char)
    BY <1>1, <1>4, FrontLast, WholeType
  <2>2. PICK j \in 0 .. Len(h.value) : todo = Drop(h.value, j)
    BY <1>4 DEF StoreInv, Place, Rest
  <2>3. j = Len(h.value)
    BY <1>1, <2>1, <2>2, TakeDrop
  <2>4. Wanted = WantedIs("VALUE", headers, Len(h.value))
    <3>1. Wanted = WantedIn("VALUE", headers, Drop(h.value, j), FALSE)
      BY <1>1, <1>4, <2>2, WantedSame
    <3> QED
      BY <1>1, <2>1, <2>3, <3>1, WantedCases
  <2>5. Wanted \o <<Nul>> = Stored(headers)
    BY <1>1, <2>1, <2>4, WantedGrows
  <2>6. Wanted' = Stored(headers)
    BY <1>1, <1>4, <2>1, WantedSame, WantedCases, WantedGrows
  <2>7. Store(Write(Rx, <<Nul>>))
    BY <1>1, <1>4 DEF Finished
  <2>8. Holds(Rx', Wanted \o <<Nul>>)
    BY <2>1, <2>7, StoreOne
  <2> QED
    BY <1>2, <2>5, <2>6, <2>8 DEF StoreInv
<1> QED
  BY <1>1, <1>3, <1>4

\* A frame has come, and the buffer holds what it left.
Reused ==
    /\ ~held
    /\ state \in {"OPEN", "CLOSED"} /\ hstate \in {"IDLE", "FIELD", "VALUE"}
    /\ store \in Seq(Char) /\ Len(store) <= RxMax /\ error \in BOOLEAN

BufferInv == StoreInv \/ Reused

\* A new instance has an empty store.
LEMMA InitStores ==
    ASSUME WicInit
    PROVE  StoreInv'
<1>1. Place'
  BY DEF WicInit, Place, NoAnswer
<1>2. Wanted' = <<>>
  BY WantedSame DEF WicInit, WantedIn
<1>3. Holds(Rx', <<>>)
  BY HoldsEmpty DEF WicInit, Rx
<1> QED
  BY <1>1, <1>2, <1>3 DEF StoreInv

\* Every step keeps the store, until a frame comes.
LEMMA StoreStep ==
    ASSUME StoreInv, [Next]_vars
    PROVE  BufferInv'
<1>1. CASE WicInit
  BY <1>1, InitStores DEF BufferInv
<1>2. ASSUME UNCHANGED <<response_vars, answer, held>>,
             state' = "INIT" => state = "INIT",
             state' = "PARSE_HANDSHAKE" => state \in {"INIT", "PARSE_HANDSHAKE"},
             state' \in {"READY", "OPEN"} => state \in {"READY", "OPEN"}
      PROVE  BufferInv'
  <2>1. UNCHANGED <<hstate, store, error, headers, todo, answer, held>>
    BY <1>2 DEF response_vars
  <2>2. Place'
    BY <1>2, <2>1 DEF StoreInv, Place, Rest
  <2>3. Wanted' = Wanted
    BY <2>1, WantedSame
  <2>4. Rx' = Rx
    BY <2>1 DEF Rx
  <2> QED
    BY <2>2, <2>3, <2>4 DEF StoreInv, BufferInv
<1>3. CASE UNCHANGED vars
  BY <1>2, <1>3 DEF vars, response_vars
<1>4. CASE StartClient
  BY <1>2, <1>4 DEF StartClient
<1>5. ASSUME NEW n \in Nodes, WicSetHeader(n) PROVE BufferInv'
  BY <1>2, <1>5 DEF WicSetHeader
<1>6. CASE Breaks \/ WicGetNextHeader \/ WicRewindGetNextHeader
           \/ OnOpenReturn \/ WicClose
  BY <1>2, <1>6 DEF Breaks, WicGetNextHeader, WicRewindGetNextHeader,
                    OnOpenReturn, WicClose
<1>7. ASSUME NEW h \in Headers, FieldStarts(h) PROVE BufferInv'
  BY <1>7, FieldStartsStores DEF BufferInv
<1>8. CASE FieldGoesOn
  BY <1>8, FieldGoesOnStores DEF BufferInv
<1>9. CASE ValueStarts
  BY <1>9, ValueStartsStores DEF BufferInv
<1>10. CASE ValueGoesOn
  BY <1>10, ValueGoesOnStores DEF BufferInv
<1>11. ASSUME NEW status \in Statuses, NEW upgrade \in BOOLEAN,
              Complete(status, upgrade)
       PROVE  BufferInv'
  BY <1>11, CompleteStores DEF BufferInv
<1>12. CASE Frame
  <2>1. store' \in Seq(Char) /\ Len(store') <= RxMax
    BY <1>12, HandshakeAssumption DEF Frame, Char
  <2>2. Reused'
    BY <1>12, <2>1 DEF Frame, Reused, StoreInv, Place
  <2> QED
    BY <2>2 DEF BufferInv
<1> QED
  BY <1>1, <1>3, <1>4, <1>5, <1>6, <1>7, <1>8, <1>9, <1>10, <1>11, <1>12 DEF Next

\* Then only frames change the buffer, until wic_init.
LEMMA ReusedStep ==
    ASSUME Reused, [Next]_vars
    PROVE  BufferInv'
<1>1. CASE WicInit
  BY <1>1, InitStores DEF BufferInv
<1>2. ASSUME UNCHANGED <<held, hstate, store, error>>, state' \in {"OPEN", "CLOSED"}
      PROVE  BufferInv'
  BY <1>2 DEF Reused, BufferInv
<1>3. CASE UNCHANGED vars
  BY <1>2, <1>3 DEF vars, Reused
<1>4. CASE WicGetNextHeader \/ WicRewindGetNextHeader \/ WicClose
  BY <1>2, <1>4 DEF WicGetNextHeader, WicRewindGetNextHeader, WicClose, Reused,
                    response_vars
<1>5. CASE Frame
  <2>1. store' \in Seq(Char) /\ Len(store') <= RxMax
    BY <1>5, HandshakeAssumption DEF Frame, Char
  <2>2. Reused'
    BY <1>5, <2>1 DEF Frame, Reused
  <2> QED
    BY <2>2 DEF BufferInv
<1>6. /\ ~StartClient /\ (\A n \in Nodes : ~WicSetHeader(n))
      /\ (\A h \in Headers : ~FieldStarts(h)) /\ ~FieldGoesOn /\ ~ValueStarts
      /\ ~ValueGoesOn /\ (\A status, upgrade : ~Complete(status, upgrade))
      /\ ~Breaks /\ ~OnOpenReturn
  BY DEF Reused, StartClient, WicSetHeader, FieldStarts, FieldGoesOn, ValueStarts,
         ValueGoesOn, Responding, Complete, Breaks, OnOpenReturn
<1> QED
  BY <1>1, <1>3, <1>4, <1>5, <1>6 DEF Next

\* The store is empty at first.
LEMMA StoreInit == Init => StoreInv
<1> SUFFICES ASSUME Init PROVE StoreInv
  OBVIOUS
<1>1. Place
  BY DEF Init, Place, NoAnswer
<1>2. Wanted = <<>>
  BY WantedSame DEF Init, WantedIn
<1>3. Holds(Rx, <<>>)
  BY HoldsEmpty DEF Init, Rx
<1> QED
  BY <1>1, <1>2, <1>3 DEF StoreInv

\* The invariant of the receive buffer, which the theorems below rest on.
LEMMA BufferKept ==
    /\ Init => BufferInv
    /\ BufferInv /\ [Next]_vars => BufferInv'
    /\ BufferInv /\ held => StoreInv
<1>1. Init => BufferInv
  BY StoreInit DEF BufferInv
<1>2. BufferInv /\ [Next]_vars => BufferInv'
  BY StoreStep, ReusedStep DEF BufferInv
<1>3. BufferInv /\ held => StoreInv
  BY DEF BufferInv, Reused
<1> QED
  BY <1>1, <1>2, <1>3

\* In whatever pieces the response comes, the buffer holds each name and value
\* with one end, and after one that did not fit nothing more.
THEOREM StoreRightHolds == Spec => []StoreRight
<1>1. BufferInv => StoreRight
  BY BufferKept DEF StoreInv, Holds, Rx, StoreRight
<1> QED
  BY <1>1, BufferKept, PTL DEF Spec

----------------------------------------------------------------------------
(* Reading the store.                                                      *)

\* In s, n headers are stored: off[k] is where the header after the first k of
\* them begins, less one, and mid[k] the end of its name.  There, and where the
\* next header begins, are the null characters, and nowhere else.
Marks(s, n, off, mid) ==
    /\ n \in Nat /\ off \in [0 .. n -> Nat] /\ mid \in [0 .. n - 1 -> Nat]
    /\ off[0] = 0
    /\ \A k \in 0 .. n - 1 :
          /\ off[k] < mid[k] /\ mid[k] < off[k + 1]
          /\ s[mid[k]] = Nul /\ s[off[k + 1]] = Nul
          /\ \A i \in Nat : off[k] < i /\ i < off[k + 1] /\ i # mid[k] => s[i] # Nul

\* A header that comes later is stored further on.
LEMMA MarksGrow ==
    ASSUME NEW s, NEW n, NEW off, NEW mid, Marks(s, n, off, mid),
           NEW j \in 0 .. n, NEW k \in 0 .. n
    PROVE  /\ j <= k => off[j] <= off[k]
           /\ j < k => off[j] < off[k]
<1> DEFINE S == {d \in Nat : j + d \in 0 .. n =>
                     off[j] <= off[j + d] /\ (d > 0 => off[j] < off[j + d])}
<1>1. n \in Nat /\ j \in Nat /\ off \in [0 .. n -> Nat]
  BY DEF Marks
<1>2. 0 \in S
  BY <1>1
<1>3. ASSUME NEW d \in Nat, d \in S PROVE d + 1 \in S
  <2> SUFFICES ASSUME j + (d + 1) \in 0 .. n
               PROVE  off[j] <= off[j + (d + 1)] /\ off[j] < off[j + (d + 1)]
    OBVIOUS
  <2>1. PICK m : m = j + d
    OBVIOUS
  <2>2. m \in 0 .. n - 1 /\ m \in 0 .. n /\ m + 1 \in 0 .. n /\ m + 1 = j + (d + 1)
    BY <1>1, <2>1
  <2>3. off[m] < off[m + 1]
    <3>1. off[m] < mid[m] /\ mid[m] < off[m + 1] /\ mid[m] \in Nat
      BY <2>2 DEF Marks
    <3>2. off[m] \in Nat /\ off[m + 1] \in Nat
      BY <1>1, <2>2
    <3> QED
      BY <3>1, <3>2
  <2>4. off[j] <= off[m]
    BY <1>3, <2>1, <2>2
  <2>5. off[j] \in Nat /\ off[m] \in Nat /\ off[m + 1] \in Nat
    BY <1>1, <2>2
  <2> QED
    BY <2>2, <2>3, <2>4, <2>5
<1>4. Nat \subseteq S
  <2> HIDE DEF S
  <2> QED
    BY <1>2, <1>3, SetInduction
<1> SUFFICES ASSUME j <= k PROVE off[j] <= off[k] /\ (j < k => off[j] < off[k])
  BY <1>1
<1>5. PICK d \in Nat : j + d = k
  <2>1. k - j \in Nat /\ j + (k - j) = k
    BY <1>1
  <2> QED
    BY <2>1
<1>6. j + d \in 0 .. n /\ (j < k => d > 0)
  BY <1>1, <1>5
<1>7. d \in S
  BY <1>4
<1>8. off[j] <= off[j + d] /\ (d > 0 => off[j] < off[j + d])
  BY <1>6, <1>7
<1> QED
  BY <1>5, <1>6, <1>8

\* Every character is in some header.
LEMMA MarksFind ==
    ASSUME NEW s, NEW n, NEW off, NEW mid, Marks(s, n, off, mid),
           NEW i \in Nat, 0 < i, i <= off[n]
    PROVE  \E k \in 0 .. n - 1 : off[k] < i /\ i <= off[k + 1]
<1> DEFINE S == {m \in Nat : m \in 0 .. n /\ i <= off[m] =>
                     \E k \in 0 .. n - 1 : off[k] < i /\ i <= off[k + 1]}
<1>1. n \in Nat /\ off \in [0 .. n -> Nat] /\ off[0] = 0
  BY DEF Marks
<1>2. 0 \in S
  BY <1>1
<1>3. ASSUME NEW m \in Nat, m \in S PROVE m + 1 \in S
  <2> SUFFICES ASSUME m + 1 \in 0 .. n, i <= off[m + 1]
               PROVE  \E k \in 0 .. n - 1 : off[k] < i /\ i <= off[k + 1]
    OBVIOUS
  <2>1. m \in 0 .. n - 1 /\ m \in 0 .. n /\ off[m] \in Nat
    BY <1>1
  <2>2. CASE off[m] < i
    BY <2>1, <2>2
  <2>3. CASE i <= off[m]
    BY <1>3, <2>1, <2>3
  <2> QED
    BY <2>1, <2>2, <2>3
<1>4. Nat \subseteq S
  <2> HIDE DEF S
  <2> QED
    BY <1>2, <1>3, SetInduction
<1> QED
  BY <1>1, <1>4

\* The null characters among the first x.
Before(s, x) == {i \in 1 .. x : s[i] = Nul}

\* Two of them end a header.
LEMMA MarksCount ==
    ASSUME NEW s, NEW n, NEW off, NEW mid, Marks(s, n, off, mid), NEW k \in 0 .. n
    PROVE  IsFiniteSet(Before(s, off[k])) /\ Cardinality(Before(s, off[k])) = 2 * k
<1> DEFINE B(m) == Before(s, off[m])
           S == {m \in Nat : m \in 0 .. n => IsFiniteSet(B(m)) /\ Cardinality(B(m)) = 2 * m}
<1>1. n \in Nat /\ off \in [0 .. n -> Nat] /\ off[0] = 0
  BY DEF Marks
<1>2. 0 \in S
  <2>1. B(0) = {}
    BY <1>1 DEF Before
  <2> QED
    BY <2>1, FS_EmptySet
<1>3. ASSUME NEW m \in Nat, m \in S PROVE m + 1 \in S
  <2> SUFFICES ASSUME m + 1 \in 0 .. n
               PROVE  /\ IsFiniteSet(B(m + 1))
                      /\ Cardinality(B(m + 1)) = 2 * (m + 1)
    OBVIOUS
  <2> DEFINE a == off[m]
             b == mid[m]
             c == off[m + 1]
  <2>1. m \in 0 .. n - 1 /\ m \in 0 .. n
    BY <1>1
  <2>2. /\ a \in Nat /\ b \in Nat /\ c \in Nat /\ a < b /\ b < c
        /\ s[b] = Nul /\ s[c] = Nul
        /\ \A i \in Nat : a < i /\ i < c /\ i # b => s[i] # Nul
    BY <1>1, <2>1 DEF Marks
  <2>3. IsFiniteSet(Before(s, a)) /\ Cardinality(Before(s, a)) = 2 * m
    BY <1>3, <2>1
  <2> HIDE DEF a, b, c
  <2>4. Before(s, c) = (Before(s, a) \cup {b}) \cup {c}
    BY <2>2 DEF Before
  <2>5. b \notin Before(s, a) /\ c \notin Before(s, a) \cup {b}
    BY <2>2 DEF Before
  <2>6. /\ IsFiniteSet(Before(s, a) \cup {b})
        /\ Cardinality(Before(s, a) \cup {b}) = 2 * m + 1
    BY <2>3, <2>5, FS_AddElement
  <2>7. IsFiniteSet(Before(s, c)) /\ Cardinality(Before(s, c)) = 2 * m + 1 + 1
    BY <2>4, <2>5, <2>6, FS_AddElement
  <2> QED
    BY <2>7 DEF c
<1>4. Nat \subseteq S
  <2> HIDE DEF S
  <2> QED
    BY <1>2, <1>3, SetInduction
<1> QED
  BY <1>4

\* t is the beginning of s.
Shows(t, s, n, off) ==
    /\ Len(t) \in Nat /\ DOMAIN t = 1 .. Len(t) /\ Len(t) <= off[n]
    /\ \A i \in 1 .. Len(t) : t[i] = s[i]

\* Names are looked at where headers begin in t, ...
LEMMA NamesOnly ==
    ASSUME NEW s, NEW n, NEW off, NEW mid, Marks(s, n, off, mid),
           NEW t, Shows(t, s, n, off), NEW i \in NamesAt(t)
    PROVE  \E k \in 0 .. n - 1 : i = off[k] + 1 /\ off[k] < Len(t)
<1> DEFINE l == Len(t)
           U == {j \in Nuls(t) : j < i}
<1>1. /\ l \in Nat /\ DOMAIN t = 1 .. l /\ l <= off[n] /\ \A j \in 1 .. l : t[j] = s[j]
      /\ n \in Nat /\ off \in [0 .. n -> Nat]
  BY DEF Shows, Marks
<1>2. /\ i \in 1 .. l /\ i \in Nat /\ 0 < i /\ i <= off[n]
      /\ i # 1 => i - 1 \in 1 .. l /\ s[i - 1] = Nul
      /\ Cardinality(U) % 2 = 0
  <2>1. i \in 1 .. l /\ (i # 1 => t[i - 1] = Nul)
    BY <1>1 DEF NamesAt, Starts
  <2>2. Cardinality(U) % 2 = 0
    BY DEF NamesAt
  <2>3. i # 1 => i - 1 \in 1 .. l
    BY <1>1, <2>1
  <2>4. off[n] \in Nat
    BY <1>1
  <2> QED
    BY <1>1, <2>1, <2>2, <2>3, <2>4
<1>3. PICK k \in 0 .. n - 1 : off[k] < i /\ i <= off[k + 1]
  BY <1>2, MarksFind
<1> DEFINE a == off[k]
           b == mid[k]
           c == off[k + 1]
<1>4. /\ a \in Nat /\ b \in Nat /\ c \in Nat /\ a < b /\ b < c
      /\ s[b] = Nul /\ s[c] = Nul
      /\ \A j \in Nat : a < j /\ j < c /\ j # b => s[j] # Nul
  <2>1. k \in 0 .. n /\ k + 1 \in 0 .. n
    BY <1>1
  <2>2. a \in Nat /\ c \in Nat
    BY <1>1, <2>1
  <2> QED
    BY <2>2 DEF Marks
<1>5. IsFiniteSet(Before(s, a)) /\ Cardinality(Before(s, a)) = 2 * k /\ k \in Nat
  <2>1. k \in 0 .. n /\ k \in Nat
    BY <1>1
  <2> QED
    BY <2>1, MarksCount
<1>6. a < i /\ i <= c
  BY <1>3
<1> HIDE DEF a, b, c
<1>7. i = a + 1
  <2> SUFFICES ASSUME i # a + 1 PROVE FALSE
    OBVIOUS
  <2>1. i # 1 /\ a < i - 1 /\ i - 1 < c
    BY <1>2, <1>4, <1>6
  <2>2. i - 1 = b
    BY <1>2, <1>4, <2>1
  <2>3. U = Before(s, a) \cup {b}
    <3>1. \A j \in 1 .. l : j < i => (j \in 1 .. a \/ (a < j /\ j <= b))
      BY <1>1, <1>2, <1>4, <2>2
    <3>2. \A j \in 1 .. a : j \in 1 .. l /\ j < i
      BY <1>2, <1>4, <1>6
    <3>3. b \in 1 .. l /\ b < i
      BY <1>2, <2>1, <2>2
    <3>4. \A j \in 1 .. l : a < j /\ j <= b /\ s[j] = Nul => j = b
      BY <1>4
    <3>5. ASSUME NEW j \in U PROVE j \in Before(s, a) \cup {b}
      <4>1. j \in 1 .. l /\ j < i /\ s[j] = Nul
        BY <1>1, <3>5 DEF Nuls
      <4> QED
        BY <3>1, <3>4, <4>1 DEF Before
    <3>6. ASSUME NEW j \in Before(s, a) \cup {b} PROVE j \in U
      <4>1. j \in 1 .. l /\ j < i /\ s[j] = Nul
        BY <1>4, <3>2, <3>3, <3>6 DEF Before
      <4> QED
        BY <1>1, <4>1 DEF Nuls
    <3> QED
      BY <3>5, <3>6
  <2>4. b \notin Before(s, a)
    BY <1>4 DEF Before
  <2>5. Cardinality(U) = 2 * k + 1
    BY <1>5, <2>3, <2>4, FS_AddElement
  <2> QED
    BY <1>2, <1>5, <2>5
<1>8. a < l
  BY <1>1, <1>2, <1>4, <1>6
<1> QED
  BY <1>7, <1>8 DEF a

\* ... and where all of them do.
LEMMA NamesAll ==
    ASSUME NEW s, NEW n, NEW off, NEW mid, Marks(s, n, off, mid),
           NEW t, Shows(t, s, n, off), NEW k \in 0 .. n - 1, off[k] < Len(t)
    PROVE  off[k] + 1 \in NamesAt(t)
<1> DEFINE l == Len(t)
           i == off[k] + 1
           U == {j \in Nuls(t) : j < i}
<1>1. /\ l \in Nat /\ DOMAIN t = 1 .. l /\ \A j \in 1 .. l : t[j] = s[j]
      /\ n \in Nat /\ off \in [0 .. n -> Nat]
  BY DEF Shows, Marks
<1> DEFINE a == off[k]
           b == mid[k]
           c == off[k + 1]
<1>2. /\ a \in Nat /\ b \in Nat /\ c \in Nat /\ a < b /\ b < c
      /\ s[b] = Nul /\ s[c] = Nul
  <2>1. k \in 0 .. n /\ k + 1 \in 0 .. n
    BY <1>1
  <2>2. a \in Nat /\ c \in Nat
    BY <1>1, <2>1
  <2> QED
    BY <2>2 DEF Marks
<1>3. IsFiniteSet(Before(s, a)) /\ Cardinality(Before(s, a)) = 2 * k /\ k \in Nat
  <2>1. k \in 0 .. n /\ k \in Nat
    BY <1>1
  <2> QED
    BY <2>1, MarksCount
<1>4. i \in Starts(t)
  <2>1. i \in 1 .. l
    BY <1>1, <1>2
  <2>2. i # 1 => t[i - 1] = Nul
    <3> SUFFICES ASSUME i # 1 PROVE t[i - 1] = Nul
      OBVIOUS
    <3>1. k # 0
      BY DEF Marks
    <3>2. PICK m : m = k - 1
      OBVIOUS
    <3>3. m \in 0 .. n - 1 /\ m + 1 = k
      BY <1>1, <3>1, <3>2
    <3>4. s[off[m + 1]] = Nul
      BY <3>3 DEF Marks
    <3>5. i - 1 = a /\ a \in 1 .. l
      BY <1>1, <1>2
    <3> QED
      BY <1>1, <3>3, <3>4, <3>5
  <2> QED
    BY <1>1, <2>1, <2>2 DEF Starts
<1> HIDE DEF a, b, c
<1>5. i = a + 1 /\ a < l
  BY DEF a
<1> HIDE DEF i
<1>6. U = Before(s, a)
  <2>1. ASSUME NEW j PROVE j \in U <=> j \in Before(s, a)
    <3>1. j \in U <=> j \in 1 .. l /\ j < i /\ s[j] = Nul
      BY <1>1 DEF Nuls
    <3>2. j \in 1 .. l /\ j < i <=> j \in 1 .. a
      BY <1>1, <1>2, <1>5
    <3> QED
      BY <3>1, <3>2 DEF Before
  <2> QED
    BY <2>1
<1>7. Cardinality(U) % 2 = 0
  <2>1. Cardinality(U) = 2 * k
    BY <1>3, <1>6
  <2>2. (2 * k) % 2 = 0
    BY <1>3
  <2> HIDE DEF U
  <2> QED
    BY <2>1, <2>2
<1>8. i \in NamesAt(t)
  BY <1>4, <1>7 DEF NamesAt
<1> QED
  BY <1>8 DEF i

\* A string ends at the first null character.
LEMMA EndIs ==
    ASSUME NEW t, NEW i \in Nat, NEW e \in Nuls(t), e \in Nat, Nuls(t) \subseteq Nat,
           e >= i, \A j \in Nuls(t) : j >= i => e <= j
    PROVE  EndOf(t, i) = e
<1>1. \A j \in Nuls(t) :
         j >= i /\ (\A k \in Nuls(t) : k >= i => j <= k) => j = e
  OBVIOUS
<1>2. e \in Nuls(t) /\ e >= i /\ \A k \in Nuls(t) : k >= i => e <= k
  OBVIOUS
<1> QED
  BY <1>1, <1>2 DEF EndOf

\* Where the headers hs begin that are stored in s, and where their names end.
Begins(hs) == [k \in 0 .. Len(hs) |-> Len(Part(hs, k))]
NameEnds(hs) == [k \in 0 .. Len(hs) - 1 |-> Len(Part(hs, k)) + Len(hs[k + 1].name) + 1]

\* The characters of one sequence after another.
LEMMA ConcatAt ==
    ASSUME NEW a \in Seq(Char), NEW b \in Seq(Char)
    PROVE  /\ a \o b \in Seq(Char) /\ Len(a) \in Nat /\ Len(b) \in Nat
           /\ Len(a \o b) = Len(a) + Len(b)
           /\ \A j \in 1 .. Len(a) : (a \o b)[j] = a[j]
           /\ \A j \in 1 .. Len(b) : (a \o b)[Len(a) + j] = b[j]
<1>1. /\ a \o b \in Seq(Char) /\ Len(a) \in Nat /\ Len(b) \in Nat
      /\ Len(a \o b) = Len(a) + Len(b)
      /\ \A i \in 1 .. Len(a) + Len(b) :
            (a \o b)[i] = IF i <= Len(a) THEN a[i] ELSE b[i - Len(a)]
  BY ConcatProperties
<1> DEFINE c == a \o b
           n == Len(a)
           m == Len(b)
<1>2. n \in Nat /\ m \in Nat
  BY <1>1
<1>3. \A i \in 1 .. n + m : c[i] = IF i <= n THEN a[i] ELSE b[i - n]
  BY <1>1
<1> HIDE DEF c, n, m
<1>4. \A j \in 1 .. n : c[j] = a[j]
  BY <1>2, <1>3
<1>5. ASSUME NEW j \in 1 .. m PROVE c[n + j] = b[j]
  <2>1. n + j \in 1 .. n + m /\ ~(n + j <= n) /\ (n + j) - n = j
    BY <1>2
  <2> QED
    BY <1>3, <2>1
<1> QED
  BY <1>1, <1>4, <1>5 DEF c, n, m

\* The characters of a header.
LEMMA WholeAt ==
    ASSUME NEW h \in Headers
    PROVE  LET n == Len(h.name)
               v == Len(h.value)
           IN  /\ n \in Nat /\ v \in Nat /\ Len(Whole(h)) = n + v + 2
               /\ \A j \in 1 .. n : Whole(h)[j] = h.name[j] /\ h.name[j] # Nul
               /\ Whole(h)[n + 1] = Nul
               /\ \A j \in 1 .. v : Whole(h)[n + 1 + j] = h.value[j] /\ h.value[j] # Nul
               /\ Whole(h)[n + v + 2] = Nul
<1> DEFINE a == h.name
           b == h.value
           z == <<Nul>>
           n == Len(a)
           v == Len(b)
<1>1. /\ a \in Seq(Letter) /\ b \in Seq(Letter) /\ a \in Seq(Char) /\ b \in Seq(Char)
      /\ z \in Seq(Char) /\ Len(z) = 1 /\ z[1] = Nul
  BY WholeType
<1>2. n \in Nat /\ v \in Nat
  BY <1>1
<1>3. /\ \A j \in 1 .. n : a[j] # Nul
      /\ \A j \in 1 .. v : b[j] # Nul
  BY <1>1, NulIsNoLetter
<1>4. Whole(h) = a \o z \o b \o z
  BY DEF Whole
<1> HIDE DEF a, b, z
<1> DEFINE az == a \o z
           azb == az \o b
           w == azb \o z
<1>5. /\ az \in Seq(Char) /\ Len(az) = n + 1
      /\ \A j \in 1 .. n : az[j] = a[j]
      /\ az[n + 1] = Nul
  <2>1. 1 \in 1 .. Len(z) /\ Len(z) = 1 /\ z[1] = Nul /\ a \in Seq(Char) /\ z \in Seq(Char)
    BY <1>1
  <2>2. /\ az \in Seq(Char) /\ Len(az) = n + Len(z)
        /\ \A j \in 1 .. n : az[j] = a[j]
        /\ \A j \in 1 .. Len(z) : az[n + j] = z[j]
    BY ONLY <2>1, ConcatAt
  <2> HIDE DEF az, n
  <2> QED
    BY ONLY <2>1, <2>2
<1> HIDE DEF az
<1>6. /\ azb \in Seq(Char) /\ Len(azb) = n + 1 + v
      /\ \A j \in 1 .. n + 1 : azb[j] = az[j]
      /\ \A j \in 1 .. v : azb[n + 1 + j] = b[j]
  <2>1. /\ azb \in Seq(Char) /\ Len(azb) = Len(az) + Len(b)
        /\ \A j \in 1 .. Len(az) : azb[j] = az[j]
        /\ \A j \in 1 .. Len(b) : azb[Len(az) + j] = b[j]
    BY <1>1, <1>5, ConcatAt
  <2> HIDE DEF azb, n
  <2> QED
    BY <1>5, <2>1
<1> HIDE DEF azb
<1>7. /\ w \in Seq(Char) /\ Len(w) = n + 1 + v + 1
      /\ \A j \in 1 .. n + 1 + v : w[j] = azb[j]
      /\ w[n + 1 + v + 1] = Nul
  <2>1. 1 \in 1 .. Len(z)
    BY <1>1
  <2>2. /\ w \in Seq(Char) /\ Len(w) = Len(azb) + Len(z)
        /\ \A j \in 1 .. Len(azb) : w[j] = azb[j]
        /\ w[Len(azb) + 1] = z[1]
    <3>1. azb \in Seq(Char) /\ z \in Seq(Char)
      BY <1>1, <1>6
    <3>2. /\ w \in Seq(Char) /\ Len(w) = Len(azb) + Len(z)
          /\ \A j \in 1 .. Len(azb) : w[j] = azb[j]
          /\ \A j \in 1 .. Len(z) : w[Len(azb) + j] = z[j]
      BY ONLY <3>1, ConcatAt
    <3> HIDE DEF w
    <3> QED
      BY ONLY <2>1, <3>2
  <2>3. Len(azb) = n + 1 + v /\ Len(z) = 1 /\ z[1] = Nul
    BY <1>1, <1>6
  <2> HIDE DEF w, n, v
  <2> QED
    BY <2>2, <2>3
<1>8. Whole(h) = w
  BY <1>4 DEF az, azb
<1> HIDE DEF w, n, v
<1>9. /\ \A j \in 1 .. n : j \in 1 .. n + 1 /\ j \in 1 .. n + 1 + v
      /\ n + 1 \in 1 .. n + 1 /\ n + 1 \in 1 .. n + 1 + v
      /\ \A j \in 1 .. v : n + 1 + j \in 1 .. n + 1 + v
      /\ n + 1 + v + 1 = n + v + 2
  BY <1>2
<1>10. /\ \A j \in 1 .. n : w[j] = a[j]
       /\ w[n + 1] = Nul
       /\ \A j \in 1 .. v : w[n + 1 + j] = b[j]
       /\ w[n + v + 2] = Nul /\ Len(w) = n + v + 2
  BY <1>5, <1>6, <1>7, <1>9
<1> QED
  BY <1>2, <1>3, <1>8, <1>10 DEF a, b, n, v

\* The null characters of a stored header w, of a name of a characters and a
\* value of v: one after each, and no other.
TwoNuls(w, a, v) ==
    /\ a \in Nat /\ v \in Nat /\ Len(w) = a + v + 2
    /\ \A j \in 1 .. a : w[j] # Nul
    /\ w[a + 1] = Nul
    /\ \A j \in 1 .. v : w[a + 1 + j] # Nul
    /\ w[a + v + 2] = Nul

LEMMA WholeNuls ==
    ASSUME NEW h \in Headers
    PROVE  TwoNuls(Whole(h), Len(h.name), Len(h.value))
<1> DEFINE a == Len(h.name)
           v == Len(h.value)
           w == Whole(h)
<1>1. /\ a \in Nat /\ v \in Nat /\ Len(w) = a + v + 2
      /\ w[a + 1] = Nul /\ w[a + v + 2] = Nul
  BY WholeAt
<1>2. ASSUME NEW j \in 1 .. a PROVE w[j] # Nul
  BY WholeAt
<1>3. ASSUME NEW j \in 1 .. v PROVE w[a + 1 + j] # Nul
  BY WholeAt
<1> HIDE DEF a, v, w
<1>4. TwoNuls(w, a, v)
  BY ONLY <1>1, <1>2, <1>3 DEF TwoNuls
<1> QED
  BY ONLY <1>4 DEF a, v, w

\* The first k headers are stored at the beginning of what is stored of more.
LEMMA PartPrefix ==
    ASSUME NEW hs \in Seq(Headers), NEW k \in 0 .. Len(hs), NEW m \in 0 .. Len(hs), k <= m
    PROVE  /\ Len(Part(hs, k)) \in Nat /\ Len(Part(hs, k)) <= Len(Part(hs, m))
           /\ \A i \in 1 .. Len(Part(hs, k)) : Part(hs, m)[i] = Part(hs, k)[i]
<1> DEFINE p(j) == Part(hs, j)
           n == Len(p(k))
           S == {d \in Nat : k + d \in 0 .. Len(hs) =>
                    n <= Len(p(k + d)) /\ \A i \in 1 .. n : p(k + d)[i] = p(k)[i]}
<1>1. n \in Nat /\ k \in Nat /\ Len(hs) \in Nat /\ k + 0 = k
  BY PartType
<1>2. 0 \in S
  BY <1>1
<1>3. ASSUME NEW d \in Nat, d \in S PROVE d + 1 \in S
  <2> SUFFICES ASSUME k + (d + 1) \in 0 .. Len(hs)
               PROVE  /\ n <= Len(p(k + (d + 1)))
                      /\ \A i \in 1 .. n : p(k + (d + 1))[i] = p(k)[i]
    OBVIOUS
  <2>1. PICK j : j = k + d
    OBVIOUS
  <2>2. j \in 0 .. Len(hs) - 1 /\ j \in 0 .. Len(hs) /\ j + 1 = k + (d + 1)
    BY <1>1, <2>1
  <2>3. p(j + 1) = p(j) \o Whole(hs[j + 1]) /\ hs[j + 1] \in Headers
    BY <2>2, PartStep
  <2>4. p(j) \in Seq(Char) /\ Whole(hs[j + 1]) \in Seq(Char)
    BY <2>2, <2>3, PartType, WholeType
  <2>5. n <= Len(p(j)) /\ \A i \in 1 .. n : p(j)[i] = p(k)[i]
    BY <1>3, <2>1, <2>2
  <2> DEFINE a == p(j)
             b == Whole(hs[j + 1])
  <2> HIDE DEF a, b
  <2>6. /\ Len(a) \in Nat /\ Len(a) <= Len(a \o b)
        /\ \A i \in 1 .. Len(a) : (a \o b)[i] = a[i]
    BY <2>4 DEF a, b
  <2>7. p(j + 1) = a \o b /\ a = p(j)
    BY <2>3 DEF a, b
  <2> HIDE DEF p, n
  <2>8. n <= Len(p(j + 1)) /\ \A i \in 1 .. n : p(j + 1)[i] = p(k)[i]
    <3>1. \A i \in 1 .. n : i \in 1 .. Len(a)
      BY <1>1, <2>5, <2>6, <2>7
    <3>2. Len(p(j + 1)) \in Nat
      BY <2>2, PartType DEF p
    <3> QED
      BY <1>1, <2>5, <2>6, <2>7, <3>1, <3>2
  <2> QED
    BY <2>2, <2>8
<1>4. Nat \subseteq S
  <2> HIDE DEF S
  <2> QED
    BY <1>2, <1>3, SetInduction
<1>5. PICK d \in Nat : k + d = m
  <2>1. m - k \in Nat /\ k + (m - k) = m
    BY <1>1
  <2> QED
    BY <2>1
<1>6. d \in S
  BY <1>4
<1> QED
  BY <1>1, <1>5, <1>6

\* The next header is stored behind the first k.
LEMMA StoredAt ==
    ASSUME NEW hs \in Seq(Headers), NEW k \in 0 .. Len(hs) - 1
    PROVE  LET o == Len(Part(hs, k))
               w == Whole(hs[k + 1])
           IN  /\ o \in Nat /\ hs[k + 1] \in Headers
               /\ Len(Part(hs, k + 1)) = o + Len(w)
               /\ o + Len(w) <= Len(Stored(hs))
               /\ \A j \in 1 .. Len(w) : Stored(hs)[o + j] = w[j]
<1> DEFINE p == Part(hs, k)
           w == Whole(hs[k + 1])
           q == Part(hs, k + 1)
           s == Stored(hs)
<1>1. /\ k \in 0 .. Len(hs) /\ k + 1 \in 0 .. Len(hs) /\ Len(hs) \in 0 .. Len(hs)
      /\ k + 1 <= Len(hs)
  OBVIOUS
<1>2. q = p \o w /\ hs[k + 1] \in Headers /\ s = Part(hs, Len(hs))
  BY PartStep
<1>3. p \in Seq(Char) /\ w \in Seq(Char) /\ s \in Seq(Char)
  BY <1>1, <1>2, PartType, WholeType, StoredType
<1>4. Len(q) <= Len(s) /\ \A i \in 1 .. Len(q) : s[i] = q[i]
  BY <1>1, <1>2, PartPrefix
<1> DEFINE o == Len(p)
           l == Len(w)
<1> HIDE DEF p, w, q, s
<1>5. /\ o \in Nat /\ l \in Nat /\ Len(q) = o + l
      /\ \A j \in 1 .. l : q[o + j] = w[j]
  BY <1>2, <1>3, ConcatAt
<1> HIDE DEF o, l
<1>6. ASSUME NEW j \in 1 .. l PROVE s[o + j] = w[j]
  <2>1. o + j \in 1 .. Len(q)
    BY <1>5
  <2> QED
    BY <1>4, <1>5, <2>1
<1>7. o + l <= Len(s)
  BY <1>4, <1>5
<1> QED
  BY <1>2, <1>5, <1>6, <1>7 DEF p, w, q, s, o, l

\* The null characters of the store are those between the names and values.
LEMMA StoredMarks ==
    ASSUME NEW hs \in Seq(Headers)
    PROVE  /\ Marks(Stored(hs), Len(hs), Begins(hs), NameEnds(hs))
           /\ Begins(hs)[Len(hs)] = Len(Stored(hs))
<1> DEFINE s == Stored(hs)
           n == Len(hs)
           off == Begins(hs)
           mid == NameEnds(hs)
<1>1. n \in Nat /\ 0 \in 0 .. n /\ n \in 0 .. n
  OBVIOUS
<1>2. off = [k \in 0 .. n |-> Len(Part(hs, k))]
  BY DEF Begins
<1>3. off \in [0 .. n -> Nat]
  <2>1. \A k \in 0 .. n : Len(Part(hs, k)) \in Nat
    BY PartPrefix
  <2> QED
    BY <1>2, <2>1
<1>4. off[0] = 0 /\ off[n] = Len(s)
  <2>1. Part(hs, 0) = <<>> /\ Part(hs, n) = s
    BY PartStep
  <2> QED
    BY <1>1, <1>2, <2>1
<1>5. ASSUME NEW k \in 0 .. n - 1
      PROVE  /\ mid[k] \in Nat /\ off[k] < mid[k] /\ mid[k] < off[k + 1]
             /\ s[mid[k]] = Nul /\ s[off[k + 1]] = Nul
             /\ \A i \in Nat : off[k] < i /\ i < off[k + 1] /\ i # mid[k] => s[i] # Nul
  <2> DEFINE h == hs[k + 1]
             o == off[k]
             a == Len(h.name)
             v == Len(h.value)
             w == Whole(h)
  <2>1. k \in 0 .. n /\ k + 1 \in 0 .. n
    BY <1>1
  <2>2. /\ o \in Nat /\ h \in Headers /\ off[k + 1] = o + Len(w)
        /\ \A j \in 1 .. Len(w) : s[o + j] = w[j]
        /\ mid[k] = o + a + 1
    <3>1. off[k] = Len(Part(hs, k)) /\ off[k + 1] = Len(Part(hs, k + 1))
      BY <1>2, <2>1
    <3>2. mid[k] = Len(Part(hs, k)) + a + 1
      BY DEF NameEnds
    <3> QED
      BY <3>1, <3>2, StoredAt
  <2>3. /\ a \in Nat /\ v \in Nat /\ Len(w) = a + v + 2
        /\ \A j \in 1 .. a : w[j] # Nul
        /\ w[a + 1] = Nul
        /\ \A j \in 1 .. v : w[a + 1 + j] # Nul
        /\ w[a + v + 2] = Nul
    <3>1. TwoNuls(w, a, v)
      BY <2>2, WholeNuls
    <3> HIDE DEF w, a, v
    <3> QED
      BY ONLY <3>1 DEF TwoNuls
  <2>4. PICK b : b = mid[k]
    OBVIOUS
  <2>5. PICK c : c = off[k + 1]
    OBVIOUS
  <2> HIDE DEF s, o, a, v, w, h, mid, off
  <2>6. b = o + a + 1 /\ c = o + a + v + 2 /\ b \in Nat /\ c \in Nat /\ o < b /\ b < c
    <3>1. o \in Nat /\ c = o + Len(w) /\ b = o + a + 1
      BY ONLY <2>2, <2>4, <2>5
    <3>2. a \in Nat /\ v \in Nat /\ Len(w) = a + v + 2
      BY ONLY <2>3
    <3> QED
      BY ONLY <3>1, <3>2
  <2>7. s[b] = Nul /\ s[c] = Nul
    <3>1. a + 1 \in 1 .. Len(w) /\ a + v + 2 \in 1 .. Len(w)
      BY <2>3
    <3>2. b = o + (a + 1) /\ c = o + (a + v + 2)
      BY <2>2, <2>3, <2>6
    <3> QED
      BY <2>2, <2>3, <3>1, <3>2
  <2>8. ASSUME NEW i \in Nat, o < i, i < c, i # b PROVE s[i] # Nul
    <3>1. PICK j \in Nat : i = o + j
      <4>1. i - o \in Nat /\ i = o + (i - o)
        BY <2>2, <2>8
      <4> QED
        BY <4>1
    <3>2. j \in 1 .. Len(w) /\ j # a + 1 /\ j < a + v + 2 /\ j > 0
      BY <2>2, <2>3, <2>6, <2>8, <3>1
    <3>3. CASE j \in 1 .. a
      BY <2>2, <2>3, <3>1, <3>2, <3>3
    <3>4. CASE j > a
      <4>1. PICK g \in 1 .. v : j = a + 1 + g
        <5>1. j - a - 1 \in 1 .. v /\ j = a + 1 + (j - a - 1)
          BY <2>3, <3>2, <3>4
        <5> QED
          BY <5>1
      <4> QED
        BY <2>2, <2>3, <3>1, <3>2, <4>1
    <3> QED
      BY <2>3, <3>2, <3>3, <3>4
  <2> QED
    BY <2>4, <2>5, <2>6, <2>7, <2>8 DEF o
<1>6. mid \in [0 .. n - 1 -> Nat]
  <2>1. mid = [k \in 0 .. n - 1 |-> mid[k]]
    BY DEF NameEnds
  <2>2. \A k \in 0 .. n - 1 : mid[k] \in Nat
    BY <1>5
  <2> HIDE DEF mid, n
  <2> QED
    BY <2>1, <2>2
<1> QED
  BY <1>1, <1>3, <1>4, <1>5, <1>6 DEF Marks

\* The characters between two others.
LEMMA Between ==
    ASSUME NEW t \in Seq(Char), NEW o \in Nat, NEW b \in Nat, o < b, b <= Len(t)
    PROVE  LET x == SubSeq(t, o + 1, b - 1)
           IN  /\ x \in Seq(Char) /\ Len(x) = b - o - 1
               /\ \A j \in 1 .. b - o - 1 : x[j] = t[o + j]
<1> DEFINE x == SubSeq(t, o + 1, b - 1)
<1>1. \A i \in o + 1 .. b - 1 : t[i] \in Char
  <2>1. Len(t) \in Nat /\ \A i \in 1 .. Len(t) : t[i] \in Char
    OBVIOUS
  <2> QED
    BY <2>1
<1>2. o + 1 \in Int /\ b - 1 \in Int /\ (b - 1) - (o + 1) + 1 = b - o - 1
  OBVIOUS
<1>3. /\ x \in Seq(Char)
      /\ Len(x) = IF o + 1 <= b - 1 THEN b - o - 1 ELSE 0
      /\ \A j \in 1 .. b - o - 1 : x[j] = t[(o + 1) + j - 1]
  BY <1>1, <1>2, SubSeqProperties
<1>4. \A j \in 1 .. b - o - 1 : (o + 1) + j - 1 = o + j
  OBVIOUS
<1>5. Len(x) = b - o - 1
  BY <1>3
<1> HIDE DEF x
<1> QED
  BY <1>3, <1>4, <1>5 DEF x

\* What is read where a header begins that t has as a whole.
LEMMA StringsOf ==
    ASSUME NEW hs \in Seq(Headers), NEW t \in Seq(Char),
           Shows(t, Stored(hs), Len(hs), Begins(hs)),
           NEW k \in 0 .. Len(hs) - 1, Begins(hs)[k + 1] <= Len(t)
    PROVE  LET o == Begins(hs)[k]
               b == NameEnds(hs)[k]
               c == Begins(hs)[k + 1]
           IN  /\ o \in Nat /\ o < Len(t)
               /\ Ended(t, o + 1) /\ EndOf(t, o + 1) = b /\ EndOf(t, b + 1) = c
               /\ \A j \in Ends(t, o + 1) : j = b
               /\ \A j \in Ends(t, b + 1) : j = c
               /\ StringAt(t, o + 1) = Text(hs[k + 1].name)
               /\ StringAt(t, b + 1) = Text(hs[k + 1].value)
<1> DEFINE s == Stored(hs)
           n == Len(hs)
           h == hs[k + 1]
           a == Len(h.name)
           v == Len(h.value)
           w == Whole(h)
           l == Len(t)
           o == Begins(hs)[k]
           b == NameEnds(hs)[k]
           c == Begins(hs)[k + 1]
<1>1. /\ l \in Nat /\ DOMAIN t = 1 .. l /\ \A i \in 1 .. l : t[i] = s[i]
  BY DEF Shows
<1>2. /\ o \in Nat /\ b \in Nat /\ c \in Nat /\ o < b /\ b < c /\ c <= l
      /\ s[b] = Nul /\ s[c] = Nul
      /\ \A i \in Nat : o < i /\ i < c /\ i # b => s[i] # Nul
  <2>1. Marks(s, n, Begins(hs), NameEnds(hs))
    BY StoredMarks
  <2>2. k \in 0 .. n /\ k + 1 \in 0 .. n
    OBVIOUS
  <2>3. o \in Nat /\ c \in Nat /\ b \in Nat
    BY <2>1, <2>2 DEF Marks
  <2> QED
    BY <2>1, <2>3 DEF Marks
<1>3. /\ h \in Headers /\ c = o + Len(w) /\ b = o + a + 1
      /\ \A j \in 1 .. Len(w) : s[o + j] = w[j]
  <2>1. k \in 0 .. n /\ k + 1 \in 0 .. n
    OBVIOUS
  <2>2. o = Len(Part(hs, k)) /\ c = Len(Part(hs, k + 1)) /\ b = Len(Part(hs, k)) + a + 1
    BY <2>1 DEF Begins, NameEnds
  <2> QED
    BY <2>2, StoredAt
<1>4. /\ a \in Nat /\ v \in Nat /\ Len(w) = a + v + 2
      /\ \A j \in 1 .. a : w[j] = h.name[j]
      /\ \A j \in 1 .. v : w[a + 1 + j] = h.value[j]
  BY <1>3, WholeAt
<1>5. h.name \in Seq(Char) /\ h.value \in Seq(Char)
  BY <1>3, WholeType
<1> HIDE DEF s, n, a, v, w, l, o, b, c, h
<1>6. Nuls(t) \subseteq Nat /\ \A i : i \in Nuls(t) <=> i \in 1 .. l /\ s[i] = Nul
  BY <1>1 DEF Nuls
<1>7. b \in Nuls(t) /\ c \in Nuls(t)
  BY <1>1, <1>2, <1>6
<1>8. EndOf(t, o + 1) = b
  <2>1. \A j \in Nuls(t) : j >= o + 1 => b <= j
    BY <1>1, <1>2, <1>6
  <2>2. o + 1 \in Nat /\ b >= o + 1
    BY <1>2
  <2> QED
    BY <1>2, <1>6, <1>7, <2>1, <2>2, EndIs
<1>9. EndOf(t, b + 1) = c
  <2>1. \A j \in Nuls(t) : j >= b + 1 => c <= j
    BY <1>1, <1>2, <1>6
  <2>2. b + 1 \in Nat /\ c >= b + 1
    BY <1>2
  <2> QED
    BY <1>2, <1>6, <1>7, <2>1, <2>2, EndIs
<1>10. /\ Ended(t, o + 1) /\ Ended(t, b + 1)
       /\ Ends(t, o + 1) = {b} /\ Ends(t, b + 1) = {c}
  <2>1. b >= o + 1 /\ c >= b + 1
    BY <1>2
  <2>2. Ended(t, o + 1) /\ Ended(t, b + 1)
    BY <1>7, <2>1 DEF Ended
  <2> QED
    BY <1>8, <1>9, <2>2 DEF Ends
<1>11. StringAt(t, o + 1) = Text(h.name)
  <2> DEFINE x == SubSeq(t, o + 1, b - 1)
  <2>1. StringAt(t, o + 1) = Text(x)
    BY <1>8, <1>10 DEF StringAt
  <2>2. x \in Seq(Char) /\ Len(x) = a /\ \A j \in 1 .. a : x[j] = t[o + j]
    <3>1. b <= Len(t) /\ b - o - 1 = a
      BY <1>1, <1>2, <1>3, <1>4 DEF l
    <3>2. /\ x \in Seq(Char) /\ Len(x) = b - o - 1
          /\ \A j \in 1 .. b - o - 1 : x[j] = t[o + j]
      BY <1>2, <3>1, Between
    <3> QED
      BY <3>1, <3>2
  <2>3. ASSUME NEW j \in 1 .. a PROVE x[j] = h.name[j]
    <3>1. o + j \in 1 .. l /\ j \in 1 .. Len(w)
      BY <1>1, <1>2, <1>3, <1>4
    <3> QED
      BY <1>1, <1>3, <1>4, <2>2, <3>1
  <2> HIDE DEF x
  <2> QED
    BY <1>5, <2>1, <2>2, <2>3, SeqEqual DEF a
<1>12. StringAt(t, b + 1) = Text(h.value)
  <2> DEFINE x == SubSeq(t, b + 1, c - 1)
  <2>1. StringAt(t, b + 1) = Text(x)
    BY <1>9, <1>10 DEF StringAt
  <2>2. x \in Seq(Char) /\ Len(x) = v /\ \A j \in 1 .. v : x[j] = t[b + j]
    <3>1. c <= Len(t) /\ c - b - 1 = v
      BY <1>1, <1>2, <1>3, <1>4 DEF l
    <3>2. /\ x \in Seq(Char) /\ Len(x) = c - b - 1
          /\ \A j \in 1 .. c - b - 1 : x[j] = t[b + j]
      BY <1>2, <3>1, Between
    <3> QED
      BY <3>1, <3>2
  <2>3. ASSUME NEW j \in 1 .. v PROVE x[j] = h.value[j]
    <3>1. PICK g : g = a + 1 + j
      OBVIOUS
    <3>2. b + j \in 1 .. l /\ g \in 1 .. Len(w) /\ b + j = o + g
      BY <1>1, <1>2, <1>3, <1>4, <3>1
    <3>3. x[j] = t[b + j] /\ t[b + j] = s[b + j]
      BY <1>1, <2>2, <3>2
    <3>4. s[o + g] = w[g] /\ w[g] = h.value[j]
      BY <1>3, <1>4, <3>1, <3>2
    <3> QED
      BY <3>2, <3>3, <3>4
  <2> HIDE DEF x
  <2> QED
    BY <1>5, <2>1, <2>2, <2>3, SeqEqual DEF v
<1>13. o < l
  BY <1>1, <1>2
<1> QED
  BY <1>2, <1>8, <1>9, <1>11, <1>12, <1>13, <1>10 DEF o, b, c, h, l

\* A string without an end is not whole, and goes on behind the store.
LEMMA EndsBehind ==
    ASSUME NEW t, Len(t) \in Nat, NEW i \in Nat, ~Ended(t, i)
    PROVE  /\ ~StringAt(t, i).whole
           /\ \A j \in Ends(t, i) : j \in Nat /\ j > Len(t)
<1>1. ~StringAt(t, i).whole
  BY DEF StringAt
<1>2. ASSUME NEW j \in Ends(t, i) PROVE j \in Nat /\ j > Len(t)
  <2>1. CASE i > Len(t)
    BY <1>2, <2>1 DEF Ends
  <2>2. CASE ~(i > Len(t))
    BY <1>2, <2>2 DEF Ends
  <2> QED
    BY <2>1, <2>2
<1> QED
  BY <1>1, <1>2

\* No string begins behind the store and ends in it.
LEMMA NoneBehind ==
    ASSUME NEW t \in Seq(Char), NEW i \in Nat, i > Len(t)
    PROVE  ~Ended(t, i)
  BY DEF Ended, Nuls

\* What is read where a header begins of which t has only a part: the value,
\* wherever it is taken to begin, has no end.
LEMMA StringsCut ==
    ASSUME NEW hs \in Seq(Headers), NEW t \in Seq(Char),
           Shows(t, Stored(hs), Len(hs), Begins(hs)), NEW k \in 0 .. Len(hs) - 1,
           Begins(hs)[k] < Len(t), Len(t) < Begins(hs)[k + 1]
    PROVE  \A e \in Ends(t, Begins(hs)[k] + 1) : e \in Nat /\ ~Ended(t, e + 1)
<1> DEFINE s == Stored(hs)
           n == Len(hs)
           l == Len(t)
           o == Begins(hs)[k]
           b == NameEnds(hs)[k]
           c == Begins(hs)[k + 1]
<1>1. /\ l \in Nat /\ DOMAIN t = 1 .. l /\ \A i \in 1 .. l : t[i] = s[i]
  BY DEF Shows
<1>2. /\ o \in Nat /\ b \in Nat /\ c \in Nat /\ o < l /\ l < c
      /\ \A i \in Nat : o < i /\ i < c /\ i # b => s[i] # Nul
  <2>1. Marks(s, n, Begins(hs), NameEnds(hs))
    BY StoredMarks
  <2>2. k \in 0 .. n /\ k + 1 \in 0 .. n
    OBVIOUS
  <2>3. o \in Nat /\ c \in Nat /\ b \in Nat
    BY <2>1, <2>2 DEF Marks
  <2> QED
    BY <2>1, <2>3 DEF Marks
<1> HIDE DEF s, n, o, b, c
<1>3. \A i : i \in Nuls(t) <=> i \in 1 .. l /\ s[i] = Nul
  BY <1>1 DEF Nuls
<1> HIDE DEF l
<1>4. \A i \in Nuls(t) : i >= o + 1 => i = b
  BY <1>1, <1>2, <1>3
<1>5. CASE Ended(t, o + 1)
  <2>1. PICK i \in Nuls(t) : i >= o + 1
    BY <1>5 DEF Ended
  <2>2. i = b /\ b \in Nuls(t) /\ b >= o + 1
    BY <1>4, <2>1
  <2>3. Nuls(t) \subseteq Nat
    BY <1>1, <1>3
  <2>4. \A j \in Nuls(t) : j >= o + 1 => b <= j
    BY <1>2, <1>4
  <2>5. EndOf(t, o + 1) = b
    <3>1. o + 1 \in Nat
      BY <1>2
    <3> QED
      BY <1>2, <2>2, <2>3, <2>4, <3>1, EndIs
  <2>6. Ends(t, o + 1) = {b}
    BY <1>5, <2>5 DEF Ends
  <2>7. ~Ended(t, b + 1)
    <3> SUFFICES ASSUME NEW j \in Nuls(t), j >= b + 1 PROVE FALSE
      BY DEF Ended
    <3>1. j \in Nat /\ j >= o + 1
      BY <1>2, <2>2, <2>3
    <3>2. j = b
      BY <1>4, <3>1
    <3> QED
      BY <1>2, <3>2
  <2> QED
    BY <1>2, <2>6, <2>7 DEF o
<1>6. CASE ~Ended(t, o + 1)
  <2>1. ASSUME NEW e \in Ends(t, o + 1) PROVE e \in Nat /\ ~Ended(t, e + 1)
    <3>1. e \in Nat /\ e > Len(t)
      BY <1>1, <1>2, <1>6, EndsBehind DEF l
    <3>2. e + 1 \in Nat /\ e + 1 > Len(t)
      BY <1>1, <3>1 DEF l
    <3> QED
      BY <3>1, <3>2, NoneBehind
  <2> QED
    BY <2>1 DEF o
<1> QED
  BY <1>5, <1>6

\* FirstOf, Kept and Decided, of any headers and store.
FoundIn(hs, name) == {i \in DOMAIN hs : StrEqual(hs[i].name, name)}
FirstIs(hs, name) ==
    LET found == {i \in DOMAIN hs : StrEqual(hs[i].name, name)}
    IN  IF found = {} THEN Null
        ELSE Text(hs[CHOOSE i \in found : \A j \in found : i <= j].value)
KeptIn(hs, t) == {i \in DOMAIN hs : Len(Stored(Take(hs, i))) <= Len(t)}
DecidedIn(hs, t, lost, name) ==
    ~lost \/ \E i \in KeptIn(hs, t) : StrEqual(hs[i].name, name)

\* The headers that are kept are those that end in the store.
LEMMA KeptAt ==
    ASSUME NEW hs \in Seq(Headers), NEW t
    PROVE  \A i : i \in KeptIn(hs, t) <=> i \in 1 .. Len(hs) /\ Begins(hs)[i] <= Len(t)
<1>1. \A i \in 1 .. Len(hs) : Begins(hs)[i] = Len(Stored(Take(hs, i)))
  BY DEF Begins, Part, Take
<1>2. DOMAIN hs = 1 .. Len(hs)
  OBVIOUS
<1> QED
  BY <1>1, <1>2 DEF KeptIn

\* The names that may be the one that is asked for.
Matches(t, name) == {i \in NamesAt(t) : MayEqual(StringAt(t, i), name)}

\* They are those of the headers that have it, and perhaps of one that was cut.
LEMMA MatchesOnly ==
    ASSUME NEW hs \in Seq(Headers), NEW t \in Seq(Char),
           Shows(t, Stored(hs), Len(hs), Begins(hs)), NEW name,
           NEW i \in Matches(t, name)
    PROVE  \E k \in 0 .. Len(hs) - 1 :
              /\ i = Begins(hs)[k] + 1 /\ Begins(hs)[k] < Len(t)
              /\ Begins(hs)[k + 1] <= Len(t) => k + 1 \in FoundIn(hs, name)
<1>1. i \in NamesAt(t) /\ MayEqual(StringAt(t, i), name)
  BY DEF Matches
<1>2. Marks(Stored(hs), Len(hs), Begins(hs), NameEnds(hs))
  BY StoredMarks
<1>3. PICK k \in 0 .. Len(hs) - 1 : i = Begins(hs)[k] + 1 /\ Begins(hs)[k] < Len(t)
  BY <1>1, <1>2, NamesOnly
<1>4. ASSUME Begins(hs)[k + 1] <= Len(t) PROVE k + 1 \in FoundIn(hs, name)
  <2>1. StringAt(t, i) = Text(hs[k + 1].name)
    BY <1>3, <1>4, StringsOf
  <2>2. StrEqual(hs[k + 1].name, name)
    BY <1>1, <2>1 DEF MayEqual, Text
  <2>3. k + 1 \in DOMAIN hs
    OBVIOUS
  <2> QED
    BY <2>2, <2>3 DEF FoundIn
<1> QED
  BY <1>3, <1>4

LEMMA MatchesAll ==
    ASSUME NEW hs \in Seq(Headers), NEW t \in Seq(Char),
           Shows(t, Stored(hs), Len(hs), Begins(hs)), NEW name,
           NEW k \in 0 .. Len(hs) - 1, Begins(hs)[k + 1] <= Len(t),
           k + 1 \in FoundIn(hs, name)
    PROVE  Begins(hs)[k] + 1 \in Matches(t, name)
<1>1. Marks(Stored(hs), Len(hs), Begins(hs), NameEnds(hs))
  BY StoredMarks
<1>2. Begins(hs)[k] < Len(t) /\ StringAt(t, Begins(hs)[k] + 1) = Text(hs[k + 1].name)
  BY StringsOf
<1>3. Begins(hs)[k] + 1 \in NamesAt(t)
  BY <1>1, <1>2, NamesAll
<1>4. StrEqual(hs[k + 1].name, name)
  BY DEF FoundIn
<1> QED
  BY <1>2, <1>3, <1>4 DEF Matches, MayEqual, Text

\* The least of a set of numbers.
LEMMA LeastIs ==
    ASSUME NEW S, S \subseteq Nat, NEW i \in S, \A j \in S : i <= j
    PROVE  (CHOOSE j \in S : \A m \in S : j <= m) = i
<1>1. \A j \in S : (\A m \in S : j <= m) => j = i
  OBVIOUS
<1> QED
  BY <1>1

\* wic_get_header, with the least of the matches.
LEMMA GetHeaderIs ==
    ASSUME NEW t, NEW name
    PROVE  /\ Matches(t, name) = {} => WicGetHeader(t, name) = {Null}
           /\ \A i \in Matches(t, name) :
                 Matches(t, name) \subseteq Nat /\ (\A j \in Matches(t, name) : i <= j)
                 => WicGetHeader(t, name) =
                       IF Ended(t, i) THEN {StringAt(t, EndOf(t, i) + 1)}
                       ELSE {Null, StringAt(t, Len(t) + 1)}
<1> DEFINE F == Matches(t, name)
           f == CHOOSE i \in F : \A j \in F : i <= j
<1>1. WicGetHeader(t, name) =
         IF F = {} THEN {Null}
         ELSE IF Ended(t, f) THEN {StringAt(t, EndOf(t, f) + 1)}
         ELSE {Null, StringAt(t, Len(t) + 1)}
  BY DEF WicGetHeader, Matches
<1>2. ASSUME NEW i \in F, F \subseteq Nat, \A j \in F : i <= j
      PROVE  f = i /\ F # {}
  <2> HIDE DEF F
  <2> QED
    BY <1>2, LeastIs
<1> HIDE DEF F, f
<1>3. ASSUME NEW i \in F, F \subseteq Nat, \A j \in F : i <= j
      PROVE  WicGetHeader(t, name) =
                IF Ended(t, i) THEN {StringAt(t, EndOf(t, i) + 1)}
                ELSE {Null, StringAt(t, Len(t) + 1)}
  BY <1>1, <1>2, <1>3, Zenon
<1>4. F = {} => WicGetHeader(t, name) = {Null}
  BY <1>1, Zenon
<1> QED
  BY <1>3, <1>4 DEF F

\* wic_get_header finds the first header of the name, if that is kept, ...
LEMMA LookupKept ==
    ASSUME NEW hs \in Seq(Headers), NEW t \in Seq(Char),
           Shows(t, Stored(hs), Len(hs), Begins(hs)), NEW name,
           NEW found \in FoundIn(hs, name), Begins(hs)[found] <= Len(t),
           NEW a \in WicGetHeader(t, name)
    PROVE  a = FirstIs(hs, name)
<1> DEFINE n == Len(hs)
           off == Begins(hs)
           mid == NameEnds(hs)
           F == Matches(t, name)
           G == FoundIn(hs, name)
<1>1. /\ n \in Nat /\ Marks(Stored(hs), n, off, mid) /\ Len(t) \in Nat
      /\ off \in [0 .. n -> Nat]
  BY StoredMarks DEF Marks
<1>2. G \in SUBSET Nat /\ G \subseteq 1 .. n /\ found \in G
  BY DEF FoundIn
<1>3. PICK g \in G : \A j \in G : g <= j
  <2> HIDE DEF n, off, mid, F, G
  <2>1. G # {}
    BY <1>2
  <2> QED
    BY <1>2, <2>1, SmallestExists
<1>4. PICK k : k = g - 1
  OBVIOUS
<1>5. /\ k \in 0 .. n - 1 /\ k + 1 = g /\ k \in 0 .. n /\ g \in 0 .. n /\ found \in 0 .. n
      /\ g <= found /\ k \in Nat
  BY <1>1, <1>2, <1>3, <1>4
<1>6. off[k + 1] <= Len(t)
  <2>1. off[g] <= off[found] /\ off[g] \in Nat /\ off[found] \in Nat
    BY <1>1, <1>5, MarksGrow
  <2> QED
    BY <1>1, <1>5, <2>1
<1>7. off[k] + 1 \in F
  BY <1>3, <1>5, <1>6, MatchesAll
<1>8. ASSUME NEW i \in F PROVE i \in Nat /\ off[k] + 1 <= i
  <2>1. PICK m \in 0 .. n - 1 :
           /\ i = off[m] + 1
           /\ off[m + 1] <= Len(t) => m + 1 \in G
    BY MatchesOnly
  <2>2. /\ m \in 0 .. n /\ m + 1 \in 0 .. n /\ off[m] \in Nat /\ off[k] \in Nat
        /\ off[m + 1] \in Nat /\ off[k + 1] \in Nat /\ k + 1 \in 0 .. n
    <3> HIDE DEF n, off, mid, F, G
    <3>1. m \in 0 .. n /\ m + 1 \in 0 .. n
      BY ONLY <1>1, m \in 0 .. n - 1
    <3> QED
      BY ONLY <1>1, <1>5, <3>1
  <2>3. CASE m < k
    <3>1. m + 1 <= k + 1
      BY <1>5, <2>3
    <3>2. off[m + 1] <= off[k + 1]
      BY <1>1, <2>2, <3>1, MarksGrow
    <3>3. m + 1 \in G
      BY <1>1, <1>6, <2>1, <2>2, <3>2
    <3>4. g <= m + 1
      BY <1>3, <3>3
    <3> QED
      BY <1>5, <2>3, <3>4
  <2>4. CASE k <= m
    <3>1. off[k] <= off[m]
      BY <1>1, <1>5, <2>2, <2>4, MarksGrow
    <3> QED
      BY <2>1, <2>2, <3>1
  <2> QED
    BY <1>5, <2>3, <2>4
<1>9. a = StringAt(t, EndOf(t, off[k] + 1) + 1)
  <2>1. Ended(t, off[k] + 1)
    BY <1>5, <1>6, StringsOf
  <2>2. F \subseteq Nat /\ \A j \in F : off[k] + 1 <= j
    BY <1>8
  <2> HIDE DEF F
  <2>3. WicGetHeader(t, name) = {StringAt(t, EndOf(t, off[k] + 1) + 1)}
    BY <1>7, <2>1, <2>2, GetHeaderIs, Zenon DEF F
  <2> QED
    BY <2>3
<1>10. a = Text(hs[g].value)
  BY <1>5, <1>6, <1>9, StringsOf
<1>11. FirstIs(hs, name) = Text(hs[g].value)
  <2> HIDE DEF G
  <2>1. (CHOOSE j \in G : \A m \in G : j <= m) = g
    BY <1>2, <1>3, LeastIs
  <2>2. FirstIs(hs, name) =
           IF G = {} THEN Null ELSE Text(hs[CHOOSE i \in G : \A j \in G : i <= j].value)
    BY DEF G, FirstIs, FoundIn
  <2> QED
    BY <1>3, <2>1, <2>2, Zenon
<1> QED
  BY <1>10, <1>11

\* ... and otherwise nothing or a string without an end, ...
LEMMA LookupLost ==
    ASSUME NEW hs \in Seq(Headers), NEW t \in Seq(Char),
           Shows(t, Stored(hs), Len(hs), Begins(hs)), NEW name,
           \A i \in FoundIn(hs, name) : ~(Begins(hs)[i] <= Len(t)),
           NEW a \in WicGetHeader(t, name)
    PROVE  /\ a # Null => ~a.whole
           /\ Len(t) = Begins(hs)[Len(hs)] => a = Null
<1> DEFINE n == Len(hs)
           off == Begins(hs)
           F == Matches(t, name)
<1>1. /\ n \in Nat /\ Marks(Stored(hs), n, off, NameEnds(hs)) /\ Len(t) \in Nat
      /\ off \in [0 .. n -> Nat]
  BY StoredMarks DEF Marks
<1>2. ASSUME NEW i \in F
      PROVE  /\ i \in Nat
             /\ \E k \in 0 .. n - 1 : i = off[k] + 1 /\ off[k] < Len(t) /\ Len(t) < off[k + 1]
  <2>1. PICK k \in 0 .. n - 1 :
           /\ i = off[k] + 1 /\ off[k] < Len(t)
           /\ off[k + 1] <= Len(t) => k + 1 \in FoundIn(hs, name)
    BY MatchesOnly
  <2>2. ~(off[k + 1] <= Len(t))
    BY <2>1
  <2>3. off[k] \in Nat /\ off[k + 1] \in Nat
    <3>1. k \in 0 .. n /\ k + 1 \in 0 .. n
      BY <1>1
    <3> QED
      BY <1>1, <3>1
  <2> QED
    BY <1>1, <2>1, <2>2, <2>3
<1>3. CASE F = {}
  <2>1. WicGetHeader(t, name) = {Null}
    BY <1>3, GetHeaderIs
  <2> QED
    BY <2>1
<1>4. CASE F # {}
  <2>1. F \subseteq Nat
    BY <1>2
  <2>2. PICK i \in F : \A j \in F : i <= j
    <3> HIDE DEF F
    <3> QED
      BY <1>4, <2>1, SmallestExists
  <2>3. PICK k \in 0 .. n - 1 : i = off[k] + 1 /\ off[k] < Len(t) /\ Len(t) < off[k + 1]
    BY <1>2
  <2>4. \A e \in Ends(t, i) : e \in Nat /\ ~Ended(t, e + 1)
    BY <2>3, StringsCut
  <2>5. WicGetHeader(t, name) = IF Ended(t, i) THEN {StringAt(t, EndOf(t, i) + 1)}
                                ELSE {Null, StringAt(t, Len(t) + 1)}
    <3> HIDE DEF F
    <3> QED
      BY <2>1, <2>2, GetHeaderIs, Zenon DEF F
  <2>6. a # Null => ~a.whole
    <3>1. CASE Ended(t, i)
      <4>1. PICK e : e = EndOf(t, i)
        OBVIOUS
      <4>2. e \in Ends(t, i)
        BY <3>1, <4>1 DEF Ends
      <4>3. e + 1 \in Nat /\ ~Ended(t, e + 1)
        BY <2>4, <4>2
      <4>4. a = StringAt(t, e + 1)
        BY <2>5, <3>1, <4>1
      <4>5. ~StringAt(t, e + 1).whole
        BY <1>1, <4>3, EndsBehind
      <4> QED
        BY <4>4, <4>5
    <3>2. CASE ~Ended(t, i)
      <4>1. Len(t) + 1 \in Nat /\ Len(t) + 1 > Len(t)
        BY <1>1
      <4>2. ~StringAt(t, Len(t) + 1).whole
        BY <1>1, <4>1, NoneBehind, EndsBehind
      <4>3. a = Null \/ a = StringAt(t, Len(t) + 1)
        BY <2>5, <3>2
      <4> QED
        BY <4>2, <4>3
    <3> QED
      BY <3>1, <3>2
  <2>7. Len(t) # off[n]
    <3>1. k + 1 \in 0 .. n /\ n \in 0 .. n /\ k + 1 <= n
      BY <1>1
    <3>2. off[k + 1] <= off[n] /\ off[k + 1] \in Nat /\ off[n] \in Nat
      BY <1>1, <3>1, MarksGrow
    <3> QED
      BY <1>1, <2>3, <3>2
  <2> QED
    BY <2>6, <2>7
<1> QED
  BY <1>3, <1>4

\* ... in a store that was cut: in one that has all the headers, nothing.
LEMMA LookupFinds ==
    ASSUME NEW hs \in Seq(Headers), NEW t \in Seq(Char),
           Shows(t, Stored(hs), Len(hs), Begins(hs)),
           NEW lost, ~lost => t = Stored(hs), NEW name,
           NEW a \in WicGetHeader(t, name)
    PROVE  IF DecidedIn(hs, t, lost, name) THEN a = FirstIs(hs, name)
           ELSE a # Null => ~a.whole
<1>1. CASE \E i \in FoundIn(hs, name) : Begins(hs)[i] <= Len(t)
  <2>1. PICK i \in FoundIn(hs, name) : Begins(hs)[i] <= Len(t)
    BY <1>1
  <2>2. a = FirstIs(hs, name)
    BY <2>1, LookupKept
  <2>3. DecidedIn(hs, t, lost, name)
    <3>1. i \in 1 .. Len(hs) /\ StrEqual(hs[i].name, name)
      BY DEF FoundIn
    <3>2. i \in KeptIn(hs, t)
      BY <2>1, <3>1, KeptAt
    <3> QED
      BY <3>1, <3>2 DEF DecidedIn
  <2> QED
    BY <2>2, <2>3
<1>2. CASE \A i \in FoundIn(hs, name) : ~(Begins(hs)[i] <= Len(t))
  <2>1. /\ a # Null => ~a.whole
        /\ Len(t) = Begins(hs)[Len(hs)] => a = Null
    BY <1>2, LookupLost
  <2>2. ASSUME DecidedIn(hs, t, lost, name) PROVE a = FirstIs(hs, name)
    <3>1. ASSUME NEW i \in KeptIn(hs, t), StrEqual(hs[i].name, name) PROVE FALSE
      <4>1. i \in 1 .. Len(hs) /\ Begins(hs)[i] <= Len(t)
        BY <3>1, KeptAt
      <4>2. i \in FoundIn(hs, name)
        BY <3>1, <4>1 DEF FoundIn
      <4> QED
        BY <1>2, <4>1, <4>2
    <3>2. ~lost
      BY <2>2, <3>1 DEF DecidedIn
    <3>3. Len(t) = Begins(hs)[Len(hs)] /\ Len(t) \in Nat
      BY <3>2, StoredMarks
    <3>4. a = Null
      BY <2>1, <3>3
    <3>5. ASSUME NEW i \in FoundIn(hs, name) PROVE FALSE
      <4>1. i \in 0 .. Len(hs) /\ Len(hs) \in 0 .. Len(hs) /\ i <= Len(hs)
        BY DEF FoundIn
      <4>2. Marks(Stored(hs), Len(hs), Begins(hs), NameEnds(hs))
        BY StoredMarks
      <4>3. Begins(hs)[i] <= Begins(hs)[Len(hs)]
        BY <4>1, <4>2, MarksGrow
      <4> QED
        BY <1>2, <3>3, <4>3
    <3>6. FoundIn(hs, name) = {}
      BY <3>5
    <3>7. FirstIs(hs, name) = Null
      BY <3>6, Zenon DEF FirstIs, FoundIn
    <3> QED
      BY <3>4, <3>7
  <2> QED
    BY <2>1, <2>2
<1> QED
  BY <1>1, <1>2

\* A prefix of what is stored of the headers shows them as far as it goes.
LEMMA PrefixShows ==
    ASSUME NEW hs \in Seq(Headers), NEW t \in Seq(Char), IsPrefix(t, Stored(hs))
    PROVE  Shows(t, Stored(hs), Len(hs), Begins(hs))
<1> DEFINE s == Stored(hs)
           l == Len(t)
<1>1. /\ l \in Nat /\ DOMAIN t = 1 .. l
      /\ s \in Seq(Char) /\ Len(s) \in Nat
  BY StoredType
<1>2. l <= Len(s) /\ SubSeq(t, 1, l) = SubSeq(s, 1, l)
  BY DEF IsPrefix
<1>3. Begins(hs)[Len(hs)] = Len(s)
  BY StoredMarks
<1>4. ASSUME NEW i \in 1 .. l PROVE t[i] = s[i]
  <2> HIDE DEF s, l
  <2>1. SubSeq(t, 1, l)[i] = t[i] /\ SubSeq(s, 1, l)[i] = s[i]
    BY <1>1, <1>2 DEF l
  <2> QED
    BY <1>2, <2>1
<1> QED
  BY <1>1, <1>2, <1>3, <1>4 DEF Shows

\* The store of a complete response is what its headers say, or, when one did
\* not fit, the beginning of it.
LEMMA GivenStored ==
    ASSUME StoreInv, answer.given
    PROVE  /\ Wanted = Stored(headers)
           /\ headers \in Seq(Headers) /\ store \in Seq(Char)
           /\ Shows(store, Stored(headers), Len(headers), Begins(headers))
           /\ ~error => store = Stored(headers)
<1>1. /\ headers \in Seq(Headers) /\ hstate \in {"IDLE", "VALUE"}
      /\ (hstate = "IDLE") = (headers = <<>>) /\ answer.given = TRUE
  BY DEF StoreInv, Place
<1>2. Wanted = Stored(headers)
  <2>1. CASE hstate = "IDLE"
    BY <1>1, <2>1, WantedSame, StoredEmpty DEF WantedIn
  <2>2. CASE hstate = "VALUE"
    BY <1>1, <2>2, WantedSame, WantedCases, WantedGrows
  <2> QED
    BY <1>1, <2>1, <2>2
<1>3. /\ store \in Seq(Char) /\ IsPrefix(store, Stored(headers))
      /\ ~error => store = Stored(headers)
  BY <1>2 DEF StoreInv, Holds, Rx
<1>4. Shows(store, Stored(headers), Len(headers), Begins(headers))
  BY <1>1, <1>3, PrefixShows
<1> QED
  BY <1>1, <1>2, <1>3, <1>4

\* FirstOf and Decided, as operators of what they depend on.
LEMMA FirstSame ==
    ASSUME NEW name
    PROVE  /\ FirstOf(name) = FirstIs(headers, name)
           /\ FirstOf(name)' = FirstIs(headers', name)
           /\ Decided(name) = DecidedIn(headers, store, error, name)
           /\ Decided(name)' = DecidedIn(headers', store', error', name)
<1>1. /\ FirstOf(name) = FirstIs(headers, name)
      /\ FirstOf(name)' = FirstIs(headers', name)
  BY Zenon DEF FirstOf, FirstIs
<1>2. /\ Decided(name) = DecidedIn(headers, store, error, name)
      /\ Decided(name)' = DecidedIn(headers', store', error', name)
  BY Zenon DEF Decided, DecidedIn, Kept, KeptIn
<1> QED
  BY <1>1, <1>2

\* In the complete response wic_get_header finds the value of the first header
\* of a name, also if the response was cut behind it, and never that of another
\* name or, as if it were whole, what is left of one that was cut.
THEOREM LookupRightHolds == Spec => []LookupRight
<1>1. BufferInv => LookupRight
  <2> SUFFICES ASSUME BufferInv, held, answer.given,
                      NEW name \in {h.name : h \in Headers} \cup {LocationName},
                      NEW found \in WicGetHeader(store, name)
               PROVE  IF Decided(name) THEN found = FirstOf(name)
                      ELSE found # Null => ~found.whole
    BY DEF LookupRight
  <2>1. /\ headers \in Seq(Headers) /\ store \in Seq(Char)
        /\ Shows(store, Stored(headers), Len(headers), Begins(headers))
        /\ ~error => store = Stored(headers)
    BY BufferKept, GivenStored
  <2>2. IF DecidedIn(headers, store, error, name) THEN found = FirstIs(headers, name)
        ELSE found # Null => ~found.whole
    BY <2>1, LookupFinds
  <2> QED
    BY <2>2, FirstSame
<1> QED
  BY <1>1, BufferKept, PTL DEF Spec

\* What the end of a response finds in the store.
LEMMA CompleteFinds ==
    ASSUME StoreInv, NEW status, NEW upgrade, Complete(status, upgrade), NEW name,
           Decided(name)', NEW a \in WicGetHeader(store', name)
    PROVE  a = FirstOf(name)'
<1>1. StoreInv' /\ Wanted' = Stored(headers) /\ headers' = headers
  BY CompleteStores DEF Complete
<1>2. /\ headers' \in Seq(Headers) /\ store' \in Seq(Char)
      /\ IsPrefix(store', Stored(headers'))
      /\ ~error' => store' = Stored(headers')
  BY <1>1 DEF StoreInv, Place, Holds, Rx
<1>3. Shows(store', Stored(headers'), Len(headers'), Begins(headers'))
  BY <1>2, PrefixShows
<1>4. DecidedIn(headers', store', error', name)
  BY FirstSame
<1>5. a = FirstIs(headers', name)
  BY <1>2, <1>3, <1>4, LookupFinds
<1> QED
  BY <1>5, FirstSame

\* The first header of a name is nothing, or whole.
LEMMA FirstWhole ==
    ASSUME NEW hs, NEW name, FirstIs(hs, name) # Null
    PROVE  \E v : FirstIs(hs, name) = Text(v)
  BY DEF FirstIs

\* Only a response that switches protocols opens the connection; if the buffer
\* has the headers that matter it does exactly when it is valid, and leaves the
\* URL of its location exactly when it redirects.
THEOREM VerdictRightHolds == Spec => VerdictRight
<1> DEFINE Step ==
             state = "PARSE_HANDSHAKE" /\ answer'.given
             => /\ state' = "READY" => answer'.status = 101 /\ answer'.upgrade
                /\ Decided(UpgradeName)' /\ Decided(AcceptName)'
                   => (state' = "READY" <=> Valid(answer'))
                /\ answer'.status \notin Redirects => redirect' = Null
                /\ answer'.status \in Redirects /\ Decided(LocationName)'
                   => redirect' = FirstOf(LocationName)
<1>1. BufferInv /\ [Next]_vars => [Step]_vars
  <2> SUFFICES ASSUME BufferInv, [Next]_vars, state = "PARSE_HANDSHAKE", answer'.given
               PROVE  Step
    OBVIOUS
  <2>0. StoreInv
    BY DEF BufferInv, Reused
  <2>1. answer' # answer /\ ~NoAnswer.given
    BY <2>0 DEF StoreInv, Place, NoAnswer
  <2>2. PICK status \in Statuses, upgrade \in BOOLEAN : Complete(status, upgrade)
    <3>1. ~WicInit
      BY <2>1 DEF WicInit
    <3>2. /\ ~UNCHANGED vars /\ ~StartClient /\ (\A n \in Nodes : ~WicSetHeader(n))
          /\ (\A h \in Headers : ~FieldStarts(h)) /\ ~FieldGoesOn /\ ~ValueStarts
          /\ ~ValueGoesOn
      BY <2>1 DEF vars, StartClient, WicSetHeader, FieldStarts, FieldGoesOn,
                  ValueStarts, ValueGoesOn, Responding
    <3>3. /\ ~Breaks /\ ~WicGetNextHeader /\ ~WicRewindGetNextHeader
          /\ ~OnOpenReturn /\ ~Frame /\ ~WicClose
      BY <2>1 DEF Breaks, WicGetNextHeader, WicRewindGetNextHeader, OnOpenReturn,
                  Frame, WicClose
    <3> QED
      BY <3>1, <3>2, <3>3 DEF Next
  <2>3. /\ answer'.status = status /\ answer'.upgrade = upgrade /\ headers' = headers
        /\ redirect' \in IF status \in Redirects
                         THEN WicGetHeader(store', LocationName) ELSE {Null}
    BY <2>2 DEF Complete
  <2>4. PICK header \in WicGetHeader(store', UpgradeName),
             accept \in WicGetHeader(store', AcceptName) :
                state' \in IF ~Satisfied(status, upgrade, header, accept)
                           THEN {"CLOSED"}
                           ELSE IF header.whole /\ accept.whole THEN {"READY"}
                           ELSE {"READY", "CLOSED"}
    BY <2>2 DEF Complete
  <2>5. state' = "READY" => answer'.status = 101 /\ answer'.upgrade
    BY <2>3, <2>4 DEF Satisfied
  <2>6. \A name : FirstOf(name)' = FirstOf(name)
    BY <2>3, FirstSame
  <2>7. ASSUME Decided(UpgradeName)', Decided(AcceptName)'
        PROVE  state' = "READY" <=> Valid(answer')
    <3>1. header = FirstOf(UpgradeName) /\ accept = FirstOf(AcceptName)
      BY <2>0, <2>2, <2>6, <2>7, CompleteFinds
    <3>2. ASSUME header # Null
          PROVE  header.whole = TRUE /\ MayEqual(header, Websocket)
                                        = StrEqual(header.text, Websocket)
      <4>1. PICK v : header = Text(v)
        BY <3>1, <3>2, FirstSame, FirstWhole
      <4> QED
        BY <4>1 DEF Text, MayEqual
    <3>3. ASSUME accept # Null
          PROVE  accept.whole = TRUE /\ MayBe(accept, Hash) = (accept.text = Hash)
      <4>1. PICK v : accept = Text(v)
        BY <3>1, <3>3, FirstSame, FirstWhole
      <4> QED
        BY <4>1 DEF Text, MayBe
    <3>4. Satisfied(status, upgrade, header, accept) <=> Valid(answer')
      BY <2>3, <3>1, <3>2, <3>3, Zenon DEF Satisfied, Valid
    <3>5. Satisfied(status, upgrade, header, accept) => header.whole /\ accept.whole
      BY <3>2, <3>3 DEF Satisfied
    <3> QED
      BY <2>4, <3>4, <3>5
  <2>8. answer'.status \notin Redirects => redirect' = Null
    BY <2>3
  <2>9. ASSUME answer'.status \in Redirects, Decided(LocationName)'
        PROVE  redirect' = FirstOf(LocationName)
    <3>1. redirect' \in WicGetHeader(store', LocationName)
      BY <2>3, <2>9
    <3> QED
      BY <2>0, <2>2, <2>6, <2>9, <3>1, CompleteFinds
  <2> QED
    BY <2>5, <2>7, <2>8, <2>9
<1> QED
  BY <1>1, BufferKept, PTL DEF Spec, VerdictRight

----------------------------------------------------------------------------
(* The iterator.                                                           *)

\* What it returns for the first k headers.
Entries(hs, k) == [i \in 1 .. k |-> Entry(hs[i])]

\* It has returned k headers of which the store t has all ...
Behind(hs, t, k, p, ls) ==
    /\ ls = Entries(hs, k)
    /\ p = Begins(hs)[k] /\ p <= Len(t)

\* ... or these and what there is of the next, which was cut.
Beyond(hs, t, k, p, ls) ==
    /\ k < Len(hs) /\ Begins(hs)[k] <= Len(t) /\ Len(t) < Begins(hs)[k + 1]
    /\ p \in Nat /\ p > Len(t)
    /\ \E e : ~e.value.whole /\ ls = Append(Entries(hs, k), e)

\* The iterator stands behind the headers it has returned.
IterInv ==
    held =>
        /\ ~answer.given => listed = <<>>
        /\ answer.given /\ ~astray =>
              \E k \in 0 .. Len(headers) : \/ Behind(headers, store, k, pos, listed)
                                           \/ Beyond(headers, store, k, pos, listed)

\* An iterator that was not begun has returned nothing.
LEMMA IterNone ==
    ASSUME NEW hs \in Seq(Headers), NEW t, Len(t) \in Nat
    PROVE  0 \in 0 .. Len(hs) /\ Behind(hs, t, 0, 0, <<>>)
<1>1. 0 \in 0 .. Len(hs) /\ Part(hs, 0) = <<>>
  BY PartStep
<1>2. Begins(hs)[0] = 0
  BY <1>1 DEF Begins
<1>3. Entries(hs, 0) = <<>>
  BY DEF Entries
<1> QED
  BY <1>1, <1>2, <1>3 DEF Behind

\* It returns the next header.
LEMMA IterNext ==
    ASSUME StoreInv, IterInv, WicGetNextHeader
    PROVE  IterInv'
<1> DEFINE n == Len(headers)
           off == Begins(headers)
<1>0. UNCHANGED <<headers, answer, error, store, held, astray>> /\ pos < Len(store)
  BY DEF WicGetNextHeader, response_vars
<1> SUFFICES ASSUME answer.given, ~astray
             PROVE  \E k \in 0 .. n : \/ Behind(headers, store, k, pos', listed')
                                      \/ Beyond(headers, store, k, pos', listed')
  <2>1. ~answer.given => listed' = <<>>
    BY DEF WicGetNextHeader, IterInv, StoreInv, Place
  <2> QED
    BY <1>0, <2>1 DEF IterInv
<1>1. held
  BY DEF StoreInv, Place
<1>2. /\ headers \in Seq(Headers) /\ store \in Seq(Char)
      /\ Shows(store, Stored(headers), n, off)
      /\ Len(store) \in Nat /\ Len(store) <= off[n]
  BY GivenStored DEF Shows
<1>3. PICK k \in 0 .. n : \/ Behind(headers, store, k, pos, listed)
                          \/ Beyond(headers, store, k, pos, listed)
  BY <1>1 DEF IterInv
<1>4. Marks(Stored(headers), n, off, NameEnds(headers)) /\ n \in Nat
      /\ off \in [0 .. n -> Nat]
  BY <1>2, StoredMarks DEF Marks
<1>5. listed = Entries(headers, k) /\ pos = off[k]
  <2>1. ~Beyond(headers, store, k, pos, listed)
    <3> SUFFICES ASSUME pos > Len(store), pos \in Nat PROVE FALSE
      BY DEF Beyond
    <3> QED
      BY ONLY <1>0, <1>2, pos > Len(store), pos \in Nat
  <2> QED
    BY <1>3, <2>1 DEF Behind
<1>6. k # n /\ k \in 0 .. n - 1 /\ k + 1 \in 0 .. n /\ off[k] \in Nat /\ off[k + 1] \in Nat
      /\ k \in Nat /\ k < n
  <2>1. k # n /\ off[k] \in Nat
    BY <1>0, <1>2, <1>4, <1>5
  <2>2. k \in 0 .. n - 1 /\ k + 1 \in 0 .. n /\ k \in Nat /\ k < n
    BY <1>4, <2>1
  <2> QED
    BY <1>4, <2>1, <2>2
<1>7. PICK e \in Ends(store, pos + 1) :
         /\ pos' \in Ends(store, e + 1)
         /\ listed' = Append(listed, [name  |-> StringAt(store, pos + 1),
                                      value |-> StringAt(store, e + 1)])
  BY <1>1 DEF WicGetNextHeader
<1>8. CASE off[k + 1] <= Len(store)
  <2>1. /\ \A j \in Ends(store, pos + 1) : j = NameEnds(headers)[k]
        /\ \A j \in Ends(store, NameEnds(headers)[k] + 1) : j = off[k + 1]
        /\ StringAt(store, pos + 1) = Text(headers[k + 1].name)
        /\ StringAt(store, NameEnds(headers)[k] + 1) = Text(headers[k + 1].value)
    <3>1. /\ \A j \in Ends(store, off[k] + 1) : j = NameEnds(headers)[k]
          /\ \A j \in Ends(store, NameEnds(headers)[k] + 1) : j = off[k + 1]
          /\ StringAt(store, off[k] + 1) = Text(headers[k + 1].name)
          /\ StringAt(store, NameEnds(headers)[k] + 1) = Text(headers[k + 1].value)
      <4>1. /\ headers \in Seq(Headers) /\ store \in Seq(Char)
            /\ Shows(store, Stored(headers), Len(headers), Begins(headers))
            /\ k \in 0 .. Len(headers) - 1 /\ Begins(headers)[k + 1] <= Len(store)
        BY ONLY <1>2, <1>6, <1>8
      <4> HIDE DEF n, off
      <4>2. StringAt(store, Begins(headers)[k] + 1) = Text(headers[k + 1].name)
        BY ONLY <4>1, StringsOf
      <4>3. \A j \in Ends(store, Begins(headers)[k] + 1) : j = NameEnds(headers)[k]
        BY ONLY <4>1, StringsOf
      <4>4. \A j \in Ends(store, NameEnds(headers)[k] + 1) : j = Begins(headers)[k + 1]
        BY ONLY <4>1, StringsOf
      <4>5. StringAt(store, NameEnds(headers)[k] + 1) = Text(headers[k + 1].value)
        BY ONLY <4>1, StringsOf
      <4> QED
        BY ONLY <4>2, <4>3, <4>4, <4>5 DEF off
    <3> QED
      BY ONLY <1>5, <3>1
  <2>2. e = NameEnds(headers)[k]
    BY <1>7, <2>1
  <2>3. pos' = off[k + 1] /\ listed' = Append(Entries(headers, k), Entry(headers[k + 1]))
    BY <1>5, <1>7, <2>1, <2>2 DEF Entry
  <2>4. listed' = Entries(headers, k + 1)
    BY <1>6, <2>3 DEF Entries
  <2>5. Behind(headers, store, k + 1, pos', listed')
    BY <1>8, <2>3, <2>4 DEF Behind
  <2> QED
    BY <1>6, <2>5
<1>9. CASE Len(store) < off[k + 1]
  <2>1. e \in Nat /\ ~Ended(store, e + 1) /\ e + 1 \in Nat
    <3>1. e \in Nat /\ ~Ended(store, e + 1)
      BY <1>0, <1>2, <1>5, <1>6, <1>7, <1>9, StringsCut
    <3> QED
      BY <3>1
  <2>2. pos' \in Nat /\ pos' > Len(store) /\ ~StringAt(store, e + 1).whole
    BY <1>2, <1>7, <2>1, EndsBehind
  <2>3. PICK r : r = [name |-> StringAt(store, pos + 1), value |-> StringAt(store, e + 1)]
    OBVIOUS
  <2>4. ~r.value.whole /\ listed' = Append(Entries(headers, k), r)
    BY <1>5, <1>7, <2>2, <2>3
  <2>5. off[k] <= Len(store)
    BY <1>0, <1>2, <1>5, <1>6
  <2>6. Beyond(headers, store, k, pos', listed')
    BY <1>6, <1>9, <2>2, <2>4, <2>5 DEF Beyond
  <2> QED
    BY <2>6
<1> QED
  BY <1>2, <1>6, <1>8, <1>9

\* Every step keeps the iterator.
LEMMA IterStep ==
    ASSUME BufferInv, IterInv, [Next]_vars
    PROVE  IterInv'
<1>1. state \in {"INIT", "PARSE_HANDSHAKE"} => ~answer.given /\ held
  BY DEF BufferInv, StoreInv, Place, Reused
<1>2. ASSUME UNCHANGED <<iterator_vars, headers, answer, store, held>> PROVE IterInv'
  BY <1>2 DEF IterInv, iterator_vars
<1>3. ASSUME UNCHANGED <<iterator_vars, answer, held>>, ~answer.given PROVE IterInv'
  BY <1>3 DEF IterInv, iterator_vars
<1>4. ASSUME ~held' PROVE IterInv'
  BY <1>4 DEF IterInv
<1>5. ASSUME held', listed' = <<>>, pos' = 0 PROVE IterInv'
  <2>1. StoreInv'
    BY <1>5, StoreStep, ReusedStep DEF BufferInv, Reused
  <2>2. headers' \in Seq(Headers) /\ Len(store') \in Nat
    BY <2>1 DEF StoreInv, Place, Holds, Rx
  <2>3. 0 \in 0 .. Len(headers') /\ Behind(headers', store', 0, pos', listed')
    BY <1>5, <2>2, IterNone
  <2> QED
    BY <1>5, <2>3 DEF IterInv
<1>6. CASE WicInit
  BY <1>5, <1>6 DEF WicInit
<1>7. CASE StartClient
  BY <1>2, <1>7 DEF StartClient, response_vars
<1>8. ASSUME NEW n \in Nodes, WicSetHeader(n) PROVE IterInv'
  BY <1>2, <1>8 DEF WicSetHeader, response_vars
<1>9. ASSUME NEW h \in Headers, FieldStarts(h) PROVE IterInv'
  BY <1>1, <1>3, <1>9 DEF FieldStarts, Responding
<1>10. CASE FieldGoesOn \/ ValueStarts \/ ValueGoesOn
  BY <1>1, <1>3, <1>10 DEF FieldGoesOn, ValueStarts, ValueGoesOn, Responding
<1>11. ASSUME NEW status \in Statuses, NEW upgrade \in BOOLEAN,
              Complete(status, upgrade)
       PROVE  IterInv'
  <2>1. /\ ~answer.given /\ held /\ held' = held /\ answer'.given
        /\ listed' = listed /\ pos' = pos /\ (~astray' => pos = 0)
    BY <1>1, <1>11 DEF Complete
  <2>2. listed = <<>>
    BY <2>1 DEF IterInv
  <2>3. CASE pos = 0
    BY <1>5, <2>1, <2>2, <2>3
  <2>4. CASE astray'
    BY <2>1, <2>4 DEF IterInv
  <2> QED
    BY <2>1, <2>3, <2>4
<1>12. CASE Breaks \/ OnOpenReturn \/ WicClose
  BY <1>2, <1>12 DEF Breaks, OnOpenReturn, WicClose, response_vars
<1>13. CASE WicGetNextHeader
  <2>1. CASE held
    BY <1>13, <2>1, BufferKept, IterNext
  <2>2. CASE ~held
    BY <1>4, <1>13, <2>2 DEF WicGetNextHeader
  <2> QED
    BY <2>1, <2>2
<1>14. CASE WicRewindGetNextHeader
  BY <1>4, <1>5, <1>14 DEF WicRewindGetNextHeader
<1>15. CASE Frame
  BY <1>4, <1>15 DEF Frame
<1>16. CASE UNCHANGED vars
  BY <1>2, <1>16 DEF vars, iterator_vars
<1> QED
  BY <1>6, <1>7, <1>8, <1>9, <1>10, <1>11, <1>12, <1>13, <1>14, <1>15, <1>16 DEF Next

\* With it, the iterator is right.
LEMMA IterGives ==
    ASSUME BufferInv, IterInv
    PROVE  IteratorRight
<1> SUFFICES ASSUME held, answer.given, ~astray
             PROVE  /\ \A i \in DOMAIN listed :
                          IF i \in Kept THEN listed[i] = Entry(headers[i])
                          ELSE /\ error /\ i - 1 \in Kept \cup {0}
                               /\ ~listed[i].value.whole
                    /\ pos >= Len(store) => \A i \in Kept : i \in DOMAIN listed
  BY DEF IteratorRight
<1> DEFINE n == Len(headers)
           off == Begins(headers)
           l == Len(store)
<1>1. /\ headers \in Seq(Headers) /\ store \in Seq(Char) /\ l \in Nat /\ n \in Nat
      /\ ~error => store = Stored(headers)
  BY BufferKept, GivenStored
<1>2. /\ Marks(Stored(headers), n, off, NameEnds(headers))
      /\ off[n] = Len(Stored(headers)) /\ off \in [0 .. n -> Nat]
  BY <1>1, StoredMarks DEF Marks
<1>3. \A i : i \in Kept <=> i \in 1 .. n /\ off[i] <= l
  <2>1. Kept = KeptIn(headers, store)
    BY DEF Kept, KeptIn
  <2> QED
    BY <1>1, <2>1, KeptAt
<1>4. PICK k \in 0 .. n : \/ Behind(headers, store, k, pos, listed)
                          \/ Beyond(headers, store, k, pos, listed)
  BY DEF IterInv
<1>5. k \in Nat /\ off[k] \in Nat
  BY <1>1, <1>2
<1>6. ASSUME off[k] <= l, NEW i \in 1 .. k PROVE i \in Kept /\ i \in Nat /\ i <= k
  <2>1. i \in 0 .. n /\ i \in 1 .. n /\ i <= k
    BY <1>1
  <2>2. off[i] <= off[k] /\ off[i] \in Nat
    BY <1>2, <2>1, MarksGrow
  <2> QED
    BY <1>1, <1>3, <1>5, <1>6, <2>1, <2>2
<1>7. /\ \A i \in 1 .. k : Entries(headers, k)[i] = Entry(headers[i])
      /\ DOMAIN Entries(headers, k) = 1 .. k /\ Len(Entries(headers, k)) = k
  BY <1>5 DEF Entries
<1>8. CASE Behind(headers, store, k, pos, listed)
  <2>1. listed = Entries(headers, k) /\ pos = off[k] /\ pos <= l
    BY <1>8 DEF Behind
  <2>2. \A i \in DOMAIN listed : i \in Kept /\ listed[i] = Entry(headers[i])
    BY <1>6, <1>7, <2>1
  <2>3. ASSUME pos >= l, NEW i \in Kept PROVE i \in DOMAIN listed
    <3>1. i \in 1 .. n /\ off[i] <= l /\ i \in 0 .. n
      BY <1>1, <1>3
    <3>2. ~(k < i)
      <4> SUFFICES ASSUME k < i PROVE FALSE
        OBVIOUS
      <4>1. off[k] < off[i] /\ off[i] \in Nat
        BY <1>2, <3>1, MarksGrow
      <4> QED
        BY <1>1, <1>5, <2>1, <2>3, <3>1, <4>1
    <3>3. i \in 1 .. k
      BY <1>1, <1>5, <3>1, <3>2
    <3> QED
      BY <1>7, <2>1, <3>3
  <2> QED
    BY <2>2, <2>3
<1>9. CASE Beyond(headers, store, k, pos, listed)
  <2>1. k < n /\ off[k] <= l /\ l < off[k + 1] /\ pos > l
    BY <1>9 DEF Beyond
  <2>2. PICK e : ~e.value.whole /\ listed = Append(Entries(headers, k), e)
    BY <1>9 DEF Beyond
  <2>3. /\ DOMAIN listed = 1 .. k + 1 /\ listed[k + 1] = e
        /\ \A i \in 1 .. k : listed[i] = Entry(headers[i])
    <3>1. Entries(headers, k) \in Seq({Entry(headers[i]) : i \in 1 .. k} \cup {e})
      BY <1>5 DEF Entries
    <3>2. PICK es : es = Entries(headers, k)
      OBVIOUS
    <3>3. es \in Seq({Entry(headers[i]) : i \in 1 .. k} \cup {e}) /\ Len(es) = k
          /\ \A i \in 1 .. k : es[i] = Entry(headers[i])
      BY <1>7, <3>1, <3>2
    <3>4. /\ DOMAIN Append(es, e) = 1 .. k + 1 /\ Append(es, e)[k + 1] = e
          /\ \A i \in 1 .. k : Append(es, e)[i] = es[i]
      BY <3>3
    <3> QED
      BY <2>2, <3>2, <3>3, <3>4
  <2>4. k + 1 \in 0 .. n /\ k + 1 \in 1 .. n /\ off[k + 1] \in Nat /\ k + 1 \notin Kept
    <3>1. k + 1 \in 0 .. n /\ k + 1 \in 1 .. n
      BY <1>1, <1>5, <2>1
    <3>2. off[k + 1] \in Nat
      BY <1>2, <3>1
    <3> QED
      BY <1>1, <1>3, <2>1, <3>1, <3>2
  <2>5. error
    <3> SUFFICES ASSUME ~error PROVE FALSE
      OBVIOUS
    <3>1. l = off[n] /\ k + 1 <= n /\ n \in 0 .. n
      BY <1>1, <1>2, <1>5, <2>1
    <3>2. off[k + 1] <= off[n]
      BY <1>2, <2>4, <3>1, MarksGrow
    <3> QED
      BY <1>1, <2>1, <2>4, <3>1, <3>2
  <2>6. ASSUME NEW i \in DOMAIN listed
        PROVE  IF i \in Kept THEN listed[i] = Entry(headers[i])
               ELSE error /\ i - 1 \in Kept \cup {0} /\ ~listed[i].value.whole
    <3>1. CASE i \in 1 .. k
      BY <1>6, <2>1, <2>3, <3>1
    <3>2. CASE i = k + 1
      <4>1. i - 1 = k
        BY <1>5, <3>2
      <4>2. k = 0 \/ k \in 1 .. k
        BY <1>5
      <4>3. i - 1 \in Kept \cup {0}
        BY <1>6, <2>1, <4>1, <4>2
      <4> QED
        BY <2>2, <2>3, <2>4, <2>5, <3>2, <4>3
    <3> QED
      BY <1>5, <2>3, <3>1, <3>2
  <2>7. ASSUME NEW i \in Kept PROVE i \in DOMAIN listed
    <3>1. i \in 1 .. n /\ off[i] <= l /\ i \in 0 .. n
      BY <1>1, <1>3
    <3>2. ~(k + 1 <= i)
      <4> SUFFICES ASSUME k + 1 <= i PROVE FALSE
        OBVIOUS
      <4>1. off[k + 1] <= off[i] /\ off[i] \in Nat
        BY <1>2, <2>4, <3>1, MarksGrow
      <4> QED
        BY <1>1, <2>1, <2>4, <3>1, <4>1
    <3>3. i \in 1 .. k + 1
      BY <1>1, <1>5, <3>1, <3>2
    <3> QED
      BY <2>3, <3>3
  <2> QED
    BY <2>6, <2>7
<1> QED
  BY <1>4, <1>8, <1>9

\* The iterator is not begun at first.
LEMMA IterInit == Init => IterInv
  BY DEF Init, IterInv, NoAnswer

\* Begun at the first header of a response, the iterator returns the headers in
\* order, each once, and has returned all that are kept when it stands at the
\* end of the store; of one that was cut it returns a value without an end.
THEOREM IteratorRightHolds == Spec => []IteratorRight
<1>1. Init => BufferInv /\ IterInv
  BY BufferKept, IterInit
<1>2. BufferInv /\ IterInv /\ [Next]_vars => (BufferInv /\ IterInv)'
  BY BufferKept, IterStep
<1>3. BufferInv /\ IterInv => IteratorRight
  BY IterGives
<1> QED
  BY <1>1, <1>2, <1>3, PTL DEF Spec

----------------------------------------------------------------------------
(* The types.                                                              *)

\* A string ends at a position, if it ends.
LEMMA EndsType ==
    ASSUME NEW t \in Seq(Char), NEW i \in Nat
    PROVE  /\ Ends(t, i) \subseteq Nat
           /\ Ended(t, i) => /\ EndOf(t, i) \in Nat /\ EndOf(t, i) \in Nuls(t)
                             /\ EndOf(t, i) >= i
                             /\ \A j \in Nuls(t) : j >= i => EndOf(t, i) <= j
<1> DEFINE S == {j \in Nuls(t) : j >= i}
<1>1. Nuls(t) \subseteq Nat /\ Len(t) \in Nat
  BY DEF Nuls
<1>2. ASSUME Ended(t, i)
      PROVE  /\ EndOf(t, i) \in Nat /\ EndOf(t, i) \in Nuls(t) /\ EndOf(t, i) >= i
             /\ \A j \in Nuls(t) : j >= i => EndOf(t, i) <= j
  <2>1. S \subseteq Nat /\ S # {}
    BY <1>1, <1>2 DEF Ended
  <2>2. PICK e \in S : \A j \in S : e <= j
    <3> HIDE DEF S
    <3> QED
      BY <2>1, SmallestExists
  <2>3. e \in Nuls(t) /\ e \in Nat /\ e >= i /\ \A j \in Nuls(t) : j >= i => e <= j
    BY <1>1, <2>2
  <2>4. EndOf(t, i) = e
    BY <1>1, <2>3, EndIs
  <2> QED
    BY <2>3, <2>4
<1>3. Ends(t, i) \subseteq Nat
  <2>1. CASE Ended(t, i)
    BY <1>2, <2>1 DEF Ends
  <2>2. CASE ~Ended(t, i)
    BY <1>1, <2>2, EndsBehind
  <2> QED
    BY <2>1, <2>2
<1> QED
  BY <1>2, <1>3

\* A string is letters, whole or not.
Strings == [text : Seq(Letter), whole : BOOLEAN]

LEMMA LettersBetween ==
    ASSUME NEW t \in Seq(Char), NEW i \in Nat \ {0}, NEW m \in Nat, m <= Len(t),
           \A j \in Nuls(t) : j >= i => m < j
    PROVE  SubSeq(t, i, m) \in Seq(Letter)
<1>1. \A j \in i .. m : t[j] \in Letter
  <2> SUFFICES ASSUME NEW j \in i .. m PROVE t[j] \in Letter
    OBVIOUS
  <2>1. j \in 1 .. Len(t) /\ t[j] \in Char
    BY DEF Char
  <2>2. j \notin Nuls(t)
    OBVIOUS
  <2> QED
    BY <2>1, <2>2 DEF Nuls, Char
<1>2. i \in Int /\ m \in Int
  OBVIOUS
<1> QED
  BY <1>1, <1>2, SubSeqProperties

LEMMA StringType ==
    ASSUME NEW t \in Seq(Char), NEW i \in Nat \ {0}
    PROVE  StringAt(t, i) \in Strings
<1>1. CASE Ended(t, i)
  <2>1. PICK e : e = EndOf(t, i)
    OBVIOUS
  <2>2. e \in Nuls(t) /\ e \in Nat /\ e >= i /\ \A j \in Nuls(t) : j >= i => e <= j
    BY <1>1, <2>1, EndsType
  <2>3. e - 1 \in Nat /\ e - 1 <= Len(t)
    BY <2>2 DEF Nuls
  <2>4. \A j \in Nuls(t) : j >= i => e - 1 < j
    BY <2>2 DEF Nuls
  <2>5. SubSeq(t, i, e - 1) \in Seq(Letter)
    BY <2>3, <2>4, LettersBetween
  <2> QED
    BY <1>1, <2>1, <2>5 DEF StringAt, Text, Strings
<1>2. CASE ~Ended(t, i)
  <2>1. \A j \in Nuls(t) : j >= i => Len(t) < j
    BY <1>2 DEF Ended
  <2>2. SubSeq(t, i, Len(t)) \in Seq(Letter)
    BY <2>1, LettersBetween
  <2> QED
    BY <1>2, <2>2 DEF StringAt, Strings
<1> QED
  BY <1>1, <1>2

\* wic_get_header returns nothing or a string.
LEMMA LookupType ==
    ASSUME NEW t \in Seq(Char), NEW name
    PROVE  WicGetHeader(t, name) \subseteq Strings \cup {Null}
<1> DEFINE F == Matches(t, name)
<1>1. F \subseteq Nat /\ Len(t) \in Nat
  BY DEF Matches, NamesAt, Starts
<1>2. CASE F = {}
  BY <1>2, GetHeaderIs
<1>3. CASE F # {}
  <2>1. PICK i \in F : \A j \in F : i <= j
    <3> HIDE DEF F
    <3> QED
      BY <1>1, <1>3, SmallestExists
  <2>2. WicGetHeader(t, name) = IF Ended(t, i) THEN {StringAt(t, EndOf(t, i) + 1)}
                                ELSE {Null, StringAt(t, Len(t) + 1)}
    <3> HIDE DEF F
    <3> QED
      BY <1>1, <2>1, GetHeaderIs, Zenon DEF F
  <2>3. i \in Nat
    BY <1>1
  <2>4. Len(t) + 1 \in Nat \ {0} /\ (Ended(t, i) => EndOf(t, i) + 1 \in Nat \ {0})
    BY <1>1, <2>3, EndsType
  <2>5. /\ StringAt(t, Len(t) + 1) \in Strings
        /\ Ended(t, i) => StringAt(t, EndOf(t, i) + 1) \in Strings
    BY <2>4, StringType
  <2> QED
    BY <2>2, <2>5
<1> QED
  BY <1>2, <1>3

\* What the invariants above do not say of the types.
RestInv ==
    /\ state \in {"INIT", "PARSE_HANDSHAKE", "READY", "OPEN", "CLOSED"}
    /\ request \in Seq(Nodes)
    /\ redirect \in Strings \cup {Null}
    /\ pos \in Nat

\* Every step keeps the types.
LEMMA RestStep ==
    ASSUME BufferInv, RestInv, [Next]_vars
    PROVE  RestInv'
<1>1. CASE WicInit
  BY <1>1 DEF WicInit, RestInv
<1>2. CASE StartClient
  <2>1. PICK n \in 0 .. Cardinality(Nodes) :
           \E list \in [1 .. n -> Nodes] : IsWalk(list) /\ request' = list
    BY <1>2 DEF StartClient
  <2>2. PICK list \in [1 .. n -> Nodes] : request' = list
    BY <2>1
  <2>3. n \in Nat
    OBVIOUS
  <2>4. request' \in Seq(Nodes)
    BY <2>2, <2>3
  <2> QED
    BY <1>2, <2>4 DEF StartClient, RestInv, iterator_vars
<1>3. ASSUME NEW status \in Statuses, NEW upgrade \in BOOLEAN,
             Complete(status, upgrade)
      PROVE  RestInv'
  <2>1. state' \in {"READY", "CLOSED"} /\ request' = request /\ pos' = pos
    BY <1>3 DEF Complete, request_vars
  <2>2. store' \in Seq(Char)
    <3>1. StoreInv'
      BY <1>3, CompleteStores DEF BufferInv, Reused, Complete
    <3> QED
      BY <3>1 DEF StoreInv, Holds, Rx
  <2>3. redirect' \in WicGetHeader(store', LocationName) \cup {Null}
    BY <1>3 DEF Complete
  <2>4. redirect' \in Strings \cup {Null}
    BY <2>2, <2>3, LookupType
  <2> QED
    BY <2>1, <2>4 DEF RestInv
<1>4. ASSUME UNCHANGED <<request, redirect>>, pos' \in Nat,
             state' \in {"INIT", "PARSE_HANDSHAKE", "READY", "OPEN", "CLOSED"}
      PROVE  RestInv'
  BY <1>4 DEF RestInv
<1>5. CASE UNCHANGED vars
  BY <1>4, <1>5 DEF vars, RestInv
<1>6. ASSUME NEW n \in Nodes, WicSetHeader(n) PROVE RestInv'
  BY <1>4, <1>6 DEF WicSetHeader, RestInv, iterator_vars
<1>7. ASSUME NEW h \in Headers, FieldStarts(h) PROVE RestInv'
  BY <1>4, <1>7 DEF FieldStarts, Responding, RestInv, request_vars, iterator_vars
<1>8. CASE FieldGoesOn \/ ValueStarts \/ ValueGoesOn
  BY <1>4, <1>8 DEF FieldGoesOn, ValueStarts, ValueGoesOn, Responding, RestInv,
                    request_vars, iterator_vars
<1>9. CASE Breaks \/ WicRewindGetNextHeader \/ OnOpenReturn \/ Frame \/ WicClose
  BY <1>4, <1>9 DEF Breaks, WicRewindGetNextHeader, OnOpenReturn, Frame, WicClose,
                    RestInv, request_vars, iterator_vars
<1>10. CASE WicGetNextHeader
  <2>1. PICK e \in Ends(store, pos + 1) : pos' \in Ends(store, e + 1)
    BY <1>10 DEF WicGetNextHeader
  <2>2. store \in Seq(Char) /\ pos + 1 \in Nat
    BY DEF BufferInv, StoreInv, Reused, Holds, Rx, RestInv
  <2>3. e \in Nat
    BY <2>1, <2>2, EndsType
  <2>4. pos' \in Nat
    BY <2>1, <2>2, <2>3, EndsType
  <2> QED
    BY <1>4, <1>10, <2>4 DEF WicGetNextHeader, RestInv, request_vars
<1> QED
  BY <1>1, <1>2, <1>3, <1>5, <1>6, <1>7, <1>8, <1>9, <1>10 DEF Next

\* Every variable of the handshake has its type, and no write leaves the
\* receive buffer.
THEOREM HandshakeTypes == Spec => []TypeOK
<1> DEFINE Inv == ListInv /\ BufferInv /\ RestInv
<1>1. Init => Inv
  <2>1. Init => ListInv /\ RestInv
    BY DEF Init, ListInv, RequestRight, RestInv
  <2> QED
    BY <2>1, BufferKept
<1>2. Inv /\ [Next]_vars => Inv'
  BY ListStep, BufferKept, RestStep
<1>3. Inv => TypeOK
  <2> SUFFICES ASSUME Inv PROVE TypeOK
    OBVIOUS
  <2>1. next \in [Nodes -> Nodes \cup {Null}] /\ head \in Nodes \cup {Null}
    BY DEF ListInv
  <2>2. /\ hstate \in {"IDLE", "FIELD", "VALUE"} /\ error \in BOOLEAN
        /\ store \in Seq(Letter \cup {Nul}) /\ Len(store) <= RxMax
    BY DEF BufferInv, Reused, StoreInv, Place, Holds, Rx, Char
  <2> QED
    BY <2>1, <2>2 DEF TypeOK, RestInv, Strings
<1> QED
  BY <1>1, <1>2, <1>3, PTL DEF Spec
=============================================================================
