--------------------------- MODULE ReviewsProofs ---------------------------
(***************************************************************************)
(* Proofs about Reviews, for any requests, addresses and databases.        *)
(***************************************************************************)
EXTENDS Reviews, WellFoundedInduction, TLAPS

-----------------------------------------------------------------------------
(* The log                                                                 *)

(* A set of natural numbers that has an element has a least one.           *)
LEMMA Least ==
  ASSUME NEW T \in SUBSET Nat, T # {}
  PROVE  \E x \in T : \A y \in T : x <= y
<1>1. PICK x \in T : \A y \in T : <<y, x>> \notin OpToRel(<, Nat)
  BY NatLessThanWellFounded, WFMin
<1>2. \A y \in T : ~ (y < x)
  BY <1>1 DEF OpToRel
<1> QED
  BY <1>2

(* A set of positions of a log that has an element has a last one.         *)
LEMMA LastPosition ==
  ASSUME NEW n \in Nat, NEW S \in SUBSET (1..n), S # {}
  PROVE  /\ Max(S) \in S
         /\ \A j \in S : Max(S) >= j
<1> DEFINE T == {n - i : i \in S}
<1>1. T \in SUBSET Nat /\ T # {}
  <2>1. \A i \in S : n - i \in Nat
    OBVIOUS
  <2>2. \E i \in S : n - i \in T
    OBVIOUS
  <2> QED
    BY <2>1, <2>2
<1>2. PICK x \in T : \A y \in T : x <= y
  BY <1>1, Least
<1>3. PICK m \in S : x = n - m
  OBVIOUS
<1>4. ASSUME NEW j \in S
      PROVE  m >= j
  <2>1. n - m <= n - j
    BY <1>2, <1>3
  <2> QED
    BY <2>1
<1> QED
  BY <1>4 DEF Max

(* What LastWrite finds.                                                   *)
LEMMA LastWriteFound ==
  ASSUME NEW l \in Seq(Entry), NEW a, NEW ops
  PROVE  LET i == LastWrite(l, a, ops)
         IN  /\ i # 0 => i \in DOMAIN l /\ l[i].address = a /\ l[i].op \in ops
             /\ i \in 0..Len(l)
             /\ \A j \in DOMAIN l : l[j].address = a /\ l[j].op \in ops => j <= i
<1> DEFINE I == {i \in 1..Len(l) : l[i].address = a /\ l[i].op \in ops}
<1>1. LastWrite(l, a, ops) = IF I # {} THEN Max(I) ELSE 0
  BY DEF LastWrite, SelectLastInSeq
<1>2. CASE I = {}
  BY <1>1, <1>2
<1>3. CASE I # {}
  <2>1. Len(l) \in Nat /\ I \in SUBSET (1..Len(l))
    OBVIOUS
  <2>2. Max(I) \in I /\ \A j \in I : Max(I) >= j
    BY <1>3, <2>1, LastPosition
  <2> QED
    BY <1>1, <1>3, <2>2
<1> QED
  BY <1>2, <1>3

(* A pending appeal is more recent than every removal for its address.     *)
LEMMA PendingIsLast ==
  ASSUME NEW l \in Seq(Entry), NEW a, Pending(l, a) # NoAppeal
  PROVE  \E k \in DOMAIN l :
           /\ l[k].op = "appeal" /\ l[k].address = a
           /\ \A j \in DOMAIN l : l[j].op = "removal" /\ l[j].address = a => j < k
<1> DEFINE k == LastWrite(l, a, {"appeal", "removal"})
<1>1. k # 0 /\ l[k].op = "appeal"
  BY DEF Pending
<1>2. k \in DOMAIN l /\ l[k].address = a
  BY <1>1, LastWriteFound
<1>3. ASSUME NEW j \in DOMAIN l, l[j].op = "removal", l[j].address = a
      PROVE  j < k
  <2>1. j <= k
    BY <1>3, LastWriteFound
  <2>2. j # k
    BY <1>1, <1>3
  <2> QED
    BY <1>2, <2>1, <2>2
<1> QED
  BY <1>1, <1>2, <1>3

(* What a crash leaves of a log. *)
LEMMA Prefix ==
  ASSUME NEW l \in Seq(Entry), NEW n \in 0..Len(l)
  PROVE  /\ SubSeq(l, 1, n) \in Seq(Entry)
         /\ Len(SubSeq(l, 1, n)) = n
         /\ \A i \in 1..n : SubSeq(l, 1, n)[i] = l[i]
<1>1. DOMAIN l = 1..Len(l) /\ Len(l) \in Nat
  OBVIOUS
<1> QED
  BY <1>1

(* What a further write leaves of a log. *)
LEMMA Longer ==
  ASSUME NEW l \in Seq(Entry), NEW e \in Entry
  PROVE  /\ Append(l, e) \in Seq(Entry)
         /\ Len(Append(l, e)) = Len(l) + 1
         /\ \A i \in 1..Len(l) : Append(l, e)[i] = l[i]
         /\ Append(l, e)[Len(l) + 1] = e
  OBVIOUS

(* What the tree holds is a weight within bounds, or none. *)
LEMMA StoredWeightTyped ==
  ASSUME NEW l \in Seq(Entry), NEW a
  PROVE  StoredWeight(l, a) \in StoredWeights
<1>1. CASE LastWrite(l, a, {"weight"}) = 0
  BY <1>1 DEF StoredWeight, StoredWeights
<1>2. CASE LastWrite(l, a, {"weight"}) # 0
  <2>1. l[LastWrite(l, a, {"weight"})] \in Entry
    BY <1>2, LastWriteFound
  <2> QED
    BY <1>2, <2>1 DEF StoredWeight, Entry
<1> QED
  BY <1>1, <1>2

(* Weights that operators ask for are brought into the range. *)
LEMMA ClampTyped == \A w \in Int : Clamp(w) \in 0..One
  BY ReviewsAssumption DEF Clamp, ReviewsAssumption

-----------------------------------------------------------------------------
(* Types                                                                   *)

(* A request that arrived asks for something. *)
Asked == \A r \in Request : pc[r] # "idle" => input[r] \in Input

Typed == TypeOK /\ Asked

Tasked ==
  /\ pc \in [Request -> {"idle", "start", "submit", "resolve", "done", "gone"}]
  /\ input \in [Request -> Input \cup {Nothing}]
  /\ current_weight \in [Request -> StoredWeights]
  /\ answer \in [Request -> {0, 200, 201, 404, 500, 503}]
  /\ Asked

LogTyped == log \in Seq(Entry) /\ flushed \in 0..Len(log) /\ lost \subseteq Request

(* The address a request is about. *)
LEMMA AddressTyped ==
  ASSUME Typed, NEW r \in Request, pc[r] # "idle"
  PROVE  input[r] \in Input /\ address(r) \in Address
  BY ReviewsAssumption DEF Typed, Asked, address, ReviewsAssumption

(* An answer keeps the types of the tasks. *)
LEMMA AnswerTyped ==
  ASSUME Typed, NEW r \in Request, NEW code \in {200, 201, 404, 500, 503},
         pc[r] # "idle", Answer(r, code)
  PROVE  Tasked'
  BY DEF Typed, TypeOK, Answer, Asked, Tasked

(* So does a step to another label. *)
LEMMA GotoTyped ==
  ASSUME Typed, NEW r \in Request, NEW label \in {"submit", "resolve"},
         pc[r] # "idle", Goto(r, label), current_weight' \in [Request -> StoredWeights]
  PROVE  Tasked'
<1>1. pc' \in [Request -> {"idle", "start", "submit", "resolve", "done", "gone"}]
  BY DEF Typed, TypeOK, Goto
<1>2. Asked'
  BY DEF Typed, TypeOK, Goto, Asked
<1> QED
  BY <1>1, <1>2 DEF Typed, TypeOK, Goto, Tasked

(* The log grows by an entry, or not at all. *)
LEMMA WriteTyped ==
  ASSUME Typed, NEW e \in Entry, log' = log \/ log' = Append(log, e), UNCHANGED <<flushed, lost>>
  PROVE  LogTyped'
<1>1. CASE log' = log
  BY <1>1 DEF Typed, TypeOK, LogTyped
<1>2. CASE log' = Append(log, e)
  <2>1. log \in Seq(Entry) /\ Len(log) \in Nat /\ flushed \in 0..Len(log)
    BY DEF Typed, TypeOK
  <2>2. log' \in Seq(Entry) /\ Len(log') = Len(log) + 1
    BY <1>2, <2>1, Longer
  <2>3. flushed' \in 0..Len(log') /\ lost' \subseteq Request
    BY <2>1, <2>2 DEF Typed, TypeOK
  <2> QED
    BY <2>2, <2>3 DEF LogTyped
<1> QED
  BY <1>1, <1>2

(* Setting a weight within bounds keeps the types of map and log. *)
LEMMA SetTyped ==
  ASSUME Typed, NEW r \in Request, NEW a \in Address, NEW w \in 0..One,
         set(r, a, w), UNCHANGED <<flushed, lost>>
  PROVE  weights' \in [Address -> StoredWeights] /\ LogTyped'
<1> DEFINE e == [op |-> "weight", address |-> a, by |-> r, weight |-> w]
<1>1. e \in Entry
  BY DEF Entry, StoredWeights
<1>2. log' = log \/ log' = Append(log, e)
  BY DEF set, Write
<1>3. weights' \in [Address -> StoredWeights]
  BY DEF set, Typed, TypeOK, StoredWeights
<1> QED
  BY <1>1, <1>2, <1>3, WriteTyped

(* No step leaves the types. *)
LEMMA TypedStep == Typed /\ [Next]_vars => Typed'
<1> SUFFICES ASSUME Typed, [Next]_vars
             PROVE  Typed'
  OBVIOUS
<1>1. ASSUME Tasked', LogTyped', up' \in BOOLEAN, opened' \in BOOLEAN,
             weights' \in [Address -> StoredWeights]
      PROVE  Typed'
  BY <1>1 DEF Tasked, LogTyped, Typed, TypeOK
<1>2. Tasked /\ LogTyped /\ up \in BOOLEAN /\ opened \in BOOLEAN
      /\ weights \in [Address -> StoredWeights]
  BY DEF Tasked, LogTyped, Typed, TypeOK
<1>3. UNCHANGED tasks => Tasked'
  BY <1>2 DEF tasks, Tasked, Asked
<1>4. UNCHANGED <<log, flushed, lost>> => LogTyped'
  BY <1>2 DEF LogTyped
<1>5. ASSUME NEW r \in Request, NEW i \in Input, Arrive(r, i)
      PROVE  Typed'
  <2>1. Tasked'
    BY <1>2, <1>5 DEF Arrive, Tasked, Asked
  <2> QED
    BY <1>1, <1>2, <1>4, <1>5, <2>1 DEF Arrive
<1>6. ASSUME NEW r \in Request, Unavailable(r)
      PROVE  Typed'
  <2>1. Tasked'
    BY <1>6, AnswerTyped DEF Unavailable, At
  <2> QED
    BY <1>1, <1>2, <1>4, <1>6, <2>1 DEF Unavailable
<1>7. ASSUME NEW r \in Request, NoteWeight(r)
      PROVE  Typed'
  <2>1. address(r) \in Address
    BY <1>7, AddressTyped DEF NoteWeight, At
  <2>2. One \in StoredWeights /\ weights[address(r)] \in StoredWeights
    BY <1>2, <2>1, ReviewsAssumption DEF StoredWeights, ReviewsAssumption
  <2>3. current_weight' \in [Request -> StoredWeights]
    BY <1>2, <1>7, <2>2 DEF NoteWeight, Tasked
  <2>4. Tasked'
    BY <1>7, <2>3, GotoTyped DEF NoteWeight, At
  <2> QED
    BY <1>1, <1>2, <1>4, <1>7, <2>4 DEF NoteWeight
<1>8. ASSUME NEW r \in Request, submit(r)
      PROVE  Typed'
  <2> DEFINE e == [op |-> "appeal", address |-> address(r), by |-> r,
                   weight |-> current_weight[r]]
  <2>1. address(r) \in Address
    BY <1>8, AddressTyped DEF submit, At
  <2>2. e \in Entry
    BY <1>2, <2>1 DEF Tasked, Entry
  <2>3. log' = log \/ log' = Append(log, e)
    BY <1>8 DEF submit, Write
  <2>4. LogTyped'
    BY <1>8, <2>2, <2>3, WriteTyped DEF submit
  <2>5. Tasked'
    BY <1>8, AnswerTyped DEF submit, At
  <2> QED
    BY <1>1, <1>2, <1>8, <2>4, <2>5 DEF submit
<1>9. ASSUME NEW r \in Request, SetWeight(r)
      PROVE  Typed'
  <2>1. input[r] \in Input /\ address(r) \in Address
    BY <1>9, AddressTyped DEF SetWeight, At
  <2>2. Tasked'
    BY <1>2, <1>9, GotoTyped DEF SetWeight, At, Tasked
  <2>3. weights' \in [Address -> StoredWeights] /\ LogTyped'
    <3>1. CASE UNCHANGED <<weights, log>>
      BY <1>2, <1>4, <1>9, <3>1 DEF SetWeight
    <3>2. CASE /\ input[r].new_weight # NoWeight
               /\ set(r, address(r), Clamp(input[r].new_weight))
      <4>1. input[r].new_weight \in Int
        BY <1>9, <2>1, <3>2, ReviewsAssumption DEF SetWeight, At, ReviewsAssumption
      <4> QED
        BY <1>9, <2>1, <3>2, <4>1, ClampTyped, SetTyped DEF SetWeight
    <3> QED
      BY <1>9, <3>1, <3>2 DEF SetWeight
  <2> QED
    BY <1>1, <1>2, <1>9, <2>2, <2>3 DEF SetWeight
<1>10. ASSUME NEW r \in Request, resolve(r)
       PROVE  Typed'
  <2> DEFINE e == [op |-> "removal", address |-> address(r), by |-> r, weight |-> NoWeight]
  <2>1. address(r) \in Address
    BY <1>10, AddressTyped DEF resolve, At
  <2>2. e \in Entry
    BY <2>1 DEF Entry, StoredWeights
  <2>3. log' = log \/ log' = Append(log, e)
    BY <1>10 DEF resolve, Write
  <2>4. LogTyped'
    BY <1>10, <2>2, <2>3, WriteTyped DEF resolve
  <2>5. Tasked'
    BY <1>10, AnswerTyped DEF resolve, At
  <2> QED
    BY <1>1, <1>2, <1>10, <2>4, <2>5 DEF resolve
<1>11. ASSUME NEW r \in Request, Published(r)
       PROVE  Typed'
  <2>1. address(r) \in Address /\ One \in 0..One
    BY <1>11, AddressTyped, ReviewsAssumption DEF Published, At, ReviewsAssumption
  <2>2. weights' \in [Address -> StoredWeights] /\ LogTyped'
    BY <1>11, <2>1, SetTyped DEF Published
  <2>3. Tasked'
    BY <1>11, AnswerTyped DEF Published, At
  <2> QED
    BY <1>1, <1>2, <1>11, <2>2, <2>3 DEF Published
<1>12. CASE with_persistence
  <2>1. \A a \in Address : StoredWeight(log, a) \in StoredWeights
    BY <1>2, StoredWeightTyped DEF LogTyped
  <2>2. weights' \in [Address -> StoredWeights]
    BY <1>12, <2>1 DEF with_persistence, StoredWeights
  <2> QED
    BY <1>1, <1>2, <1>3, <1>4, <1>12, <2>2 DEF with_persistence
<1>13. CASE in_memory
  BY <1>1, <1>2, <1>3, <1>4, <1>13 DEF in_memory
<1>14. CASE Flush
  <2>1. LogTyped'
    BY <1>2, <1>14 DEF Flush, LogTyped
  <2> QED
    BY <1>1, <1>2, <1>3, <1>14, <2>1 DEF Flush
<1>15. ASSUME Down
       PROVE  /\ Tasked' /\ up' \in BOOLEAN /\ opened' \in BOOLEAN
              /\ weights' \in [Address -> StoredWeights]
  BY <1>2, <1>15 DEF Down, NoWeights, StoredWeights, Tasked, Asked
<1>16. CASE Stop
  <2>1. LogTyped'
    BY <1>2, <1>16 DEF Stop, LogTyped
  <2> QED
    BY <1>1, <1>15, <1>16, <2>1 DEF Stop
<1>17. CASE Crash
  <2>1. LogTyped'
    BY <1>2, <1>17, Prefix DEF Crash, LogTyped
  <2> QED
    BY <1>1, <1>15, <1>17, <2>1 DEF Crash
<1>18. CASE UNCHANGED vars
  BY <1>1, <1>2, <1>3, <1>4, <1>18 DEF vars
<1> QED
  BY <1>5, <1>6, <1>7, <1>8, <1>9, <1>10, <1>11, <1>12, <1>13, <1>14, <1>16, <1>17, <1>18
  DEF Next

(* The first state is typed. *)
LEMMA TypedInit == Init => Typed
<1> SUFFICES ASSUME Init
             PROVE  Typed
  OBVIOUS
<1>1. log \in Seq(Entry) /\ flushed \in 0..Len(log)
  BY DEF Init
<1>2. NoWeight \in StoredWeights
  BY DEF StoredWeights
<1>3. weights \in [Address -> StoredWeights] /\ current_weight \in [Request -> StoredWeights]
  BY <1>2 DEF Init, NoWeights
<1>4. /\ pc \in [Request -> {"idle", "start", "submit", "resolve", "done", "gone"}]
      /\ input \in [Request -> Input \cup {Nothing}]
      /\ answer \in [Request -> {0, 200, 201, 404, 500, 503}]
  BY DEF Init
<1>5. up \in BOOLEAN /\ opened \in BOOLEAN
  BY DEF Init
<1>6. Asked
  BY DEF Init, Asked
<1> QED
  BY <1>1, <1>3, <1>4, <1>5, <1>6 DEF Init, Typed, TypeOK

(* Every variable keeps its type, and every weight its range.              *)
THEOREM TypeCorrect == Spec => []TypeOK
<1>1. Spec => []Typed
  BY TypedInit, TypedStep, PTL DEF Spec
<1> QED
  BY <1>1, PTL DEF Typed

-----------------------------------------------------------------------------
(* Resolved once                                                           *)

Once(l) ==
  \A i, j \in DOMAIN l :
    /\ i < j
    /\ l[i].op = "removal" /\ l[j].op = "removal"
    /\ l[i].address = l[j].address
    => \E k \in i..j : l[k].op = "appeal" /\ l[k].address = l[i].address

(* A prefix of the log, which a crash leaves, has each appeal resolved once. *)
LEMMA OncePrefix ==
  ASSUME NEW l \in Seq(Entry), NEW n \in 0..Len(l), Once(l)
  PROVE  Once(SubSeq(l, 1, n))
<1> DEFINE p == SubSeq(l, 1, n)
<1>1. p \in Seq(Entry) /\ Len(p) = n /\ \A i \in 1..n : p[i] = l[i]
  BY Prefix
<1> HIDE DEF p
<1>2. DOMAIN p = 1..n /\ DOMAIN l = 1..Len(l) /\ Len(l) \in Nat
  BY <1>1
<1> SUFFICES ASSUME NEW i \in DOMAIN p, NEW j \in DOMAIN p, i < j,
                    p[i].op = "removal", p[j].op = "removal", p[i].address = p[j].address
             PROVE  \E k \in i..j : p[k].op = "appeal" /\ p[k].address = p[i].address
  BY DEF Once, p
<1>3. PICK k \in i..j : l[k].op = "appeal" /\ l[k].address = l[i].address
  BY <1>1, <1>2 DEF Once
<1> QED
  BY <1>1, <1>2, <1>3

(* A write of no removal, or of one that finds an appeal, keeps it so. *)
LEMMA OnceAppend ==
  ASSUME NEW l \in Seq(Entry), NEW e \in Entry, Once(l),
         e.op = "removal" => Pending(l, e.address) # NoAppeal
  PROVE  Once(Append(l, e))
<1> DEFINE q == Append(l, e)
           n == Len(l)
<1>1. /\ q \in Seq(Entry) /\ Len(q) = n + 1 /\ q[n + 1] = e
      /\ \A i \in 1..n : q[i] = l[i]
  BY Longer
<1>2. n \in Nat /\ DOMAIN l = 1..n
  OBVIOUS
<1> HIDE DEF q, n
<1>3. DOMAIN q = 1..(n + 1)
  BY <1>1, <1>2
<1> SUFFICES ASSUME NEW i \in DOMAIN q, NEW j \in DOMAIN q, i < j,
                    q[i].op = "removal", q[j].op = "removal", q[i].address = q[j].address
             PROVE  \E k \in i..j : q[k].op = "appeal" /\ q[k].address = q[i].address
  BY DEF Once, q
<1>4. i \in 1..n
  BY <1>2, <1>3
<1>5. CASE j \in 1..n
  <2>1. PICK k \in i..j : l[k].op = "appeal" /\ l[k].address = l[i].address
    BY <1>1, <1>2, <1>4, <1>5 DEF Once
  <2> QED
    BY <1>1, <1>2, <1>4, <1>5, <2>1
<1>6. CASE j = n + 1
  <2>1. Pending(l, e.address) # NoAppeal /\ l[i].op = "removal" /\ l[i].address = e.address
    BY <1>1, <1>4, <1>6
  <2>2. PICK k \in DOMAIN l : /\ l[k].op = "appeal" /\ l[k].address = e.address
                              /\ \A m \in DOMAIN l :
                                   l[m].op = "removal" /\ l[m].address = e.address => m < k
    BY <2>1, PendingIsLast
  <2>3. k \in 1..n /\ i < k
    BY <1>2, <1>4, <2>1, <2>2
  <2> QED
    BY <1>1, <1>2, <1>4, <1>6, <2>1, <2>2, <2>3
<1> QED
  BY <1>2, <1>3, <1>5, <1>6

(* How a step changes the log. *)
LEMMA LogStep ==
  ASSUME Typed, [Next]_vars
  PROVE  \/ log' = log
         \/ Crash
         \/ \E e \in Entry :
              /\ log' = Append(log, e)
              /\ e.op = "removal" => Pending(log, e.address) # NoAppeal
<1>1. ASSUME NEW r \in Request, submit(r)
      PROVE  \/ log' = log
             \/ \E e \in Entry : log' = Append(log, e) /\ e.op # "removal"
  <2> DEFINE e == [op |-> "appeal", address |-> address(r), by |-> r,
                   weight |-> current_weight[r]]
  <2>1. e \in Entry /\ e.op # "removal"
    BY <1>1, AddressTyped DEF submit, At, Typed, TypeOK, Entry
  <2>2. log' = log \/ log' = Append(log, e)
    BY <1>1 DEF submit, Write
  <2> QED
    BY <2>1, <2>2
<1>2. ASSUME NEW r \in Request, NEW a \in Address, NEW w \in 0..One, set(r, a, w)
      PROVE  \/ log' = log
             \/ \E e \in Entry : log' = Append(log, e) /\ e.op # "removal"
  <2> DEFINE e == [op |-> "weight", address |-> a, by |-> r, weight |-> w]
  <2>1. e \in Entry /\ e.op # "removal"
    BY DEF Entry, StoredWeights
  <2>2. log' = log \/ log' = Append(log, e)
    BY <1>2 DEF set, Write
  <2> QED
    BY <2>1, <2>2
<1>3. ASSUME NEW r \in Request, SetWeight(r)
      PROVE  \/ log' = log
             \/ \E e \in Entry : log' = Append(log, e) /\ e.op # "removal"
  <2>1. CASE UNCHANGED log
    BY <2>1
  <2>2. CASE /\ input[r].new_weight # NoWeight
             /\ set(r, address(r), Clamp(input[r].new_weight))
    <3>1. input[r] \in Input /\ address(r) \in Address
      BY <1>3, AddressTyped DEF SetWeight, At
    <3>2. Clamp(input[r].new_weight) \in 0..One
      BY <1>3, <2>2, <3>1, ClampTyped, ReviewsAssumption DEF SetWeight, At, ReviewsAssumption
    <3> QED
      BY <1>2, <2>2, <3>1, <3>2
  <2> QED
    BY <1>3, <2>1, <2>2 DEF SetWeight
<1>4. ASSUME NEW r \in Request, Published(r)
      PROVE  \/ log' = log
             \/ \E e \in Entry : log' = Append(log, e) /\ e.op # "removal"
  <2>1. address(r) \in Address /\ One \in 0..One
    BY <1>4, AddressTyped, ReviewsAssumption DEF Published, At, ReviewsAssumption
  <2> QED
    BY <1>2, <1>4, <2>1 DEF Published
<1>5. ASSUME NEW r \in Request, resolve(r)
      PROVE  \/ log' = log
             \/ \E e \in Entry :
                  /\ log' = Append(log, e)
                  /\ Pending(log, e.address) # NoAppeal
  <2> DEFINE e == [op |-> "removal", address |-> address(r), by |-> r, weight |-> NoWeight]
  <2>1. e \in Entry /\ e.address = address(r)
    BY <1>5, AddressTyped DEF resolve, At, Entry, StoredWeights
  <2>2. CASE UNCHANGED log
    BY <2>2
  <2>3. CASE Pending(log, address(r)) # NoAppeal /\ Write(e)
    BY <2>1, <2>3 DEF Write
  <2> QED
    BY <1>5, <2>2, <2>3 DEF resolve
<1>6. ASSUME NEW r \in Request, NEW i \in Input, Arrive(r, i)
      PROVE  log' = log
  BY <1>6 DEF Arrive
<1>7. ASSUME NEW r \in Request, Unavailable(r) \/ NoteWeight(r)
      PROVE  log' = log
  BY <1>7 DEF Unavailable, NoteWeight
<1>8. CASE with_persistence \/ in_memory \/ Flush \/ Stop \/ UNCHANGED vars
  BY <1>8 DEF with_persistence, in_memory, Flush, Stop, vars
<1> QED
  BY <1>1, <1>3, <1>4, <1>5, <1>6, <1>7, <1>8 DEF Next

(* A request that was told that it resolved an appeal removed the entry,   *)
(* and the removal is in the log unless a crash undid it.                  *)
Removed(l, r) ==
  \E i \in DOMAIN l : l[i].op = "removal" /\ l[i].by = r /\ l[i].address = address(r)

Noted ==
  \A r \in Request :
    answer[r] = 200 => pc[r] # "idle" /\ (r \in lost \/ Removed(log, r))

(* A step that answers nobody with 200 and undoes no write.                *)
LEMMA NotedKept ==
  ASSUME Typed, Noted, lost' = lost,
         log' = log \/ \E e \in Entry : log' = Append(log, e),
         \A r \in Request : pc[r] # "idle" => pc'[r] # "idle" /\ input'[r] = input[r],
         NEW r \in Request, answer'[r] = 200 => answer[r] = 200
  PROVE  answer'[r] = 200 => pc'[r] # "idle" /\ (r \in lost' \/ Removed(log, r)')
<1> SUFFICES ASSUME answer'[r] = 200, r \notin lost
             PROVE  Removed(log, r)'
  BY DEF Noted
<1>1. PICK i \in DOMAIN log :
        log[i].op = "removal" /\ log[i].by = r /\ log[i].address = address(r)
  BY DEF Noted, Removed
<1>2. address(r)' = address(r)
  BY DEF Noted, address
<1>3. i \in DOMAIN log' /\ log'[i] = log[i]
  BY Longer DEF Typed, TypeOK
<1> QED
  BY <1>1, <1>2, <1>3 DEF Removed

(* What requests were told stays true of the log.                          *)
LEMMA NotedStep == Typed /\ Noted /\ [Next]_vars => Noted'
<1> SUFFICES ASSUME Typed, Noted, [Next]_vars
             PROVE  Noted'
  OBVIOUS
<1>1. CASE Crash
  <2>1. log \in Seq(Entry) /\ flushed \in 0..Len(log) /\ UNCHANGED <<answer, input>>
    BY <1>1 DEF Crash, Down, Typed, TypeOK
  <2>2. /\ log' = SubSeq(log, 1, flushed)
        /\ lost' = lost \cup {r \in Request : Removes(r, (flushed + 1)..Len(log))}
    BY <1>1 DEF Crash
  <2>3. Len(log') = flushed /\ log' \in Seq(Entry) /\ \A i \in 1..flushed : log'[i] = log[i]
    BY <2>1, <2>2, Prefix
  <2> SUFFICES ASSUME NEW r \in Request, answer[r] = 200
               PROVE  pc'[r] # "idle" /\ (r \in lost' \/ Removed(log, r)')
    BY <2>1 DEF Noted
  <2>4. pc'[r] # "idle"
    BY <1>1 DEF Crash, Down, Noted, Typed, TypeOK
  <2>5. CASE r \in lost
    BY <2>2, <2>4, <2>5
  <2>6. CASE Removed(log, r)
    <3>1. PICK i \in DOMAIN log :
            log[i].op = "removal" /\ log[i].by = r /\ log[i].address = address(r)
      BY <2>6 DEF Removed
    <3>2. CASE i > flushed
      <4>1. i \in (flushed + 1)..Len(log)
        BY <2>1, <3>2
      <4> QED
        BY <2>2, <2>4, <3>1, <4>1 DEF Removes
    <3>3. CASE i <= flushed
      <4>1. i \in DOMAIN log' /\ log'[i] = log[i]
        BY <2>1, <2>3, <3>3
      <4>2. address(r)' = address(r)
        BY <2>1 DEF address
      <4> QED
        BY <2>4, <3>1, <4>1, <4>2 DEF Removed
    <3> QED
      BY <2>1, <3>2, <3>3
  <2> QED
    BY <2>5, <2>6 DEF Noted
<1>2. CASE \E x \in Request : resolve(x)
  <2>1. PICK x \in Request : resolve(x)
    BY <1>2
  <2> DEFINE e == [op |-> "removal", address |-> address(x), by |-> x, weight |-> NoWeight]
  <2>2. e \in Entry /\ log \in Seq(Entry) /\ lost' = lost /\ input' = input
    BY <2>1, AddressTyped DEF resolve, At, Entry, StoredWeights, Answer, Typed, TypeOK
  <2>3. log' = log \/ log' = Append(log, e)
    BY <2>1 DEF resolve, Write
  <2>4. PICK code \in {200, 404, 500} :
          /\ pc' = [pc EXCEPT ![x] = "done"]
          /\ answer' = [answer EXCEPT ![x] = code]
          /\ code = 200 => log' = Append(log, e)
    BY <2>1 DEF resolve, Answer, Write
  <2>5. \A r \in Request : pc[r] # "idle" => pc'[r] # "idle" /\ input'[r] = input[r]
    BY <2>2, <2>4 DEF Typed, TypeOK
  <2>6. CASE code = 200
    <3>1. Removed(log, x)'
      <4>1. /\ Len(log) + 1 \in DOMAIN log'
            /\ log'[Len(log) + 1] = e
        BY <2>2, <2>4, <2>6, Longer
      <4>2. address(x)' = address(x)
        BY <2>2 DEF address
      <4> QED
        BY <4>1, <4>2 DEF Removed
    <3>2. pc'[x] # "idle"
      BY <2>4 DEF Typed, TypeOK
    <3>3. \A r \in Request \ {x} : answer'[r] = answer[r]
      BY <2>4 DEF Typed, TypeOK
    <3>4. \A r \in Request \ {x} :
            answer'[r] = 200 => pc'[r] # "idle" /\ (r \in lost' \/ Removed(log, r)')
      BY <2>2, <2>3, <2>5, <3>3, NotedKept
    <3> QED
      BY <3>1, <3>2, <3>4 DEF Noted
  <2>7. CASE code # 200
    <3>1. \A r \in Request : answer'[r] = 200 => answer[r] = 200
      BY <2>4, <2>7 DEF Typed, TypeOK
    <3> QED
      BY <2>2, <2>3, <2>5, <3>1, NotedKept DEF Noted
  <2> QED
    BY <2>6, <2>7
<1>3. CASE ~Crash /\ ~(\E x \in Request : resolve(x))
  <2> DEFINE Quiet ==
        /\ \A r \in Request : pc[r] # "idle" => pc'[r] # "idle" /\ input'[r] = input[r]
        /\ \A r \in Request : answer'[r] = 200 => answer[r] = 200
  <2>1. log' = log \/ \E e \in Entry : log' = Append(log, e)
    BY <1>3, LogStep
  <2>2. lost' = lost /\ Quiet
    <3>1. ASSUME NEW x \in Request, NEW code \in {201, 404, 500, 503},
                 Answer(x, code) \/ Goto(x, "submit") \/ Goto(x, "resolve")
          PROVE  Quiet
      BY <3>1 DEF Answer, Goto, Typed, TypeOK
    <3>2. ASSUME NEW x \in Request,
                 \/ Unavailable(x) \/ NoteWeight(x) \/ submit(x) \/ SetWeight(x) \/ Published(x)
          PROVE  lost' = lost /\ Quiet
      BY <3>1, <3>2 DEF Unavailable, NoteWeight, submit, SetWeight, Published
    <3>3. ASSUME NEW x \in Request, NEW i \in Input, Arrive(x, i)
          PROVE  lost' = lost /\ Quiet
      BY <3>3 DEF Arrive, Typed, TypeOK
    <3>4. CASE with_persistence \/ in_memory \/ Flush \/ UNCHANGED vars
      BY <3>4 DEF with_persistence, in_memory, Flush, vars, tasks
    <3>5. CASE Stop
      BY <3>5 DEF Stop, Down, Typed, TypeOK
    <3> QED
      BY <1>3, <3>2, <3>3, <3>4, <3>5 DEF Next
  <2> QED
    BY <2>1, <2>2, NotedKept DEF Noted
<1> QED
  BY <1>1, <1>2, <1>3

(* Two requests are told that they resolved an appeal only for two appeals,*)
(* even if databases fail and the process ends in between, unless a crash  *)
(* undid what one of them was told.                                        *)
THEOREM OneResolution == Spec => []ResolvedOnce
<1>1. Init => Once(log) /\ Noted
  BY DEF Init, Once, Noted
<1>2. Typed /\ Once(log) /\ [Next]_vars => Once(log)'
  <2> SUFFICES ASSUME Typed, Once(log), [Next]_vars
               PROVE  Once(log')
    BY DEF Once
  <2>1. log \in Seq(Entry) /\ flushed \in 0..Len(log)
    BY DEF Typed, TypeOK
  <2>2. CASE Crash
    BY <2>1, <2>2, OncePrefix DEF Crash
  <2>3. CASE \E e \in Entry :
               /\ log' = Append(log, e)
               /\ e.op = "removal" => Pending(log, e.address) # NoAppeal
    <3>1. PICK e \in Entry : /\ log' = Append(log, e)
                             /\ e.op = "removal" => Pending(log, e.address) # NoAppeal
      BY <2>3
    <3>2. Once(Append(log, e))
      BY <2>1, <3>1, OnceAppend
    <3> QED
      BY <3>1, <3>2
  <2>4. CASE log' = log
    BY <2>4 DEF Once
  <2> QED
    BY <2>2, <2>3, <2>4, LogStep
<1>3. Typed /\ Once(log) /\ Noted => ResolvedOnce
  <2> SUFFICES ASSUME Typed, Once(log), Noted, NEW r \in Request, NEW s \in Request,
                      r # s, r \notin lost, s \notin lost,
                      answer[r] = 200, answer[s] = 200, address(r) = address(s)
               PROVE  \E i, j, k \in DOMAIN log :
                        /\ log[i].op = "removal" /\ log[i].by = r
                        /\ log[j].op = "removal" /\ log[j].by = s
                        /\ log[k].op = "appeal" /\ log[k].address = address(r)
                        /\ k \in i..j \cup j..i
    BY DEF ResolvedOnce
  <2>1. PICK i \in DOMAIN log :
          log[i].op = "removal" /\ log[i].by = r /\ log[i].address = address(r)
    BY DEF Noted, Removed
  <2>2. PICK j \in DOMAIN log :
          log[j].op = "removal" /\ log[j].by = s /\ log[j].address = address(s)
    BY DEF Noted, Removed
  <2>3. DOMAIN log = 1..Len(log) /\ Len(log) \in Nat /\ i # j
    BY <2>1, <2>2 DEF Typed, TypeOK
  <2>4. CASE i < j
    <3>1. PICK k \in i..j : log[k].op = "appeal" /\ log[k].address = log[i].address
      BY <2>1, <2>2, <2>4 DEF Once
    <3>2. k \in DOMAIN log
      BY <2>3, <3>1
    <3> QED
      BY <2>1, <2>2, <3>1, <3>2
  <2>5. CASE j < i
    <3>1. PICK k \in j..i : log[k].op = "appeal" /\ log[k].address = log[j].address
      BY <2>1, <2>2, <2>5 DEF Once
    <3>2. k \in DOMAIN log
      BY <2>3, <3>1
    <3> QED
      BY <2>1, <2>2, <3>1, <3>2
  <2> QED
    BY <2>3, <2>4, <2>5
<1> QED
  BY <1>1, <1>2, <1>3, NotedStep, TypedInit, TypedStep, PTL DEF Spec

-----------------------------------------------------------------------------
(* Whole decisions                                                         *)

(* What the log holds was written for requests that arrived; a handler     *)
(* that is about to remove the entry has written its weight.               *)
Authored == \A i \in DOMAIN log : pc[log[i].by] # "idle"

WeightWritten(l, r) == \E j \in DOMAIN l : l[j].op = "weight" /\ l[j].by = r

Applied ==
  \A r \in Request :
    pc[r] = "resolve" /\ input[r].new_weight # NoWeight /\ address(r) \notin Damaged =>
      WeightWritten(log, r)

Whole ==
  \A i \in DOMAIN log :
    /\ log[i].op = "removal"
    /\ log[i].address \notin Damaged
    /\ input[log[i].by].new_weight # NoWeight
    => \E j \in 1..(i - 1) : log[j].op = "weight" /\ log[j].by = log[i].by

DInv == Authored /\ Applied /\ Whole

(* What a request asks for never changes once it has arrived. *)
InputsStay == \A r \in Request : pc[r] # "idle" => input'[r] = input[r] /\ pc'[r] # "idle"

(* No step changes what a request that has arrived asks for. *)
LEMMA InputsAlwaysStay == Typed /\ [Next]_vars => InputsStay
<1> SUFFICES ASSUME Typed, [Next]_vars
             PROVE  InputsStay
  OBVIOUS
<1> USE DEF InputsStay, Typed, TypeOK
<1>1. ASSUME NEW r \in Request, NEW i \in Input, Arrive(r, i)
      PROVE  InputsStay
  BY <1>1 DEF Arrive
<1>2. ASSUME NEW r \in Request, Unavailable(r) \/ submit(r) \/ resolve(r) \/ Published(r)
      PROVE  InputsStay
  BY <1>2 DEF Unavailable, submit, resolve, Published, Answer
<1>3. ASSUME NEW r \in Request, NoteWeight(r) \/ SetWeight(r)
      PROVE  InputsStay
  BY <1>3 DEF NoteWeight, SetWeight, Goto
<1>4. CASE with_persistence \/ in_memory \/ Flush \/ UNCHANGED vars
  BY <1>4 DEF with_persistence, in_memory, Flush, vars, tasks
<1>5. CASE Stop \/ Crash
  BY <1>5 DEF Stop, Crash, Down
<1> QED
  BY <1>1, <1>2, <1>3, <1>4, <1>5 DEF Next

(* A handler may write for itself, and remove when it has applied.         *)
LEMMA DecisionKept ==
  ASSUME Typed, DInv, InputsStay, NEW e \in Entry,
         log' = log \/ log' = Append(log, e),
         pc[e.by] # "idle",
         e.op = "removal" => pc[e.by] = "resolve" /\ e.address = address(e.by),
         \A r \in Request :
           /\ pc'[r] = "resolve"
           /\ input'[r].new_weight # NoWeight
           /\ input'[r].address \notin Damaged
           => pc[r] = "resolve" \/ WeightWritten(log', r)
  PROVE  DInv'
<1> DEFINE n == Len(log)
<1>1. n \in Nat /\ DOMAIN log = 1..n /\ log \in Seq(Entry)
  BY DEF Typed, TypeOK
<1>2. \A i \in 1..n : log[i] \in Entry /\ log[i].by \in Request
  <2>1. \A i \in 1..n : log[i] \in Entry
    BY <1>1
  <2> QED
    BY <2>1 DEF Entry
<1>3. e.by \in Request
  BY DEF Entry
<1>4. /\ \A i \in 1..n : i \in DOMAIN log' /\ log'[i] = log[i]
      /\ \A i \in DOMAIN log' : i \in 1..n \/ (i = n + 1 /\ log'[i] = e)
  <2>1. CASE log' = log
    BY <1>1, <2>1
  <2>2. CASE log' = Append(log, e)
    <3>1. /\ log' \in Seq(Entry) /\ Len(log') = n + 1 /\ log'[n + 1] = e
          /\ \A i \in 1..n : log'[i] = log[i]
      BY <1>1, <2>2, Longer
    <3>2. DOMAIN log' = 1..(n + 1)
      BY <3>1
    <3> QED
      BY <1>1, <3>1, <3>2
  <2> QED
    BY <2>1, <2>2
<1> HIDE DEF n
<1>6. Authored'
  <2> SUFFICES ASSUME NEW i \in DOMAIN log'
               PROVE  pc'[log'[i].by] # "idle"
    BY DEF Authored
  <2>1. CASE i \in 1..n
    BY <1>1, <1>2, <1>4, <2>1 DEF DInv, Authored, InputsStay
  <2>2. CASE i = n + 1 /\ log'[i] = e
    BY <1>3, <2>2 DEF InputsStay
  <2> QED
    BY <1>4, <2>1, <2>2
<1>7. \A r \in Request : WeightWritten(log, r) => WeightWritten(log', r)
  BY <1>1, <1>4 DEF WeightWritten
<1>8. Applied'
  <2> SUFFICES ASSUME NEW r \in Request, pc'[r] = "resolve", input'[r].new_weight # NoWeight,
                      input'[r].address \notin Damaged
               PROVE  WeightWritten(log', r)
    BY DEF Applied, WeightWritten, address
  <2>1. CASE pc[r] = "resolve"
    <3>1. input[r].new_weight # NoWeight /\ address(r) \notin Damaged
      BY <2>1 DEF InputsStay, address
    <3> QED
      BY <1>7, <2>1, <3>1 DEF DInv, Applied
  <2> QED
    BY <2>1
<1>9. Whole'
  <2> SUFFICES ASSUME NEW i \in DOMAIN log', log'[i].op = "removal", log'[i].address \notin Damaged,
                      input'[log'[i].by].new_weight # NoWeight
               PROVE  \E j \in 1..(i - 1) : log'[j].op = "weight" /\ log'[j].by = log'[i].by
    BY DEF Whole
  <2>1. CASE i \in 1..n
    <3>1. /\ log[i].op = "removal" /\ log[i].address \notin Damaged
          /\ input[log[i].by].new_weight # NoWeight
      BY <1>1, <1>2, <1>4, <2>1 DEF DInv, Authored, InputsStay
    <3>2. PICK j \in 1..(i - 1) : log[j].op = "weight" /\ log[j].by = log[i].by
      BY <1>1, <2>1, <3>1 DEF DInv, Whole
    <3>3. j \in 1..n
      BY <1>1, <2>1
    <3> QED
      BY <1>4, <2>1, <3>2, <3>3
  <2>2. CASE i = n + 1 /\ log'[i] = e
    <3>1. /\ pc[e.by] = "resolve" /\ input[e.by].new_weight # NoWeight
          /\ address(e.by) \notin Damaged
      BY <1>3, <2>2 DEF InputsStay
    <3>2. PICK j \in DOMAIN log : log[j].op = "weight" /\ log[j].by = e.by
      BY <1>3, <3>1 DEF DInv, Applied, WeightWritten
    <3>3. j \in 1..n /\ j \in 1..(i - 1)
      BY <1>1, <2>2
    <3> QED
      BY <1>4, <2>2, <3>2, <3>3
  <2> QED
    BY <1>4, <2>1, <2>2
<1> QED
  BY <1>6, <1>8, <1>9 DEF DInv

(* A step that leaves the log and lets no handler go on to the removal. *)
LEMMA DecisionQuiet ==
  ASSUME Typed, DInv, InputsStay, log' = log,
         \A r \in Request : pc'[r] = "resolve" =>
           \/ pc[r] = "resolve"
           \/ input'[r].new_weight = NoWeight
           \/ input'[r].address \in Damaged
  PROVE  DInv'
<1>1. \A i \in DOMAIN log : log[i].by \in Request
  <2>1. \A i \in DOMAIN log : log[i] \in Entry
    BY DEF Typed, TypeOK
  <2> QED
    BY <2>1 DEF Entry
<1>2. Authored'
  BY <1>1 DEF DInv, Authored, InputsStay
<1>3. Applied'
  BY DEF DInv, Applied, WeightWritten, InputsStay, address
<1>4. Whole'
  BY <1>1 DEF DInv, Authored, Whole, InputsStay
<1> QED
  BY <1>2, <1>3, <1>4 DEF DInv

(* Every step keeps the invariant behind DecisionIsWhole. *)
LEMMA DecisionStep == Typed /\ DInv /\ [Next]_vars => DInv'
<1> SUFFICES ASSUME Typed, DInv, [Next]_vars
             PROVE  DInv'
  OBVIOUS
<1>1. InputsStay
  BY InputsAlwaysStay
<1>2. pc \in [Request -> {"idle", "start", "submit", "resolve", "done", "gone"}]
  BY DEF Typed, TypeOK
<1>3. ASSUME NEW r \in Request, NEW i \in Input, Arrive(r, i)
      PROVE  DInv'
  BY <1>1, <1>2, <1>3, DecisionQuiet DEF Arrive
<1>4. ASSUME NEW r \in Request, Unavailable(r)
      PROVE  DInv'
  BY <1>1, <1>2, <1>4, DecisionQuiet DEF Unavailable, Answer
<1>5. ASSUME NEW r \in Request, NoteWeight(r)
      PROVE  DInv'
  BY <1>1, <1>2, <1>5, DecisionQuiet DEF NoteWeight, Goto
<1>6. ASSUME NEW r \in Request, submit(r)
      PROVE  DInv'
  <2> DEFINE e == [op |-> "appeal", address |-> address(r), by |-> r,
                   weight |-> current_weight[r]]
  <2>1. e \in Entry /\ e.op # "removal" /\ e.by = r /\ pc[r] # "idle"
    BY <1>6, AddressTyped DEF submit, At, Typed, TypeOK, Entry
  <2>2. log' = log \/ log' = Append(log, e)
    BY <1>6 DEF submit, Write
  <2>3. \A q \in Request : pc'[q] = "resolve" => pc[q] = "resolve"
    BY <1>2, <1>6 DEF submit, Answer
  <2> QED
    BY <1>1, <2>1, <2>2, <2>3, DecisionKept
<1>7. ASSUME NEW r \in Request, SetWeight(r)
      PROVE  DInv'
  <2>1. /\ pc[r] # "idle" /\ input' = input /\ opened
        /\ input[r] \in Input /\ address(r) \in Address
        /\ \A q \in Request : pc'[q] = "resolve" => pc[q] = "resolve" \/ q = r
    BY <1>2, <1>7, AddressTyped DEF SetWeight, At, Goto
  <2>2. CASE input[r].new_weight = NoWeight
    <3>1. log' = log
      BY <1>7, <2>2 DEF SetWeight
    <3> QED
      BY <1>1, <2>1, <2>2, <3>1, DecisionQuiet
  <2>3. CASE input[r].new_weight # NoWeight
    <3> DEFINE w == Clamp(input[r].new_weight)
               e == [op |-> "weight", address |-> address(r), by |-> r, weight |-> w]
    <3>1. w \in 0..One
      BY <1>7, <2>1, <2>3, ClampTyped, ReviewsAssumption DEF SetWeight, At, ReviewsAssumption
    <3>2. e \in Entry /\ e.op = "weight" /\ e.by = r
      BY <2>1, <3>1 DEF Entry, StoredWeights
    <3>3. log' = Append(log, e) \/ (address(r) \in Damaged /\ log' = log)
      BY <1>7, <2>1, <2>3 DEF SetWeight, set, Write
    <3> HIDE DEF e
    <3>4. log' = Append(log, e) => WeightWritten(log', r)
      <4>1. ASSUME log' = Append(log, e)
            PROVE  Len(log) + 1 \in DOMAIN log' /\ log'[Len(log) + 1] = e
        BY <3>2, <4>1, Longer DEF Typed, TypeOK
      <4> QED
        BY <3>2, <4>1 DEF WeightWritten
    <3>5. \A q \in Request :
            pc'[q] = "resolve" /\ input'[q].address \notin Damaged =>
              pc[q] = "resolve" \/ WeightWritten(log', q)
      BY <2>1, <3>3, <3>4 DEF address
    <3> QED
      BY <1>1, <2>1, <3>2, <3>3, <3>5, DecisionKept
  <2> QED
    BY <2>2, <2>3
<1>8. ASSUME NEW r \in Request, resolve(r)
      PROVE  DInv'
  <2> DEFINE e == [op |-> "removal", address |-> address(r), by |-> r, weight |-> NoWeight]
  <2>1. e \in Entry /\ e.by = r /\ e.address = address(r) /\ pc[r] = "resolve"
    BY <1>8, AddressTyped DEF resolve, At, Entry, StoredWeights
  <2>2. log' = log \/ log' = Append(log, e)
    BY <1>8 DEF resolve, Write
  <2>3. \A q \in Request : pc'[q] = "resolve" => pc[q] = "resolve"
    BY <1>2, <1>8 DEF resolve, Answer
  <2> QED
    BY <1>1, <2>1, <2>2, <2>3, DecisionKept
<1>9. ASSUME NEW r \in Request, Published(r)
      PROVE  DInv'
  <2> DEFINE e == [op |-> "weight", address |-> address(r), by |-> r, weight |-> One]
  <2>1. e \in Entry /\ e.op # "removal" /\ e.by = r /\ pc[r] # "idle"
    BY <1>9, AddressTyped, ReviewsAssumption
    DEF Published, At, Entry, StoredWeights, ReviewsAssumption
  <2>2. log' = log \/ log' = Append(log, e)
    BY <1>9 DEF Published, set, Write
  <2>3. \A q \in Request : pc'[q] = "resolve" => pc[q] = "resolve"
    BY <1>2, <1>9 DEF Published, Answer
  <2> QED
    BY <1>1, <2>1, <2>2, <2>3, DecisionKept
<1>10. CASE with_persistence \/ in_memory \/ Flush \/ UNCHANGED vars
  BY <1>1, <1>10, DecisionQuiet DEF with_persistence, in_memory, Flush, vars, tasks
<1>11. ASSUME Down
       PROVE  \A r \in Request : pc'[r] # "resolve"
  BY <1>11 DEF Down
<1>12. CASE Stop
  BY <1>1, <1>11, <1>12, DecisionQuiet DEF Stop
<1>13. CASE Crash
  <2>1. log \in Seq(Entry) /\ flushed \in 0..Len(log)
    BY DEF Typed, TypeOK
  <2>2. /\ log' \in Seq(Entry) /\ Len(log') = flushed
        /\ \A i \in 1..flushed : log'[i] = log[i] /\ log[i].by \in Request
    <3>1. \A i \in 1..flushed : log[i] \in Entry
      BY <2>1
    <3> QED
      BY <1>13, <2>1, <3>1, Prefix DEF Crash, Entry
  <2>3. DOMAIN log' = 1..flushed /\ flushed \in Nat /\ \A i \in 1..flushed : i \in DOMAIN log
    BY <2>1, <2>2
  <2>4. Authored'
    BY <1>1, <2>2, <2>3 DEF DInv, Authored, InputsStay
  <2>5. Applied'
    BY <1>11, <1>13 DEF Crash, Applied
  <2>6. Whole'
    <3> SUFFICES ASSUME NEW i \in 1..flushed, log'[i].op = "removal",
                        log'[i].address \notin Damaged,
                        input'[log'[i].by].new_weight # NoWeight
                 PROVE  \E j \in 1..(i - 1) :
                          log'[j].op = "weight" /\ log'[j].by = log'[i].by
      BY <2>3 DEF Whole
    <3>1. input[log[i].by].new_weight # NoWeight
      BY <1>1, <2>2, <2>3 DEF DInv, Authored, InputsStay
    <3>2. PICK j \in 1..(i - 1) : log[j].op = "weight" /\ log[j].by = log[i].by
      BY <2>2, <2>3, <3>1 DEF DInv, Whole
    <3> QED
      BY <2>2, <2>3, <3>2
  <2> QED
    BY <2>4, <2>5, <2>6 DEF DInv
<1> QED
  BY <1>3, <1>4, <1>5, <1>6, <1>7, <1>8, <1>9, <1>10, <1>12, <1>13 DEF Next

(* However the process ends, an appeal that an operator resolved with a    *)
(* new weight left that weight behind.                                     *)
THEOREM WholeDecisions == Spec => []DecisionIsWhole
<1>1. Init => DInv
  BY DEF Init, DInv, Authored, Applied, Whole
<1>2. DInv => DecisionIsWhole
  BY DEF DInv, Whole, DecisionIsWhole
<1> QED
  BY <1>1, <1>2, TypedInit, TypedStep, DecisionStep, PTL DEF Spec

-----------------------------------------------------------------------------
(* The map and its tree                                                    *)

(* How a write changes the weight the tree holds. *)
LEMMA StoredWeightAppend ==
  ASSUME NEW l \in Seq(Entry), NEW e \in Entry, NEW a
  PROVE  StoredWeight(Append(l, e), a) =
           IF e.op = "weight" /\ e.address = a THEN e.weight ELSE StoredWeight(l, a)
<1> DEFINE q == Append(l, e)
           n == Len(l)
           i == LastWrite(l, a, {"weight"})
           k == LastWrite(q, a, {"weight"})
<1>1. /\ q \in Seq(Entry) /\ Len(q) = n + 1 /\ q[n + 1] = e
      /\ \A j \in 1..n : q[j] = l[j]
  BY Longer
<1>2. /\ i # 0 => i \in DOMAIN l /\ l[i].address = a /\ l[i].op = "weight"
      /\ i \in 0..n
      /\ \A j \in DOMAIN l : l[j].address = a /\ l[j].op = "weight" => j <= i
  BY LastWriteFound
<1> HIDE DEF q
<1>3. /\ k # 0 => k \in DOMAIN q /\ q[k].address = a /\ q[k].op = "weight"
      /\ k \in 0..(n + 1)
      /\ \A j \in DOMAIN q : q[j].address = a /\ q[j].op = "weight" => j <= k
  BY <1>1, LastWriteFound
<1>4. n \in Nat /\ DOMAIN l = 1..n
  OBVIOUS
<1> HIDE DEF n, i, k
<1>5. DOMAIN q = 1..(n + 1)
  BY <1>1, <1>4
<1>6. CASE e.op = "weight" /\ e.address = a
  <2>1. k = n + 1
    BY <1>1, <1>3, <1>4, <1>5, <1>6
  <2> QED
    BY <1>1, <1>4, <1>6, <2>1 DEF StoredWeight, k, q
<1>7. CASE ~(e.op = "weight" /\ e.address = a)
  <2>1. k \in 0..n
    BY <1>1, <1>3, <1>4, <1>7
  <2>2. k = i
    BY <1>1, <1>2, <1>3, <1>4, <1>5, <2>1
  <2>3. k = 0 \/ q[k] = l[k]
    BY <1>1, <2>1
  <2> QED
    BY <1>7, <2>2, <2>3 DEF StoredWeight, k, i, q
<1> QED
  BY <1>6, <1>7

MInv == (opened => up) /\ WeightsMirrored

(* Writes to the queue do not change what is stored of the weights. *)
LEMMA MirrorAppend ==
  ASSUME Typed, MInv, UNCHANGED <<up, opened, weights>>, NEW e \in Entry, e.op # "weight",
         log' = log \/ log' = Append(log, e)
  PROVE  MInv'
<1>1. \A a \in Address : StoredWeight(log', a) = StoredWeight(log, a)
  <2>1. CASE log' = log
    BY <2>1
  <2>2. CASE log' = Append(log, e)
    <3>1. log \in Seq(Entry)
      BY DEF Typed, TypeOK
    <3> QED
      BY <2>2, <3>1, StoredWeightAppend
  <2> QED
    BY <2>1, <2>2
<1> QED
  BY <1>1 DEF MInv, WeightsMirrored

(* TrustWeightStore::set takes map and tree to the same weight. *)
LEMMA MirrorSet ==
  ASSUME Typed, MInv, UNCHANGED <<up, opened>>,
         NEW r \in Request, NEW a \in Address, NEW w \in 0..One, set(r, a, w)
  PROVE  MInv'
<1> DEFINE e == [op |-> "weight", address |-> a, by |-> r, weight |-> w]
<1> SUFFICES ASSUME opened, NEW b \in Address \ Damaged
             PROVE  weights'[b] = StoredWeight(log', b)
  BY DEF MInv, WeightsMirrored
<1>1. e \in Entry /\ e.op = "weight" /\ e.address = a /\ e.weight = w
  BY DEF Entry, StoredWeights
<1>2. /\ log' = Append(log, e) \/ (a \in Damaged /\ log' = log)
      /\ weights' = [weights EXCEPT ![a] = w]
  BY DEF set, Write
<1>3. log \in Seq(Entry) /\ weights \in [Address -> StoredWeights]
  BY DEF Typed, TypeOK
<1>4. weights[b] = StoredWeight(log, b)
  BY DEF MInv, WeightsMirrored
<1> HIDE DEF e
<1>5. StoredWeight(log', b) = IF a = b THEN w ELSE StoredWeight(log, b)
  <2>1. CASE log' = Append(log, e)
    BY <1>1, <1>3, <2>1, StoredWeightAppend
  <2>2. CASE a \in Damaged /\ log' = log
    BY <2>2
  <2> QED
    BY <1>2, <2>1, <2>2
<1> QED
  BY <1>2, <1>3, <1>4, <1>5

(* Every step keeps map and tree equal. *)
LEMMA MirrorStep == Typed /\ MInv /\ [Next]_vars => MInv'
<1> SUFFICES ASSUME Typed, MInv, [Next]_vars
             PROVE  MInv'
  OBVIOUS
<1>1. UNCHANGED <<up, opened, weights, log>> => MInv'
  BY DEF MInv, WeightsMirrored
<1>2. ASSUME NEW r \in Request, NEW i \in Input, Arrive(r, i)
      PROVE  MInv'
  BY <1>1, <1>2 DEF Arrive
<1>3. ASSUME NEW r \in Request, Unavailable(r) \/ NoteWeight(r)
      PROVE  MInv'
  BY <1>1, <1>3 DEF Unavailable, NoteWeight
<1>4. ASSUME NEW r \in Request, submit(r)
      PROVE  MInv'
  <2> DEFINE e == [op |-> "appeal", address |-> address(r), by |-> r,
                   weight |-> current_weight[r]]
  <2>1. e \in Entry /\ e.op # "weight"
    BY <1>4, AddressTyped DEF submit, At, Typed, TypeOK, Entry
  <2>2. log' = log \/ log' = Append(log, e)
    BY <1>4 DEF submit, Write
  <2> QED
    BY <1>4, <2>1, <2>2, MirrorAppend DEF submit
<1>5. ASSUME NEW r \in Request, SetWeight(r)
      PROVE  MInv'
  <2>1. CASE UNCHANGED <<weights, log>>
    BY <1>1, <1>5, <2>1 DEF SetWeight
  <2>2. CASE /\ input[r].new_weight # NoWeight
             /\ set(r, address(r), Clamp(input[r].new_weight))
    <3>1. input[r] \in Input /\ address(r) \in Address
      BY <1>5, AddressTyped DEF SetWeight, At
    <3>2. Clamp(input[r].new_weight) \in 0..One
      BY <1>5, <2>2, <3>1, ClampTyped, ReviewsAssumption DEF SetWeight, At, ReviewsAssumption
    <3> QED
      BY <1>5, <2>2, <3>1, <3>2, MirrorSet DEF SetWeight
  <2> QED
    BY <1>5, <2>1, <2>2 DEF SetWeight
<1>6. ASSUME NEW r \in Request, resolve(r)
      PROVE  MInv'
  <2> DEFINE e == [op |-> "removal", address |-> address(r), by |-> r, weight |-> NoWeight]
  <2>1. e \in Entry /\ e.op # "weight"
    BY <1>6, AddressTyped DEF resolve, At, Entry, StoredWeights
  <2>2. log' = log \/ log' = Append(log, e)
    BY <1>6 DEF resolve, Write
  <2> QED
    BY <1>6, <2>1, <2>2, MirrorAppend DEF resolve
<1>7. ASSUME NEW r \in Request, Published(r)
      PROVE  MInv'
  <2>1. address(r) \in Address /\ One \in 0..One
    BY <1>7, AddressTyped, ReviewsAssumption DEF Published, At, ReviewsAssumption
  <2> QED
    BY <1>7, <2>1, MirrorSet DEF Published
<1>8. CASE with_persistence
  <2>1. \A a \in Address \ Damaged : weights'[a] = StoredWeight(log, a)
    BY <1>8 DEF with_persistence
  <2> QED
    BY <1>8, <2>1 DEF with_persistence, MInv, WeightsMirrored
<1>9. CASE in_memory
  BY <1>9 DEF in_memory, MInv, WeightsMirrored
<1>10. CASE Flush
  BY <1>1, <1>10 DEF Flush
<1>11. CASE Stop \/ Crash
  BY <1>11 DEF Stop, Crash, Down, MInv, WeightsMirrored
<1>12. CASE UNCHANGED vars
  BY <1>1, <1>12 DEF vars
<1> QED
  BY <1>2, <1>3, <1>4, <1>5, <1>6, <1>7, <1>8, <1>9, <1>10, <1>11, <1>12 DEF Next

(* The weights served are those a restart would load. *)
THEOREM MirrorHolds == Spec => []WeightsMirrored
<1>1. Init => MInv
  BY DEF Init, MInv, WeightsMirrored
<1>2. MInv => WeightsMirrored
  BY DEF MInv
<1> QED
  BY <1>1, <1>2, TypedInit, TypedStep, MirrorStep, PTL DEF Spec
=============================================================================
