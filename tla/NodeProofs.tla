----------------------------- MODULE NodeProofs -----------------------------
(***************************************************************************)
(* Theorems about Node, for any requests, records of peers and capacities. *)
(***************************************************************************)
EXTENDS NodeStore, FiniteSetTheorems, SequenceTheorems, WellFoundedInduction, TLAPS

-----------------------------------------------------------------------------
(* The sum of a function over a finite set, as the community modules       *)
(* define it by a recursive function on the subsets: that the function     *)
(* exists, that the sum is a natural number, and what it gains when the    *)
(* function grows by one at one place.  Each is shown of a smallest subset *)
(* for which it fails, which a finite set would have.                      *)

Pick(s) == CHOOSE x \in s : TRUE

(* sum is the recursive function that adds f over the subsets of S. *)
Sums(sum, f, S) ==
  sum = [s \in SUBSET S |-> IF s = {} THEN 0 ELSE f[Pick(s)] + sum[s \ {Pick(s)}]]

Total(f, S) == (CHOOSE sum : Sums(sum, f, S))[S]

-----------------------------------------------------------------------------
(* A set of subsets of a finite set has a smallest one.                    *)
LEMMA SmallestSubset ==
  ASSUME NEW S, IsFiniteSet(S), NEW Bad \in SUBSET (SUBSET S), Bad # {}
  PROVE  \E s \in Bad : \A t \in Bad : t \subseteq s => t = s
<1>1. FiniteSubsetsOf(S) = SUBSET S
  BY FS_FiniteSubsetsOfFinite
<1>2. IsWellFoundedOn(StrictSubsetOrdering(S), SUBSET S)
  BY <1>1, FS_StrictSubsetOrderingWellFounded
<1>3. PICK s \in Bad : \A t \in Bad : ~(<<t, s>> \in StrictSubsetOrdering(S))
  BY <1>2, WFMin
<1> QED
  BY <1>3 DEF StrictSubsetOrdering

(* The recursion has at most one solution.                                 *)
LEMMA SumsUnique ==
  ASSUME NEW S, IsFiniteSet(S), NEW f, NEW sum, NEW other, NEW T \in SUBSET S,
         Sums(sum, f, S), Sums(other, f, T)
  PROVE  \A s \in SUBSET T : sum[s] = other[s]
<1> DEFINE Bad == {s \in SUBSET T : sum[s] # other[s]}
<1> SUFFICES ASSUME Bad # {}
             PROVE  FALSE
  OBVIOUS
<1>1. IsFiniteSet(T)
  BY FS_Subset
<1>2. PICK s \in Bad : \A t \in Bad : t \subseteq s => t = s
  <2>1. Bad \in SUBSET (SUBSET T)
    OBVIOUS
  <2> HIDE DEF Bad
  <2> QED
    BY <1>1, <2>1, SmallestSubset
<1>3. CASE s = {}
  BY <1>2, <1>3 DEF Sums
<1>4. CASE s # {}
  <2>1. Pick(s) \in s
    BY <1>4 DEF Pick
  <2>2. s \ {Pick(s)} \in SUBSET T /\ s \ {Pick(s)} # s
    BY <1>2, <2>1
  <2>3. sum[s \ {Pick(s)}] = other[s \ {Pick(s)}]
    BY <1>2, <2>2
  <2>4. /\ sum[s] = f[Pick(s)] + sum[s \ {Pick(s)}]
        /\ other[s] = f[Pick(s)] + other[s \ {Pick(s)}]
    BY <1>2, <1>4 DEF Sums
  <2> QED
    BY <1>2, <2>3, <2>4
<1> QED
  BY <1>3, <1>4

(* And it has one.                                                         *)
LEMMA SumsExist ==
  ASSUME NEW S, IsFiniteSet(S), NEW f
  PROVE  \E sum : Sums(sum, f, S)
<1> DEFINE Bad == {s \in SUBSET S : ~ \E sum : Sums(sum, f, s)}
<1> SUFFICES ASSUME Bad # {}
             PROVE  FALSE
  OBVIOUS
<1>1. PICK s \in Bad : \A t \in Bad : t \subseteq s => t = s
  <2>1. Bad \in SUBSET (SUBSET S)
    OBVIOUS
  <2> HIDE DEF Bad
  <2> QED
    BY <2>1, SmallestSubset
<1> DEFINE below(t) == CHOOSE sum : Sums(sum, f, t)
           rest(t) == t \ {Pick(t)}
           glued == [t \in SUBSET s |->
                       IF t = {} THEN 0 ELSE f[Pick(t)] + below(rest(t))[rest(t)]]
<1>2. \A t \in SUBSET s : t # s => Sums(below(t), f, t)
  <2> SUFFICES ASSUME NEW t \in SUBSET s, t # s
               PROVE  \E sum : Sums(sum, f, t)
    OBVIOUS
  <2> QED
    BY <1>1
<1>3. \A t \in SUBSET s : t # s => glued[t] = below(t)[t]
  <2> SUFFICES ASSUME NEW t \in SUBSET s, t # s
               PROVE  glued[t] = below(t)[t]
    OBVIOUS
  <2>1. Sums(below(t), f, t)
    BY <1>2
  <2>2. CASE t = {}
    BY <2>1, <2>2 DEF Sums
  <2>3. CASE t # {}
    <3>1. Pick(t) \in t
      BY <2>3 DEF Pick
    <3>2. rest(t) \in SUBSET s /\ rest(t) \in SUBSET t /\ rest(t) # s
      BY <3>1
    <3>3. Sums(below(rest(t)), f, rest(t))
      BY <1>2, <3>2
    <3>4. IsFiniteSet(t)
      BY FS_Subset
    <3>5. below(t)[rest(t)] = below(rest(t))[rest(t)]
      <4> HIDE DEF below, rest
      <4> QED
        BY <2>1, <3>2, <3>3, <3>4, SumsUnique
    <3>6. below(t)[t] = f[Pick(t)] + below(t)[rest(t)]
      BY <2>1, <2>3 DEF Sums
    <3> QED
      BY <2>3, <3>5, <3>6
  <2> QED
    BY <2>2, <2>3
<1>4. Sums(glued, f, s)
  <2>1. ASSUME NEW t \in SUBSET s, t # {}
        PROVE  glued[t] = f[Pick(t)] + glued[rest(t)]
    <3>1. Pick(t) \in t
      BY <2>1 DEF Pick
    <3>2. rest(t) \in SUBSET s /\ rest(t) # s
      BY <3>1
    <3> QED
      BY <1>3, <2>1, <3>2
  <2>2. glued[{}] = 0 /\ glued = [t \in SUBSET s |-> glued[t]]
    OBVIOUS
  <2> HIDE DEF glued
  <2>3. \A t \in SUBSET s :
          glued[t] = IF t = {} THEN 0 ELSE f[Pick(t)] + glued[t \ {Pick(t)}]
    BY <2>1, <2>2
  <2> QED
    BY <2>2, <2>3 DEF Sums
<1> QED
  BY <1>1, <1>4

-----------------------------------------------------------------------------
LEMMA TotalDef ==
  ASSUME NEW S, IsFiniteSet(S), NEW f
  PROVE  \E sum : Sums(sum, f, S) /\ Total(f, S) = sum[S]
<1>1. PICK sum : Sums(sum, f, S)
  BY SumsExist
<1> QED
  BY <1>1 DEF Total

(* A sum of natural numbers is one.                                        *)
LEMMA TotalNat ==
  ASSUME NEW S, IsFiniteSet(S), NEW f \in [S -> Nat]
  PROVE  Total(f, S) \in Nat
<1>1. PICK sum : Sums(sum, f, S) /\ Total(f, S) = sum[S]
  BY TotalDef
<1> DEFINE Bad == {s \in SUBSET S : sum[s] \notin Nat}
<1> SUFFICES ASSUME Bad # {}
             PROVE  FALSE
  BY <1>1
<1>2. PICK s \in Bad : \A t \in Bad : t \subseteq s => t = s
  <2>1. Bad \in SUBSET (SUBSET S)
    OBVIOUS
  <2> HIDE DEF Bad
  <2> QED
    BY <2>1, SmallestSubset
<1>3. s # {}
  BY <1>1, <1>2 DEF Sums
<1>4. Pick(s) \in s
  BY <1>3 DEF Pick
<1>5. sum[s] = f[Pick(s)] + sum[s \ {Pick(s)}]
  BY <1>1, <1>2, <1>3 DEF Sums
<1>6. sum[s \ {Pick(s)}] \in Nat /\ f[Pick(s)] \in Nat
  BY <1>2, <1>4
<1> QED
  BY <1>2, <1>5, <1>6

(* One more at one place is one more in the sum.                           *)
LEMMA TotalIncrement ==
  ASSUME NEW S, IsFiniteSet(S), NEW f \in [S -> Nat], NEW d \in S
  PROVE  Total([f EXCEPT ![d] = @ + 1], S) = Total(f, S) + 1
<1> DEFINE g == [f EXCEPT ![d] = @ + 1]
<1>1. PICK old : Sums(old, f, S) /\ Total(f, S) = old[S]
  BY TotalDef
<1>2. PICK new : Sums(new, g, S) /\ Total(g, S) = new[S]
  BY TotalDef
<1> DEFINE more(s) == IF d \in s THEN 1 ELSE 0
           Bad == {s \in SUBSET S : ~(old[s] \in Nat /\ new[s] = old[s] + more(s))}
<1> SUFFICES ASSUME Bad # {}
             PROVE  FALSE
  BY <1>1, <1>2
<1>3. PICK s \in Bad : \A t \in Bad : t \subseteq s => t = s
  <2>1. Bad \in SUBSET (SUBSET S)
    OBVIOUS
  <2> HIDE DEF Bad
  <2> QED
    BY <2>1, SmallestSubset
<1>4. s # {}
  BY <1>1, <1>2, <1>3 DEF Sums
<1>5. /\ old[s] = f[Pick(s)] + old[s \ {Pick(s)}]
      /\ new[s] = g[Pick(s)] + new[s \ {Pick(s)}]
  BY <1>1, <1>2, <1>3, <1>4 DEF Sums
<1>6. Pick(s) \in s
  BY <1>4 DEF Pick
<1>7. /\ old[s \ {Pick(s)}] \in Nat
      /\ new[s \ {Pick(s)}] = old[s \ {Pick(s)}] + more(s \ {Pick(s)})
  BY <1>3, <1>6
<1>8. CASE Pick(s) = d
  BY <1>3, <1>5, <1>6, <1>7, <1>8
<1>9. CASE Pick(s) # d
  BY <1>3, <1>5, <1>6, <1>7, <1>9
<1> QED
  BY <1>8, <1>9

(* A sum of zeros is zero.                                                 *)
LEMMA TotalZero ==
  ASSUME NEW S, IsFiniteSet(S)
  PROVE  Total([s \in S |-> 0], S) = 0
<1> DEFINE f == [s \in S |-> 0]
<1>1. PICK sum : Sums(sum, f, S) /\ Total(f, S) = sum[S]
  BY TotalDef
<1> DEFINE Bad == {s \in SUBSET S : sum[s] # 0}
<1> SUFFICES ASSUME Bad # {}
             PROVE  FALSE
  BY <1>1
<1>2. PICK s \in Bad : \A t \in Bad : t \subseteq s => t = s
  <2>1. Bad \in SUBSET (SUBSET S)
    OBVIOUS
  <2> HIDE DEF Bad
  <2> QED
    BY <2>1, SmallestSubset
<1>3. s # {} /\ sum[s] = f[Pick(s)] + sum[s \ {Pick(s)}]
  BY <1>1, <1>2 DEF Sums
<1>4. Pick(s) \in s
  BY <1>3 DEF Pick
<1>5. sum[s \ {Pick(s)}] = 0 /\ f[Pick(s)] = 0
  BY <1>2, <1>4
<1> QED
  BY <1>2, <1>3, <1>5

(* What the community modules compute is this sum.                         *)
LEMMA MapThenSumSetIsTotal ==
  ASSUME NEW S, NEW f
  PROVE  MapThenSumSet(LAMBDA x : f[x], S) = Total(f, S)
  BY DEF MapThenSumSet, MapThenFoldSet, Total, Sums, Pick

-----------------------------------------------------------------------------
(* The invariant: what handlers, commands and queries have to do with the  *)
(* store.                                                                  *)

cardOf(c) == input(c[1]).cards[c[2]]

(* The store has the card, or one that is newer.                           *)
Held(value) ==
  LET stored == records[compute_address(value.record.pubkey)]
  IN  stored # Absent /\ SeqOf(stored) >= SeqOf(value)

Queued(c) == \E i \in 1..Len(cmds) : cmds[i] = c

Touched(c) == Queued(c) \/ c \in pending \/ query[c] # "none" \/ reply[c] # NoReply

(* A handler past its arrival has a request, of the kind its state says;   *)
(* only a fetch has a floor or a value.                                    *)
AskedOf(r) ==
  LET h == handler[r]
  IN  /\ h.pc # "idle" => h.input \in Input
      /\ h.pc \in {"verify", "stage1"} => h.input.op = "publish"
      /\ h.pc \in {"send", "await"} /\ h.input.op = "fetch" => h.input.key \in RecordKey
      /\ h.pc = "idle" \/ h.input.op # "fetch" => h.floor = {} /\ h.got = Absent
      /\ h.pc # "done" => h.answer = 0 /\ h.got = Absent

Asked == \A r \in Request : AskedOf(r)

(* What is under way for a call was sent by its handler.                   *)
Sent ==
  \A c \in Call : Touched(c) =>
    /\ handler[c[1]].pc # "idle"
    /\ input(c[1]).op = "fetch" => input(c[1]).key \in RecordKey
    /\ query[c] \in {"get", "got"} => input(c[1]).op = "fetch"

(* A card whose put query runs, or was answered, is held.                  *)
Kept ==
  \A c \in Call : query[c] = "put" \/ reply[c].tag = "PutOk" =>
    /\ input(c[1]).op # "fetch"
    /\ cardOf(c) \in SignedCard
    /\ Held(cardOf(c))

(* The store has caught up with what was acknowledged when a fetch came.   *)
Floors ==
  \A r \in Request : \A s \in handler[r].floor :
    /\ input(r).op = "fetch"
    /\ input(r).key \in RecordKey
    /\ records[input(r).key] # Absent
    /\ SeqOf(records[input(r).key]) >= s

(* So such a fetch is not left to the DHT, and answered from the store.    *)
Answers ==
  \A c \in Call : handler[c[1]].floor # {} =>
    /\ c \notin pending
    /\ reply[c].tag # "NotFound"
    /\ reply[c].tag = "Found" =>
         \A s \in handler[c[1]].floor : SeqOf(reply[c].value) >= s

IInv == TypeOK /\ Asked /\ Sent /\ Kept /\ AckedIsStored /\ Floors /\ Answers

-----------------------------------------------------------------------------
(* Cards and the store                                                     *)

LEMMA Cards ==
  /\ Absent \notin Value /\ Absent \notin SignedCard /\ SignedCard \subseteq Value
  /\ Malformed \notin SignedCard
  /\ \A c \in SignedCard : /\ SeqOf(c) \in 0..MaxSeq
                           /\ compute_address(c.record.pubkey) \in RecordKey
                           /\ c.record.domain \in Domain
<1>1. Absent \notin Value /\ SignedCard \subseteq Value /\ Malformed \notin SignedCard
  BY NodeAssumption, MalformedAssumption DEF NodeAssumption, Value
<1>2. ASSUME NEW c \in SignedCard
      PROVE  /\ SeqOf(c) \in 0..MaxSeq
             /\ compute_address(c.record.pubkey) \in RecordKey
             /\ c.record.domain \in Domain
  BY CardAssumption DEF CardAssumption, SignedCard, CardRecord, SeqOf, compute_address
<1> QED
  BY <1>1, <1>2

(* Nothing is lost from the store, nor replaced by something older.        *)
Grows ==
  /\ records' \in [RecordKey -> SignedCard \cup {Absent}]
  /\ \A k \in RecordKey :
       records[k] # Absent => records'[k] # Absent /\ SeqOf(records'[k]) >= SeqOf(records[k])

LEMMA Same ==
  ASSUME TypeOK, records' = records
  PROVE  Grows
<1>1. \A k \in RecordKey : records[k] # Absent => SeqOf(records[k]) \in Nat
  BY Cards, CardAssumption DEF TypeOK, CardAssumption
<1> QED
  BY <1>1 DEF Grows, TypeOK

LEMMA PutStep ==
  ASSUME TypeOK, NEW key, NEW value, records' = StorePut(key, value)
  PROVE  /\ Grows
         /\ PutOk(key, value) => value \in SignedCard /\ Held(value)'
<1>1. CASE ~PutOk(key, value)
  BY <1>1, Same DEF StorePut
<1>2. CASE PutOk(key, value)
  <2>1. value \in SignedCard /\ key = compute_address(value.record.pubkey)
    BY <1>2 DEF PutOk, Validates
  <2>2. key \in RecordKey /\ SeqOf(value) \in Nat /\ value # Absent
    BY <2>1, Cards, CardAssumption DEF CardAssumption
  <2>3. \A k \in RecordKey : records[k] # Absent => SeqOf(records[k]) \in Nat
    BY Cards, CardAssumption DEF TypeOK, CardAssumption
  <2>4. CASE records[key] # Absent => SeqOf(records[key]) < SeqOf(value)
    <3>1. records' = [records EXCEPT ![key] = value]
      BY <1>2, <2>4 DEF StorePut
    <3>2. records'[key] = value /\ \A k \in RecordKey \ {key} : records'[k] = records[k]
      BY <2>2, <3>1 DEF TypeOK
    <3>3. records' \in [RecordKey -> SignedCard \cup {Absent}]
      BY <2>1, <3>1 DEF TypeOK
    <3>4. Grows
      <4> SUFFICES ASSUME NEW k \in RecordKey, records[k] # Absent
                   PROVE  records'[k] # Absent /\ SeqOf(records'[k]) >= SeqOf(records[k])
        BY <3>3 DEF Grows
      <4>1. CASE k = key
        BY <2>2, <2>3, <2>4, <3>2, <4>1
      <4>2. CASE k # key
        BY <2>3, <3>2, <4>2
      <4> QED
        BY <4>1, <4>2
    <3> QED
      BY <2>1, <2>2, <3>2, <3>4 DEF Held
  <2>5. CASE records[key] # Absent /\ ~(SeqOf(records[key]) < SeqOf(value))
    <3>1. records' = records
      BY <2>5 DEF StorePut
    <3>2. SeqOf(records[key]) >= SeqOf(value)
      BY <2>2, <2>3, <2>5
    <3> QED
      BY <2>1, <2>5, <3>1, <3>2, Same DEF Held
  <2> QED
    BY <2>4, <2>5
<1> QED
  BY <1>1, <1>2

(* What the store holds, or is newer than, it holds ever after.            *)
LEMMA HeldOn ==
  ASSUME TypeOK, Grows
  PROVE  \A value \in SignedCard : Held(value) => Held(value)'
<1> SUFFICES ASSUME NEW value \in SignedCard, Held(value)
             PROVE  Held(value)'
  OBVIOUS
<1> DEFINE key == compute_address(value.record.pubkey)
<1>1. key \in RecordKey /\ SeqOf(value) \in Nat
  BY Cards, CardAssumption DEF CardAssumption
<1>2. /\ records[key] # Absent /\ records'[key] # Absent
      /\ SeqOf(records[key]) >= SeqOf(value)
      /\ SeqOf(records'[key]) >= SeqOf(records[key])
  BY <1>1 DEF Held, Grows
<1>3. SeqOf(records[key]) \in Nat /\ SeqOf(records'[key]) \in Nat
  BY <1>1, <1>2, Cards, CardAssumption DEF TypeOK, Grows, CardAssumption
<1>4. SeqOf(records'[key]) >= SeqOf(value)
  BY <1>1, <1>2, <1>3
<1> QED
  BY <1>2, <1>4 DEF Held

LEMMA FloorsOn ==
  ASSUME TypeOK, Grows, Floors, UNCHANGED handler
  PROVE  Floors'
<1> SUFFICES ASSUME NEW r \in Request, NEW s \in handler[r].floor
             PROVE  /\ input(r).op = "fetch"
                    /\ input(r).key \in RecordKey
                    /\ records'[input(r).key] # Absent
                    /\ SeqOf(records'[input(r).key]) >= s
  BY DEF Floors, input
<1>1. /\ input(r).op = "fetch" /\ input(r).key \in RecordKey
      /\ records[input(r).key] # Absent
      /\ SeqOf(records[input(r).key]) >= s
  BY DEF Floors
<1>2. /\ records'[input(r).key] # Absent
      /\ SeqOf(records'[input(r).key]) >= SeqOf(records[input(r).key])
  BY <1>1 DEF Grows
<1>3. /\ SeqOf(records[input(r).key]) \in Nat /\ SeqOf(records'[input(r).key]) \in Nat
      /\ s \in Nat
  BY <1>1, <1>2, Cards, CardAssumption DEF TypeOK, Grows, CardAssumption, Task
<1> QED
  BY <1>1, <1>2, <1>3

-----------------------------------------------------------------------------
(* Steps of handlers                                                       *)

LEMMA Inputs ==
  ASSUME TypeOK, Asked, NEW r \in Request, handler[r].pc # "idle"
  PROVE  /\ handler[r] \in Task
         /\ handler[r].input \in Input
         /\ handler[r].input.op \in {"fetch", "publish", "batch"}
         /\ handler[r].input.op = "fetch" =>
              handler[r].input.key \in RecordKey \cup {Malformed}
         /\ handler[r].input.op # "fetch" => Len(handler[r].input.cards) \in 1..MaxCalls
         /\ call(r) \in Call
<1>1. handler[r] \in Task /\ handler[r].input \in Input /\ handler[r].at \in 1..MaxCalls
  BY DEF TypeOK, Asked, AskedOf, Task
<1> QED
  BY <1>1, NodeAssumption DEF NodeAssumption, call, Call

LEMMA QueuedAppend ==
  ASSUME NEW b \in Call, cmds \in Seq(Call), cmds' = Append(cmds, b),
         NEW c \in Call, Queued(c)', ~Queued(c)
  PROVE  c = b
<1>1. PICK i \in 1..Len(cmds') : cmds'[i] = c
  BY DEF Queued
<1>2. /\ Len(cmds') = Len(cmds) + 1
      /\ \A j \in 1..Len(cmds) : cmds'[j] = cmds[j]
      /\ cmds'[Len(cmds) + 1] = b
  BY AppendProperties
<1>3. \A j \in 1..Len(cmds) : cmds[j] # c
  BY DEF Queued
<1>4. Len(cmds) \in Nat
  BY LenProperties
<1>5. i \notin 1..Len(cmds)
  BY <1>1, <1>2, <1>3
<1>6. i \in 1..(Len(cmds) + 1)
  BY <1>1, <1>2
<1>7. i = Len(cmds) + 1
  BY <1>4, <1>5, <1>6
<1> QED
  BY <1>1, <1>2, <1>7

(* The handler of r goes on with its request; no other moves.              *)
Moves(r) ==
  /\ handler[r].pc # "idle"
  /\ handler' \in [Request -> Task]
  /\ \A q \in Request \ {r} : handler'[q] = handler[q]
  /\ handler'[r].pc # "idle"
  /\ handler'[r].input = handler[r].input
  /\ handler'[r].floor = handler[r].floor

(* What holds of commands, queries and the store does not see such a step, *)
(* which may put its own call into the channel.                            *)
LEMMA MoveKeeps ==
  ASSUME IInv, NEW r \in Request, Moves(r), UNCHANGED swarm, UNCHANGED reply,
         \/ UNCHANGED cmds
         \/ handler[r].pc = "send" /\ cmds' = Append(cmds, call(r))
  PROVE  Sent' /\ Kept' /\ Floors' /\ Answers'
<1> USE DEF IInv, TypeOK, swarm
<1>1. \A q \in Request : /\ handler'[q].input = handler[q].input
                         /\ handler'[q].floor = handler[q].floor
                         /\ handler[q].pc # "idle" => handler'[q].pc # "idle"
  BY DEF Moves
<1>2. \A c \in Call : c[1] \in Request
  BY DEF Call
<1>3. \A c \in Call : input(c[1])' = input(c[1])
  BY <1>1, <1>2 DEF input
<1>4. Sent'
  <2> SUFFICES ASSUME NEW c \in Call, Touched(c)'
               PROVE  /\ handler'[c[1]].pc # "idle"
                      /\ input(c[1]).op = "fetch" => input(c[1]).key \in RecordKey
                      /\ query[c] \in {"get", "got"} => input(c[1]).op = "fetch"
    BY <1>3 DEF Sent
  <2>1. CASE Touched(c)
    BY <1>1, <1>2, <2>1 DEF Sent
  <2>2. CASE ~Touched(c)
    <3>1. /\ handler[r].pc = "send"
          /\ cmds' = Append(cmds, call(r))
          /\ Queued(c)'
      BY <2>2 DEF Touched, Queued
    <3>2. call(r) \in Call
      BY <3>1, Inputs
    <3>3. c = call(r)
      BY <2>2, <3>1, <3>2, QueuedAppend DEF Touched
    <3>4. c[1] = r
      BY <3>3 DEF call
    <3>5. query[c] \notin {"get", "got"}
      BY <2>2 DEF Touched
    <3> QED
      BY <3>1, <3>4, <3>5 DEF Moves, Asked, AskedOf, input
  <2> QED
    BY <2>1, <2>2
<1>5. Kept'
  <2> SUFFICES ASSUME NEW c \in Call, query[c] = "put" \/ reply[c].tag = "PutOk"
               PROVE  /\ input(c[1]).op # "fetch"
                      /\ cardOf(c)' \in SignedCard
                      /\ Held(cardOf(c))'
    BY <1>3 DEF Kept
  <2>1. /\ input(c[1]).op # "fetch"
        /\ cardOf(c) \in SignedCard
        /\ Held(cardOf(c))
    BY DEF Kept
  <2>2. cardOf(c)' = cardOf(c)
    BY <1>3 DEF cardOf
  <2> QED
    BY <2>1, <2>2 DEF Held
<1>6. Floors'
  BY <1>1 DEF Floors, input
<1>7. Answers'
  BY <1>1, <1>2 DEF Answers
<1> QED
  BY <1>4, <1>5, <1>6, <1>7

(* The tasks that Goto and Finish make of a task.                          *)
WithPc(h, pc) == [h EXCEPT !.pc = pc]
Ended(h, code) == [h EXCEPT !.pc = "done", !.answer = code]
Turned(h, at) == [h EXCEPT !.pc = "start", !.at = at]

Code == {200, 201, 400, 403, 404, 429, 500, 504}

SameRequest(g, h) == g.input = h.input /\ g.floor = h.floor /\ g.got = h.got

LEMMA TaskGoes ==
  ASSUME NEW h \in Task,
         NEW pc \in {"start", "verify", "stage1", "send", "await", "done", "gone"}
  PROVE  /\ WithPc(h, pc) \in Task /\ SameRequest(WithPc(h, pc), h)
         /\ WithPc(h, pc).pc = pc /\ WithPc(h, pc).answer = h.answer
  BY DEF Task, WithPc, SameRequest

LEMMA TaskEnds ==
  ASSUME NEW h \in Task, NEW code \in Code
  PROVE  /\ Ended(h, code) \in Task /\ SameRequest(Ended(h, code), h)
         /\ Ended(h, code).pc = "done" /\ Ended(h, code).answer = code
<1> DEFINE e == [h EXCEPT !.answer = code]
<1>1. e \in Task /\ e.answer = code /\ SameRequest(e, h)
  BY DEF Task, SameRequest, Code
<1>2. Ended(h, code) = WithPc(e, "done")
  BY DEF Task, Ended, WithPc
<1> HIDE DEF e
<1> QED
  BY <1>1, <1>2, TaskGoes DEF SameRequest

LEMMA TaskTurns ==
  ASSUME NEW h \in Task, NEW at \in 1..MaxCalls
  PROVE  /\ Turned(h, at) \in Task /\ SameRequest(Turned(h, at), h)
         /\ Turned(h, at).pc = "start" /\ Turned(h, at).answer = h.answer
<1> DEFINE e == [h EXCEPT !.at = at]
<1>1. e \in Task /\ e.answer = h.answer /\ SameRequest(e, h)
  BY DEF Task, SameRequest
<1>2. Turned(h, at) = WithPc(e, "start")
  BY DEF Task, Turned, WithPc
<1> HIDE DEF e
<1> QED
  BY <1>1, <1>2, TaskGoes DEF SameRequest

LEMMA GotoStep ==
  ASSUME TypeOK, NEW r \in Request, handler[r].pc # "idle",
         NEW pc \in {"verify", "stage1", "send", "await", "gone"}, handler' = Goto(r, pc)
  PROVE  /\ Moves(r)
         /\ handler'[r].pc = pc
         /\ handler'[r].got = handler[r].got
         /\ handler'[r].answer = handler[r].answer
<1>1. handler' = [handler EXCEPT ![r] = WithPc(handler[r], pc)]
  BY DEF Goto, WithPc
<1>2. handler \in [Request -> Task] /\ handler[r] \in Task
  BY DEF TypeOK
<1>3. handler' \in [Request -> Task] /\ handler'[r] = WithPc(handler[r], pc)
  BY <1>1, <1>2, TaskGoes
<1> QED
  BY <1>1, <1>2, <1>3, TaskGoes DEF Moves, SameRequest

LEMMA FinishStep ==
  ASSUME TypeOK, Asked, NEW r \in Request, handler[r].pc # "idle",
         NEW code \in Code, handler' = Finish(r, code)
  PROVE  /\ Moves(r)
         /\ handler'[r].got = handler[r].got
         /\ \/ /\ handler'[r].pc = "done"
               /\ handler'[r].answer = (IF handler[r].input.op = "batch" THEN 200 ELSE code)
            \/ /\ handler'[r].pc = "start"
               /\ handler[r].input.op = "batch"
               /\ handler'[r].answer = handler[r].answer
<1> DEFINE h == handler[r]
<1>1. /\ handler \in [Request -> Task] /\ h \in Task
      /\ h.input.op # "fetch" => Len(h.input.cards) \in 1..MaxCalls
  BY Inputs DEF TypeOK
<1>2. handler' = [handler EXCEPT ![r] = IF h.input.op # "batch" THEN Ended(h, code)
                                         ELSE IF h.at < Len(h.input.cards)
                                              THEN Turned(h, h.at + 1)
                                         ELSE Ended(h, 200)]
  BY DEF Finish, Ended, Turned
<1>3. CASE h.input.op # "batch"
  <2>1. handler' = [handler EXCEPT ![r] = Ended(h, code)]
    BY <1>2, <1>3
  <2> QED
    BY <1>1, <1>3, <2>1, TaskEnds DEF Moves, SameRequest
<1>4. CASE h.input.op = "batch" /\ h.at < Len(h.input.cards)
  <2>1. h.at + 1 \in 1..MaxCalls
    BY <1>1, <1>4, NodeAssumption DEF Task, NodeAssumption
  <2>2. handler' = [handler EXCEPT ![r] = Turned(h, h.at + 1)]
    BY <1>2, <1>4
  <2> QED
    BY <1>1, <1>4, <2>1, <2>2, TaskTurns DEF Moves, SameRequest
<1>5. CASE h.input.op = "batch" /\ ~(h.at < Len(h.input.cards))
  <2>1. handler' = [handler EXCEPT ![r] = Ended(h, 200)] /\ 200 \in Code
    BY <1>2, <1>5 DEF Code
  <2> QED
    BY <1>1, <1>5, <2>1, TaskEnds DEF Moves, SameRequest
<1> QED
  BY <1>3, <1>4, <1>5

WithGot(h, value) == [h EXCEPT !.got = value]

FinishFound(r, code) == [Finish(r, code) EXCEPT ![r].got = answer(r).value]

LEMMA FinishWith ==
  ASSUME TypeOK, NEW r \in Request, handler[r].pc # "idle", handler[r].input.op = "fetch",
         NEW code \in Code, answer(r).value \in Value \cup {Absent},
         handler' = FinishFound(r, code)
  PROVE  /\ Moves(r)
         /\ handler'[r].pc = "done"
         /\ handler'[r].answer = code
         /\ handler'[r].got = answer(r).value
<1> DEFINE e == Ended(handler[r], code)
           value == answer(r).value
<1>1. handler \in [Request -> Task] /\ handler[r] \in Task
  BY DEF TypeOK
<1>2. e \in Task /\ SameRequest(e, handler[r]) /\ e.pc = "done" /\ e.answer = code
  BY <1>1, TaskEnds
<1>3. Finish(r, code) = [handler EXCEPT ![r] = e]
  BY DEF Finish, Ended
<1> HIDE DEF e, value
<1>4. /\ WithGot(e, value) \in Task /\ WithGot(e, value).got = value
      /\ WithGot(e, value).pc = e.pc /\ WithGot(e, value).answer = e.answer
      /\ WithGot(e, value).input = e.input /\ WithGot(e, value).floor = e.floor
  BY <1>2 DEF Task, WithGot, value
<1>5. handler' = [handler EXCEPT ![r] = WithGot(e, value)]
  BY <1>1, <1>2, <1>3 DEF FinishFound, WithGot, value
<1> QED
  BY <1>1, <1>2, <1>4, <1>5 DEF Moves, SameRequest, value

LEMMA CountedType ==
  ASSUME TypeOK, NEW names
  PROVE  Counted(names) \in [Metric -> Nat]
  BY DEF TypeOK, Counted

(* A step of a handler that is answered nothing new.                       *)
LEMMA MoveStep ==
  ASSUME IInv, NEW r \in Request, Moves(r), AskedOf(r)', metrics' \in [Metric -> Nat],
         UNCHANGED <<limiter, trust_weights, acked, swarm, reply>>,
         \/ UNCHANGED cmds
         \/ /\ handler[r].pc = "send" /\ Len(cmds) < Capacity
            /\ cmds' = Append(cmds, call(r))
  PROVE  IInv'
<1> USE DEF IInv
<1>1. Sent' /\ Kept' /\ Floors' /\ Answers'
  BY MoveKeeps
<1>2. Asked'
  <2>1. \A q \in Request \ {r} : AskedOf(q)'
    BY DEF Asked, AskedOf, Moves
  <2> QED
    BY <2>1 DEF Asked
<1>3. cmds' \in Seq(Call) /\ Len(cmds') <= Capacity
  <2>1. CASE UNCHANGED cmds
    BY <2>1 DEF TypeOK
  <2>2. CASE handler[r].pc = "send" /\ Len(cmds) < Capacity /\ cmds' = Append(cmds, call(r))
    <3>1. cmds \in Seq(Call) /\ call(r) \in Call
      BY <2>2, Inputs DEF TypeOK
    <3>2. cmds' \in Seq(Call) /\ Len(cmds') = Len(cmds) + 1
      BY <2>2, <3>1, AppendProperties
    <3>3. Len(cmds) \in Nat
      BY <3>1, LenProperties
    <3> QED
      BY <2>2, <3>2, <3>3, NodeAssumption DEF NodeAssumption
  <2> QED
    BY <2>1, <2>2
<1>4. TypeOK'
  BY <1>3 DEF TypeOK, Moves, swarm
<1>5. AckedIsStored'
  BY DEF AckedIsStored, swarm
<1> QED
  BY <1>1, <1>2, <1>4, <1>5

LEMMA FinishAsked ==
  ASSUME IInv, NEW r \in Request, handler[r].pc \notin {"idle", "done"},
         NEW code \in Code, handler' = Finish(r, code)
  PROVE  Moves(r) /\ AskedOf(r)'
<1> USE DEF IInv
<1>1. /\ Moves(r)
      /\ handler'[r].got = handler[r].got
      /\ \/ handler'[r].pc = "done"
         \/ handler'[r].pc = "start" /\ handler'[r].answer = handler[r].answer
  BY FinishStep
<1>2. AskedOf(r)
  BY DEF Asked
<1> QED
  BY <1>1, <1>2 DEF AskedOf, Moves

LEMMA GotoAsked ==
  ASSUME IInv, NEW r \in Request, handler[r].pc \notin {"idle", "done"},
         NEW pc \in {"verify", "stage1", "send", "await", "gone"}, handler' = Goto(r, pc),
         pc \in {"verify", "stage1"} => handler[r].input.op = "publish",
         pc \in {"send", "await"} /\ handler[r].input.op = "fetch" =>
           handler[r].input.key \in RecordKey
  PROVE  Moves(r) /\ AskedOf(r)'
<1> USE DEF IInv
<1>1. /\ Moves(r)
      /\ handler'[r].pc = pc
      /\ handler'[r].got = handler[r].got
      /\ handler'[r].answer = handler[r].answer
  BY GotoStep
<1>2. AskedOf(r)
  BY DEF Asked
<1> QED
  BY <1>1, <1>2 DEF AskedOf, Moves

Verified(h, verified) == [h EXCEPT !.verified = verified]

LEMMA TaskVerified ==
  ASSUME NEW h \in Task, NEW verified \in BOOLEAN
  PROVE  /\ Verified(h, verified) \in Task /\ SameRequest(Verified(h, verified), h)
         /\ Verified(h, verified).answer = h.answer
  BY DEF Task, Verified, SameRequest

LEMMA VerifiedGoes ==
  ASSUME NEW h \in Task
  PROVE  [h EXCEPT !.pc = "send", !.verified = TRUE] = WithPc(Verified(h, TRUE), "send")
  BY DEF Task, WithPc, Verified

(* A publication adds one to the count of its domain.                      *)
LEMMA Charge ==
  ASSUME NEW l \in Limiter(Domain), NEW d \in Domain
  PROVE  /\ record_publish(l, d) \in Limiter(Domain)
         /\ record_publish(l, d).count = [l.count EXCEPT ![d] = @ + 1]
<1> DEFINE count == [l.count EXCEPT ![d] = @ + 1]
           cooling == [l.cooling EXCEPT ![d] = TRUE]
<1>1. count \in [Domain -> Nat] /\ cooling \in [Domain -> BOOLEAN]
  BY DEF Limiter
<1>2. ASSUME NEW m \in Limiter(Domain)
      PROVE  /\ [m EXCEPT !.count = count] \in Limiter(Domain)
             /\ [m EXCEPT !.cooling = cooling] \in Limiter(Domain)
  <2> HIDE DEF count, cooling
  <2> QED
    BY <1>1 DEF Limiter
<1>3. record_publish(l, d) = [[l EXCEPT !.count = count] EXCEPT !.cooling = cooling]
  BY DEF Limiter, record_publish
<1>4. record_publish(l, d).count = count
  BY DEF Limiter, record_publish
<1> HIDE DEF count, cooling
<1>5. record_publish(l, d) \in Limiter(Domain)
  BY <1>2, <1>3
<1> QED
  BY <1>4, <1>5 DEF count

LEMMA HandlerKeeps ==
  ASSUME IInv, NEW r \in Request, HandlerStep(r) \/ Disconnect(r)
  PROVE  IInv'
<1> USE DEF IInv, At
<1>0. Asked /\ AskedOf(r) /\ TypeOK
  BY DEF Asked
<1>a. {200, 400, 403, 404, 429, 500, 504} \subseteq Code
  BY DEF Code
<1>1. CASE publish_card(r)
  <2>1. CASE handler' = Finish(r, 400)
    BY <1>1, <1>a, <2>1, FinishAsked, CountedType, MoveStep DEF publish_card
  <2>2. CASE handler' = Goto(r, "verify")
    <3>1. handler[r].pc = "start" /\ handler[r].input.op = "publish"
      BY <1>1 DEF publish_card, input
    <3>2. Moves(r) /\ AskedOf(r)'
      BY <2>2, <3>1, GotoAsked
    <3> QED
      BY <1>1, <3>2, CountedType, MoveStep DEF publish_card
  <2> QED
    BY <1>1, <2>1, <2>2 DEF publish_card
<1>2. CASE Screened(r)
  <2>1. handler[r].pc = "verify" /\ handler[r].input.op = "publish"
    BY <1>0, <1>2 DEF Screened, AskedOf
  <2>2. CASE \E code \in {400, 429} : Refuse(r, code)
    BY <1>2, <1>a, <2>1, <2>2, FinishAsked, CountedType, MoveStep DEF Screened, Refuse
  <2>3. CASE UNCHANGED metrics /\ \E pc \in {"stage1", "send"} : handler' = Goto(r, pc)
    <3>1. Moves(r) /\ AskedOf(r)'
      BY <2>1, <2>3, GotoAsked
    <3>2. metrics' \in [Metric -> Nat]
      BY <2>3 DEF TypeOK
    <3> QED
      BY <1>2, <3>1, <3>2, MoveStep DEF Screened
  <2> QED
    BY <1>2, <2>2, <2>3 DEF Screened
<1>3. CASE Stage1(r)
  <2>1. CASE Refuse(r, 403)
    BY <1>3, <1>a, <2>1, FinishAsked, CountedType, MoveStep DEF Stage1, Refuse
  <2>2. CASE UNCHANGED metrics /\ handler' = [handler EXCEPT ![r].pc = "send", ![r].verified = TRUE]
    <3> DEFINE e == Verified(handler[r], TRUE)
    <3>1. handler \in [Request -> Task] /\ handler[r] \in Task
      BY DEF TypeOK
    <3>2. e \in Task /\ e.answer = handler[r].answer /\ SameRequest(e, handler[r])
      BY <3>1, TaskVerified
    <3>3. handler' = [handler EXCEPT ![r] = WithPc(e, "send")]
      <4>1. handler' = [handler EXCEPT ![r] = [handler[r] EXCEPT !.pc = "send", !.verified = TRUE]]
        BY <2>2
      <4> QED
        BY <3>1, <4>1, VerifiedGoes
    <3>4. handler[r].pc = "stage1" /\ handler[r].input.op = "publish"
      BY <1>0, <1>3 DEF Stage1, AskedOf
    <3> HIDE DEF e
    <3>5. /\ WithPc(e, "send") \in Task /\ SameRequest(WithPc(e, "send"), e)
          /\ WithPc(e, "send").pc = "send" /\ WithPc(e, "send").answer = e.answer
      BY <3>2, TaskGoes
    <3>6. Moves(r) /\ AskedOf(r)'
      BY <1>0, <3>1, <3>2, <3>3, <3>4, <3>5 DEF Moves, AskedOf, SameRequest
    <3>7. metrics' \in [Metric -> Nat]
      BY <2>2 DEF TypeOK
    <3> QED
      BY <1>3, <3>6, <3>7, MoveStep DEF Stage1
  <2> QED
    BY <1>3, <2>1, <2>2 DEF Stage1
<1>4. CASE publish_batch(r)
  <2>1. handler[r].pc = "start" /\ handler[r].input.op = "batch"
    BY <1>4 DEF publish_batch, input
  <2>2. metrics' \in [Metric -> Nat]
    BY <1>4, CountedType DEF publish_batch
  <2>3. CASE handler' = Finish(r, 400)
    BY <1>4, <1>a, <2>1, <2>2, <2>3, FinishAsked, MoveStep DEF publish_batch
  <2>4. CASE handler' = Goto(r, "send")
    <3>1. Moves(r) /\ AskedOf(r)'
      BY <2>1, <2>4, GotoAsked
    <3> QED
      BY <1>4, <2>2, <3>1, MoveStep DEF publish_batch
  <2> QED
    BY <1>4, <2>3, <2>4 DEF publish_batch
<1>5. CASE fetch_card(r)
  <2>1. handler[r].pc = "start" /\ handler[r].input.op = "fetch"
    BY <1>5 DEF fetch_card, input
  <2>2. metrics' \in [Metric -> Nat]
    BY <1>5, CountedType DEF fetch_card
  <2>3. CASE handler' = Finish(r, 400)
    BY <1>5, <1>a, <2>1, <2>2, <2>3, FinishAsked, MoveStep DEF fetch_card
  <2>4. CASE handler' = Goto(r, "send") /\ input(r).key # Malformed
    <3>1. handler[r].input.key \in RecordKey
      BY <2>1, <2>4, Inputs DEF input
    <3>2. Moves(r) /\ AskedOf(r)'
      BY <2>1, <2>4, <3>1, GotoAsked
    <3> QED
      BY <1>5, <2>2, <3>2, MoveStep DEF fetch_card
  <2> QED
    BY <1>5, <2>3, <2>4 DEF fetch_card
<1>6. CASE Send(r)
  <2>1. metrics' \in [Metric -> Nat]
    BY <1>6 DEF Send, TypeOK
  <2>2. CASE handler' = Finish(r, 500) /\ UNCHANGED cmds
    BY <1>6, <1>a, <2>1, <2>2, FinishAsked, MoveStep DEF Send
  <2>3. CASE /\ Len(cmds) < Capacity
             /\ cmds' = Append(cmds, call(r))
             /\ handler' = Goto(r, "await")
    <3>1. Moves(r) /\ AskedOf(r)'
      BY <1>0, <1>6, <2>3, GotoAsked DEF Send, AskedOf
    <3> QED
      BY <1>6, <2>1, <2>3, <3>1, MoveStep DEF Send
  <2> QED
    BY <1>6, <2>2, <2>3 DEF Send
<1>7. CASE Published(r)
  <2>1. /\ handler[r].pc = "await" /\ call(r) \in Call /\ address(r) \in RecordKey
        /\ card(r) \in SignedCard /\ Held(card(r))
        /\ card(r).record.domain \in Domain
    <3>1. handler[r].pc = "await" /\ call(r) \in Call /\ reply[call(r)].tag = "PutOk"
      BY <1>7, Inputs DEF Published, answer
    <3>2. cardOf(call(r)) = card(r)
      BY DEF cardOf, card, call
    <3>3. card(r) \in SignedCard /\ Held(card(r))
      BY <3>1, <3>2 DEF Kept
    <3> QED
      BY <1>7, <3>1, <3>3, Cards DEF Published, address
  <2>2. Moves(r) /\ AskedOf(r)'
    BY <1>7, <2>1, FinishAsked DEF Published, Code
  <2>3. Sent' /\ Kept' /\ Floors' /\ Answers'
    BY <1>7, <2>2, MoveKeeps DEF Published
  <2>4. Asked'
    <3>1. \A q \in Request \ {r} : AskedOf(q)'
      BY <2>2 DEF Asked, AskedOf, Moves
    <3> QED
      BY <2>2, <3>1 DEF Asked
  <2>5. AckedIsStored'
    <3>1. acked' = acked \cup {card(r)} /\ records' = records
      BY <1>7 DEF Published, swarm
    <3> QED
      BY <2>1, <3>1 DEF AckedIsStored, Held
  <2>6. limiter' \in Limiter(Domain)
    BY <1>7, <2>1, Charge DEF Published, TypeOK
  <2>7. TypeOK'
    <3>1. metrics' \in [Metric -> Nat]
      BY <1>7, CountedType DEF Published
    <3> QED
      BY <1>7, <2>1, <2>2, <2>6, <3>1 DEF Published, TypeOK, swarm, Moves
  <2> QED
    BY <2>3, <2>4, <2>5, <2>7
<1>8. CASE NotPublished(r)
  BY <1>8, <1>a, FinishAsked, CountedType, MoveStep DEF NotPublished, Refuse
<1>9. CASE Fetched(r)
  <2>1. /\ handler[r].pc = "await" /\ handler[r].input.op = "fetch" /\ call(r) \in Call
        /\ reply[call(r)].value \in Value \cup {Absent}
    BY <1>9, Inputs DEF Fetched, input, TypeOK
  <2>2. metrics' \in [Metric -> Nat]
    BY <1>9, CountedType DEF Fetched, TypeOK
  <2>3. CASE \E code \in {404, 504} : handler' = Finish(r, code)
    BY <1>9, <1>a, <2>1, <2>2, <2>3, FinishAsked, MoveStep DEF Fetched
  <2>4. CASE \E code \in {200, 500} : handler' = FinishFound(r, code)
    <3>1. Moves(r) /\ handler'[r].pc = "done"
      <4>1. answer(r).value \in Value \cup {Absent}
        BY <2>1 DEF answer
      <4>2. handler[r].pc # "idle" /\ handler[r].input.op = "fetch"
        BY <2>1
      <4> QED
        BY <1>a, <2>4, <4>1, <4>2, FinishWith
    <3>2. AskedOf(r)'
      BY <1>0, <2>1, <3>1 DEF AskedOf, Moves
    <3> QED
      BY <1>9, <2>2, <3>1, <3>2, MoveStep DEF Fetched
  <2> QED
    BY <1>9, <2>3, <2>4 DEF Fetched, FinishFound
<1>10. CASE Timeout(r)
  BY <1>10, <1>a, FinishAsked, CountedType, MoveStep DEF Timeout
<1>11. CASE Disconnect(r)
  <2>1. Moves(r) /\ AskedOf(r)'
    BY <1>11, GotoAsked DEF Disconnect
  <2>2. metrics' \in [Metric -> Nat]
    BY <1>11 DEF Disconnect, TypeOK
  <2> QED
    BY <1>11, <2>1, <2>2, MoveStep DEF Disconnect
<1> QED
  BY <1>1, <1>2, <1>3, <1>4, <1>5, <1>6, <1>7, <1>8, <1>9, <1>10, <1>11 DEF HandlerStep

-----------------------------------------------------------------------------
(* Steps of the event loop, the network and the clients                    *)

NewTask(i, floor) == [Idle EXCEPT !.pc = "start", !.input = i, !.floor = floor]

LEMMA NewTaskIs ==
  ASSUME NEW i \in Input, NEW floor \in SUBSET (0..MaxSeq)
  PROVE  /\ NewTask(i, floor) \in Task
         /\ NewTask(i, floor).pc = "start"
         /\ NewTask(i, floor).input = i
         /\ NewTask(i, floor).floor = floor
         /\ NewTask(i, floor).answer = 0
         /\ NewTask(i, floor).got = Absent
<1> DEFINE e == [Idle EXCEPT !.pc = "start"]
           f == [e EXCEPT !.input = i]
           g == [f EXCEPT !.floor = floor]
<1>1. Idle \in Task /\ Idle.answer = 0 /\ Idle.got = Absent
  BY NodeAssumption DEF Idle, Task, NodeAssumption
<1>2. e \in Task /\ e.pc = "start" /\ e.answer = 0 /\ e.got = Absent
  BY <1>1 DEF Task
<1>3. NewTask(i, floor) = g
  BY DEF NewTask, Idle
<1> HIDE DEF e
<1>4. f \in Task /\ f.pc = "start" /\ f.answer = 0 /\ f.got = Absent /\ f.input = i
  BY <1>2 DEF Task
<1> HIDE DEF f
<1>5. /\ g \in Task /\ g.pc = "start" /\ g.answer = 0 /\ g.got = Absent /\ g.input = i
      /\ g.floor = floor
  BY <1>4 DEF Task
<1> QED
  BY <1>3, <1>5

LEMMA ArriveKeeps ==
  ASSUME IInv, NEW r \in Request, NEW i \in Input, Arrive(r, i)
  PROVE  IInv'
<1> USE DEF IInv
<1> DEFINE floor == IF i.op = "fetch"
                    THEN {SeqOf(c) : c \in {c \in acked : compute_address(c.record.pubkey) = i.key}}
                    ELSE {}
           h == NewTask(i, floor)
<1>1. handler[r].pc = "idle" /\ handler' = [handler EXCEPT ![r] = h]
  BY DEF Arrive, At, NewTask
<1>2. UNCHANGED <<metrics, limiter, trust_weights, acked, running, pending, query, records,
                  stored_records, cmds, reply>>
  BY DEF Arrive, swarm
<1>3. floor \in SUBSET (0..MaxSeq)
  BY Cards DEF TypeOK
<1>4. \A s \in floor : /\ i.op = "fetch" /\ i.key \in RecordKey
                       /\ records[i.key] # Absent /\ SeqOf(records[i.key]) >= s
  BY Cards DEF AckedIsStored, TypeOK
<1>5. i.op # "fetch" => floor = {}
  OBVIOUS
<1> HIDE DEF floor
<1>6. /\ h \in Task /\ h.pc = "start" /\ h.input = i /\ h.floor = floor
      /\ h.answer = 0 /\ h.got = Absent
  BY <1>3, NewTaskIs
<1> HIDE DEF h
<1>7. handler' \in [Request -> Task] /\ handler'[r] = h
  BY <1>1, <1>6 DEF TypeOK
<1>8. \A q \in Request \ {r} : handler'[q] = handler[q]
  BY <1>1 DEF TypeOK
<1>9. \A c \in Call : Touched(c) => c[1] \in Request \ {r}
  BY <1>1 DEF Sent, Call
<1>10. \A c \in Call : c[1] # r => input(c[1])' = input(c[1]) /\ handler'[c[1]] = handler[c[1]]
  BY <1>8 DEF input, Call
<1>11. TypeOK'
  BY <1>2, <1>7 DEF TypeOK
<1>12. Asked'
  <2>1. AskedOf(r)'
    BY <1>5, <1>6, <1>7 DEF AskedOf
  <2>2. \A q \in Request \ {r} : AskedOf(q)'
    BY <1>8 DEF Asked, AskedOf
  <2> QED
    BY <2>1, <2>2 DEF Asked
<1>13. Sent'
  BY <1>2, <1>9, <1>10 DEF Sent, Touched, Queued
<1>14. Kept'
  <2> SUFFICES ASSUME NEW c \in Call, query[c] = "put" \/ reply[c].tag = "PutOk"
               PROVE  /\ input(c[1])'.op # "fetch"
                      /\ cardOf(c)' \in SignedCard
                      /\ Held(cardOf(c))'
    BY <1>2 DEF Kept
  <2>1. Touched(c)
    BY DEF Touched, NoReply, Reply
  <2>2. input(c[1])' = input(c[1]) /\ cardOf(c)' = cardOf(c)
    BY <1>9, <1>10, <2>1 DEF cardOf
  <2> QED
    BY <1>2, <2>2 DEF Kept, Held
<1>15. AckedIsStored'
  BY <1>2 DEF AckedIsStored
<1>16. Floors'
  BY <1>2, <1>4, <1>6, <1>7, <1>8 DEF Floors, input
<1>17. Answers'
  <2> SUFFICES ASSUME NEW c \in Call, handler'[c[1]].floor # {}
               PROVE  /\ c \notin pending
                      /\ reply[c].tag # "NotFound"
                      /\ reply[c].tag = "Found" =>
                           \A s \in handler'[c[1]].floor : SeqOf(reply[c].value) >= s
    BY <1>2 DEF Answers
  <2>1. CASE c[1] = r
    BY <1>9, <2>1 DEF Touched, NoReply, Reply
  <2>2. CASE c[1] # r
    BY <1>10, <2>2 DEF Answers
  <2> QED
    BY <2>1, <2>2
<1> QED
  BY <1>11, <1>12, <1>13, <1>14, <1>15, <1>16, <1>17

(* A step that leaves the handlers alone and loses nothing of the store.   *)
LEMMA LoopStep ==
  ASSUME IInv, UNCHANGED tasks, Grows, TypeOK', Answers',
         \A c \in Call : Touched(c)' =>
           /\ Touched(c)
           /\ query'[c] \in {"get", "got"} => input(c[1]).op = "fetch",
         \A c \in Call : query'[c] = "put" \/ reply'[c].tag = "PutOk" =>
           \/ query[c] = "put" \/ reply[c].tag = "PutOk"
           \/ /\ input(c[1]).op # "fetch"
              /\ cardOf(c) \in SignedCard /\ Held(cardOf(c))'
  PROVE  IInv'
<1> USE DEF IInv, tasks
<1>1. Asked'
  BY DEF Asked, AskedOf
<1>2. Sent'
  BY DEF Sent, input
<1>3. Kept'
  <2> SUFFICES ASSUME NEW c \in Call, query'[c] = "put" \/ reply'[c].tag = "PutOk"
               PROVE  /\ input(c[1]).op # "fetch"
                      /\ cardOf(c) \in SignedCard
                      /\ Held(cardOf(c))'
    BY DEF Kept, input, cardOf
  <2>1. CASE query[c] = "put" \/ reply[c].tag = "PutOk"
    <3>1. PICK value : value = cardOf(c)
      OBVIOUS
    <3>2. value \in SignedCard /\ Held(value) /\ input(c[1]).op # "fetch"
      BY <2>1, <3>1 DEF Kept
    <3>3. Held(value)'
      BY <3>2, HeldOn
    <3>4. cardOf(c)' = value
      BY <3>1 DEF cardOf, input
    <3> QED
      BY <3>1, <3>2, <3>3, <3>4 DEF Held
  <2> QED
    BY <2>1
<1>4. AckedIsStored'
  <2>1. \A value \in acked : Held(value)
    BY DEF AckedIsStored, Held
  <2>2. \A value \in acked : Held(value)'
    BY <2>1, HeldOn DEF TypeOK
  <2> QED
    BY <2>2 DEF AckedIsStored, Held
<1>5. Floors'
  BY FloorsOn
<1> QED
  BY <1>1, <1>2, <1>3, <1>4, <1>5

LEMMA Taken ==
  ASSUME IInv, cmds # <<>>, cmds' = Tail(cmds)
  PROVE  /\ NextCall \in Call /\ Touched(NextCall)
         /\ cmds' \in Seq(Call) /\ Len(cmds') <= Capacity
         /\ \A c \in Call : Queued(c)' => Queued(c)
<1>1. cmds \in Seq(Call) /\ Len(cmds) \in Nat \ {0} /\ Len(cmds) <= Capacity
  BY EmptySeq DEF IInv, TypeOK
<1>2. /\ Head(cmds) \in Call
      /\ Tail(cmds) \in Seq(Call)
      /\ Len(Tail(cmds)) = Len(cmds) - 1
      /\ \A i \in 1..Len(Tail(cmds)) : Tail(cmds)[i] = cmds[i + 1]
  BY <1>1, HeadTailProperties
<1>3. Head(cmds) = cmds[1]
  BY <1>1
<1>4. Queued(NextCall)
  BY <1>1, <1>3 DEF Queued, NextCall
<1>5. ASSUME NEW c \in Call, Queued(c)'
      PROVE  Queued(c)
  <2>1. PICK i \in 1..Len(cmds') : cmds'[i] = c
    BY <1>5 DEF Queued
  <2>2. i + 1 \in 1..Len(cmds) /\ cmds[i + 1] = c
    BY <1>1, <1>2, <2>1
  <2> QED
    BY <2>2 DEF Queued
<1> QED
  BY <1>1, <1>2, <1>4, <1>5, NodeAssumption DEF NextCall, Touched, NodeAssumption

LEMMA HandlePutKeeps ==
  ASSUME IInv, handle_put
  PROVE  IInv'
<1> USE DEF IInv
<1>1. PICK c : c = NextCall
  OBVIOUS
<1>2. PICK value : value = cardOf(c)
  OBVIOUS
<1>3. PICK key : key = compute_address(value.record.pubkey)
  OBVIOUS
<1>4. /\ c \in Call /\ Touched(c) /\ input(c[1]).op # "fetch"
      /\ cmds' \in Seq(Call) /\ Len(cmds') <= Capacity
      /\ \A d \in Call : Queued(d)' => Queued(d)
  BY <1>1, Taken DEF handle_put
<1>5. records' = StorePut(key, value)
  BY <1>1, <1>2, <1>3 DEF handle_put, cardOf
<1>6. /\ Grows
      /\ PutOk(key, value) => value \in SignedCard /\ Held(value)'
  BY <1>5, PutStep
<1>7. UNCHANGED tasks /\ running' = running
  BY DEF handle_put
<1>8. \/ /\ PutOk(key, value)
         /\ stored_records' = stored_records + 1
         /\ query' = [query EXCEPT ![c] = "put"]
         /\ pending' = pending \cup {c}
         /\ reply' = reply
      \/ /\ reply' = [reply EXCEPT ![c] = Reply("Error")]
         /\ UNCHANGED <<stored_records, query, pending>>
  BY <1>1, <1>2, <1>3 DEF handle_put, cardOf
<1>9. TypeOK'
  <2>1. Reply("Error") \in [tag : {"none", "PutOk", "Found", "NotFound", "Error", "Closed"},
                            value : Value \cup {Absent}]
    BY DEF Reply
  <2> QED
    BY <1>4, <1>6, <1>7, <1>8, <2>1 DEF TypeOK, tasks, Grows
<1>10. Answers'
  <2> SUFFICES ASSUME NEW d \in Call, handler[d[1]].floor # {}
               PROVE  /\ d \notin pending'
                      /\ reply'[d].tag # "NotFound"
                      /\ reply'[d].tag = "Found" =>
                           \A s \in handler[d[1]].floor : SeqOf(reply'[d].value) >= s
    BY <1>7 DEF Answers, tasks
  <2>1. d # c
    BY <1>4 DEF Asked, AskedOf, Call, input
  <2>2. (d \in pending' <=> d \in pending) /\ reply'[d] = reply[d]
    BY <1>8, <2>1 DEF TypeOK
  <2> QED
    BY <2>2 DEF Answers
<1>11. \A d \in Call : Touched(d)' =>
         /\ Touched(d)
         /\ query'[d] \in {"get", "got"} => input(d[1]).op = "fetch"
  <2> SUFFICES ASSUME NEW d \in Call, Touched(d)'
               PROVE  Touched(d) /\ (query'[d] \in {"get", "got"} => input(d[1]).op = "fetch")
    OBVIOUS
  <2>1. CASE d = c
    BY <1>4, <1>8, <2>1 DEF TypeOK, Sent
  <2>2. CASE d # c
    <3>1. (d \in pending' <=> d \in pending) /\ reply'[d] = reply[d] /\ query'[d] = query[d]
      BY <1>8, <2>2 DEF TypeOK
    <3> QED
      BY <1>4, <3>1 DEF Touched, Sent
  <2> QED
    BY <2>1, <2>2
<1>12. \A d \in Call : query'[d] = "put" \/ reply'[d].tag = "PutOk" =>
         \/ query[d] = "put" \/ reply[d].tag = "PutOk"
         \/ /\ input(d[1]).op # "fetch"
            /\ cardOf(d) \in SignedCard /\ Held(cardOf(d))'
  <2> SUFFICES ASSUME NEW d \in Call, query'[d] = "put" \/ reply'[d].tag = "PutOk"
               PROVE  \/ query[d] = "put" \/ reply[d].tag = "PutOk"
                      \/ /\ input(d[1]).op # "fetch"
                         /\ cardOf(d) \in SignedCard /\ Held(cardOf(d))'
    OBVIOUS
  <2>1. CASE d # c
    BY <1>8, <2>1 DEF TypeOK
  <2>2. CASE d = c /\ PutOk(key, value)
    <3>1. cardOf(d)' = value
      BY <1>2, <1>7, <2>2 DEF cardOf, input, tasks
    <3> QED
      BY <1>2, <1>4, <1>6, <2>2, <3>1 DEF Held
  <2>3. CASE d = c /\ ~PutOk(key, value)
    BY <1>8, <2>3 DEF TypeOK, Reply
  <2> QED
    BY <2>1, <2>2, <2>3
<1> QED
  BY <1>6, <1>7, <1>9, <1>10, <1>11, <1>12, LoopStep

LEMMA HandleGetKeeps ==
  ASSUME IInv, handle_get
  PROVE  IInv'
<1> USE DEF IInv
<1>1. PICK c : c = NextCall
  OBVIOUS
<1>2. PICK key : key = input(c[1]).key
  OBVIOUS
<1>3. /\ c \in Call /\ Touched(c) /\ input(c[1]).op = "fetch" /\ key \in RecordKey
      /\ cmds' \in Seq(Call) /\ Len(cmds') <= Capacity
      /\ \A d \in Call : Queued(d)' => Queued(d)
  BY <1>1, <1>2, Taken DEF handle_get, Sent
<1>4. UNCHANGED tasks /\ UNCHANGED <<running, records, stored_records>> /\ Grows
  BY Same DEF handle_get
<1>5. \/ /\ records[key] # Absent
         /\ reply' = [reply EXCEPT ![c] = Found(records[key])]
         /\ UNCHANGED <<query, pending>>
      \/ /\ records[key] = Absent
         /\ query' = [query EXCEPT ![c] = "get"]
         /\ pending' = pending \cup {c}
         /\ reply' = reply
  BY <1>1, <1>2 DEF handle_get
<1>6. Found(records[key]) \in [tag : {"none", "PutOk", "Found", "NotFound", "Error", "Closed"},
                               value : Value \cup {Absent}]
  BY <1>3, Cards DEF TypeOK, Found
<1>7. TypeOK'
  BY <1>3, <1>4, <1>5, <1>6 DEF TypeOK, tasks
<1>8. Answers'
  <2> SUFFICES ASSUME NEW d \in Call, handler[d[1]].floor # {}
               PROVE  /\ d \notin pending'
                      /\ reply'[d].tag # "NotFound"
                      /\ reply'[d].tag = "Found" =>
                           \A s \in handler[d[1]].floor : SeqOf(reply'[d].value) >= s
    BY <1>4 DEF Answers, tasks
  <2>1. CASE d # c
    <3>1. (d \in pending' <=> d \in pending) /\ reply'[d] = reply[d]
      BY <1>5, <2>1 DEF TypeOK
    <3> QED
      BY <3>1 DEF Answers
  <2>2. CASE d = c
    <3>1. \A s \in handler[d[1]].floor : records[key] # Absent /\ SeqOf(records[key]) >= s
      BY <1>2, <2>2 DEF Floors, Call
    <3>2. reply'[d] = Found(records[key]) /\ pending' = pending
      BY <1>5, <2>2, <3>1 DEF TypeOK
    <3> QED
      BY <3>1, <3>2 DEF Answers, Found
  <2> QED
    BY <2>1, <2>2
<1>9. \A d \in Call : Touched(d)' =>
         /\ Touched(d)
         /\ query'[d] \in {"get", "got"} => input(d[1]).op = "fetch"
  <2> SUFFICES ASSUME NEW d \in Call, Touched(d)'
               PROVE  Touched(d) /\ (query'[d] \in {"get", "got"} => input(d[1]).op = "fetch")
    OBVIOUS
  <2>1. CASE d = c
    BY <1>3, <2>1
  <2>2. CASE d # c
    <3>1. (d \in pending' <=> d \in pending) /\ reply'[d] = reply[d] /\ query'[d] = query[d]
      BY <1>5, <2>2 DEF TypeOK
    <3> QED
      BY <1>3, <3>1 DEF Touched, Sent
  <2> QED
    BY <2>1, <2>2
<1>10. \A d \in Call : query'[d] = "put" \/ reply'[d].tag = "PutOk" =>
         query[d] = "put" \/ reply[d].tag = "PutOk"
  <2> SUFFICES ASSUME NEW d \in Call, query'[d] = "put" \/ reply'[d].tag = "PutOk"
               PROVE  query[d] = "put" \/ reply[d].tag = "PutOk"
    OBVIOUS
  <2>1. CASE UNCHANGED <<query, pending>> /\ reply' = [reply EXCEPT ![c] = Found(records[key])]
    <3>1. Found(records[key]).tag # "PutOk"
      BY DEF Found
    <3> QED
      BY <2>1, <3>1 DEF TypeOK
  <2>2. CASE query' = [query EXCEPT ![c] = "get"] /\ reply' = reply
    BY <2>2 DEF TypeOK
  <2> QED
    BY <1>5, <2>1, <2>2
<1> QED
  BY <1>4, <1>7, <1>8, <1>9, <1>10, LoopStep

(* A query goes on or ends, and its call is answered if it still waits.    *)
LEMMA ResolveKeeps ==
  ASSUME IInv, NEW c \in Call, query[c] # "none",
         NEW result \in [tag : {"PutOk", "Found", "NotFound"}, value : Value \cup {Absent}],
         Resolve(c, result), result.tag = "PutOk" => query[c] = "put",
         NEW state \in {"none", "got"}, query' = [query EXCEPT ![c] = state],
         state = "got" => query[c] \in {"get", "got"},
         UNCHANGED <<tasks, running, records, stored_records, cmds>>
  PROVE  IInv'
<1> USE DEF IInv
<1>1. Grows
  BY Same
<1>2. TypeOK'
  BY DEF TypeOK, Resolve, tasks
<1>3. Answers'
  <2> SUFFICES ASSUME NEW d \in Call, handler[d[1]].floor # {}
               PROVE  /\ d \notin pending'
                      /\ reply'[d].tag # "NotFound"
                      /\ reply'[d].tag = "Found" =>
                           \A s \in handler[d[1]].floor : SeqOf(reply'[d].value) >= s
    BY DEF Answers, tasks
  <2>1. d \notin pending
    BY DEF Answers
  <2>2. d \notin pending' /\ reply'[d] = reply[d]
    BY <2>1 DEF Resolve, TypeOK
  <2> QED
    BY <2>2 DEF Answers
<1>4. \A d \in Call : Touched(d)' =>
         /\ Touched(d)
         /\ query'[d] \in {"get", "got"} => input(d[1]).op = "fetch"
  <2> SUFFICES ASSUME NEW d \in Call, Touched(d)'
               PROVE  Touched(d) /\ (query'[d] \in {"get", "got"} => input(d[1]).op = "fetch")
    OBVIOUS
  <2>1. CASE d = c
    BY <2>1 DEF Touched, Sent, TypeOK
  <2>2. CASE d # c
    <3>1. (d \in pending' <=> d \in pending) /\ reply'[d] = reply[d] /\ query'[d] = query[d]
      BY <2>2 DEF TypeOK, Resolve
    <3> QED
      BY <3>1 DEF Touched, Sent, Queued
  <2> QED
    BY <2>1, <2>2
<1>5. \A d \in Call : query'[d] = "put" \/ reply'[d].tag = "PutOk" =>
         query[d] = "put" \/ reply[d].tag = "PutOk"
  BY DEF TypeOK, Resolve
<1> QED
  BY <1>1, <1>2, <1>3, <1>4, <1>5, LoopStep

LEMMA QueryKeeps ==
  ASSUME IInv, NEW c \in Call,
         \/ QueryEnds(c)
         \/ query[c] \in {"get", "got"}
            /\ \E value \in Remote[input(c[1]).key] : FoundRecord(c, value)
  PROVE  IInv'
<1> DEFINE Result == [tag : {"PutOk", "Found", "NotFound"}, value : Value \cup {Absent}]
<1>1. CASE GetEnded(c)
  <2>1. Reply("NotFound") \in Result /\ Reply("NotFound").tag # "PutOk"
    BY DEF Reply
  <2> QED
    BY <1>1, <2>1, ResolveKeeps DEF GetEnded
<1>2. CASE PutEnded(c)
  <2>1. Reply("PutOk") \in Result
    BY DEF Reply
  <2> QED
    BY <1>2, <2>1, ResolveKeeps DEF PutEnded
<1>3. ASSUME query[c] \in {"get", "got"},
             NEW value \in Remote[input(c[1]).key], FoundRecord(c, value)
      PROVE  IInv'
  <2>1. input(c[1]).key \in RecordKey
    BY <1>3 DEF IInv, Sent, Touched
  <2>2. value \in Value
    BY <2>1, NodeAssumption DEF NodeAssumption
  <2>3. Found(value) \in Result /\ Found(value).tag # "PutOk"
    BY <2>2 DEF Found
  <2> QED
    BY <1>3, <2>3, ResolveKeeps DEF FoundRecord
<1> QED
  BY <1>1, <1>2, <1>3 DEF QueryEnds

LEMMA InboundKeeps ==
  ASSUME IInv, NEW rec, InboundPut(rec)
  PROVE  IInv'
<1> USE DEF IInv, InboundPut, tasks
<1>1. Grows
  BY PutStep
<1>2. TypeOK'
  BY <1>1 DEF TypeOK, Grows
<1>3. Answers'
  BY DEF Answers
<1>4. \A c \in Call : Touched(c)' =>
        Touched(c) /\ (query'[c] \in {"get", "got"} => input(c[1]).op = "fetch")
  BY DEF Touched, Queued, Sent
<1> QED
  BY <1>1, <1>2, <1>3, <1>4, LoopStep

LEMMA ShutdownKeeps ==
  ASSUME IInv, Shutdown
  PROVE  IInv'
<1> USE DEF IInv, Shutdown
<1>1. Grows
  BY Same
<1>2. \A c \in Call : reply'[c] = IF Queued(c) THEN Reply("Closed") ELSE reply[c]
  BY DEF Queued
<1>3. TypeOK'
  <2>1. Reply("Closed") \in [tag : {"none", "PutOk", "Found", "NotFound", "Error", "Closed"},
                             value : Value \cup {Absent}]
    BY DEF Reply
  <2>2. cmds' \in Seq(Call) /\ Len(cmds') <= Capacity
    BY EmptySeq, NodeAssumption DEF NodeAssumption
  <2>3. reply' \in [Call -> [tag : {"none", "PutOk", "Found", "NotFound", "Error", "Closed"},
                             value : Value \cup {Absent}]]
    BY <2>1 DEF TypeOK
  <2> QED
    BY <2>2, <2>3 DEF TypeOK, tasks
<1>4. Answers'
  BY <1>2 DEF Answers, tasks, Reply
<1>5. \A c \in Call : Touched(c)' =>
        Touched(c) /\ (query'[c] \in {"get", "got"} => input(c[1]).op = "fetch")
  <2>1. \A c \in Call : ~Queued(c)'
    BY DEF Queued
  <2> QED
    BY <1>2, <2>1 DEF Touched
<1>6. \A c \in Call : query'[c] = "put" \/ reply'[c].tag = "PutOk" => reply[c].tag = "PutOk"
  BY <1>2 DEF Reply
<1> QED
  BY <1>1, <1>3, <1>4, <1>5, <1>6, LoopStep

LEMMA CooldownKeeps ==
  ASSUME IInv, NEW d \in Domain, CooldownEnds(d)
  PROVE  IInv'
<1> USE DEF IInv, CooldownEnds, swarm
<1>1. limiter' \in Limiter(Domain)
  BY DEF TypeOK, Limiter, CooledDown
<1>2. TypeOK'
  BY <1>1 DEF TypeOK
<1>3. Asked' /\ Floors'
  BY DEF Asked, AskedOf, Floors, input
<1>4. Sent' /\ Kept'
  BY DEF Sent, Kept, Touched, Queued, input, cardOf, Held
<1>5. AckedIsStored' /\ Answers'
  BY DEF AckedIsStored, Answers
<1> QED
  BY <1>2, <1>3, <1>4, <1>5

-----------------------------------------------------------------------------
LEMMA InitIInv == Init => IInv
<1> SUFFICES ASSUME Init
             PROVE  IInv
  OBVIOUS
<1> USE DEF Init
<1>1. Idle \in Task /\ Idle.pc = "idle" /\ Idle.floor = {} /\ Idle.answer = 0 /\ Idle.got = Absent
  BY NodeAssumption DEF Idle, Task, NodeAssumption
<1>2. NoReply.tag = "none" /\ NoReply.value = Absent
      /\ NoReply \in [tag : {"none", "PutOk", "Found", "NotFound", "Error", "Closed"},
                      value : Value \cup {Absent}]
  BY DEF NoReply, Reply
<1>3. TypeOK
  <2>1. cmds \in Seq(Call) /\ Len(cmds) <= Capacity
    BY EmptySeq, NodeAssumption DEF NodeAssumption
  <2>2. metrics \in [Metric -> Nat]
    BY DEF Metric
  <2>3. limiter \in Limiter(Domain)
    BY DEF Limiter, NewLimiter
  <2> QED
    BY <1>1, <1>2, <2>1, <2>2, <2>3 DEF TypeOK
<1>4. Asked
  BY <1>1 DEF Asked, AskedOf
<1>5. Sent
  BY DEF Sent, Touched, Queued
<1>6. Kept /\ AckedIsStored /\ Floors /\ Answers
  <2>1. \A c \in Call : c[1] \in Request
    BY DEF Call
  <2> QED
    BY <1>1, <1>2, <2>1 DEF Kept, AckedIsStored, Floors, Answers
<1> QED
  BY <1>3, <1>4, <1>5, <1>6 DEF IInv

LEMMA IInvStep == IInv /\ [Next]_vars => IInv'
<1> SUFFICES ASSUME IInv, [Next]_vars
             PROVE  IInv'
  OBVIOUS
<1>1. CASE UNCHANGED vars
  <2>1. UNCHANGED <<handler, metrics, limiter, trust_weights, acked, running, pending, query,
                    records, stored_records, cmds, reply>>
    BY <1>1 DEF vars, tasks, swarm
  <2>2. TypeOK' /\ Asked' /\ Floors'
    BY <2>1 DEF IInv, TypeOK, Asked, AskedOf, Floors, input
  <2>3. Sent' /\ Kept'
    BY <2>1 DEF IInv, Sent, Kept, Touched, Queued, input, cardOf, Held
  <2>4. AckedIsStored' /\ Answers'
    BY <2>1 DEF IInv, AckedIsStored, Answers
  <2> QED
    BY <2>2, <2>3, <2>4 DEF IInv
<1> QED
  BY <1>1, ArriveKeeps, HandlerKeeps, CooldownKeeps, HandlePutKeeps, HandleGetKeeps,
     QueryKeeps, InboundKeeps, ShutdownKeeps DEF Next, NoPut

LEMMA Invariance == Spec => []IInv
  BY InitIInv, IInvStep, PTL DEF Spec

(* Every variable keeps its type, for any requests and any peers.          *)
THEOREM TypeCorrect == Spec => []TypeOK
<1>1. IInv => TypeOK
  BY DEF IInv
<1> QED
  BY <1>1, Invariance, PTL

(* A card that was answered 201 "published" is in the store, or a newer    *)
(* one, whatever happened between the put and its answer and ever after.   *)
THEOREM Acknowledged == Spec => []AckedIsStored
<1>1. IInv => AckedIsStored
  BY DEF IInv
<1> QED
  BY <1>1, Invariance, PTL


-----------------------------------------------------------------------------
(* What a fetch answers                                                    *)

ReadsBack(r) ==
  LET h == handler[r]
  IN  /\ h.answer = 404 => h.floor = {}
      /\ h.answer = 200 /\ h.got # Absent => \A s \in h.floor : SeqOf(h.got) >= s

(* Of the codes a fetch may end with, these two say what was found.        *)
LEMMA FinishReads ==
  ASSUME IInv, NEW r \in Request, handler[r].pc \notin {"idle", "done"},
         NEW code \in Code, handler' = Finish(r, code),
         code # 200, code # 404 \/ handler[r].floor = {}
  PROVE  Moves(r) /\ ReadsBack(r)'
<1> USE DEF IInv
<1>1. AskedOf(r)
  BY DEF Asked
<1>2. /\ Moves(r) /\ handler'[r].got = handler[r].got
      /\ \/ /\ handler'[r].pc = "done"
            /\ handler'[r].answer = (IF handler[r].input.op = "batch" THEN 200 ELSE code)
         \/ handler'[r].answer = handler[r].answer
  BY FinishStep
<1>3. handler[r].answer = 0 /\ handler[r].got = Absent
  BY <1>1 DEF AskedOf
<1>4. handler[r].input.op # "fetch" => handler[r].floor = {}
  BY <1>1 DEF AskedOf
<1> QED
  BY <1>2, <1>3, <1>4 DEF ReadsBack, Moves

Failed == {400, 403, 429, 500, 504}

LEMMA FailReads ==
  ASSUME IInv, NEW r \in Request, handler[r].pc \notin {"idle", "done"},
         NEW code \in Failed, handler' = Finish(r, code)
  PROVE  Moves(r) /\ ReadsBack(r)'
<1>1. code \in Code /\ code # 200 /\ code # 404
  BY DEF Failed, Code
<1> QED
  BY <1>1, FinishReads

LEMMA GotoReads ==
  ASSUME IInv, NEW r \in Request, handler[r].pc \notin {"idle", "done"},
         NEW pc \in {"verify", "stage1", "send", "await", "gone"}, handler' = Goto(r, pc)
  PROVE  Moves(r) /\ ReadsBack(r)'
<1> USE DEF IInv
<1>1. AskedOf(r)
  BY DEF Asked
<1>2. Moves(r) /\ handler'[r].answer = handler[r].answer
  BY GotoStep
<1> QED
  BY <1>1, <1>2 DEF AskedOf, ReadsBack

LEMMA FetchedReads ==
  ASSUME IInv, NEW r \in Request, Fetched(r)
  PROVE  Moves(r) /\ ReadsBack(r)'
<1> USE DEF IInv
<1>1. /\ handler[r].pc = "await" /\ handler[r].input.op = "fetch" /\ call(r) \in Call
      /\ answer(r) = reply[call(r)] /\ answer(r).value \in Value \cup {Absent}
  BY Inputs DEF Fetched, At, input, answer, TypeOK
<1>2. call(r)[1] = r
  BY DEF call
<1>3. CASE answer(r).tag = "NotFound" /\ handler' = Finish(r, 404)
  <2>1. handler[r].floor = {}
    BY <1>1, <1>2, <1>3 DEF Answers
  <2> QED
    BY <1>1, <1>3, <2>1, FinishReads DEF Code
<1>4. CASE answer(r).tag = "Closed" /\ handler' = Finish(r, 504)
  BY <1>1, <1>4, FailReads DEF Failed
<1>5. CASE answer(r).tag = "Found" /\ \E code \in {200, 500} : handler' = FinishFound(r, code)
  <2>1. /\ Moves(r)
        /\ handler'[r].answer \in {200, 500}
        /\ handler'[r].got = answer(r).value
    BY <1>1, <1>5, FinishWith DEF Code
  <2>2. \A s \in handler[r].floor : SeqOf(answer(r).value) >= s
    BY <1>1, <1>2, <1>5 DEF Answers
  <2> QED
    BY <2>1, <2>2 DEF ReadsBack, Moves
<1> QED
  BY <1>3, <1>4, <1>5 DEF Fetched, FinishFound

LEMMA HandlerReads ==
  ASSUME IInv, NEW r \in Request, HandlerStep(r) \/ Disconnect(r)
  PROVE  Moves(r) /\ ReadsBack(r)'
<1> USE DEF At
<1>0. AskedOf(r) /\ TypeOK
  BY DEF IInv, Asked
<1>1. {400, 403, 429, 500, 504} \subseteq Failed
  BY DEF Failed
<1>2. CASE publish_card(r) \/ publish_batch(r) \/ fetch_card(r)
  <2>1. handler[r].pc = "start"
    BY <1>2 DEF publish_card, publish_batch, fetch_card
  <2>2. handler' = Finish(r, 400) \/ \E pc \in {"verify", "send"} : handler' = Goto(r, pc)
    BY <1>2 DEF publish_card, publish_batch, fetch_card
  <2> QED
    BY <1>1, <2>1, <2>2, FailReads, GotoReads
<1>3. CASE Screened(r)
  BY <1>1, <1>3, FailReads, GotoReads DEF Screened, Refuse
<1>4. CASE Stage1(r)
  <2>1. CASE Refuse(r, 403)
    BY <1>1, <1>4, <2>1, FailReads DEF Stage1, Refuse
  <2>2. CASE handler' = [handler EXCEPT ![r].pc = "send", ![r].verified = TRUE]
    <3> DEFINE e == Verified(handler[r], TRUE)
    <3>1. handler \in [Request -> Task] /\ handler[r] \in Task
      BY <1>0 DEF TypeOK
    <3>2. e \in Task /\ e.answer = handler[r].answer /\ SameRequest(e, handler[r])
      BY <3>1, TaskVerified
    <3>3. handler' = [handler EXCEPT ![r] = WithPc(e, "send")]
      <4>1. handler' = [handler EXCEPT ![r] = [handler[r] EXCEPT !.pc = "send", !.verified = TRUE]]
        BY <2>2
      <4> QED
        BY <3>1, <4>1, VerifiedGoes
    <3> HIDE DEF e
    <3>4. /\ WithPc(e, "send") \in Task /\ SameRequest(WithPc(e, "send"), e)
          /\ WithPc(e, "send").pc = "send" /\ WithPc(e, "send").answer = e.answer
      BY <3>2, TaskGoes
    <3>5. handler[r].pc = "stage1"
      BY <1>4 DEF Stage1
    <3> QED
      BY <1>0, <3>1, <3>2, <3>3, <3>4, <3>5 DEF Moves, AskedOf, SameRequest, ReadsBack
  <2> QED
    BY <1>4, <2>1, <2>2 DEF Stage1
<1>5. CASE Send(r)
  BY <1>1, <1>5, FailReads, GotoReads DEF Send
<1>6. CASE Published(r)
  BY <1>6, FinishReads DEF Published, input, Code
<1>7. CASE NotPublished(r)
  BY <1>1, <1>7, FailReads DEF NotPublished, Refuse
<1>8. CASE Fetched(r)
  BY <1>8, FetchedReads
<1>9. CASE Timeout(r)
  BY <1>1, <1>9, FailReads DEF Timeout
<1>10. CASE Disconnect(r)
  BY <1>10, GotoReads DEF Disconnect
<1> QED
  BY <1>2, <1>3, <1>4, <1>5, <1>6, <1>7, <1>8, <1>9, <1>10 DEF HandlerStep

LEMMA ReadsStep == IInv /\ ReadYourWrites /\ [Next]_vars => ReadYourWrites'
<1> SUFFICES ASSUME IInv, ReadYourWrites, [Next]_vars
             PROVE  ReadYourWrites'
  OBVIOUS
<1>1. CASE UNCHANGED handler
  BY <1>1 DEF ReadYourWrites
<1>2. ASSUME NEW r \in Request, \A q \in Request \ {r} : handler'[q] = handler[q], ReadsBack(r)'
      PROVE  ReadYourWrites'
  BY <1>2 DEF ReadYourWrites, ReadsBack
<1>3. ASSUME NEW r \in Request, NEW i \in Input, Arrive(r, i)
      PROVE  ReadYourWrites'
  <2>1. \A q \in Request \ {r} : handler'[q] = handler[q]
    BY <1>3 DEF Arrive, IInv, TypeOK
  <2>2. handler'[r].pc = "start"
    BY <1>3 DEF Arrive, IInv, TypeOK, Idle
  <2>3. handler'[r].answer = 0
    BY <1>3, <2>2, ArriveKeeps DEF IInv, Asked, AskedOf
  <2> QED
    BY <1>2, <2>1, <2>3 DEF ReadsBack
<1>4. ASSUME NEW r \in Request, HandlerStep(r) \/ Disconnect(r)
      PROVE  ReadYourWrites'
  BY <1>2, <1>4, HandlerReads DEF Moves
<1> QED
  BY <1>1, <1>3, <1>4 DEF Next, NoPut, vars, tasks, CooldownEnds, handle_put,
     handle_get, QueryEnds, GetEnded, PutEnded, FoundRecord, InboundPut, Shutdown

(* A fetch that came after a publication was answered 201 answers neither  *)
(* 404 nor an older card, whatever the peers hold.                         *)
THEOREM PublishedIsRead == Spec => []ReadYourWrites
<1>1. Init => ReadYourWrites
  BY NodeAssumption DEF Init, Idle, ReadYourWrites
<1>2. Init /\ [][Next]_vars => []IInv
  BY InitIInv, IInvStep, PTL
<1> QED
  BY <1>1, <1>2, ReadsStep, PTL DEF Spec


-----------------------------------------------------------------------------
(* pending_queries                                                         *)

LEMMA PendingStep == TypeOK /\ PendingHasQuery /\ [Next]_vars => PendingHasQuery'
<1> SUFFICES ASSUME TypeOK, PendingHasQuery, [Next]_vars
             PROVE  PendingHasQuery'
  OBVIOUS
<1> USE DEF PendingHasQuery
<1>1. CASE UNCHANGED <<running, pending, query>>
  BY <1>1
<1>2. CASE handle_put
  <2>1. PICK c : c = NextCall
    OBVIOUS
  <2>2. running = running' /\ running
    BY <1>2 DEF handle_put
  <2>3. \/ UNCHANGED <<query, pending>>
        \/ query' = [query EXCEPT ![c] = "put"] /\ pending' = pending \cup {c}
    BY <1>2, <2>1 DEF handle_put
  <2>4. c \in Call
    <3>1. cmds \in Seq(Call) /\ cmds # <<>>
      BY <1>2 DEF handle_put, TypeOK
    <3> QED
      BY <2>1, <3>1, HeadTailProperties, EmptySeq DEF NextCall
  <2> QED
    BY <2>2, <2>3, <2>4 DEF TypeOK
<1>3. CASE handle_get
  <2>1. PICK c : c = NextCall
    OBVIOUS
  <2>2. running = running' /\ running
    BY <1>3 DEF handle_get
  <2>3. \/ UNCHANGED <<query, pending>>
        \/ query' = [query EXCEPT ![c] = "get"] /\ pending' = pending \cup {c}
    BY <1>3, <2>1 DEF handle_get
  <2>4. c \in Call
    <3>1. cmds \in Seq(Call) /\ cmds # <<>>
      BY <1>3 DEF handle_get, TypeOK
    <3> QED
      BY <2>1, <3>1, HeadTailProperties, EmptySeq DEF NextCall
  <2> QED
    BY <2>2, <2>3, <2>4 DEF TypeOK
<1>4. ASSUME NEW c \in Call, QueryEnds(c) \/ \E value : FoundRecord(c, value)
      PROVE  PendingHasQuery'
  <2>1. /\ running' = running /\ pending' = pending \ {c}
        /\ \E state : query' = [query EXCEPT ![c] = state]
    BY <1>4 DEF QueryEnds, GetEnded, PutEnded, FoundRecord, Resolve
  <2> QED
    BY <2>1 DEF TypeOK
<1>5. CASE Shutdown
  BY <1>5 DEF Shutdown
<1> QED
  BY <1>1, <1>2, <1>3, <1>4, <1>5 DEF Next, NoPut, vars, tasks, swarm, CooldownEnds,
     InboundPut, Arrive, Disconnect, HandlerStep, publish_card, Screened, Stage1,
     publish_batch, fetch_card, Send, Published, NotPublished, Fetched, Timeout

(* No entry is left in pending_queries once its query has ended.           *)
THEOREM PendingIsLive == Spec => []PendingHasQuery
<1>1. Init => PendingHasQuery
  BY DEF Init, PendingHasQuery
<1>2. Init /\ [][Next]_vars => []IInv
  BY InitIInv, IInvStep, PTL
<1>3. IInv => TypeOK
  BY DEF IInv
<1> QED
  BY <1>1, <1>2, <1>3, PendingStep, PTL DEF Spec

-----------------------------------------------------------------------------
(* The counters                                                            *)

(* Those that say how a publication went, and the limiter's, which only a  *)
(* publication that succeeds moves.                                        *)
LEMMA CountedIs ==
  ASSUME TypeOK, NEW names, metrics' = Counted(names)
  PROVE  \A m \in Metric : metrics'[m] = metrics[m] + (IF m \in names THEN 1 ELSE 0)
  BY DEF TypeOK, Counted

LEMMA OthersUncharged ==
  ASSUME TypeOK, Next, \A r \in Request : ~Published(r)
  PROVE  /\ metrics'.put_success = metrics.put_success
         /\ limiter' = limiter \/ \E d \in Domain : limiter' = CooledDown(limiter, d)
<1>1. CASE UNCHANGED <<metrics, limiter>> \/ \E d \in Domain : CooldownEnds(d)
  BY <1>1 DEF CooldownEnds
<1>2. ASSUME NEW r \in Request, HandlerStep(r)
      PROVE  metrics'.put_success = metrics.put_success /\ limiter' = limiter
  <2>1. \/ UNCHANGED metrics
        \/ \E names \in SUBSET (Metric \ {"put_success"}) : metrics' = Counted(names)
    BY <1>2 DEF HandlerStep, publish_card, Screened, Stage1, publish_batch, fetch_card,
       Send, NotPublished, Fetched, Timeout, Refuse, Metric
  <2>2. limiter' = limiter
    BY <1>2 DEF HandlerStep, publish_card, Screened, Stage1, publish_batch, fetch_card,
       Send, NotPublished, Fetched, Timeout
  <2>3. "put_success" \in Metric
    BY DEF Metric
  <2>4. ASSUME NEW names \in SUBSET (Metric \ {"put_success"}), metrics' = Counted(names)
        PROVE  metrics'["put_success"] = metrics["put_success"]
    <3>1. metrics'["put_success"] = metrics["put_success"] + 0
      BY <2>3, <2>4, CountedIs
    <3> QED
      BY <2>3, <3>1 DEF TypeOK
  <2> QED
    BY <2>1, <2>2, <2>4
<1> QED
  BY <1>1, <1>2 DEF Next, NoPut, vars, tasks, Arrive, Disconnect, handle_put,
     handle_get, QueryEnds, GetEnded, PutEnded, FoundRecord, InboundPut, Shutdown


Charges == metrics.put_success = Total(limiter.count, Domain)

LEMMA ChargesAreTotal == ChargedPerSuccess <=> Charges
  BY MapThenSumSetIsTotal DEF ChargedPerSuccess, Charges

(* The domains are finitely many: a request has a bounded body.          *)
LEMMA ChargedStep ==
  ASSUME IsFiniteSet(Domain), IInv, ChargedPerSuccess, [Next]_vars
  PROVE  ChargedPerSuccess'
<1> DEFINE count == limiter.count
<1>0. ChargedPerSuccess <=> metrics.put_success = Total(count, Domain)
  BY ChargesAreTotal DEF Charges
<1>1. ChargedPerSuccess' <=> metrics'.put_success = Total(limiter'.count, Domain)
  <2>1. (ChargedPerSuccess <=> Charges)'
    BY ChargesAreTotal, PTL
  <2> QED
    BY <2>1 DEF Charges
<1>2. TypeOK /\ limiter \in Limiter(Domain) /\ count \in [Domain -> Nat]
  BY DEF IInv, TypeOK, Limiter
<1>3. CASE UNCHANGED vars
  BY <1>0, <1>1, <1>3 DEF vars, tasks
<1>4. ASSUME NEW r \in Request, Published(r)
      PROVE  ChargedPerSuccess'
  <2>1. /\ metrics' = Counted({"put_success"})
        /\ limiter' = record_publish(limiter, card(r).record.domain)
    BY <1>4 DEF Published
  <2>2. card(r).record.domain \in Domain
    <3>1. handler[r].pc = "await" /\ call(r) \in Call /\ reply[call(r)].tag = "PutOk"
      BY <1>4, Inputs DEF Published, answer, IInv, At
    <3>2. cardOf(call(r)) = card(r)
      BY DEF cardOf, card, call
    <3> QED
      BY <3>1, <3>2, Cards DEF IInv, Kept
  <2>3. limiter'.count = [count EXCEPT ![card(r).record.domain] = @ + 1]
    BY <1>2, <2>1, <2>2, Charge
  <2>4. Total(limiter'.count, Domain) = Total(count, Domain) + 1
    BY <1>2, <2>2, <2>3, TotalIncrement
  <2>5. metrics'.put_success = metrics.put_success + 1
    BY <1>2, <2>1, CountedIs DEF Metric
  <2> QED
    BY <1>0, <1>1, <2>4, <2>5
<1>5. CASE Next /\ \A r \in Request : ~Published(r)
  <2>1. /\ metrics'.put_success = metrics.put_success
        /\ limiter' = limiter \/ \E d \in Domain : limiter' = CooledDown(limiter, d)
    BY <1>2, <1>5, OthersUncharged
  <2>2. limiter'.count = count
    BY <1>2, <2>1 DEF CooledDown, Limiter
  <2> QED
    BY <1>0, <1>1, <2>1, <2>2
<1> QED
  BY <1>3, <1>4, <1>5

(* The limiter is charged once for each publication answered 201, and for  *)
(* no other, as long as there are finitely many domains to sum over.       *)
THEOREM OneChargePerSuccess ==
  ASSUME IsFiniteSet(Domain)
  PROVE  Spec => []ChargedPerSuccess
<1>1. Init => ChargedPerSuccess
  <2> SUFFICES ASSUME Init
               PROVE  ChargedPerSuccess
    OBVIOUS
  <2>1. PICK f : f = limiter.count
    OBVIOUS
  <2>2. f = [d \in Domain |-> 0]
    BY <2>1 DEF Init, NewLimiter
  <2>3. MapThenSumSet(LAMBDA d : f[d], Domain) = Total(f, Domain)
    BY MapThenSumSetIsTotal
  <2> QED
    BY <2>1, <2>2, <2>3, TotalZero DEF Init, ChargedPerSuccess
<1>2. Init /\ [][Next]_vars => []IInv
  BY InitIInv, IInvStep, PTL
<1>3. IInv /\ ChargedPerSuccess /\ [Next]_vars => ChargedPerSuccess'
  BY ChargedStep
<1> QED
  BY <1>1, <1>2, <1>3, PTL DEF Spec


Waiting(r) == IF r \in InFlight THEN 1 ELSE 0

(* What has been decided of publications, and what is under way.           *)
Account == CountedOnce /\ IsFiniteSet(InFlight)

(* A handler that starts to wait has been counted in the total, and one    *)
(* that is counted as successful or rejected no longer waits.              *)
Balanced(r, names) ==
  LET one(m) == IF m \in names THEN 1 ELSE 0
  IN  Waiting(r)' + one("put_success") + one("put_rejected") <= Waiting(r) + one("put_total")

LEMMA AccountStep ==
  ASSUME TypeOK, Account, NEW r \in Request,
         \A q \in Request \ {r} : handler'[q] = handler[q],
         NEW names, metrics' = Counted(names), Balanced(r, names)
  PROVE  Account'
<1> DEFINE one(m) == IF m \in names THEN 1 ELSE 0
           others == InFlight \ {r}
<1>1. IsFiniteSet(InFlight) /\ IsFiniteSet(others) /\ Cardinality(others) \in Nat
  BY FS_RemoveElement, FS_CardinalityType DEF Account
<1>2. Cardinality(InFlight) = Cardinality(others) + Waiting(r)
  BY <1>1, FS_RemoveElement, FS_CardinalityType DEF Waiting
<1>3. InFlight' = (IF r \in InFlight' THEN others \cup {r} ELSE others)
  BY DEF InFlight
<1>4. IsFiniteSet(InFlight)' /\ Cardinality(InFlight)' = Cardinality(others) + Waiting(r)'
  <2> HIDE DEF others
  <2>1. r \notin others
    BY DEF others
  <2>2. /\ IsFiniteSet(others \cup {r})
        /\ Cardinality(others \cup {r}) = Cardinality(others) + 1
    BY <1>1, <2>1, FS_AddElement
  <2>3. Cardinality(others) + 0 = Cardinality(others)
    BY <1>1
  <2> QED
    BY <1>1, <1>3, <2>2, <2>3 DEF Waiting
<1>5. \A m \in {"put_total", "put_success", "put_rejected"} :
        metrics[m] \in Nat /\ metrics'[m] = metrics[m] + one(m)
  <2>1. {"put_total", "put_success", "put_rejected"} \subseteq Metric
    BY DEF Metric
  <2> QED
    BY <2>1, CountedIs DEF TypeOK
<1>6. Waiting(r)' + one("put_success") + one("put_rejected") <= Waiting(r) + one("put_total")
  BY DEF Balanced
<1>7. /\ Waiting(r) \in Nat /\ Waiting(r)' \in Nat
      /\ \A m \in {"put_total", "put_success", "put_rejected"} : one(m) \in Nat
  BY DEF Waiting
<1>8. metrics.put_success + metrics.put_rejected + Cardinality(InFlight) <= metrics.put_total
  BY DEF Account, CountedOnce
<1> HIDE DEF one, others
<1>9. metrics'.put_success + metrics'.put_rejected + Cardinality(InFlight)' <= metrics'.put_total
  BY <1>1, <1>2, <1>4, <1>5, <1>6, <1>7, <1>8
<1> QED
  BY <1>4, <1>9 DEF Account, CountedOnce

(* A handler that finishes does not wait.                                  *)
LEMMA FinishWaits ==
  ASSUME TypeOK, Asked, NEW r \in Request, handler[r].pc # "idle",
         NEW code \in Code, handler' = Finish(r, code)
  PROVE  (\A q \in Request \ {r} : handler'[q] = handler[q]) /\ Waiting(r)' = 0
<1>1. Moves(r) /\ handler'[r].pc \in {"done", "start"}
  BY FinishStep
<1> QED
  BY <1>1 DEF Moves, Waiting, InFlight

(* One that goes on waits if it publishes.                                 *)
LEMMA GotoWaits ==
  ASSUME TypeOK, NEW r \in Request, handler[r].pc # "idle",
         NEW pc \in {"verify", "stage1", "send", "await", "gone"}, handler' = Goto(r, pc)
  PROVE  /\ \A q \in Request \ {r} : handler'[q] = handler[q]
         /\ Waiting(r)' = (IF pc # "gone" /\ handler[r].input.op # "fetch" THEN 1 ELSE 0)
<1>1. Moves(r) /\ handler'[r].pc = pc
  BY GotoStep
<1> QED
  BY <1>1 DEF Moves, Waiting, InFlight


LEMMA UncountedIs ==
  ASSUME TypeOK, UNCHANGED metrics
  PROVE  metrics' = Counted({})
<1>1. \A m \in Metric : metrics[m] \in Nat /\ metrics[m] + 0 = metrics[m]
  BY DEF TypeOK
<1>2. metrics = [m \in Metric |-> metrics[m] + 0]
  BY <1>1 DEF TypeOK
<1> QED
  BY <1>2 DEF Counted, TypeOK

Accounted(r) ==
  /\ \A q \in Request \ {r} : handler'[q] = handler[q]
  /\ \E names : metrics' = Counted(names) /\ Balanced(r, names)

LEMMA GoesAccounted ==
  ASSUME TypeOK, NEW r \in Request, handler[r].pc # "idle",
         NEW pc \in {"verify", "stage1", "send", "await", "gone"}, handler' = Goto(r, pc),
         NEW names, metrics' = Counted(names),
         "put_success" \notin names, "put_rejected" \notin names,
         \/ r \in InFlight
         \/ "put_total" \in names
         \/ handler[r].input.op = "fetch"
  PROVE  Accounted(r)
<1>1. /\ \A q \in Request \ {r} : handler'[q] = handler[q]
      /\ Waiting(r)' \in {0, 1}
      /\ handler[r].input.op = "fetch" => Waiting(r)' = 0
  BY GotoWaits
<1>2. /\ Waiting(r) \in {0, 1} /\ (r \in InFlight => Waiting(r) = 1)
  BY DEF Waiting
<1>3. Balanced(r, names)
  BY <1>1, <1>2 DEF Balanced
<1> QED
  BY <1>1, <1>3 DEF Accounted

LEMMA EndsAccounted ==
  ASSUME NEW r \in Request,
         \A q \in Request \ {r} : handler'[q] = handler[q], Waiting(r)' = 0,
         NEW names, metrics' = Counted(names),
         "put_success" \notin names \/ "put_rejected" \notin names,
         \/ "put_success" \notin names /\ "put_rejected" \notin names
         \/ r \in InFlight
         \/ "put_total" \in names
  PROVE  Accounted(r)
<1>1. Waiting(r) \in {0, 1} /\ (r \in InFlight => Waiting(r) = 1)
  BY DEF Waiting
<1>2. Balanced(r, names)
  BY <1>1 DEF Balanced
<1> QED
  BY <1>2 DEF Accounted

LEMMA HandlerAccounted ==
  ASSUME IInv, NEW r \in Request, HandlerStep(r) \/ Disconnect(r)
  PROVE  Accounted(r)
<1> USE DEF At, input
<1>0. TypeOK /\ Asked /\ AskedOf(r)
  BY DEF IInv, Asked
<1>1. r \in InFlight <=> /\ handler[r].pc \in {"verify", "stage1", "send", "await"}
                         /\ handler[r].input.op # "fetch"
  BY DEF InFlight
<1>2. ASSUME handler[r].pc # "idle", NEW code \in Code, handler' = Finish(r, code)
      PROVE  (\A q \in Request \ {r} : handler'[q] = handler[q]) /\ Waiting(r)' = 0
  BY <1>0, <1>2, FinishWaits
<1>3. ASSUME handler[r].pc # "idle", r \in InFlight, NEW code \in Code, Refuse(r, code)
      PROVE  Accounted(r)
  BY <1>2, <1>3, EndsAccounted DEF Refuse
<1>4. {201, 400, 403, 404, 429, 500, 504} \subseteq Code
  BY DEF Code
<1>5. CASE publish_card(r)
  <2>1. handler[r].pc # "idle"
    BY <1>5 DEF publish_card
  <2>2. CASE handler' = Finish(r, 400) /\ metrics' = Counted({"put_total", "put_rejected"})
    BY <1>2, <1>4, <2>1, <2>2, EndsAccounted
  <2>3. CASE handler' = Goto(r, "verify") /\ metrics' = Counted({"put_total"})
    BY <1>0, <2>1, <2>3, GoesAccounted
  <2> QED
    BY <1>5, <2>2, <2>3 DEF publish_card
<1>6. CASE Screened(r)
  <2>1. handler[r].pc = "verify" /\ r \in InFlight
    BY <1>0, <1>1, <1>6 DEF Screened, AskedOf
  <2>2. CASE \E code \in {400, 429} : Refuse(r, code)
    BY <1>3, <1>4, <2>1, <2>2
  <2>3. CASE UNCHANGED metrics /\ \E pc \in {"stage1", "send"} : handler' = Goto(r, pc)
    BY <1>0, <2>1, <2>3, UncountedIs, GoesAccounted
  <2> QED
    BY <1>6, <2>2, <2>3 DEF Screened
<1>7. CASE Stage1(r)
  <2>1. handler[r].pc = "stage1" /\ r \in InFlight
    BY <1>0, <1>1, <1>7 DEF Stage1, AskedOf
  <2>2. CASE Refuse(r, 403)
    BY <1>3, <1>4, <2>1, <2>2
  <2>3. CASE UNCHANGED metrics /\ handler' = [handler EXCEPT ![r].pc = "send", ![r].verified = TRUE]
    <3>1. /\ metrics' = Counted({})
          /\ \A q \in Request \ {r} : handler'[q] = handler[q]
      BY <1>0, <2>3, UncountedIs DEF TypeOK
    <3>2. Waiting(r) = 1 /\ Waiting(r)' \in {0, 1}
      BY <2>1 DEF Waiting
    <3>3. Balanced(r, {})
      BY <3>2 DEF Balanced
    <3> QED
      BY <3>1, <3>3 DEF Accounted
  <2> QED
    BY <1>7, <2>2, <2>3 DEF Stage1
<1>8. CASE publish_batch(r)
  <2>1. handler[r].pc # "idle"
    BY <1>8 DEF publish_batch
  <2>2. CASE handler' = Finish(r, 400) /\ metrics' = Counted({"put_total", "put_rejected"})
    BY <1>2, <1>4, <2>1, <2>2, EndsAccounted
  <2>3. CASE handler' = Goto(r, "send") /\ metrics' = Counted({"put_total"})
    BY <1>0, <2>1, <2>3, GoesAccounted
  <2> QED
    BY <1>8, <2>2, <2>3 DEF publish_batch
<1>9. CASE fetch_card(r)
  <2>1. /\ handler[r].pc # "idle" /\ handler[r].input.op = "fetch"
        /\ metrics' = Counted({"get_total"})
    BY <1>9 DEF fetch_card
  <2>2. CASE handler' = Finish(r, 400)
    BY <1>2, <1>4, <2>1, <2>2, EndsAccounted
  <2>3. CASE handler' = Goto(r, "send")
    BY <1>0, <2>1, <2>3, GoesAccounted
  <2> QED
    BY <1>9, <2>2, <2>3 DEF fetch_card
<1>10. CASE Send(r)
  <2>1. handler[r].pc = "send" /\ metrics' = Counted({})
    BY <1>0, <1>10, UncountedIs DEF Send
  <2>2. CASE handler' = Finish(r, 500)
    BY <1>2, <1>4, <2>1, <2>2, EndsAccounted
  <2>3. CASE handler' = Goto(r, "await")
    BY <1>0, <1>1, <2>1, <2>3, GoesAccounted
  <2> QED
    BY <1>10, <2>2, <2>3 DEF Send
<1>11. CASE Published(r)
  <2>1. /\ handler[r].pc = "await" /\ r \in InFlight
        /\ handler' = Finish(r, 201) /\ metrics' = Counted({"put_success"})
    BY <1>1, <1>11 DEF Published
  <2> QED
    BY <1>2, <1>4, <2>1, EndsAccounted
<1>12. CASE NotPublished(r)
  <2>1. handler[r].pc = "await" /\ r \in InFlight /\ \E code \in {500, 504} : Refuse(r, code)
    BY <1>1, <1>12 DEF NotPublished
  <2> QED
    BY <1>3, <1>4, <2>1
<1>13. CASE Fetched(r)
  <2>1. handler[r].pc = "await" /\ handler[r].input.op = "fetch"
    BY <1>13 DEF Fetched
  <2>2. (\A q \in Request \ {r} : handler'[q] = handler[q]) /\ Waiting(r)' = 0
    <3>1. CASE \E code \in {404, 504} : handler' = Finish(r, code)
      BY <1>2, <1>4, <2>1, <3>1
    <3>2. CASE \E code \in {200, 500} : handler' = FinishFound(r, code)
      <4>1. answer(r).value \in Value \cup {Absent}
        BY <1>0, <2>1, Inputs DEF answer, TypeOK
      <4>2. Moves(r) /\ handler'[r].pc = "done"
        BY <1>0, <2>1, <3>2, <4>1, FinishWith DEF Code
      <4> QED
        BY <4>2 DEF Moves, Waiting, InFlight
    <3> QED
      BY <1>13, <3>1, <3>2 DEF Fetched, FinishFound
  <2>3. \E names \in {{}, {"get_found"}, {"get_not_found"}} : metrics' = Counted(names)
    BY <1>0, <1>13, UncountedIs DEF Fetched
  <2> QED
    BY <2>2, <2>3, EndsAccounted
<1>14. CASE Timeout(r)
  <2>1. handler[r].pc = "await" /\ handler' = Finish(r, 504)
    BY <1>14 DEF Timeout
  <2>2. CASE handler[r].input.op = "fetch" /\ metrics' = Counted({})
    BY <1>2, <1>4, <2>1, <2>2, EndsAccounted
  <2>3. CASE handler[r].input.op # "fetch" /\ metrics' = Counted({"put_rejected"})
    BY <1>1, <1>2, <1>4, <2>1, <2>3, EndsAccounted
  <2> QED
    BY <1>14, <2>2, <2>3 DEF Timeout
<1>15. CASE Disconnect(r)
  <2>1. /\ handler[r].pc \in {"verify", "stage1", "send", "await"}
        /\ handler' = Goto(r, "gone") /\ metrics' = Counted({})
    BY <1>0, <1>15, UncountedIs DEF Disconnect
  <2> QED
    BY <1>0, <1>1, <2>1, GoesAccounted
<1> QED
  BY <1>5, <1>6, <1>7, <1>8, <1>9, <1>10, <1>11, <1>12, <1>13, <1>14, <1>15 DEF HandlerStep

LEMMA AccountKeeps == IInv /\ Account /\ [Next]_vars => Account'
<1> SUFFICES ASSUME IInv, Account, [Next]_vars
             PROVE  Account'
  OBVIOUS
<1>0. TypeOK
  BY DEF IInv
<1>1. CASE UNCHANGED <<handler, metrics>>
  BY <1>1 DEF Account, CountedOnce, InFlight
<1>2. ASSUME NEW r \in Request, NEW i \in Input, Arrive(r, i)
      PROVE  Account'
  <2>1. /\ \A q \in Request \ {r} : handler'[q] = handler[q]
        /\ handler'[r].pc = "start" /\ handler[r].pc = "idle"
    BY <1>0, <1>2 DEF Arrive, TypeOK, At, Idle
  <2>2. InFlight' = InFlight /\ metrics' = metrics
    BY <1>2, <2>1 DEF InFlight, Arrive
  <2> QED
    BY <2>2 DEF Account, CountedOnce
<1>3. ASSUME NEW r \in Request, HandlerStep(r) \/ Disconnect(r)
      PROVE  Account'
  BY <1>0, <1>3, HandlerAccounted, AccountStep DEF Accounted
<1> QED
  BY <1>1, <1>2, <1>3 DEF Next, NoPut, vars, tasks, CooldownEnds, handle_put,
     handle_get, QueryEnds, GetEnded, PutEnded, FoundRecord, InboundPut, Shutdown

(* No publication is counted both as published and as rejected, nor twice  *)
(* as either: what is decided and what still waits is at most the total.   *)
THEOREM DecidedOnce == Spec => []CountedOnce
<1>1. Init => Account
  <2> SUFFICES ASSUME Init
               PROVE  Account
    OBVIOUS
  <2>1. InFlight = {}
    BY DEF Init, InFlight, Idle
  <2> QED
    BY <2>1, FS_EmptySet DEF Init, Account, CountedOnce
<1>2. Init /\ [][Next]_vars => []IInv
  BY InitIInv, IInvStep, PTL
<1>3. Account => CountedOnce
  BY DEF Account
<1> QED
  BY <1>1, <1>2, <1>3, AccountKeeps, PTL DEF Spec

-----------------------------------------------------------------------------
(* The store of a node is a RecordStore.                                   *)

(* A publication or batch is at one of its cards, and past the first check *)
(* of a card that is one; so is what it sends.                             *)
HasCard(r) ==
  handler[r].pc # "idle" /\ input(r).op # "fetch" =>
    /\ handler[r].at \in 1..Len(input(r).cards)
    /\ handler[r].pc \in {"verify", "stage1", "send", "await"} => card(r) # Malformed

SendsCards ==
  /\ \A r \in Request : HasCard(r)
  /\ \A c \in Call : Queued(c) /\ input(c[1]).op # "fetch" =>
       /\ c[2] \in 1..Len(input(c[1]).cards)
       /\ cardOf(c) # Malformed

LEMMA FinishHasCard ==
  ASSUME TypeOK, Asked, NEW r \in Request, handler[r].pc # "idle", HasCard(r),
         NEW code \in Code, handler' = Finish(r, code)
  PROVE  HasCard(r)'
<1> DEFINE h == handler[r]
<1>1. /\ handler \in [Request -> Task] /\ h \in Task /\ h.at \in Nat
      /\ h.input.op # "fetch" => /\ Len(h.input.cards) \in Nat
                                 /\ h.at \in 1..Len(h.input.cards)
  BY Inputs, NodeAssumption DEF TypeOK, HasCard, input, Task, NodeAssumption
<1>2. handler'[r] = IF h.input.op # "batch" THEN Ended(h, code)
                     ELSE IF h.at < Len(h.input.cards) THEN Turned(h, h.at + 1)
                     ELSE Ended(h, 200)
  BY <1>1 DEF Finish, Ended, Turned
<1>3. \A c : Ended(h, c).pc = "done" /\ Ended(h, c).at = h.at /\ Ended(h, c).input = h.input
  BY <1>1 DEF Ended, Task
<1>4. \A at : /\ Turned(h, at).pc = "start" /\ Turned(h, at).at = at
              /\ Turned(h, at).input = h.input
  BY <1>1 DEF Turned, Task
<1> HIDE DEF h
<1>5. CASE h.input.op # "batch"
  BY <1>1, <1>2, <1>3, <1>5 DEF HasCard, input
<1>6. CASE h.input.op = "batch" /\ h.at < Len(h.input.cards)
  <2>1. h.at + 1 \in 1..Len(h.input.cards)
    BY <1>1, <1>6
  <2> QED
    BY <1>2, <1>4, <1>6, <2>1 DEF HasCard, input
<1>7. CASE h.input.op = "batch" /\ ~(h.at < Len(h.input.cards))
  BY <1>1, <1>2, <1>3, <1>7 DEF HasCard, input
<1> QED
  BY <1>5, <1>6, <1>7

LEMMA GotoHasCard ==
  ASSUME TypeOK, NEW r \in Request, handler[r].pc # "idle", HasCard(r),
         NEW pc \in {"verify", "stage1", "send", "await", "gone"}, handler' = Goto(r, pc),
         pc = "gone" \/ input(r).op = "fetch" \/ card(r) # Malformed
  PROVE  HasCard(r)'
<1>1. handler \in [Request -> Task] /\ handler[r] \in Task
  BY DEF TypeOK
<1>2. /\ handler'[r].pc = pc /\ handler'[r].at = handler[r].at
      /\ handler'[r].input = handler[r].input
  BY <1>1 DEF Goto, Task
<1> QED
  BY <1>2 DEF HasCard, input, card

LEMMA HandlerHasCard ==
  ASSUME IInv, NEW r \in Request, HasCard(r), HandlerStep(r) \/ Disconnect(r)
  PROVE  /\ Moves(r) /\ HasCard(r)'
         /\ \/ cmds' = cmds
            \/ handler[r].pc = "send" /\ cmds' = Append(cmds, call(r))
<1> USE DEF At
<1>0. TypeOK /\ Asked /\ AskedOf(r)
  BY DEF IInv, Asked
<1>1. ASSUME handler[r].pc # "idle", NEW code \in Code, handler' = Finish(r, code)
      PROVE  Moves(r) /\ HasCard(r)'
  BY <1>0, <1>1, FinishStep, FinishHasCard
<1>2. ASSUME handler[r].pc # "idle", NEW pc \in {"verify", "stage1", "send", "await", "gone"},
             handler' = Goto(r, pc),
             pc = "gone" \/ input(r).op = "fetch" \/ card(r) # Malformed
      PROVE  Moves(r) /\ HasCard(r)'
  BY <1>0, <1>2, GotoStep, GotoHasCard
<1>3. {200, 201, 400, 403, 404, 429, 500, 504} \subseteq Code
  BY DEF Code
<1>4. handler[r].pc \in {"verify", "stage1", "send", "await"} /\ input(r).op # "fetch" =>
        card(r) # Malformed
  BY DEF HasCard
<1>5. CASE publish_card(r)
  BY <1>1, <1>2, <1>3, <1>5 DEF publish_card
<1>6. CASE Screened(r)
  BY <1>1, <1>2, <1>3, <1>4, <1>6 DEF Screened, Refuse
<1>7. CASE Stage1(r)
  <2>1. CASE Refuse(r, 403)
    BY <1>1, <1>3, <1>7, <2>1 DEF Stage1, Refuse
  <2>2. CASE handler' = [handler EXCEPT ![r].pc = "send", ![r].verified = TRUE]
    <3>1. handler \in [Request -> Task] /\ handler[r] \in Task
      BY <1>0 DEF TypeOK
    <3> DEFINE e == Verified(handler[r], TRUE)
    <3>2. e \in Task /\ SameRequest(e, handler[r]) /\ e.at = handler[r].at
      <4>1. e.at = handler[r].at
        BY <3>1 DEF Verified, Task
      <4> QED
        BY <3>1, <4>1, TaskVerified
    <3>3. handler' = [handler EXCEPT ![r] = WithPc(e, "send")]
      <4>1. handler' = [handler EXCEPT ![r] = [handler[r] EXCEPT !.pc = "send", !.verified = TRUE]]
        BY <2>2
      <4> QED
        BY <3>1, <4>1, VerifiedGoes
    <3> HIDE DEF e
    <3>4. /\ WithPc(e, "send") \in Task /\ SameRequest(WithPc(e, "send"), e)
          /\ WithPc(e, "send").pc = "send" /\ WithPc(e, "send").at = e.at
      <4>1. WithPc(e, "send").at = e.at
        BY <3>2 DEF WithPc, Task
      <4> QED
        BY <3>2, <4>1, TaskGoes
    <3>5. handler[r].pc = "stage1"
      BY <1>7 DEF Stage1
    <3>6. Moves(r)
      BY <3>1, <3>2, <3>3, <3>4, <3>5 DEF Moves, SameRequest
    <3> QED
      BY <1>4, <1>7, <3>1, <3>2, <3>3, <3>4, <3>5, <3>6
      DEF Stage1, HasCard, input, card, SameRequest
  <2> QED
    BY <1>7, <2>1, <2>2 DEF Stage1
<1>8. CASE publish_batch(r)
  BY <1>1, <1>2, <1>3, <1>8 DEF publish_batch
<1>9. CASE fetch_card(r)
  BY <1>1, <1>2, <1>3, <1>9 DEF fetch_card
<1>10. CASE Send(r)
  BY <1>1, <1>2, <1>3, <1>4, <1>10 DEF Send
<1>11. CASE Published(r)
  BY <1>1, <1>3, <1>11 DEF Published
<1>12. CASE NotPublished(r)
  BY <1>1, <1>3, <1>12 DEF NotPublished, Refuse
<1>13. CASE Fetched(r)
  <2>1. CASE answer(r).tag = "Found"
    <3>1. answer(r).value \in Value \cup {Absent}
      BY <1>0, <1>13, Inputs DEF TypeOK, answer, Fetched
    <3>2. \E code \in Code : handler' = FinishFound(r, code)
      BY <1>3, <1>13, <2>1 DEF Fetched, FinishFound
    <3>3. Moves(r)
      BY <1>0, <1>13, <3>1, <3>2, FinishWith DEF Fetched, input
    <3> QED
      BY <1>13, <3>3 DEF Fetched, HasCard, input, Moves
  <2>2. CASE answer(r).tag # "Found"
    BY <1>1, <1>3, <1>13, <2>2 DEF Fetched
  <2> QED
    BY <1>13, <2>1, <2>2 DEF Fetched
<1>14. CASE Timeout(r)
  BY <1>1, <1>3, <1>14 DEF Timeout
<1>15. CASE Disconnect(r)
  BY <1>2, <1>15 DEF Disconnect
<1> QED
  BY <1>5, <1>6, <1>7, <1>8, <1>9, <1>10, <1>11, <1>12, <1>13, <1>14, <1>15 DEF HandlerStep

(* What is in the channel was sent by handlers that had a card.            *)
LEMMA StillCards ==
  ASSUME IInv, SendsCards,
         \A r \in Request : handler[r].pc # "idle" => handler'[r].input = handler[r].input,
         \A r \in Request : HasCard(r)',
         \A c \in Call : Queued(c)' =>
           \/ Queued(c)
           \/ c = call(c[1]) /\ handler[c[1]].pc = "send"
  PROVE  SendsCards'
<1> SUFFICES ASSUME NEW c \in Call, Queued(c)', input(c[1])'.op # "fetch"
             PROVE  c[2] \in 1..Len(input(c[1])'.cards) /\ cardOf(c)' # Malformed
  BY DEF SendsCards
<1>1. c[1] \in Request
  BY DEF Call
<1>2. CASE Queued(c)
  <2>1. handler[c[1]].pc # "idle"
    BY <1>2 DEF IInv, Sent, Touched
  <2>2. input(c[1])' = input(c[1])
    BY <1>1, <2>1 DEF input
  <2> QED
    BY <1>2, <2>2 DEF SendsCards, cardOf
<1>3. CASE c = call(c[1]) /\ handler[c[1]].pc = "send"
  <2>1. input(c[1])' = input(c[1])
    BY <1>1, <1>3 DEF input
  <2>2. c[2] = handler[c[1]].at
    BY <1>3 DEF call
  <2> QED
    BY <1>1, <1>3, <2>1, <2>2 DEF SendsCards, HasCard, card, cardOf
<1> QED
  BY <1>2, <1>3

LEMMA SendsCardsStep ==
  ASSUME IInv, SendsCards, [Next]_vars
  PROVE  SendsCards'
<1>1. TypeOK /\ Asked
  BY DEF IInv
<1>2. CASE UNCHANGED handler /\ \A c \in Call : Queued(c)' => Queued(c)
  <2>1. \A r \in Request : HasCard(r)'
    BY <1>2 DEF SendsCards, HasCard, input, card
  <2> QED
    BY <1>2, <2>1, StillCards
<1>3. ASSUME NEW r \in Request, NEW i \in Input, Arrive(r, i)
      PROVE  SendsCards'
  <2>1. /\ \A q \in Request \ {r} : handler'[q] = handler[q]
        /\ handler[r].pc = "idle"
        /\ handler'[r].pc = "start" /\ handler'[r].at = 1 /\ handler'[r].input = i
    BY <1>1, <1>3 DEF Arrive, TypeOK, At, Idle
  <2>2. i.op # "fetch" => Len(i.cards) \in 1..MaxCalls
    BY NodeAssumption DEF NodeAssumption
  <2>3. HasCard(r)'
    BY <2>1, <2>2, NodeAssumption DEF HasCard, input, NodeAssumption
  <2>4. \A q \in Request : HasCard(q)'
    BY <2>1, <2>3 DEF SendsCards, HasCard, input, card
  <2>5. \A c \in Call : Queued(c)' => Queued(c)
    BY <1>3 DEF Arrive, Queued
  <2> QED
    BY <2>1, <2>4, <2>5, StillCards
<1>4. ASSUME NEW r \in Request, HandlerStep(r) \/ Disconnect(r)
      PROVE  SendsCards'
  <2>1. /\ Moves(r) /\ HasCard(r)'
        /\ \/ cmds' = cmds
           \/ handler[r].pc = "send" /\ cmds' = Append(cmds, call(r))
    BY <1>4, HandlerHasCard DEF SendsCards
  <2>2. \A q \in Request : HasCard(q)'
    BY <2>1 DEF SendsCards, HasCard, input, card, Moves
  <2>3. call(r) \in Call
    BY <1>1, <2>1, Inputs DEF Moves
  <2>4. \A c \in Call : Queued(c)' => Queued(c) \/ (c = call(c[1]) /\ handler[c[1]].pc = "send")
    <3> SUFFICES ASSUME NEW c \in Call, Queued(c)', ~Queued(c)
                 PROVE  c = call(c[1]) /\ handler[c[1]].pc = "send"
      OBVIOUS
    <3>1. cmds' = Append(cmds, call(r)) /\ handler[r].pc = "send"
      BY <2>1 DEF Queued
    <3>2. c = call(r)
      BY <1>1, <2>3, <3>1, QueuedAppend DEF TypeOK
    <3>3. c[1] = r
      BY <3>2 DEF call
    <3> QED
      BY <3>1, <3>2, <3>3
  <2> QED
    BY <2>1, <2>2, <2>4, StillCards DEF Moves
<1>5. CASE handle_put \/ handle_get
  <2>1. UNCHANGED handler /\ cmds # <<>> /\ cmds' = Tail(cmds)
    BY <1>5 DEF handle_put, handle_get, tasks
  <2> QED
    BY <1>2, <2>1, Taken
<1>6. ASSUME \/ \E d \in Domain : CooldownEnds(d)
             \/ \E c \in Call : QueryEnds(c)
             \/ \E c \in Call : \E value : FoundRecord(c, value)
             \/ \E rec \in Inbound : InboundPut(rec)
             \/ Shutdown
             \/ UNCHANGED vars
      PROVE  SendsCards'
  <2>1. UNCHANGED handler /\ cmds' \in {cmds, <<>>}
    BY <1>6 DEF CooldownEnds, QueryEnds, GetEnded, PutEnded, FoundRecord, InboundPut,
       Shutdown, vars, tasks
  <2>2. \A c \in Call : Queued(c)' => Queued(c)
    BY <2>1 DEF Queued
  <2> QED
    BY <1>2, <2>1, <2>2
<1> QED
  BY <1>3, <1>4, <1>5, <1>6 DEF Next, NoPut

(* Before build_swarm there is nothing; the history has its type.          *)
Begun == ~up => ~db /\ running /\ records = NoCards

StoreInv ==
  /\ IInv
  /\ SendsCards
  /\ Begun
  /\ up \in BOOLEAN /\ db \in BOOLEAN
  /\ accepted \in [RecordKey -> SUBSET Value]

(* RecordStore means by a valid card and its number what Node means.       *)
LEMMA SameCards ==
  /\ \A k, v : Store!Validates(k, v) <=> Validates(k, v)
  /\ \A v : Store!SeqOf(v) = SeqOf(v)
  BY DEF Store!Validates, Validates, Store!SeqOf, SeqOf,
         Store!verify_card, verify_card, Store!verify_address, verify_address,
         Store!compute_address, compute_address, Store!SignedCard, SignedCard,
         Store!CardRecord, CardRecord, Store!Signature, Signature,
         Store!CardStatus, CardStatus

(* While the loop runs RecordStore sees the node's cards and their numbers.*)
LEMMA SameContents ==
  ASSUME running
  PROVE  /\ Contents = records
         /\ \A k : Store!Full(k) <=> Full(k)
<1>1. Contents = records
  BY DEF Contents
<1>2. Store!Stored(Contents) = {k \in RecordKey : records[k] # Absent}
  BY <1>1 DEF Store!Stored
<1>3. Store!Cardinality(Store!Stored(Contents))
        = Cardinality({k \in RecordKey : records[k] # Absent})
  BY <1>2 DEF Store!Cardinality, Cardinality, Store!IsFiniteSet, IsFiniteSet
<1> QED
  BY <1>1, <1>3 DEF Store!Full, Full

(* What handle_put and InboundPut do to the cards is RecordStore's put.    *)
LEMMA PutRefines ==
  ASSUME StoreInv, Alive, running', NEW rec \in Put,
         records' = StorePut(rec.key, rec.value), Outcome(rec.key, rec.value)
  PROVE  Store!put(rec)
<1> DEFINE key == rec.key
           value == rec.value
<1>1. TypeOK /\ up /\ running /\ up' /\ db' = db
  BY DEF StoreInv, IInv, Alive, Outcome
<1>2. /\ Contents = records /\ Contents' = records'
      /\ Store!Full(key) <=> Full(key)
  BY <1>1, SameContents DEF Contents
<1>3. Store!Validates(key, value) <=> Validates(key, value)
  BY SameCards
<1>4. /\ outcome' = PutResult(key, value)
      /\ accepted' = IF records' = records THEN accepted
                     ELSE [accepted EXCEPT ![key] = @ \cup {value}]
  BY DEF Outcome
<1>5. (IF running THEN outcome ELSE "none")' = outcome'
  BY <1>1
<1>6. ASSUME records' = records
      PROVE  /\ UNCHANGED <<Contents, Seqs, NoWeights>>
             /\ Disk' = Disk /\ Flushed' = Flushed
             /\ accepted' = accepted
  BY <1>1, <1>2, <1>4, <1>6 DEF Seqs, NoWeights, Disk, Flushed, NoCards
<1>7. Flushed' = Flushed /\ Alive' = Alive /\ (db /\ running)' = (db /\ running)
  BY <1>1 DEF Flushed, Alive, NoWeights, NoCards
<1>8. CASE ~PutOk(key, value)
  <2>1. records' = records
    BY <1>8 DEF StorePut
  <2>2. Store!Full(key) \/ ~Store!Validates(key, value)
    BY <1>2, <1>3, <1>8 DEF PutOk
  <2>3. outcome' = IF Store!Full(key) THEN "MaxRecords" ELSE "ValueTooLarge"
    BY <1>2, <1>4, <1>8 DEF PutResult
  <2>4. Store!Refused(rec)
    BY <1>5, <1>6, <2>1, <2>2, <2>3 DEF Store!Refused, Store!memory
  <2> QED
    BY <1>1, <1>7, <2>4 DEF Store!put, Alive
<1>9. CASE PutOk(key, value)
  <2>1. /\ ~Store!Full(key) /\ Store!Validates(key, value)
        /\ outcome' = "Ok"
    BY <1>2, <1>3, <1>4, <1>9 DEF PutOk, PutResult
  <2>2. key \in RecordKey /\ value \in SignedCard /\ SeqOf(value) \in Nat /\ value # Absent
    <3>1. value \in SignedCard /\ key = compute_address(value.record.pubkey)
      BY <1>9 DEF PutOk, Validates
    <3> QED
      BY <3>1, Cards, CardAssumption DEF CardAssumption
  <2>3. Seqs[key] = IF records[key] = Absent THEN NoSeq ELSE SeqOf(records[key])
    BY <1>2, <2>2 DEF Seqs
  <2>4. records[key] # Absent => SeqOf(records[key]) \in 0..MaxSeq
    BY <1>1, <2>2, Cards DEF TypeOK
  <2>5. Store!Newer(rec) <=> (records[key] # Absent => SeqOf(records[key]) < SeqOf(value))
    BY <2>3, <2>4, SameCards, NodeStoreAssumption DEF Store!Newer, NodeStoreAssumption
  <2>6. CASE ~Store!Newer(rec)
    <3>1. records' = records
      BY <2>5, <2>6 DEF StorePut
    <3>2. Store!Ignored(rec)
      BY <1>5, <1>6, <2>1, <2>6, <3>1 DEF Store!Ignored, Store!memory
    <3> QED
      BY <1>1, <1>7, <3>2 DEF Store!put, Alive
  <2>7. CASE Store!Newer(rec)
    <3>1. records' = [records EXCEPT ![key] = value]
      BY <1>9, <2>5, <2>7 DEF StorePut
    <3>2. records'[key] = value /\ \A k \in RecordKey \ {key} : records'[k] = records[k]
      BY <1>1, <2>2, <3>1 DEF TypeOK
    <3>3. records' # records
      BY <1>1, <2>2, <2>4, <2>5, <2>7, <3>2, CardAssumption DEF CardAssumption
    <3>4. Seqs' = [Seqs EXCEPT ![key] = SeqOf(value)]
      BY <1>2, <2>2, <3>2 DEF Seqs
    <3>5. Store!persist(key, value)
      <4>1. CASE db
        <5>1. Disk = [cards |-> records, weights |-> NoWeights]
              /\ Disk' = [cards |-> records', weights |-> NoWeights]
          BY <1>1, <4>1 DEF Disk, NoWeights
        <5>2. Disk' = [Disk EXCEPT !.cards[key] = value]
          BY <3>1, <5>1
        <5> QED
          BY <1>1, <4>1, <5>2 DEF Store!persist, Store!WriteThrough
      <4>2. CASE ~db
        <5>1. Disk' = Disk
          BY <1>1, <4>2 DEF Disk, NoWeights, NoCards
        <5> QED
          BY <4>2, <5>1 DEF Store!persist, Store!WriteThrough
      <4> QED
        BY <4>1, <4>2
    <3>6. NoWeights' = NoWeights
      BY DEF NoWeights
    <3>7. Store!Kept(rec)
      BY <1>2, <1>4, <1>5, <2>1, <2>7, <3>1, <3>3, <3>4, <3>5, <3>6, SameCards DEF Store!Kept
    <3> QED
      BY <1>1, <1>7, <3>7 DEF Store!put, Alive
  <2> QED
    BY <2>6, <2>7
<1> QED
  BY <1>8, <1>9

(* Away from puts the store stays as it is, unless it is dropped.          *)
LEMMA NoPutKeepsStore ==
  ASSUME NoPut, ~Shutdown
  PROVE  records' = records /\ running' = running
  BY DEF NoPut, Arrive, HandlerStep, publish_card, Screened, Stage1, publish_batch,
     fetch_card, Send, Published, NotPublished, Fetched, Timeout, Disconnect, CooldownEnds,
     handle_get, QueryEnds, GetEnded, PutEnded, FoundRecord, swarm, tasks

LEMMA StoreSame ==
  ASSUME UNCHANGED <<records, running, history>>
  PROVE  UNCHANGED Store!vars
  BY DEF history, Store!vars, Store!memory, Alive, Contents, Seqs, NoWeights, Disk, Flushed,
     NoCards

LEMMA ShutdownRefines ==
  ASSUME StoreInv, up, Shutdown, UNCHANGED history
  PROVE  Store!Stop
<1>1. /\ running /\ ~running' /\ UNCHANGED <<records, up, db, outcome, accepted>>
  BY DEF Shutdown, history
<1>2. Contents' = Store!NoCards
  BY <1>1 DEF Contents, NoCards, Store!NoCards
<1>3. Seqs' = Store!NoSeqs
  BY <1>2 DEF Seqs, Store!NoSeqs, Store!NoCards
<1>4. NoWeights' = Store!NoWeights
  BY DEF NoWeights, Store!NoWeights
<1>5. Disk' = Disk /\ Flushed' = Disk
  BY <1>1 DEF Disk, Flushed, NoWeights, NoCards
<1> QED
  BY <1>1, <1>2, <1>3, <1>4, <1>5 DEF Store!Stop, Store!Lost, Alive

(* A new store, with a database or without, is empty.                      *)
LEMMA BuildRefines ==
  ASSUME StoreInv, build_swarm
  PROVE  Store!with_persistence \/ Store!in_memory
<1>1. /\ ~up /\ up' /\ ~db /\ running /\ records = NoCards
      /\ db' \in BOOLEAN /\ UNCHANGED <<records, running, outcome, accepted>>
  BY NodeStoreAssumption DEF StoreInv, Begun, build_swarm, vars, swarm, NodeStoreAssumption
<1>2. /\ ~Alive /\ Alive' /\ ~(db /\ running) /\ (db /\ running)' = db'
      /\ (IF running THEN outcome ELSE "none")' = (IF running THEN outcome ELSE "none")
  BY <1>1 DEF Alive
<1>3. /\ Contents = NoCards /\ Contents' = NoCards
      /\ Seqs' = Seqs /\ NoWeights' = NoWeights
  BY <1>1 DEF Contents, Seqs, NoWeights, NoCards
<1>4. /\ Disk = [cards |-> NoCards, weights |-> NoWeights] /\ Disk' = Disk
      /\ Flushed' = Flushed
  BY <1>1 DEF Disk, Flushed, NoWeights, NoCards
<1>5. CASE ~db'
  BY <1>1, <1>2, <1>3, <1>4, <1>5 DEF Store!in_memory, Store!memory
<1>6. CASE db'
  <2>1. Store!Loaded(Disk.cards, RecordKey) = NoCards
    <3>1. \A k : ~Store!Validates(k, Absent)
      BY SameCards, NodeAssumption DEF Validates, NodeAssumption, Value
    <3> QED
      BY <1>4, <3>1 DEF Store!Loaded, NoCards
  <2>2. Store!LoadedWeights(Disk.weights, RecordKey) = NoWeights
    BY <1>4 DEF Store!LoadedWeights, NoWeights
  <2>3. Seqs' = [k \in RecordKey |->
                   IF Contents'[k] = Absent THEN NoSeq ELSE Store!SeqOf(Contents'[k])]
    BY SameCards DEF Seqs
  <2>4. Store!Readable(RecordKey)
    BY DEF Store!Readable
  <2>5. Store!load_from_disk
    BY <1>3, <2>1, <2>2, <2>3, <2>4 DEF Store!load_from_disk
  <2> QED
    BY <1>1, <1>2, <1>4, <1>6, <2>5 DEF Store!with_persistence
<1> QED
  BY <1>1, <1>5, <1>6

(* Nothing is put into the channel or the store that is not in Put.        *)
LEMMA SubmitsCards ==
  ASSUME StoreInv, handle_put
  PROVE  LET value == cardOf(NextCall)
         IN  [key |-> compute_address(value.record.pubkey), value |-> value] \in Put
<1> DEFINE value == cardOf(NextCall)
<1>1. TypeOK /\ Asked /\ Sent /\ SendsCards
  BY DEF StoreInv, IInv
<1>2. cmds # <<>> /\ input(NextCall[1]).op # "fetch" /\ cmds' = Tail(cmds)
  BY DEF handle_put
<1>3. NextCall \in Call /\ Touched(NextCall)
  BY <1>2, Taken DEF StoreInv
<1>4. Queued(NextCall)
  <2>1. 1 \in 1..Len(cmds) /\ Head(cmds) = cmds[1]
    BY <1>1, <1>2, EmptySeq DEF TypeOK
  <2> QED
    BY <2>1 DEF Queued, NextCall
<1>5. NextCall[2] \in 1..Len(input(NextCall[1]).cards) /\ value # Malformed
  BY <1>1, <1>2, <1>3, <1>4 DEF SendsCards
<1>6. input(NextCall[1]) \in Input
  BY <1>1, <1>3 DEF Sent, Asked, AskedOf, input, Call
<1>7. value \in Submitted
  BY <1>2, <1>5, <1>6 DEF Submitted, cardOf
<1> QED
  BY <1>5, <1>7 DEF Put

LEMMA StoreStepRefines ==
  ASSUME StoreInv, [StoreNext]_storeVars
  PROVE  [Store!Next]_(Store!vars)
<1>1. CASE build_swarm
  BY <1>1, BuildRefines DEF Store!Next
<1>2. CASE up /\ NoPut /\ UNCHANGED history
  <2>1. CASE Shutdown
    BY <1>2, <2>1, ShutdownRefines DEF Store!Next
  <2>2. CASE ~Shutdown
    BY <1>2, <2>2, NoPutKeepsStore, StoreSame
  <2> QED
    BY <2>1, <2>2
<1>3. CASE up /\ Submit
  <2> DEFINE value == cardOf(NextCall)
             rec == [key |-> compute_address(value.record.pubkey), value |-> value]
  <2>1. handle_put /\ running /\ running'
    BY <1>3 DEF Submit, handle_put
  <2>2. rec \in Put
    BY <2>1, SubmitsCards
  <2>3. records' = StorePut(rec.key, rec.value) /\ Outcome(rec.key, rec.value)
    BY <1>3 DEF Submit, handle_put, cardOf
  <2> HIDE DEF rec
  <2>4. Store!put(rec)
    BY <1>3, <2>1, <2>2, <2>3, PutRefines DEF Alive
  <2> QED
    BY <2>2, <2>4 DEF Store!Next
<1>4. CASE up /\ \E rec \in Inbound : Replicate(rec)
  <2>1. PICK rec \in Inbound : Replicate(rec)
    BY <1>4
  <2>2. /\ running /\ running' /\ rec \in Put
        /\ records' = StorePut(rec.key, rec.value) /\ Outcome(rec.key, rec.value)
    BY <2>1 DEF Replicate, InboundPut, Put
  <2>3. Store!put(rec)
    BY <1>4, <2>2, PutRefines DEF Alive
  <2> QED
    BY <2>2, <2>3 DEF Store!Next
<1>5. CASE UNCHANGED storeVars
  BY <1>5, StoreSame DEF storeVars, vars, swarm
<1> QED
  BY <1>1, <1>2, <1>3, <1>4, <1>5 DEF StoreNext

LEMMA StoreInvInit == StoreInit => StoreInv
<1> SUFFICES ASSUME StoreInit
             PROVE  StoreInv
  OBVIOUS
<1>1. IInv
  BY InitIInv DEF StoreInit
<1>2. SendsCards
  BY DEF StoreInit, Init, SendsCards, HasCard, Queued, Idle
<1>3. Begun
  BY DEF StoreInit, Init, Begun, NoCards
<1> QED
  BY <1>1, <1>2, <1>3 DEF StoreInv, StoreInit

LEMMA StoreInvStep ==
  ASSUME StoreInv, [StoreNext]_storeVars
  PROVE  StoreInv'
<1>1. [Next]_vars
  BY DEF StoreNext, storeVars, Next, Submit, Replicate, build_swarm
<1>2. IInv' /\ SendsCards'
  BY <1>1, IInvStep, SendsCardsStep DEF StoreInv
<1>3. up' \in BOOLEAN /\ db' \in BOOLEAN /\ Begun'
  <2>1. CASE UNCHANGED storeVars
    BY <2>1 DEF StoreInv, Begun, storeVars, history, vars, swarm, NoCards
  <2>2. CASE StoreNext
    BY <2>2, NodeStoreAssumption
    DEF StoreInv, Begun, StoreNext, build_swarm, Submit, Replicate, Outcome, history,
        NodeStoreAssumption
  <2> QED
    BY <2>1, <2>2
<1>4. accepted' \in [RecordKey -> SUBSET Value]
  <2>1. ASSUME NEW key, NEW value, records' = StorePut(key, value), Outcome(key, value)
        PROVE  accepted' \in [RecordKey -> SUBSET Value]
    <3>1. CASE records' = records
      BY <2>1, <3>1 DEF Outcome, StoreInv
    <3>2. CASE records' # records
      <4>1. PutOk(key, value)
        BY <2>1, <3>2 DEF StorePut
      <4>2. value \in Value
        BY <4>1 DEF PutOk, Validates, Value
      <4> QED
        BY <2>1, <3>2, <4>2 DEF Outcome, StoreInv
    <3> QED
      BY <3>1, <3>2
  <2>2. \/ accepted' = accepted
        \/ \E key, value : records' = StorePut(key, value) /\ Outcome(key, value)
    BY DEF StoreNext, storeVars, history, build_swarm, Submit, Replicate, handle_put, InboundPut
  <2> QED
    BY <2>1, <2>2 DEF StoreInv
<1> QED
  BY <1>2, <1>3, <1>4 DEF StoreInv

(* With its store a node does what it does without: what is proved of Spec *)
(* above is true of it.                                                    *)
THEOREM StoreIsNode == StoreSpec => Spec
<1>1. StoreInit => Init
  BY DEF StoreInit
<1>2. [StoreNext]_storeVars => [Next]_vars
  BY DEF StoreNext, storeVars, Next, Submit, Replicate, build_swarm
<1> QED
  BY <1>1, <1>2, PTL DEF StoreSpec, Spec

(* A node's store behaves as RecordStore does, for any requests, peers and *)
(* capacities, with a database that takes its writes or without one: a     *)
(* step of the node is a start, put or stop of the store, or it leaves the *)
(* store alone.                                                            *)
THEOREM StoreRefinement == StoreSpec => ImplementsStore
<1>1. StoreInit => Store!Init
  BY DEF StoreInit, Init, Store!Init, Alive, Contents, Seqs, NoWeights, Disk, Flushed, NoCards,
     Store!NoCards, Store!NoSeqs, Store!NoWeights, Store!EmptyDisk
<1>2. StoreInv /\ [StoreNext]_storeVars => StoreInv'
  BY StoreInvStep
<1>3. StoreInv /\ [StoreNext]_storeVars => [Store!Next]_(Store!vars)
  BY StoreStepRefines
<1> QED
  BY <1>1, <1>2, <1>3, StoreInvInit, PTL DEF StoreSpec, ImplementsStore, Store!Spec
=============================================================================
