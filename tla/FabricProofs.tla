---------------------------- MODULE FabricProofs ----------------------------
(***************************************************************************)
(* Proofs about the sharing of the memory, for any number of masters and   *)
(* any lengths of their bursts, whatever they ask for and whenever the     *)
(* memory takes it: round robin, and the notes in rsp_fifo, by which every *)
(* word finds the master that asked for it.                                *)
(***************************************************************************)
EXTENDS Integers, Fabric, TLAPS, WellFoundedInduction, SequenceTheorems,
        FiniteSetTheorems

Registers ==
    /\ asks \in [Masters -> {"nothing", "read", "write"}]
    /\ saved_grant \in 0 .. N /\ top_priority \in Masters
    /\ passed \in [Masters -> 0 .. N]

\* The masters that can go before m: those between the one with priority and m,
\* and the one that is granted now.
Before(m) == distance(top_priority, m) + (IF saved_grant = N THEN 0 ELSE 1)

IInv ==
    /\ Registers
    /\ saved_grant # N => top_priority = after(saved_grant)
    /\ \A m \in Masters :
           /\ passed[m] <= N - 1
           /\ asks[m] = "nothing" => passed[m] = 0
           /\ asks[m] # "nothing" /\ saved_grant # m => passed[m] + Before(m) <= N - 1

-----------------------------------------------------------------------------
(* The circle of masters.                                                  *)

LEMMA Least ==
    ASSUME NEW S, S \subseteq Nat, S # {}
    PROVE  \E x \in S : \A y \in S : x <= y
<1>1. IsWellFoundedOn(OpToRel(<, Nat), Nat)
  BY NatLessThanWellFounded
<1>2. PICK x \in S : \A y \in S : <<y, x>> \notin OpToRel(<, Nat)
  BY <1>1, WFMin
<1>3. \A y \in S : <<y, x>> \in OpToRel(<, Nat) <=> y < x
  BY DEF OpToRel
<1>4. \A y \in S : ~(y < x)
  BY <1>2, <1>3
<1>5. \A y \in S : x <= y
  BY <1>4
<1> QED
  BY <1>5

\* Distances are positions: the one after g is the last, and those behind g
\* move up by the place of g.
LEMMA Circle ==
    ASSUME NEW t \in Masters, NEW g \in Masters, NEW m \in Masters
    PROVE  /\ distance(t, m) \in 0 .. N - 1
           /\ after(g) \in Masters
           /\ m # g => distance(after(g), m) <= N - 2
           /\ m # g /\ distance(t, g) <= distance(t, m) =>
                  distance(after(g), m) = distance(t, m) - distance(t, g) - 1
BY FabricAssumption DEF Masters, distance, after

LEMMA NextGrant ==
    ASSUME Registers, request # {}
    PROVE  /\ next_grant \in request
           /\ \A k \in request :
                  distance(top_priority, next_grant) <= distance(top_priority, k)
<1> DEFINE S == {distance(top_priority, k) : k \in request}
<1>1. S \subseteq Nat /\ S # {}
  BY Circle DEF Registers, request
<1>2. \E m \in request : \A k \in request :
          distance(top_priority, m) <= distance(top_priority, k)
  <2>1. PICK x \in S : \A y \in S : x <= y
    BY <1>1, Least
  <2> QED
    BY <2>1
<1> QED
  BY <1>2 DEF next_grant

-----------------------------------------------------------------------------

LEMMA InitIInv == ASSUME Init PROVE IInv
BY FabricAssumption DEF Init, IInv, Registers, Before, Masters, distance, after

LEMMA ResetIInv == ASSUME Reset PROVE IInv'
BY FabricAssumption DEF Reset, IInv, Registers, Before, Masters, distance, after

\* One clock: the grant moves on, or stays.
LEMMA ClockIInv ==
    ASSUME IInv, NEW taken \in BOOLEAN, NEW performs \in BOOLEAN, NEW answers \in BOOLEAN,
           Clock(taken, performs, answers)
    PROVE  IInv'
<1> DEFINE accepted == src_valid /\ sink_ready(taken)
<1>1. /\ Arbitrate(accepted) /\ Count(accepted)
      /\ asks' \in [Masters -> {"nothing", "read", "write"}]
      /\ \A m \in Masters : asks'[m] \in Wishes(m, accepted)
  BY DEF Clock
<1>2. accepted => src_valid
  OBVIOUS
<1> HIDE DEF accepted
<1>3. N \in Nat \ {0} /\ Masters = 0 .. N - 1
  BY FabricAssumption DEF Masters
<1>4. passed' \in [Masters -> 0 .. N]
  BY <1>1, <1>3 DEF Count, IInv, Registers
<1>5. \A m \in Masters :
          /\ asks'[m] = "nothing" => passed'[m] = 0
          /\ accepted /\ saved_grant = m => passed'[m] = 0
          /\ asks[m] = "nothing" => passed'[m] = 0
          /\ ~accepted => passed'[m] = passed[m] \/ passed'[m] = 0
          /\ accepted => passed'[m] <= passed[m] + 1
  BY <1>1, <1>3 DEF Count, IInv, Registers
<1>6. CASE ~update_grant(accepted)
  <2>1. ~accepted /\ UNCHANGED <<saved_grant, top_priority>>
    BY <1>1, <1>6 DEF Arbitrate, update_grant
  <2>2. Registers'
    BY <1>1, <1>4, <2>1 DEF IInv, Registers
  <2>3. \A m \in Masters :
            asks'[m] # "nothing" /\ saved_grant # m => passed'[m] + Before(m) <= N - 1
    <3> SUFFICES ASSUME NEW m \in Masters, asks'[m] # "nothing", saved_grant # m
                 PROVE  passed'[m] + Before(m) <= N - 1
      OBVIOUS
    <3>1. Before(m) <= N - 1 /\ Before(m) \in Int
      <4>1. distance(top_priority, m) \in 0 .. N - 1
        BY Circle DEF IInv, Registers
      <4>2. CASE saved_grant = N
        BY <1>3, <4>1, <4>2 DEF Before
      <4>3. CASE saved_grant # N
        <5>1. saved_grant \in Masters /\ top_priority = after(saved_grant)
          BY <1>3, <4>3 DEF IInv, Registers
        <5>2. distance(top_priority, m) <= N - 2
          BY <5>1, Circle
        <5> QED
          BY <1>3, <4>1, <4>3, <5>2 DEF Before
      <4> QED
        BY <4>2, <4>3
    <3>2. passed'[m] = 0 \/ (passed'[m] = passed[m] /\ asks[m] # "nothing")
      BY <1>5, <2>1
    <3> QED
      BY <1>3, <3>1, <3>2 DEF IInv
  <2>4. \A m \in Masters : Before(m)' = Before(m)
    BY <2>1 DEF Before
  <2>5. \A m \in Masters : passed'[m] <= N - 1
    BY <1>3, <1>5, <2>1 DEF IInv
  <2> QED
    BY <1>5, <2>1, <2>2, <2>3, <2>4, <2>5 DEF IInv
<1>7. CASE update_grant(accepted) /\ request = {}
  <2>1. saved_grant' = N /\ top_priority' = top_priority /\ ~accepted
    BY <1>1, <1>2, <1>7 DEF Arbitrate, next_grant, src_valid
  <2>2. Registers'
    BY <1>1, <1>3, <1>4, <2>1 DEF IInv, Registers
  <2>3. \A m \in Masters : passed'[m] = 0
    BY <1>5, <1>7 DEF request
  <2>4. \A m \in Masters : Before(m)' \in 0 .. N - 1
    <3>1. \A m \in Masters : distance(top_priority, m) \in 0 .. N - 1
      BY Circle DEF IInv, Registers
    <3> QED
      BY <1>3, <2>1, <3>1 DEF Before
  <2> QED
    BY <1>3, <2>1, <2>2, <2>3, <2>4 DEF IInv
<1>8. CASE update_grant(accepted) /\ request # {}
  <2> DEFINE g == next_grant
  <2>1. saved_grant' = g /\ top_priority' = after(g)
    BY <1>1, <1>8 DEF Arbitrate
  <2>2. /\ g \in Masters
        /\ \A k \in request : distance(top_priority, g) <= distance(top_priority, k)
    BY <1>8, NextGrant DEF IInv, request
  <2> HIDE DEF g
  <2>3. Registers' /\ saved_grant' # N
    <3>1. after(g) \in Masters
      BY <2>2, Circle
    <3> QED
      BY <1>1, <1>3, <1>4, <2>1, <2>2, <3>1 DEF Registers
  <2>4. ASSUME NEW m \in Masters
        PROVE  /\ passed'[m] <= N - 1
               /\ asks'[m] # "nothing" /\ g # m
                      => passed'[m] + distance(after(g), m) + 1 <= N - 1
    <3>1. CASE passed'[m] = 0
      <4>1. g # m => distance(after(g), m) <= N - 2 /\ distance(after(g), m) \in Int
        <5>1. after(g) \in Masters
          BY <2>2, Circle
        <5>2. distance(after(g), m) \in 0 .. N - 1
          BY <5>1, Circle
        <5>3. g # m => distance(after(g), m) <= N - 2
          BY <2>2, Circle
        <5> QED
          BY <1>3, <5>2, <5>3
      <4> QED
        BY <1>3, <3>1, <4>1
    <3>2. CASE passed'[m] # 0
      <4>1. m \in request /\ ~(accepted /\ saved_grant = m)
        BY <1>5, <3>2 DEF request
      <4>2. ~accepted => saved_grant # m
        BY <1>8, <4>1 DEF update_grant, src_valid
      <4>3. passed[m] + Before(m) <= N - 1
        BY <4>1, <4>2 DEF IInv, request
      <4>4. accepted => saved_grant # N
        BY <1>2, <1>3 DEF src_valid, request
      <4>5. passed'[m] + distance(top_priority, m) <= N - 1
        <5>1. distance(top_priority, m) \in 0 .. N - 1 /\ passed[m] \in 0 .. N
              /\ passed'[m] \in 0 .. N
          BY <1>3, <1>4, Circle DEF IInv, Registers
        <5>2. CASE accepted
          BY <1>3, <1>5, <4>3, <4>4, <5>1, <5>2 DEF Before
        <5>3. CASE ~accepted
          BY <1>3, <1>5, <3>2, <4>3, <5>1, <5>3 DEF Before
        <5> QED
          BY <5>2, <5>3
      <4>6. /\ distance(top_priority, m) \in 0 .. N - 1
            /\ distance(top_priority, g) \in 0 .. N - 1
            /\ distance(top_priority, g) <= distance(top_priority, m)
            /\ passed'[m] \in 0 .. N
        BY <1>3, <1>4, <2>2, <4>1, Circle DEF IInv, Registers
      <4>7. g # m => distance(after(g), m)
                         = distance(top_priority, m) - distance(top_priority, g) - 1
        BY <2>2, <4>6, Circle DEF IInv, Registers
      <4> QED
        BY <1>3, <4>5, <4>6, <4>7
    <3> QED
      BY <3>1, <3>2
  <2>5. \A m \in Masters : Before(m)' = distance(after(g), m) + 1
    BY <2>1, <2>3 DEF Before
  <2>6. \A m \in Masters :
            asks'[m] # "nothing" /\ saved_grant' # m => passed'[m] + Before(m)' <= N - 1
    <3> SUFFICES ASSUME NEW m \in Masters, asks'[m] # "nothing", saved_grant' # m
                 PROVE  passed'[m] + Before(m)' <= N - 1
      OBVIOUS
    <3>1. /\ passed'[m] \in Int /\ distance(after(g), m) \in Int
          /\ passed'[m] + distance(after(g), m) + 1 <= N - 1
      <4>1. after(g) \in Masters
        BY <2>2, Circle
      <4>2. distance(after(g), m) \in 0 .. N - 1
        BY <4>1, Circle
      <4>3. passed'[m] \in 0 .. N
        BY <1>4
      <4>4. g # m
        BY <2>1
      <4>5. passed'[m] + distance(after(g), m) + 1 <= N - 1
        BY <2>4, <4>4
      <4> QED
        BY <1>3, <4>2, <4>3, <4>5
    <3> QED
      BY <1>3, <2>5, <3>1
  <2> QED
    BY <1>5, <2>1, <2>3, <2>4, <2>6 DEF IInv
<1> QED
  BY <1>6, <1>7, <1>8

THEOREM TurnsInvariant == Spec => []IInv
<1>1. Init => IInv
  BY InitIInv
<1>2. IInv /\ [Next]_fabric => IInv'
  <2> SUFFICES ASSUME IInv, [Next]_fabric PROVE IInv'
    OBVIOUS
  <2>1. CASE Tick
    BY <2>1, ClockIInv DEF Tick
  <2>2. CASE Reset
    BY <2>2, ResetIInv
  <2>3. CASE UNCHANGED fabric
    BY <2>3 DEF fabric, arbiter, IInv, Registers, Before
  <2> QED
    BY <2>1, <2>2, <2>3 DEF Next
<1> QED
  BY <1>1, <1>2, PTL DEF Spec

\* For any number of masters and any lengths of their packets: from the time a
\* master asks, each of the others goes first at most once.
THEOREM RoundRobin == Spec => []PassedOnceEach
<1>1. IInv => PassedOnceEach
  BY DEF IInv, PassedOnceEach
<1> QED
  BY <1>1, TurnsInvariant, PTL

-----------------------------------------------------------------------------
(* Queues, and the reads among the accesses of one.                        *)

\* One clock of a queue: its head may leave and an element may join.
One(b) == IF b THEN 1 ELSE 0

Moved(s, k, l, e) ==
    (IF k = 1 THEN Tail(s) ELSE s) \o (IF l = 1 THEN <<e>> ELSE <<>>)

LEMMA MovedIs ==
    \A s, e : \A leaves, joins \in BOOLEAN :
        Moved(s, One(leaves), One(joins), e)
            = (IF leaves THEN Tail(s) ELSE s) \o (IF joins THEN <<e>> ELSE <<>>)
<1> SUFFICES ASSUME NEW s, NEW e, NEW leaves \in BOOLEAN, NEW joins \in BOOLEAN
             PROVE  Moved(s, One(leaves), One(joins), e)
                        = (IF leaves THEN Tail(s) ELSE s) \o (IF joins THEN <<e>> ELSE <<>>)
  OBVIOUS
<1>1. (IF One(leaves) = 1 THEN Tail(s) ELSE s) = (IF leaves THEN Tail(s) ELSE s)
  BY DEF One
<1>2. (IF One(joins) = 1 THEN <<e>> ELSE <<>>) = (IF joins THEN <<e>> ELSE <<>>)
  BY DEF One
<1> QED
  BY <1>1, <1>2 DEF Moved

\* What t, the queue s after a clock, is then.
Follows(t, S, s, k, l, e) ==
    /\ t \in Seq(S) /\ Len(s) - k \in Nat
    /\ Len(t) = Len(s) - k + l
    /\ \A i \in 1 .. Len(s) - k : t[i] = s[i + k]
    /\ l = 1 => t[Len(s) - k + 1] = e

LEMMA QueueStep ==
    ASSUME NEW S, NEW s \in Seq(S), NEW k \in {0, 1}, NEW l \in {0, 1}, NEW e,
           l = 1 => e \in S, k = 1 => s # <<>>
    PROVE  Follows(Moved(s, k, l, e), S, s, k, l, e)
<1> DEFINE rest == IF k = 1 THEN Tail(s) ELSE s
           more == IF l = 1 THEN <<e>> ELSE <<>>
<1>1. /\ rest \in Seq(S) /\ Len(rest) = Len(s) - k /\ Len(rest) \in Nat
      /\ \A i \in 1 .. Len(rest) : rest[i] = s[i + k]
  <2>1. CASE k = 1
    BY <2>1, HeadTailProperties
  <2>2. CASE k = 0
    BY <2>2
  <2> QED
    BY <2>1, <2>2
<1>2. more \in Seq(S) /\ Len(more) = l /\ (l = 1 => more[1] = e)
  OBVIOUS
<1>3. Moved(s, k, l, e) = rest \o more
  BY DEF Moved
<1> HIDE DEF rest, more
<1>4. /\ rest \o more \in Seq(S) /\ Len(rest \o more) = Len(rest) + Len(more)
      /\ \A i \in 1 .. Len(rest) + Len(more) :
             (rest \o more)[i] = IF i <= Len(rest) THEN rest[i] ELSE more[i - Len(rest)]
  BY <1>1, <1>2, ConcatProperties
<1>5. \A i \in 1 .. Len(rest) : (rest \o more)[i] = s[i + k]
  BY <1>1, <1>2, <1>4
<1>6. l = 1 => (rest \o more)[Len(rest) + 1] = e
  BY <1>1, <1>2, <1>4, SMTT(30)
<1> QED
  BY <1>1, <1>2, <1>3, <1>4, <1>5, <1>6 DEF Follows

LEMMA HeadIsFirst ==
    ASSUME NEW S, NEW s \in Seq(S), s # <<>>
    PROVE  Head(s) = s[1] /\ s[1] \in S
OBVIOUS

\* The reads among the first n accesses of a queue.
Rank(q, n) == Cardinality({i \in 1 .. n : q[i].rnw})

LEMMA RankBounds ==
    ASSUME NEW q, NEW n \in Nat, NEW m \in 0 .. n
    PROVE  Rank(q, n) \in Nat /\ Rank(q, m) \in Nat /\ Rank(q, m) <= Rank(q, n)
<1>1. IsFiniteSet({i \in 1 .. n : q[i].rnw})
  <2>1. IsFiniteSet(1 .. n)
    BY FS_Interval
  <2>2. {i \in 1 .. n : q[i].rnw} \in SUBSET (1 .. n)
    OBVIOUS
  <2> QED
    BY <2>1, <2>2, FS_Subset
<1>2. {i \in 1 .. m : q[i].rnw} \in SUBSET {i \in 1 .. n : q[i].rnw}
  OBVIOUS
<1> QED
  BY <1>1, <1>2, FS_Subset, FS_CardinalityType DEF Rank

LEMMA RankStep ==
    ASSUME NEW q, NEW n \in Nat \ {0}
    PROVE  /\ Rank(q, 0) = 0
           /\ Rank(q, n) = Rank(q, n - 1) + One(q[n].rnw)
<1> DEFINE R(k) == {i \in 1 .. k : q[i].rnw}
<1>1. R(0) = {} /\ IsFiniteSet(R(n - 1)) /\ n \notin R(n - 1)
  <2>1. IsFiniteSet(1 .. n - 1)
    BY FS_Interval
  <2>2. R(n - 1) \in SUBSET (1 .. n - 1) /\ R(0) = {}
    OBVIOUS
  <2>3. IsFiniteSet(R(n - 1))
    BY <2>1, <2>2, FS_Subset
  <2> QED
    BY <2>2, <2>3
<1>2. R(n) = IF q[n].rnw THEN R(n - 1) \cup {n} ELSE R(n - 1)
  OBVIOUS
<1>3. Cardinality(R(n - 1) \cup {n}) = Cardinality(R(n - 1)) + 1
  BY <1>1, FS_AddElement
<1>4. Cardinality(R(n - 1)) \in Nat
  BY <1>1, FS_CardinalityType
<1> HIDE DEF R
<1>5. Cardinality(R(0)) = 0
  BY <1>1, FS_EmptySet
<1>6. Cardinality(R(n)) = Cardinality(R(n - 1)) + One(q[n].rnw)
  <2>1. CASE q[n].rnw
    BY <1>2, <1>3, <2>1 DEF One
  <2>2. CASE ~q[n].rnw
    <3>1. R(n) = R(n - 1)
      BY <1>2, <2>2
    <3> QED
      BY <1>4, <2>2, <3>1 DEF One
  <2> QED
    BY <2>1, <2>2
<1> QED
  BY <1>5, <1>6 DEF Rank, R

\* When the first k accesses leave, so do the reads among them.
LEMMA RankOfRest ==
    ASSUME NEW s, NEW t, NEW n \in Nat, NEW k \in {0, 1},
           \A i \in 1 .. n : t[i] = s[i + k]
    PROVE  \A i \in 0 .. n : Rank(t, i) = Rank(s, i + k) - Rank(s, k)
<1> DEFINE Wrong == {i \in 0 .. n : Rank(t, i) # Rank(s, i + k) - Rank(s, k)}
<1>1. ASSUME Wrong # {} PROVE FALSE
  <2>1. PICK x \in Wrong : \A y \in Wrong : x <= y
    <3>1. Wrong \subseteq Nat
      OBVIOUS
    <3> HIDE DEF Wrong
    <3> QED
      BY <1>1, <3>1, Least
  <2>2. x \in 0 .. n /\ Rank(t, x) # Rank(s, x + k) - Rank(s, k)
    BY <2>1
  <2>3. x # 0 => x - 1 \notin Wrong
    BY <2>1
  <2>4. x # 0 => /\ Rank(t, x - 1) = Rank(s, x - 1 + k) - Rank(s, k)
                 /\ t[x] = s[x + k]
    BY <2>2, <2>3
  <2> HIDE DEF Wrong
  <2>5. Rank(s, k) \in Nat
    BY RankBounds
  <2>6. CASE x = 0
    <3>1. Rank(t, 0) = 0
      BY RankStep
    <3> QED
      BY <2>2, <2>5, <2>6, <3>1
  <2>7. CASE x # 0
    <3>1. PICK y \in Nat \ {0} : y = x + k /\ x \in Nat \ {0}
      BY <2>2, <2>7
    <3>2. /\ Rank(t, x) = Rank(t, x - 1) + One(t[x].rnw)
          /\ Rank(s, y) = Rank(s, y - 1) + One(s[y].rnw)
      BY <3>1, RankStep
    <3>3. y - 1 \in Nat /\ y - 1 = x - 1 + k
      BY <3>1
    <3>4. Rank(s, y - 1) \in Nat
      BY <3>3, RankBounds
    <3>5. Rank(t, x - 1) = Rank(s, y - 1) - Rank(s, k) /\ t[x] = s[y]
      BY <2>4, <2>7, <3>1, <3>3
    <3>6. One(t[x].rnw) \in Int
      BY DEF One
    <3>7. Rank(t, x) = Rank(s, y) - Rank(s, k)
      BY <2>5, <3>2, <3>4, <3>5, <3>6
    <3> QED
      BY <2>2, <3>1, <3>7
  <2> QED
    BY <2>6, <2>7
<1> QED
  BY <1>1

-----------------------------------------------------------------------------
(* The notes and the reads in the memory.                                  *)

Notes == [master : Masters, word : Nat]
note(r) == [master |-> r.master, word |-> r.word]

WordTypes ==
    /\ asks \in [Masters -> {"nothing", "read", "write"}]
    /\ due \in [Masters -> Nat]
    /\ out \in AllWords \cup {NoWord} /\ answered \in AllWords \cup {NoWord}
    /\ queue \in Seq(AllWords) /\ reading \in Seq(AllWords)
    /\ rsp_fifo \in Seq(Notes)

\* The notes are those of the reads in the memory, in the same order: first the
\* one answered now, then those performed, then those that wait, among writes.
Given == One(answered # NoWord)
InStep ==
    /\ answered # NoWord => answered.rnw /\ rsp_fifo[1] = note(answered)
    /\ \A i \in 1 .. Len(reading) :
           reading[i].rnw /\ rsp_fifo[Given + i] = note(reading[i])
    /\ \A i \in 1 .. Len(queue) :
           queue[i].rnw => rsp_fifo[Given + Len(reading) + Rank(queue, i)] = note(queue[i])
    /\ Len(rsp_fifo) = Given + Len(reading) + Rank(queue, Len(queue))

\* The words a master still waits for that have been noted.
Offered(m) == out # NoWord /\ out.rnw /\ out.master = m
First(m) == Words[m] - due[m] + 1
Latest(m) == IF Offered(m) THEN out.word - 1 ELSE Words[m]

\* They are all there, and in order.
Numbered ==
    /\ \A m \in Masters :
           /\ due[m] <= Words[m]
           /\ asks[m] # "nothing" => due[m] = 0
           /\ Offered(m) => First(m) <= out.word
           /\ \A i \in 1 .. Len(rsp_fifo) :
                  rsp_fifo[i].master = m => rsp_fifo[i].word \in First(m) .. Latest(m)
           /\ \A w \in First(m) .. Latest(m) :
                  \E i \in 1 .. Len(rsp_fifo) : rsp_fifo[i] = [master |-> m, word |-> w]
    /\ \A i, j \in 1 .. Len(rsp_fifo) :
           i < j /\ rsp_fifo[i].master = rsp_fifo[j].master
               => rsp_fifo[i].word < rsp_fifo[j].word

NotesInv == WordTypes /\ InStep /\ Numbered

LEMMA WordFields ==
    /\ \A r \in AllWords : /\ r.rnw \in BOOLEAN /\ r.master \in Masters /\ r.word \in Nat \ {0}
                           /\ note(r) \in Notes /\ r # NoWord
                           /\ r.rnw => r.word <= Words[r.master]
    /\ \A m \in Masters : [rnw |-> FALSE, master |-> m, word |-> 1] \in AllWords
    /\ \A m \in Masters : \A w \in 1 .. Words[m] :
           [rnw |-> TRUE, master |-> m, word |-> w] \in AllWords
    /\ \A m \in Masters : Words[m] \in Nat \ {0}
<1>1. \A m \in Masters : Words[m] \in Nat \ {0}
  BY FabricAssumption
<1>2. \A r \in AllWords :
          \/ \E m \in Masters : r = [rnw |-> FALSE, master |-> m, word |-> 1]
          \/ \E m \in Masters : \E w \in 1 .. Words[m] :
                 r = [rnw |-> TRUE, master |-> m, word |-> w]
  BY DEF AllWords
<1>3. \A r \in AllWords : r # NoWord
  BY NoWordAssumption
<1>4. \A r \in AllWords : /\ r.rnw \in BOOLEAN /\ r.master \in Masters
                          /\ r.word \in Nat \ {0} /\ note(r) \in Notes
                          /\ r.rnw => r.word <= Words[r.master]
  <2> SUFFICES ASSUME NEW r \in AllWords
               PROVE  /\ r.rnw \in BOOLEAN /\ r.master \in Masters
                      /\ r.word \in Nat \ {0} /\ note(r) \in Notes
                      /\ r.rnw => r.word <= Words[r.master]
    OBVIOUS
  <2>1. ASSUME NEW m \in Masters, r = [rnw |-> FALSE, master |-> m, word |-> 1]
        PROVE  r.rnw = FALSE /\ r.master = m /\ r.word = 1
    BY <2>1
  <2>2. ASSUME NEW m \in Masters, NEW w \in 1 .. Words[m],
               r = [rnw |-> TRUE, master |-> m, word |-> w]
        PROVE  r.rnw = TRUE /\ r.master = m /\ r.word = w
    BY <2>2
  <2>3. \E m \in Masters : \/ r.rnw = FALSE /\ r.master = m /\ r.word = 1
                           \/ \E w \in 1 .. Words[m] : r.rnw = TRUE /\ r.master = m /\ r.word = w
    BY <1>2, <2>1, <2>2
  <2>4. /\ r.rnw \in BOOLEAN /\ r.master \in Masters /\ r.word \in Nat \ {0}
        /\ r.rnw => r.word <= Words[r.master]
    <3>1. PICK m \in Masters :
              \/ r.rnw = FALSE /\ r.master = m /\ r.word = 1
              \/ \E w \in 1 .. Words[m] : r.rnw = TRUE /\ r.master = m /\ r.word = w
      BY <2>3
    <3>2. CASE r.rnw = FALSE /\ r.master = m /\ r.word = 1
      <4>1. r.rnw \in BOOLEAN /\ ~r.rnw
        BY <3>2
      <4>2. r.master \in Masters /\ r.word \in Nat \ {0}
        BY <3>2
      <4> QED
        BY <4>1, <4>2
    <3>3. ASSUME NEW w \in 1 .. Words[m], r.rnw = TRUE /\ r.master = m /\ r.word = w
          PROVE  /\ r.rnw \in BOOLEAN /\ r.master \in Masters /\ r.word \in Nat \ {0}
                 /\ r.rnw => r.word <= Words[r.master]
      <4>1. r.rnw \in BOOLEAN
        BY <3>3
      <4>2. r.master \in Masters /\ r.word \in Nat \ {0} /\ r.word <= Words[r.master]
        BY <1>1, <3>3
      <4> QED
        BY <4>1, <4>2
    <3> QED
      BY <3>1, <3>2, <3>3
  <2> QED
    BY <2>4 DEF note, Notes
<1>5. /\ \A m \in Masters : [rnw |-> FALSE, master |-> m, word |-> 1] \in AllWords
      /\ \A m \in Masters : \A w \in 1 .. Words[m] :
           [rnw |-> TRUE, master |-> m, word |-> w] \in AllWords
  <2>1. \A m \in Masters : [rnw |-> FALSE, master |-> m, word |-> 1]
                                \in {[rnw |-> FALSE, master |-> m1, word |-> 1] : m1 \in Masters}
    OBVIOUS
  <2>2. ASSUME NEW m \in Masters, NEW w \in 1 .. Words[m]
        PROVE  [rnw |-> TRUE, master |-> m, word |-> w]
                   \in UNION {{[rnw |-> TRUE, master |-> m1, word |-> w1] : w1 \in 1 .. Words[m1]} :
                                 m1 \in Masters}
    <3>1. [rnw |-> TRUE, master |-> m, word |-> w]
              \in {[rnw |-> TRUE, master |-> m, word |-> w1] : w1 \in 1 .. Words[m]}
      OBVIOUS
    <3> QED
      BY <3>1
  <2> QED
    BY <2>1, <2>2 DEF AllWords
<1> QED
  BY <1>1, <1>3, <1>4, <1>5

LEMMA NotesStart ==
    /\ Init => NotesInv
    /\ Reset => NotesInv'
<1>1. Rank(<<>>, 0) = 0
  BY RankStep
<1>2. \A s : s = <<>> => Len(s) = 0 /\ s \in Seq(AllWords) /\ s \in Seq(Notes)
  OBVIOUS
<1>3. \A m \in Masters : Words[m] \in Nat \ {0}
  BY WordFields
<1> DEFINE Started ==
        /\ asks = [m \in Masters |-> "nothing"] /\ due = [m \in Masters |-> 0]
        /\ out = NoWord /\ answered = NoWord
        /\ rsp_fifo = <<>> /\ queue = <<>> /\ reading = <<>>
<1>4. ASSUME Started PROVE NotesInv
  <2>1. WordTypes
    BY <1>2, <1>4 DEF WordTypes
  <2>2. InStep
    BY <1>1, <1>2, <1>4 DEF InStep, Given, One
  <2>3. Numbered
    <3>1. \A m \in Masters : First(m) = Words[m] + 1 /\ Latest(m) = Words[m] /\ ~Offered(m)
      BY <1>3, <1>4 DEF First, Latest, Offered
    <3> QED
      BY <1>2, <1>3, <1>4, <3>1 DEF Numbered
  <2> QED
    BY <2>1, <2>2, <2>3 DEF NotesInv
<1>5. ASSUME Started' PROVE NotesInv'
  <2>1. WordTypes'
    BY <1>2, <1>5 DEF WordTypes
  <2>2. InStep'
    BY <1>1, <1>2, <1>5 DEF InStep, Given, One
  <2>3. Numbered'
    <3>1. \A m \in Masters :
              /\ First(m)' = Words[m] + 1 /\ Latest(m)' = Words[m] /\ Offered(m)' = FALSE
      BY <1>3, <1>5 DEF First, Latest, Offered
    <3> QED
      BY <1>2, <1>3, <1>5, <3>1 DEF Numbered
  <2> QED
    BY <2>1, <2>2, <2>3 DEF NotesInv
<1> QED
  BY <1>4, <1>5 DEF Init, Reset, Memory!PortInit, Memory!PortReset

\* What one clock does to the three queues.
LEMMA QueuesStep ==
    ASSUME NotesInv, NEW taken \in BOOLEAN, NEW performs \in BOOLEAN, NEW answers \in BOOLEAN,
           Clock(taken, performs, answers)
    PROVE  /\ taken => out \in AllWords
           /\ performs => queue # <<>> /\ queue[1] \in AllWords
           /\ answers => reading # <<>> /\ answered' = reading[1] /\ answered' # NoWord
                          /\ answered' \in AllWords
           /\ ~answers => answered' = NoWord
           /\ Follows(queue', AllWords, queue, One(performs), One(taken), out)
           /\ Follows(reading', AllWords, reading, One(answers), One(performs /\ queue[1].rnw),
                      queue[1])
           /\ Follows(rsp_fifo', Notes, rsp_fifo, Given, One(taken /\ out.rnw), note(out))
<1>1. /\ taken => out # NoWord
      /\ Memory!PerformAndTake(performs, IF taken THEN <<out>> ELSE <<>>)
      /\ Memory!Answer(answers)
      /\ rsp_fifo' = Used \o Note(taken)
  BY DEF Clock, Memory!PortClock
<1>2. taken => out \in AllWords /\ note(out) \in Notes
  BY <1>1, WordFields DEF NotesInv, WordTypes
<1>3. /\ performs => queue # <<>> /\ performed' = queue[1] /\ performed' \in AllWords
      /\ ~performs => performed' = NoWord
      /\ queue' = Moved(queue, One(performs), One(taken), out)
  <2>1. queue # <<>> => Head(queue) = queue[1] /\ queue[1] \in AllWords
    BY HeadIsFirst DEF NotesInv, WordTypes
  <2>2. /\ performs => queue # <<>> /\ performed' = Head(queue)
        /\ ~performs => performed' = NoWord
        /\ queue' = (IF performs THEN Tail(queue) ELSE queue)
                        \o (IF taken THEN <<out>> ELSE <<>>)
    BY <1>1 DEF Memory!PerformAndTake
  <2>3. queue' = Moved(queue, One(performs), One(taken), out)
    BY <2>2, MovedIs
  <2> QED
    BY <2>1, <2>2, <2>3
<1>4. /\ answers => reading # <<>> /\ answered' = reading[1] /\ answered' \in AllWords
      /\ ~answers => answered' = NoWord
  <2>1. reading # <<>> => Head(reading) = reading[1] /\ reading[1] \in AllWords
    BY HeadIsFirst DEF NotesInv, WordTypes
  <2>2. CASE answers
    BY <1>1, <2>1, <2>2 DEF Memory!Answer
  <2>3. CASE ~answers
    BY <1>1, <2>3 DEF Memory!Answer
  <2> QED
    BY <2>2, <2>3
<1>5. performed' # NoWord /\ performed'.rnw <=> performs /\ queue[1].rnw
  BY <1>3, WordFields
<1>6. reading' = Moved(reading, One(answers), One(performs /\ queue[1].rnw), queue[1])
  <2> DEFINE joins == performs /\ queue[1].rnw
  <2>1. joins \in BOOLEAN
    BY <1>3, WordFields
  <2>2. (IF performed' # NoWord /\ performed'.rnw THEN <<performed'>> ELSE <<>>)
            = (IF joins THEN <<queue[1]>> ELSE <<>>)
    BY <1>3, <1>5
  <2>3. reading' = (IF answers THEN Tail(reading) ELSE reading)
                      \o (IF joins THEN <<queue[1]>> ELSE <<>>)
    BY <1>1, <2>2 DEF Memory!Answer
  <2> HIDE DEF joins
  <2>4. reading' = Moved(reading, One(answers), One(joins), queue[1])
    BY <2>1, <2>3, MovedIs
  <2> QED
    BY <2>4 DEF joins
<1>7. /\ rsp_fifo' = Moved(rsp_fifo, Given, One(taken /\ out.rnw), note(out))
      /\ answered # NoWord => rsp_fifo # <<>>
  <2>1. answered # NoWord => Len(rsp_fifo) # 0
    <3>1. Rank(queue, Len(queue)) \in Nat
      BY RankBounds DEF NotesInv, WordTypes
    <3> QED
      BY <3>1 DEF NotesInv, WordTypes, InStep, Given, One
  <2> DEFINE joins == taken /\ out.rnw
             leaves == answered # NoWord
  <2>2. leaves \in BOOLEAN /\ joins \in BOOLEAN
    BY <1>2, WordFields
  <2>3. rsp_fifo' = (IF leaves THEN Tail(rsp_fifo) ELSE rsp_fifo)
                        \o (IF joins THEN <<note(out)>> ELSE <<>>)
    BY <1>1 DEF Used, Note, note
  <2> HIDE DEF joins, leaves
  <2>4. rsp_fifo' = Moved(rsp_fifo, One(leaves), One(joins), note(out))
    BY <2>2, <2>3, MovedIs
  <2>5. answered # NoWord => rsp_fifo # <<>>
    BY <2>1 DEF NotesInv, WordTypes
  <2> QED
    BY <2>4, <2>5 DEF joins, leaves, Given
<1>8. queue \in Seq(AllWords) /\ reading \in Seq(AllWords) /\ rsp_fifo \in Seq(Notes)
  BY DEF NotesInv, WordTypes
<1>9. /\ performs => queue[1] \in AllWords
      /\ answers => answered' # NoWord
  BY <1>3, <1>4, WordFields
<1> DEFINE k == One(performs)
           l == One(taken)
           a == One(answers)
           p == One(performs /\ queue[1].rnw)
           n == One(taken /\ out.rnw)
<1>10. /\ k \in {0, 1} /\ l \in {0, 1} /\ a \in {0, 1} /\ p \in {0, 1}
       /\ n \in {0, 1} /\ Given \in {0, 1}
       /\ k = 1 => performs
       /\ l = 1 => taken
       /\ a = 1 => answers
       /\ p = 1 => performs
       /\ n = 1 => taken
       /\ Given = 1 => answered # NoWord
  BY DEF One, Given
<1> HIDE DEF k, l, a, p, n
<1>11. Follows(Moved(queue, k, l, out), AllWords, queue, k, l, out)
  BY <1>2, <1>3, <1>8, <1>10, QueueStep
<1>12. Follows(Moved(reading, a, p, queue[1]), AllWords, reading, a, p, queue[1])
  BY <1>4, <1>8, <1>9, <1>10, QueueStep
<1>13. Follows(Moved(rsp_fifo, Given, n, note(out)), Notes, rsp_fifo, Given, n, note(out))
  BY <1>2, <1>7, <1>8, <1>10, QueueStep
<1> USE DEF k, l, a, p, n
<1>14. Follows(queue', AllWords, queue, k, l, out)
  BY <1>3, <1>11, Zenon
<1>15. Follows(reading', AllWords, reading, a, p, queue[1])
  BY <1>6, <1>12, Zenon
<1>16. Follows(rsp_fifo', Notes, rsp_fifo, Given, n, note(out))
  BY <1>7, <1>13, Zenon
<1> QED
  BY <1>2, <1>3, <1>4, <1>9, <1>14, <1>15, <1>16

LEMMA InStepStep ==
    ASSUME NotesInv, NEW taken \in BOOLEAN, NEW performs \in BOOLEAN, NEW answers \in BOOLEAN,
           Clock(taken, performs, answers)
    PROVE  InStep'
<1> DEFINE k == One(performs)
           l == One(taken)
           a == One(answers)
           p == One(performs /\ queue[1].rnw)
           n == One(taken /\ out.rnw)
           R == Len(reading)
           Q == Len(queue)
           G == Given
           all == Rank(queue, Q)
<1>1. /\ answers => reading # <<>> /\ answered' = reading[1] /\ answered' # NoWord
      /\ ~answers => answered' = NoWord
      /\ performs => queue # <<>>
      /\ Follows(queue', AllWords, queue, k, l, out)
      /\ Follows(reading', AllWords, reading, a, p, queue[1])
      /\ Follows(rsp_fifo', Notes, rsp_fifo, G, n, note(out))
  BY QueuesStep
<1>2. /\ k \in {0, 1} /\ l \in {0, 1} /\ a \in {0, 1} /\ p \in {0, 1}
      /\ n \in {0, 1} /\ G \in {0, 1}
      /\ a = 1 <=> answers
      /\ k = 1 <=> performs
      /\ p = 1 <=> performs /\ queue[1].rnw
      /\ n = 1 <=> taken /\ out.rnw
      /\ l = 1 <=> taken
      /\ Given' = a
  BY <1>1 DEF One, Given
<1>3. /\ R \in Nat /\ Q \in Nat /\ all \in Nat
      /\ k = 1 => Q >= 1
      /\ a = 1 => R >= 1
  <2>1. R \in Nat /\ Q \in Nat /\ (k = 1 => Q >= 1) /\ (a = 1 => R >= 1)
    BY <1>1, <1>2 DEF NotesInv, WordTypes
  <2> QED
    BY <2>1, RankBounds
<1>4. /\ \A i \in 1 .. R : reading[i].rnw /\ rsp_fifo[G + i] = note(reading[i])
      /\ \A i \in 1 .. Q : queue[i].rnw => rsp_fifo[G + R + Rank(queue, i)] = note(queue[i])
      /\ Len(rsp_fifo) = G + R + all
  BY DEF NotesInv, InStep
<1> HIDE DEF k, l, a, p, n, R, Q, G, all
<1>5. /\ Len(queue') = Q - k + l /\ Q - k \in Nat
      /\ \A i \in 1 .. Q - k : queue'[i] = queue[i + k]
      /\ l = 1 => queue'[Q - k + 1] = out
  BY <1>1 DEF Follows, Q
<1>6. /\ Len(reading') = R - a + p /\ R - a \in Nat
      /\ \A i \in 1 .. R - a : reading'[i] = reading[i + a]
      /\ p = 1 => reading'[R - a + 1] = queue[1]
  BY <1>1 DEF Follows, R
<1>7. /\ Len(rsp_fifo') = R + all + n
      /\ \A i \in 1 .. R + all : rsp_fifo'[i] = rsp_fifo[i + G]
      /\ n = 1 => rsp_fifo'[R + all + 1] = note(out)
  <2>1. /\ Len(rsp_fifo') = Len(rsp_fifo) - G + n
        /\ \A i \in 1 .. Len(rsp_fifo) - G : rsp_fifo'[i] = rsp_fifo[i + G]
        /\ n = 1 => rsp_fifo'[Len(rsp_fifo) - G + 1] = note(out)
    BY <1>1 DEF Follows
  <2>2. Len(rsp_fifo) - G = R + all
    BY <1>2, <1>3, <1>4
  <2> QED
    BY <2>1, <2>2
\* The ranks of the accesses that stay, and of the one that comes.
<1>8. /\ \A i \in 1 .. Q : /\ Rank(queue, i) \in Nat /\ Rank(queue, i) <= all
                           /\ queue[i].rnw => Rank(queue, i) >= 1
      /\ p = Rank(queue, k)
      /\ p = 1 => Rank(queue, 1) = 1
  <2>1. \A i \in 1 .. Q : Rank(queue, i) \in Nat /\ Rank(queue, i) <= all
    BY <1>3, RankBounds DEF all
  <2>2. ASSUME NEW i \in 1 .. Q, queue[i].rnw PROVE Rank(queue, i) >= 1
    <3>1. Rank(queue, i) = Rank(queue, i - 1) + One(queue[i].rnw)
      BY RankStep, <1>3
    <3>2. Rank(queue, i - 1) \in Nat
      BY <1>3, RankBounds
    <3> QED
      BY <2>2, <3>1, <3>2 DEF One
  <2>3. Rank(queue, 0) = 0 /\ Rank(queue, 1) = One(queue[1].rnw)
    <3>1. Rank(queue, 0) = 0 /\ Rank(queue, 1) = Rank(queue, 0) + One(queue[1].rnw)
      BY RankStep
    <3> QED
      BY <3>1 DEF One
  <2>4. p = Rank(queue, k) /\ (p = 1 => Rank(queue, 1) = 1)
    BY <1>2, <2>3 DEF One, p, k
  <2> QED
    BY <2>1, <2>2, <2>4
<1>9. \A i \in 0 .. Q - k : Rank(queue', i) = Rank(queue, i + k) - p
  <2>1. \A i \in 0 .. Q - k : Rank(queue', i) = Rank(queue, i + k) - Rank(queue, k)
    <3>1. PICK m \in Nat : m = Q - k
      BY <1>5
    <3>2. \A i \in 1 .. m : queue'[i] = queue[i + k]
      BY <1>5, <3>1
    <3>3. \A i \in 0 .. m : Rank(queue', i) = Rank(queue, i + k) - Rank(queue, k)
      BY <1>2, <3>2, RankOfRest, ZenonT(40)
    <3> QED
      BY <3>1, <3>3
  <2> QED
    BY <1>8, <2>1
<1>10. /\ l = 1 => Rank(queue', Q - k + 1) = all - p + n
       /\ l = 0 => n = 0
       /\ Rank(queue', Len(queue')) = all - p + n
  <2>1. Rank(queue', Q - k) = all - p
    BY <1>2, <1>3, <1>5, <1>9 DEF all
  <2>2. l = 1 => Rank(queue', Q - k + 1) = all - p + n
    <3>1. Rank(queue', Q - k + 1) = Rank(queue', Q - k) + One(queue'[Q - k + 1].rnw)
      <4>1. PICK y \in Nat \ {0} : y = Q - k + 1 /\ y - 1 = Q - k
        BY <1>5
      <4>2. Rank(queue', y) = Rank(queue', y - 1) + One(queue'[y].rnw)
        BY RankStep
      <4> QED
        BY <4>1, <4>2
    <3>2. l = 1 => One(queue'[Q - k + 1].rnw) = n
      BY <1>2, <1>5 DEF One, n
    <3> QED
      BY <2>1, <3>1, <3>2
  <2>3. l = 0 => n = 0
    BY <1>2
  <2>4. CASE l = 1
    BY <1>5, <2>2, <2>3, <2>4
  <2>5. CASE l = 0
    BY <1>2, <1>3, <1>5, <2>1, <2>3, <2>5
  <2> QED
    BY <1>2, <2>2, <2>3, <2>4, <2>5
<1>11. answered' # NoWord => answered'.rnw /\ rsp_fifo'[1] = note(answered')
  <2> SUFFICES ASSUME a = 1 PROVE reading[1].rnw /\ rsp_fifo'[1] = note(reading[1])
    BY <1>1, <1>2
  <2>1. 1 \in 1 .. R /\ 1 \in 1 .. R + all
    BY <1>3
  <2>2. rsp_fifo'[1] = rsp_fifo[1 + G]
    BY <1>7, <2>1
  <2> QED
    BY <1>2, <1>4, <2>1, <2>2
<1>12. \A i \in 1 .. Len(reading') :
           reading'[i].rnw /\ rsp_fifo'[a + i] = note(reading'[i])
  <2> SUFFICES ASSUME NEW i \in 1 .. Len(reading')
               PROVE  reading'[i].rnw /\ rsp_fifo'[a + i] = note(reading'[i])
    OBVIOUS
  <2>1. CASE i <= R - a
    <3>1. i \in 1 .. R - a /\ i + a \in 1 .. R /\ a + i \in 1 .. R + all
          /\ a + i + G = G + (i + a)
      BY <1>2, <1>3, <1>6, <2>1
    <3>2. reading'[i] = reading[i + a] /\ rsp_fifo'[a + i] = rsp_fifo[G + (i + a)]
      BY <1>6, <1>7, <3>1
    <3> QED
      BY <1>4, <3>1, <3>2
  <2>2. CASE i > R - a
    <3>1. p = 1 /\ i = R - a + 1 /\ a + i = R + 1
      BY <1>2, <1>3, <1>6, <2>2
    <3>2. k = 1 /\ queue[1].rnw /\ 1 \in 1 .. Q
      BY <1>2, <1>3, <3>1
    <3>3. all >= 1 /\ R + 1 \in 1 .. R + all /\ R + 1 + G = G + R + 1
      BY <1>2, <1>3, <1>8, <3>1, <3>2
    <3>4. rsp_fifo'[a + i] = rsp_fifo[G + R + 1]
      BY <1>7, <3>1, <3>3
    <3>5. rsp_fifo[G + R + 1] = note(queue[1])
      BY <1>4, <1>8, <3>1, <3>2
    <3> QED
      BY <1>6, <3>1, <3>2, <3>4, <3>5
  <2> QED
    BY <1>2, <1>3, <1>6, <2>1, <2>2
<1>13. \A i \in 1 .. Len(queue') :
           queue'[i].rnw => rsp_fifo'[a + Len(reading') + Rank(queue', i)] = note(queue'[i])
  <2> SUFFICES ASSUME NEW i \in 1 .. Len(queue'), queue'[i].rnw
               PROVE  rsp_fifo'[a + Len(reading') + Rank(queue', i)] = note(queue'[i])
    OBVIOUS
  <2>1. a + Len(reading') = R + p
    BY <1>2, <1>3, <1>6
  <2>2. CASE i <= Q - k
    <3>1. PICK j \in 1 .. Q : j = i + k /\ queue'[i] = queue[j] /\ i \in 0 .. Q - k
      BY <1>2, <1>3, <1>5, <2>2
    <3>2. Rank(queue, j) \in 1 .. all
      BY <1>3, <1>8, <3>1
    <3>3. a + Len(reading') + Rank(queue', i) = R + Rank(queue, j)
      BY <1>2, <1>3, <1>9, <2>1, <3>1, <3>2
    <3>4. R + Rank(queue, j) \in 1 .. R + all /\ R + Rank(queue, j) + G = G + R + Rank(queue, j)
      BY <1>2, <1>3, <3>2
    <3>5. rsp_fifo'[R + Rank(queue, j)] = rsp_fifo[G + R + Rank(queue, j)]
      BY <1>7, <3>4
    <3> QED
      BY <1>4, <3>1, <3>3, <3>5
  <2>3. CASE i > Q - k
    <3>1. l = 1 /\ i = Q - k + 1 /\ queue'[i] = out
      BY <1>2, <1>3, <1>5, <2>3
    <3>2. n = 1
      BY <1>2, <3>1
    <3>3. a + Len(reading') + Rank(queue', i) = R + all + 1
      BY <1>2, <1>3, <1>10, <2>1, <3>1, <3>2
    <3> QED
      BY <1>7, <3>1, <3>2, <3>3
  <2> QED
    BY <1>2, <1>3, <1>5, <2>2, <2>3
<1>14. Len(rsp_fifo') = a + Len(reading') + Rank(queue', Len(queue'))
  BY <1>2, <1>3, <1>6, <1>7, <1>10
<1> QED
  BY <1>2, <1>11, <1>12, <1>13, <1>14 DEF InStep, Given

\* The masters and the adapter: what is noted next, and for whom.
LEMMA MastersStep ==
    ASSUME NotesInv, NEW taken \in BOOLEAN, NEW performs \in BOOLEAN, NEW answers \in BOOLEAN,
           Clock(taken, performs, answers)
    PROVE  /\ due' \in [Masters -> Nat] /\ asks' \in [Masters -> {"nothing", "read", "write"}]
           /\ out' \in AllWords \cup {NoWord}
           /\ \A m \in Masters :
                  /\ asks'[m] # "nothing" => due'[m] = 0
                  /\ \/ /\ due[m] = 0 /\ ~Offered(m) /\ due'[m] = Words[m]
                        /\ out' = [rnw |-> TRUE, master |-> m, word |-> 1]
                     \/ /\ due'[m] = IF answered # NoWord /\ Head(rsp_fifo).master = m
                                      THEN due[m] - 1 ELSE due[m]
                        /\ Offered(m)' <=> /\ Offered(m)
                                           /\ ~(taken /\ out.word = Words[m])
                        /\ Offered(m)' =>
                               out'.word = IF taken THEN out.word + 1 ELSE out.word
<1> DEFINE accepted == src_valid /\ sink_ready(taken)
           g == saved_grant
<1>1. /\ taken => out # NoWord
      /\ Adapt(taken, accepted) /\ Receive(accepted)
      /\ asks' \in [Masters -> {"nothing", "read", "write"}]
      /\ \A m \in Masters : asks'[m] \in Wishes(m, accepted)
  BY DEF Clock
<1>2. accepted => /\ g \in Masters /\ asks[g] # "nothing" /\ due[g] = 0 /\ ~Offered(g)
                  /\ out # NoWord => taken /\ last_word
  <2> SUFFICES ASSUME accepted
               PROVE  /\ g \in Masters /\ asks[g] # "nothing" /\ due[g] = 0 /\ ~Offered(g)
                      /\ out # NoWord => taken /\ last_word
    OBVIOUS
  <2>1. g \in Masters /\ asks[g] # "nothing" /\ (out # NoWord => taken /\ last_word)
    BY DEF src_valid, request, sink_ready
  <2>2. due[g] = 0
    BY <2>1 DEF NotesInv, Numbered
  <2>3. Offered(g) => FALSE
    <3>1. Offered(g) => out \in AllWords /\ out.word \in Nat /\ out.word <= Words[g]
      BY WordFields DEF Offered, NotesInv, WordTypes
    <3>2. Offered(g) => Words[g] + 1 <= out.word
      BY <2>1, <2>2, WordFields DEF NotesInv, Numbered, First
    <3> QED
      BY <2>1, <3>1, <3>2, WordFields
  <2> QED
    BY <2>1, <2>2, <2>3
<1> HIDE DEF accepted
<1>3. out \in AllWords \/ out = NoWord
  BY DEF NotesInv, WordTypes
<1>4. \A m \in Masters : Offered(m) <=> out \in AllWords /\ out.rnw /\ out.master = m
  BY <1>3, WordFields DEF Offered
<1>5. \A m \in Masters : due[m] \in Nat /\ Words[m] \in Nat \ {0}
  BY WordFields DEF NotesInv, WordTypes
\* The word that is answered was due.
<1>6. \A m \in Masters : answered # NoWord /\ Head(rsp_fifo).master = m => due[m] >= 1
  <2> SUFFICES ASSUME NEW m \in Masters, answered # NoWord, Head(rsp_fifo).master = m
               PROVE  due[m] >= 1
    OBVIOUS
  <2>1. Len(rsp_fifo) >= 1 /\ rsp_fifo \in Seq(Notes)
    <3>1. Rank(queue, Len(queue)) \in Nat /\ Len(reading) \in Nat
      BY RankBounds DEF NotesInv, WordTypes
    <3> QED
      BY <3>1 DEF NotesInv, WordTypes, InStep, Given, One
  <2>2. 1 \in 1 .. Len(rsp_fifo) /\ Head(rsp_fifo) = rsp_fifo[1]
    BY <2>1
  <2>3. rsp_fifo[1].word \in First(m) .. Latest(m)
    BY <2>2 DEF NotesInv, Numbered
  <2>4. Latest(m) \in Int /\ Latest(m) <= Words[m]
    BY <1>4, <1>5, WordFields DEF Latest
  <2> QED
    BY <1>5, <2>3, <2>4 DEF First
<1>7. \A m \in Masters :
          due'[m] = IF accepted /\ g = m /\ asks[m] = "read" THEN Words[m]
                    ELSE IF answered # NoWord /\ Head(rsp_fifo).master = m THEN due[m] - 1
                    ELSE due[m]
  BY <1>1 DEF Receive
<1>8. due' \in [Masters -> Nat]
  <2>1. \A m \in Masters : due'[m] \in Nat
    BY <1>5, <1>6, <1>7
  <2> QED
    BY <1>1, <2>1 DEF Receive
<1>9. \A m \in Masters : asks'[m] # "nothing" => due'[m] = 0
  <2> SUFFICES ASSUME NEW m \in Masters, asks'[m] # "nothing" PROVE due'[m] = 0
    OBVIOUS
  <2>1. asks'[m] \in Wishes(m, accepted)
    BY <1>1
  <2>2. CASE asks[m] # "nothing" /\ ~(accepted /\ saved_grant = m)
    <3>1. due[m] = 0
      BY <2>2 DEF NotesInv, Numbered
    <3> QED
      BY <1>6, <1>7, <2>2, <3>1
  <2>3. CASE ~(asks[m] # "nothing" /\ ~(accepted /\ saved_grant = m))
    <3>1. ~(due'[m] > 0)
      BY <2>1, <2>3 DEF Wishes
    <3> QED
      BY <1>8, <3>1
  <2> QED
    BY <2>2, <2>3
<1>10. CASE accepted
  <2>1. out' = [rnw |-> asks[g] = "read", master |-> g, word |-> 1]
    BY <1>1, <1>10 DEF Adapt
  <2>2. out' \in AllWords
    <3>1. CASE asks[g] = "read"
      BY <1>2, <1>5, <1>10, <2>1, <3>1, WordFields
    <3>2. CASE asks[g] # "read"
      BY <1>2, <1>10, <2>1, <3>2, WordFields
    <3> QED
      BY <3>1, <3>2
  <2>3. \A m \in Masters : Offered(m)' <=> m = g /\ asks[g] = "read"
    <3>1. out' # NoWord
      BY <2>2, WordFields
    <3> QED
      BY <2>1, <3>1 DEF Offered
  <2>4. ASSUME NEW m \in Masters, Offered(m) PROVE taken /\ out.word = Words[m]
    BY <1>2, <1>10, <2>4 DEF Offered, last_word
  <2>5. ASSUME NEW m \in Masters, m = g /\ asks[g] = "read"
        PROVE  /\ due[m] = 0 /\ ~Offered(m) /\ due'[m] = Words[m]
               /\ out' = [rnw |-> TRUE, master |-> m, word |-> 1]
    BY <1>2, <1>7, <1>10, <2>1, <2>5
  <2>6. ASSUME NEW m \in Masters, ~(m = g /\ asks[g] = "read")
        PROVE  /\ due'[m] = IF answered # NoWord /\ Head(rsp_fifo).master = m
                            THEN due[m] - 1 ELSE due[m]
               /\ Offered(m)' <=> Offered(m) /\ ~(taken /\ out.word = Words[m])
               /\ ~Offered(m)'
    BY <1>7, <2>3, <2>4, <2>6
  <2> QED
    BY <1>1, <1>8, <1>9, <2>2, <2>5, <2>6
<1>11. CASE ~accepted
  <2>1. \A m \in Masters : due'[m] = IF answered # NoWord /\ Head(rsp_fifo).master = m
                            THEN due[m] - 1 ELSE due[m]
    BY <1>7, <1>11
  <2>2. CASE ~taken
    <3>1. out' = out
      BY <1>1, <1>11, <2>2 DEF Adapt
    <3> QED
      BY <1>1, <1>3, <1>8, <1>9, <2>1, <2>2, <3>1 DEF Offered
  <2>3. CASE taken /\ last_word
    <3>1. out' = NoWord
      BY <1>1, <1>11, <2>3 DEF Adapt
    <3>2. \A m \in Masters : Offered(m) => out.word = Words[m]
      BY <2>3 DEF Offered, last_word
    <3>3. \A m \in Masters : ~Offered(m)'
      BY <3>1 DEF Offered
    <3> QED
      BY <1>1, <1>8, <1>9, <2>1, <2>3, <3>1, <3>2, <3>3
  <2>4. CASE taken /\ ~last_word
    <3>1. out' = [out EXCEPT !.word = @ + 1] /\ out \in AllWords
      BY <1>1, <1>3, <1>11, <2>4 DEF Adapt
    <3>2. out.rnw = TRUE /\ out.word # Words[out.master]
      BY <2>4, <3>1, WordFields DEF last_word
    <3>3. PICK m \in Masters :
              \E w \in 1 .. Words[m] : out = [rnw |-> TRUE, master |-> m, word |-> w]
      BY <3>1, <3>2 DEF AllWords
    <3> PICK w \in 1 .. Words[m] : out = [rnw |-> TRUE, master |-> m, word |-> w]
      BY <3>3
    <3>9. out.rnw = TRUE /\ out.master = m /\ out.word = w
      OBVIOUS
    <3>4. out' = [rnw |-> TRUE, master |-> m, word |-> w + 1] /\ w + 1 \in 1 .. Words[m]
      <4>1. w # Words[m]
        BY <3>2, <3>9
      <4>2. w + 1 \in 1 .. Words[m]
        BY <1>5, <4>1
      <4>3. out' = [rnw |-> TRUE, master |-> m, word |-> w + 1]
        BY <3>1
      <4> QED
        BY <4>2, <4>3
    <3>5. out' \in AllWords
      BY <3>4, WordFields
    <3>6. out # NoWord /\ out' # NoWord
      BY <3>1, <3>5, WordFields
    <3>7. \A x \in Masters : /\ Offered(x) <=> x = m
                             /\ Offered(x)' <=> x = m
      BY <3>9, <3>4, <3>6 DEF Offered
    <3>8. out'.word = out.word + 1 /\ out.word # Words[m]
      BY <3>2, <3>4, <3>9
    <3>10. \A x \in Masters :
              /\ Offered(x)' <=> Offered(x) /\ ~(taken /\ out.word = Words[x])
              /\ Offered(x)' => out'.word = IF taken THEN out.word + 1 ELSE out.word
      <4> SUFFICES ASSUME NEW x \in Masters
                   PROVE  /\ Offered(x)' <=> Offered(x) /\ ~(taken /\ out.word = Words[x])
                          /\ out'.word = IF taken THEN out.word + 1 ELSE out.word
        OBVIOUS
      <4>1. Offered(x)' <=> x = m
        BY <3>7
      <4>2. Offered(x) <=> x = m
        BY <3>7
      <4>3. x = m => out.word # Words[x]
        BY <3>8
      <4>4. out'.word = IF taken THEN out.word + 1 ELSE out.word
        BY <2>4, <3>8
      <4> QED
        BY <4>1, <4>2, <4>3, <4>4, Zenon
    <3> QED
      BY <1>1, <1>8, <1>9, <2>1, <3>5, <3>10
  <2> QED
    BY <2>2, <2>3, <2>4
<1> QED
  BY <1>10, <1>11

\* The word that is answered is the first of those its master waits for.
LEMMA Oldest ==
    ASSUME NotesInv, answered # NoWord
    PROVE  /\ 1 \in 1 .. Len(rsp_fifo) /\ Head(rsp_fifo) = rsp_fifo[1]
           /\ rsp_fifo[1] = note(answered) /\ rsp_fifo[1].master \in Masters
           /\ rsp_fifo[1].word = First(rsp_fifo[1].master)
           /\ rsp_fifo[1].word <= Latest(rsp_fifo[1].master)
<1>1. rsp_fifo \in Seq(Notes) /\ Len(rsp_fifo) >= 1
  <2>1. Rank(queue, Len(queue)) \in Nat /\ Len(reading) \in Nat
    BY RankBounds DEF NotesInv, WordTypes
  <2> QED
    BY <2>1 DEF NotesInv, WordTypes, InStep, Given, One
<1>2. 1 \in 1 .. Len(rsp_fifo) /\ Head(rsp_fifo) = rsp_fifo[1] /\ rsp_fifo[1] \in Notes
  BY <1>1
<1> DEFINE m == rsp_fifo[1].master
           w == rsp_fifo[1].word
<1>3. m \in Masters /\ w \in Nat
  BY <1>2 DEF Notes
<1>4. w \in First(m) .. Latest(m)
  BY <1>2, <1>3 DEF NotesInv, Numbered
<1>5. First(m) \in Int /\ Latest(m) \in Int
  BY <1>3, WordFields DEF First, Latest, Offered, NotesInv, WordTypes
<1> HIDE DEF m, w
<1>6. ASSUME w # First(m) PROVE FALSE
  <2>1. First(m) < w /\ First(m) \in First(m) .. Latest(m)
    BY <1>3, <1>4, <1>5, <1>6
  <2>2. PICK i \in 1 .. Len(rsp_fifo) : rsp_fifo[i] = [master |-> m, word |-> First(m)]
    BY <1>3, <2>1 DEF NotesInv, Numbered
  <2>3. rsp_fifo[i].master = m /\ rsp_fifo[i].word = First(m)
    BY <2>2
  <2>4. i # 1 /\ 1 < i
    BY <1>6, <2>2, <2>3 DEF w
  <2>5. rsp_fifo[1].word < rsp_fifo[i].word
    BY <1>2, <2>3, <2>4 DEF NotesInv, Numbered, m
  <2> QED
    BY <1>3, <1>5, <2>1, <2>3, <2>5 DEF w
<1> QED
  BY <1>2, <1>3, <1>4, <1>6 DEF m, w, NotesInv, InStep

LEMMA NumberedStep ==
    ASSUME NotesInv, NEW taken \in BOOLEAN, NEW performs \in BOOLEAN, NEW answers \in BOOLEAN,
           Clock(taken, performs, answers)
    PROVE  Numbered'
<1> DEFINE n == One(taken /\ out.rnw)
           L == Len(rsp_fifo)
           G == Given
<1>1. /\ taken => out \in AllWords
      /\ Follows(rsp_fifo', Notes, rsp_fifo, G, n, note(out))
  BY QueuesStep
<1>2. /\ n \in {0, 1} /\ G \in {0, 1}
      /\ n = 1 <=> taken /\ out.rnw
      /\ G = 1 <=> answered # NoWord
      /\ L \in Nat /\ L - G \in Nat
  BY <1>1 DEF One, Given, NotesInv, WordTypes, Follows
<1> HIDE DEF n, L, G
<1>3. /\ Len(rsp_fifo') = L - G + n
      /\ \A i \in 1 .. L - G : rsp_fifo'[i] = rsp_fifo[i + G]
      /\ n = 1 => rsp_fifo'[L - G + 1] = note(out)
  BY <1>1 DEF Follows, L
<1>4. /\ due' \in [Masters -> Nat] /\ asks' \in [Masters -> {"nothing", "read", "write"}]
      /\ \A m \in Masters :
            /\ asks'[m] # "nothing" => due'[m] = 0
            /\ \/ /\ due[m] = 0 /\ ~Offered(m) /\ due'[m] = Words[m]
                  /\ out' = [rnw |-> TRUE, master |-> m, word |-> 1]
               \/ /\ due'[m] = IF answered # NoWord /\ Head(rsp_fifo).master = m
                                THEN due[m] - 1 ELSE due[m]
                  /\ Offered(m)' <=> /\ Offered(m)
                                     /\ ~(taken /\ out.word = Words[m])
                  /\ Offered(m)' =>
                         out'.word = IF taken THEN out.word + 1 ELSE out.word
  BY MastersStep
<1>5. \A m \in Masters :
          /\ Words[m] \in Nat \ {0} /\ due[m] \in Nat
          /\ First(m) \in Int /\ Latest(m) \in Int
          /\ Offered(m) => out \in AllWords /\ out.word \in Nat /\ out.word <= Words[m]
                           /\ out.rnw /\ out.master = m /\ Latest(m) = out.word - 1
          /\ ~Offered(m) => Latest(m) = Words[m]
          /\ First(m) = Words[m] - due[m] + 1
  BY WordFields DEF NotesInv, WordTypes, Offered, First, Latest
<1>6. /\ \A m \in Masters :
            /\ due[m] <= Words[m]
            /\ Offered(m) => First(m) <= out.word
            /\ \A i \in 1 .. L :
                  rsp_fifo[i].master = m => rsp_fifo[i].word \in First(m) .. Latest(m)
            /\ \A w \in First(m) .. Latest(m) :
                  \E i \in 1 .. L : rsp_fifo[i] = [master |-> m, word |-> w]
      /\ \A i, j \in 1 .. L : i < j /\ rsp_fifo[i].master = rsp_fifo[j].master
                                => rsp_fifo[i].word < rsp_fifo[j].word
      /\ \A i \in 1 .. L : rsp_fifo[i].master \in Masters /\ rsp_fifo[i].word \in Nat
  <2>1. \A i \in 1 .. L : rsp_fifo[i] \in Notes
    BY DEF L, NotesInv, WordTypes
  <2> QED
    BY <2>1 DEF NotesInv, Numbered, L, Notes
<1>7. n = 1 => out.master \in Masters /\ Offered(out.master)
               /\ note(out).master = out.master /\ note(out).word = out.word
  BY <1>1, <1>2, WordFields DEF Offered, note
<1>8. G = 1 => /\ 1 \in 1 .. L /\ rsp_fifo[1].word = First(rsp_fifo[1].master)
               /\ Head(rsp_fifo) = rsp_fifo[1]
               /\ rsp_fifo[1].word <= Latest(rsp_fifo[1].master)
  BY <1>2, Oldest DEF L
\* In order.
<1>9. \A i, j \in 1 .. Len(rsp_fifo') :
          i < j /\ rsp_fifo'[i].master = rsp_fifo'[j].master
              => rsp_fifo'[i].word < rsp_fifo'[j].word
  <2> SUFFICES ASSUME NEW i \in 1 .. L - G + n, NEW j \in 1 .. L - G + n,
                      i < j, rsp_fifo'[i].master = rsp_fifo'[j].master
               PROVE  rsp_fifo'[i].word < rsp_fifo'[j].word
    BY <1>3
  <2>1. i \in 1 .. L - G /\ i + G \in 1 .. L /\ rsp_fifo'[i] = rsp_fifo[i + G]
    BY <1>2, <1>3
  <2>2. CASE j <= L - G
    <3>1. j \in 1 .. L - G /\ j + G \in 1 .. L /\ rsp_fifo'[j] = rsp_fifo[j + G] /\ i + G < j + G
      BY <1>2, <1>3, <2>2
    <3> QED
      BY <1>6, <2>1, <3>1
  <2>3. CASE j > L - G
    <3>1. j = L - G + 1 /\ n = 1
      BY <1>2, <2>3
    <3>2. rsp_fifo'[j].master = out.master /\ rsp_fifo'[j].word = out.word
      BY <1>3, <1>7, <3>1
    <3>3. rsp_fifo[i + G].master = out.master
      BY <2>1, <3>2
    <3>4. rsp_fifo[i + G].word \in First(out.master) .. Latest(out.master)
      BY <1>6, <1>7, <2>1, <3>1, <3>3
    <3>5. Latest(out.master) = out.word - 1 /\ out.word \in Nat /\ First(out.master) \in Int
      BY <1>5, <1>7, <3>1
    <3> QED
      BY <2>1, <3>2, <3>4, <3>5
  <2> QED
    BY <1>2, <2>2, <2>3
\* Complete.
<1>10. ASSUME NEW m \in Masters
       PROVE  /\ due'[m] <= Words[m]
              /\ Offered(m)' => First(m)' <= out'.word
              /\ \A i \in 1 .. Len(rsp_fifo') :
                   rsp_fifo'[i].master = m => rsp_fifo'[i].word \in First(m)' .. Latest(m)'
              /\ \A w \in First(m)' .. Latest(m)' :
                   \E i \in 1 .. Len(rsp_fifo') : rsp_fifo'[i] = [master |-> m, word |-> w]
  <2>1. First(m)' = Words[m] - due'[m] + 1
        /\ Latest(m)' = IF Offered(m)' THEN out'.word - 1 ELSE Words[m]
    BY DEF First, Latest
  <2>2. CASE /\ due[m] = 0 /\ ~Offered(m) /\ due'[m] = Words[m]
             /\ out' = [rnw |-> TRUE, master |-> m, word |-> 1]
    <3>1. \A i \in 1 .. L : rsp_fifo[i].master # m
      BY <1>5, <1>6, <2>2
    <3>2. \A i \in 1 .. Len(rsp_fifo') : rsp_fifo'[i].master # m
      <4> SUFFICES ASSUME NEW i \in 1 .. L - G + n PROVE rsp_fifo'[i].master # m
        BY <1>3
      <4>1. CASE i <= L - G
        BY <1>2, <1>3, <3>1, <4>1
      <4>2. CASE i > L - G
        BY <1>2, <1>3, <1>7, <2>2, <4>2
      <4> QED
        BY <1>2, <4>1, <4>2
    <3>3. Offered(m)' /\ out'.word = 1
      <4>1. out' \in AllWords
        BY <1>5, <2>2, WordFields
      <4> QED
        BY <2>2, <4>1, WordFields DEF Offered
    <3>4. First(m)' = 1 /\ Latest(m)' = 0
      BY <1>5, <2>1, <2>2, <3>3
    <3> QED
      BY <1>5, <2>2, <3>2, <3>3, <3>4
  <2>3. CASE /\ due'[m] = IF answered # NoWord /\ Head(rsp_fifo).master = m
                          THEN due[m] - 1 ELSE due[m]
             /\ Offered(m)' <=> Offered(m) /\ ~(taken /\ out.word = Words[m])
             /\ Offered(m)' => out'.word = IF taken THEN out.word + 1 ELSE out.word
    <3> DEFINE f == One(G = 1 /\ rsp_fifo[1].master = m)
               t == One(n = 1 /\ out.master = m)
    <3>1. /\ f \in {0, 1} /\ t \in {0, 1}
          /\ f = 1 <=> G = 1 /\ rsp_fifo[1].master = m
          /\ t = 1 <=> n = 1 /\ out.master = m
      BY DEF One
    <3> HIDE DEF f, t
    <3>2. t = 1 <=> Offered(m) /\ taken
      BY <1>2, <1>5, <1>7, <3>1
    <3>3. due'[m] = due[m] - f /\ First(m)' = First(m) + f
      <4>1. f = 1 <=> answered # NoWord /\ Head(rsp_fifo).master = m
        BY <1>2, <1>8, <3>1
      <4>2. due'[m] = due[m] - f
        BY <1>5, <2>3, <3>1, <4>1
      <4> QED
        BY <1>5, <2>1, <3>1, <4>2
    <3>4. Latest(m)' = Latest(m) + t
      <4>1. CASE Offered(m)'
        <5>1. Offered(m) /\ out'.word = out.word + t
          BY <1>5, <2>3, <3>1, <3>2, <4>1
        <5> QED
          BY <1>5, <2>1, <3>1, <4>1, <5>1
      <4>2. CASE ~Offered(m)' /\ Offered(m)
        <5>1. t = 1 /\ out.word = Words[m]
          BY <2>3, <3>2, <4>2
        <5> QED
          BY <1>5, <2>1, <4>2, <5>1
      <4>3. CASE ~Offered(m)' /\ ~Offered(m)
        <5>1. t = 0
          BY <3>1, <3>2, <4>3
        <5> QED
          BY <1>5, <2>1, <4>3, <5>1
      <4> QED
        BY <4>1, <4>2, <4>3
    <3>5. /\ f = 1 => First(m) <= Latest(m)
          /\ Offered(m) => First(m) + f <= out.word
      BY <1>5, <1>6, <1>8, <3>1
    <3>6. Offered(m)' => First(m)' <= out'.word
      BY <1>5, <2>3, <3>1, <3>3, <3>5
    <3>7. ASSUME NEW i \in 1 .. L - G + n, rsp_fifo'[i].master = m
          PROVE  rsp_fifo'[i].word \in First(m) + f .. Latest(m) + t
      <4>1. CASE i <= L - G
        <5>1. i + G \in 1 .. L /\ rsp_fifo'[i] = rsp_fifo[i + G] /\ (G = 1 => 1 < i + G)
          BY <1>2, <1>3, <4>1
        <5>2. rsp_fifo[i + G].word \in First(m) .. Latest(m)
          BY <1>6, <3>7, <5>1
        <5>3. f = 1 => First(m) < rsp_fifo[i + G].word
          BY <1>6, <1>8, <3>1, <3>7, <5>1
        <5> QED
          BY <1>5, <3>1, <5>1, <5>2, <5>3
      <4>2. CASE i > L - G
        <5>1. n = 1 /\ i = L - G + 1
          BY <1>2, <4>2
        <5>2. rsp_fifo'[i].word = out.word /\ out.master = m
          BY <1>3, <1>7, <3>7, <5>1
        <5>3. Offered(m) /\ t = 1
          BY <1>7, <3>1, <5>1, <5>2
        <5> QED
          BY <1>5, <3>1, <3>5, <5>2, <5>3
      <4> QED
        BY <1>2, <4>1, <4>2
    <3>8. ASSUME NEW w \in First(m) + f .. Latest(m) + t
          PROVE  \E i \in 1 .. L - G + n : rsp_fifo'[i] = [master |-> m, word |-> w]
      <4>1. CASE w <= Latest(m)
        <5>1. w \in First(m) .. Latest(m)
          BY <1>5, <3>1, <4>1
        <5>2. PICK j \in 1 .. L : rsp_fifo[j] = [master |-> m, word |-> w]
          BY <1>6, <5>1
        <5>3. rsp_fifo[j].master = m /\ rsp_fifo[j].word = w
          BY <5>2
        <5>4. G = 1 => j # 1
          <6> SUFFICES ASSUME G = 1, j = 1 PROVE FALSE
            OBVIOUS
          <6>1. f = 1 /\ w = First(m)
            BY <1>8, <3>1, <5>3
          <6> QED
            BY <1>5, <6>1
        <5>5. PICK i \in 1 .. L - G : i + G = j
          <6>1. j - G \in 1 .. L - G /\ j - G + G = j
            BY <1>2, <5>4
          <6> QED
            BY <6>1
        <5>6. rsp_fifo'[i] = [master |-> m, word |-> w]
          BY <1>3, <5>2, <5>5
        <5>7. i \in 1 .. L - G + n
          BY <1>2
        <5> QED
          BY <5>6, <5>7
      <4>2. CASE w > Latest(m)
        <5>1. t = 1 /\ w = Latest(m) + 1
          BY <1>5, <3>1, <4>2
        <5>2. Offered(m) /\ w = out.word /\ n = 1
          BY <1>5, <3>1, <3>2, <5>1
        <5>3. rsp_fifo'[L - G + 1] = [master |-> m, word |-> w]
          BY <1>3, <1>5, <5>2 DEF note
        <5>4. L - G + 1 \in 1 .. L - G + n
          BY <1>2, <5>2
        <5> QED
          BY <5>3, <5>4
      <4> QED
        BY <1>5, <3>1, <4>1, <4>2
    <3>9. due'[m] <= Words[m]
      BY <1>5, <1>6, <3>1, <3>3
    <3> QED
      BY <1>3, <3>3, <3>4, <3>6, <3>7, <3>8, <3>9
  <2> QED
    BY <1>4, <2>2, <2>3
<1> QED
  BY <1>4, <1>9, <1>10 DEF Numbered

\* The inductive invariant of the notes.
THEOREM NotesInvariant == Spec => []NotesInv
<1>1. Init => NotesInv
  BY NotesStart
<1>2. NotesInv /\ [Next]_fabric => NotesInv'
  <2> SUFFICES ASSUME NotesInv, [Next]_fabric PROVE NotesInv'
    OBVIOUS
  <2>1. ASSUME NEW taken \in BOOLEAN, NEW performs \in BOOLEAN, NEW answers \in BOOLEAN,
               Clock(taken, performs, answers)
        PROVE  NotesInv'
    <3>1. WordTypes'
      BY <2>1, QueuesStep, MastersStep DEF Follows, WordTypes
    <3> QED
      BY <2>1, <3>1, InStepStep, NumberedStep DEF NotesInv
  <2>2. CASE Reset
    BY <2>2, NotesStart
  <2>3. CASE UNCHANGED fabric
    BY <2>3 DEF fabric, arbiter, memory, NotesInv, WordTypes, InStep, Numbered, Given, Offered,
                First, Latest
  <2> QED
    BY <2>1, <2>2, <2>3 DEF Next, Tick
<1> QED
  BY <1>1, <1>2, PTL DEF Spec

\* For any number of masters and any lengths of their bursts.
THEOREM AnswersFindTheirAsker == Spec => []AnswerToAsker
<1>1. NotesInv => AnswerToAsker
  <2> SUFFICES ASSUME NotesInv, answered # NoWord PROVE AnswerToAsker
    BY DEF AnswerToAsker
  <2>1. /\ Head(rsp_fifo) = rsp_fifo[1] /\ rsp_fifo[1] = note(answered)
        /\ 1 \in 1 .. Len(rsp_fifo)
        /\ rsp_fifo[1].word = First(rsp_fifo[1].master)
    BY Oldest
  <2>2. rsp_fifo # <<>>
    BY <2>1 DEF NotesInv, WordTypes
  <2> QED
    BY <2>1, <2>2 DEF AnswerToAsker, note, First
<1> QED
  BY <1>1, NotesInvariant, PTL

LEMMA NotedIsRank ==
    ASSUME WordTypes
    PROVE  Memory!Noted = Rank(queue, Len(queue)) + Len(reading) + Given
<1>1. {i \in DOMAIN queue : queue[i].rnw} = {i \in 1 .. Len(queue) : queue[i].rnw}
  BY DEF WordTypes
<1>2. Memory!Noted = Cardinality({i \in DOMAIN queue : queue[i].rnw}) + Len(reading) + Given
  <2>1. \A S : Memory!Cardinality(S) = Cardinality(S)
    BY DEF Memory!Cardinality, Cardinality
  <2> QED
    BY <2>1 DEF Memory!Noted, Given, One
<1>3. Cardinality({i \in DOMAIN queue : queue[i].rnw}) = Rank(queue, Len(queue))
  BY <1>1 DEF Rank
<1> QED
  BY <1>2, <1>3

\* A note leaves when its read is answered, so there are never more notes than
\* the memory has reads pending; for any depth that exceeds those.
THEOREM ExtraSlotNeverUsed == Spec => []ExtraSlotUnused
<1> DEFINE Few == Memory!Noted <= MaxPending
<1>1. Init => Few
  <2> SUFFICES ASSUME Init PROVE Memory!Noted = 0
    BY FabricAssumption
  <2>1. queue = <<>> /\ reading = <<>> /\ answered = NoWord
    BY DEF Init, Memory!PortInit
  <2>2. Rank(queue, Len(queue)) = 0 /\ Len(reading) = 0 /\ Given = 0
    BY <2>1, RankStep DEF Given, One
  <2> QED
    BY <2>2, NotedIsRank, NotesStart DEF NotesInv
<1>2. Few /\ NotesInv' /\ [Next]_fabric => Few'
  <2> SUFFICES ASSUME Few, NotesInv', [Next]_fabric PROVE Few'
    OBVIOUS
  <2>1. CASE Tick
    BY <2>1 DEF Tick, Clock, Memory!PortClock
  <2>2. CASE Reset
    <3>1. queue' = <<>> /\ reading' = <<>> /\ answered' = NoWord
      BY <2>2 DEF Reset, Memory!PortReset
    <3>2. (Rank(queue, Len(queue)) = 0 /\ Len(reading) = 0 /\ Given = 0)'
      BY <3>1, RankStep DEF Given, One
    <3>3. (Memory!Noted = Rank(queue, Len(queue)) + Len(reading) + Given)'
      BY NotedIsRank, PTL DEF NotesInv
    <3> QED
      BY <3>2, <3>3, FabricAssumption
  <2>3. CASE UNCHANGED fabric
    BY <2>3 DEF fabric, memory, Memory!Noted
  <2> QED
    BY <2>1, <2>2, <2>3 DEF Next
<1>3. NotesInv /\ Few => ExtraSlotUnused
  <2> SUFFICES ASSUME NotesInv, Few PROVE ExtraSlotUnused
    OBVIOUS
  <2>1. Len(rsp_fifo) = Memory!Noted
    <3>1. /\ Rank(queue, Len(queue)) \in Nat /\ Len(reading) \in Nat /\ Given \in Nat
      BY RankBounds DEF NotesInv, WordTypes, Given, One
    <3> QED
      BY <3>1, NotedIsRank DEF NotesInv, InStep
  <2>2. Len(rsp_fifo) \in Nat
    BY DEF NotesInv, WordTypes
  <2> QED
    BY <2>1, <2>2, FabricAssumption, DepthAssumption DEF ExtraSlotUnused
<1> QED
  BY <1>1, <1>2, <1>3, NotesInvariant, PTL DEF Spec
=============================================================================
