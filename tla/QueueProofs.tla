----------------------------- MODULE QueueProofs -----------------------------
(***************************************************************************)
(* Proofs about MultipleSenderQueue, for any set of senders that may be    *)
(* killed anywhere and any messages, as long as all that is sent in a      *)
(* behaviour fits into one lap of the ring (run MCQueueWrap shows why it   *)
(* must): the stretches of the senders stay apart, the positions agree,    *)
(* the receiver finds an event where it looks for one, and the queue       *)
(* implements a channel.                                                   *)
(***************************************************************************)
EXTENDS MultipleSenderQueue, FiniteSetTheorems, SequenceTheorems, TLAPS

\* Nothing sent goes over the end of the ring.
OneLap == msqh_size + MaxWords < mmap_size

\* Each message is an event of the receiver's switch with the words its handler reads.
WholeMessages ==
    \A s \in Senders : \A m \in Messages[s] : m[1] \in Handled /\ Len(m) = 1 + Arguments[m[1]]

-----------------------------------------------------------------------------
(* The invariant of the senders *)

End(s) == starting_position[s] + Len(values[s])

Stages == {"idle", "load", "reserve", "write", "commit", "dead"}
Waiting == {"load", "reserve"}

\* The words of the messages that wait for a stretch.
Unreserved ==
    {w \in Senders \X Nat : pc[w[1]] \in Waiting /\ w[2] \in 1 .. Len(values[w[1]])}

Shape ==
    /\ memory \in [msqh_size .. mapped_words - 1 -> Nat]
    /\ sender_reserve_position \in Nat /\ sender_done_position \in Nat
    /\ user_position \in msqh_size .. mmap_size + 1
    /\ pc \in [Senders -> Stages]
    /\ values \in [Senders -> Seq(Nat)]
    /\ \A s \in Senders : values[s] \in Messages[s] \cup {<<>>}
    /\ starting_position \in [Senders -> Positions]
    /\ new_mem_offset \in [Senders -> Positions]
    /\ written \in [Senders -> Nat]
    /\ \A s \in Senders : written[s] <= Len(values[s])
    /\ receiver \in {"polling", "event", "arguments", "aborted"}
    /\ expected \in 0 .. 2 /\ (receiver = "arguments" => expected # 0)
    /\ got \in Nat
    /\ total \in 0 .. MaxWords

\* What has been reserved and what has yet to be fits into what has been counted.
LapInv ==
    /\ IsFiniteSet(Unreserved)
    /\ sender_reserve_position + Cardinality(Unreserved) <= msqh_size + total

PositionInv ==
    /\ msqh_size <= sender_done_position
    /\ sender_done_position <= sender_reserve_position

\* Where a sender is in its message and its stretch.
SenderAt(s) ==
    /\ pc[s] \in {"idle", "load", "reserve"} => written[s] = 0
    /\ pc[s] \in Waiting \/ Holding(s) => values[s] \in Messages[s]
    /\ Holding(s) =>
          /\ sender_done_position <= starting_position[s] /\ End(s) <= sender_reserve_position
          /\ new_mem_offset[s] = starting_position[s] + written[s]
          /\ pc[s] = "write" <=> written[s] # Len(values[s])
          /\ \A i \in 1 .. written[s] : memory[starting_position[s] + i - 1] = values[s][i]
SenderInv == \A s \in Senders : SenderAt(s)

ApartInv ==
    \A s, t \in Senders : s # t /\ Holding(s) /\ Holding(t) =>
        End(s) <= starting_position[t] \/ End(t) <= starting_position[s]

\* What is reserved and not committed is somebody's.
CoverInv ==
    \/ \E s \in Senders : pc[s] = "dead"
    \/ \A p \in sender_done_position .. sender_reserve_position - 1 :
          \E s \in Senders : Holding(s) /\ p \in starting_position[s] .. End(s) - 1

QueueInv == Shape /\ LapInv /\ PositionInv /\ SenderInv /\ ApartInv /\ CoverInv

-----------------------------------------------------------------------------
(* Facts about the constants and about the invariant *)

LEMMA MessageFacts ==
    ASSUME NEW s \in Senders, NEW m \in Messages[s]
    PROVE  m \in Seq(Nat) /\ m # <<>> /\ Len(m) \in Nat \ {0} /\ \A i \in 1 .. Len(m) : m[i] \in Nat
<1>1. m \in Seq(Nat) /\ m # <<>>
    BY QueueAssumption
<1> QED
    BY <1>1, EmptySeq

LEMMA ArgumentFacts == \A e \in Handled : Arguments[e] \in 0 .. 2
BY QueueAssumption DEF Arguments, file_ID_of_king, file_ID_of_user, aliveness_check

LEMMA ShapeNow == QueueInv => Shape
BY DEF QueueInv

LEMMA SenderNow ==
    ASSUME QueueInv, NEW s \in Senders
    PROVE  /\ SenderAt(s)
           /\ pc[s] \in Stages
           /\ values[s] \in Seq(Nat) /\ Len(values[s]) \in Nat
           /\ starting_position[s] \in Nat /\ new_mem_offset[s] \in Nat /\ written[s] \in Nat
           /\ written[s] <= Len(values[s])
           /\ End(s) \in Nat
<1>1. SenderAt(s)
    BY DEF QueueInv, SenderInv
<1>2. /\ pc[s] \in Stages
      /\ values[s] \in Seq(Nat) /\ written[s] \in Nat /\ written[s] <= Len(values[s])
    BY DEF QueueInv, Shape
<1>3. starting_position[s] \in Nat /\ new_mem_offset[s] \in Nat
    BY QueueAssumption DEF QueueInv, Shape, Positions
<1> QED
    BY <1>1, <1>2, <1>3 DEF End

\* Within one lap no position reaches the end of the ring.
LEMMA BelowTheEnd ==
    ASSUME OneLap, QueueInv
    PROVE  /\ sender_reserve_position < mmap_size /\ sender_reserve_position \in Nat
           /\ sender_done_position \in Nat
           /\ msqh_size <= sender_done_position /\ sender_done_position <= sender_reserve_position
<1>1. Cardinality(Unreserved) \in Nat
    BY FS_CardinalityType DEF QueueInv, LapInv
<1>2. total \in 0 .. MaxWords /\ sender_reserve_position \in Nat /\ sender_done_position \in Nat
    BY DEF QueueInv, Shape
<1> QED
    BY <1>1, <1>2, QueueAssumption DEF QueueInv, LapInv, PositionInv, OneLap, msqh_size

-----------------------------------------------------------------------------
(* The words that wait *)

LEMMA Product ==
    ASSUME NEW s \in Senders, NEW n \in Nat
    PROVE  IsFiniteSet({s} \X (1 .. n)) /\ Cardinality({s} \X (1 .. n)) = n
<1>1. IsFiniteSet({s}) /\ Cardinality({s}) = 1
    BY FS_Singleton
<1>2. IsFiniteSet(1 .. n) /\ Cardinality(1 .. n) = n
    BY FS_Interval
<1>3. /\ IsFiniteSet({s} \X (1 .. n))
      /\ Cardinality({s} \X (1 .. n)) = Cardinality({s}) * Cardinality(1 .. n)
    BY <1>1, <1>2, FS_Product
<1> QED
    BY <1>1, <1>2, <1>3

\* A message begins to wait.
LEMMA MoreWait ==
    ASSUME NEW s \in Senders, NEW m \in Seq(Nat), IsFiniteSet(Unreserved),
           pc \in [Senders -> Stages], values \in [Senders -> Seq(Nat)], pc[s] = "idle",
           pc' = [pc EXCEPT ![s] = "load"], values' = [values EXCEPT ![s] = m]
    PROVE  IsFiniteSet(Unreserved') /\ Cardinality(Unreserved') = Cardinality(Unreserved) + Len(m)
<1> DEFINE P == {s} \X (1 .. Len(m))
<1>1. IsFiniteSet(P) /\ Cardinality(P) = Len(m) /\ Len(m) \in Nat
    <2>1. Len(m) \in Nat
        OBVIOUS
    <2>2. IsFiniteSet({s} \X (1 .. Len(m))) /\ Cardinality({s} \X (1 .. Len(m))) = Len(m)
        BY ONLY <2>1, Product, s \in Senders
    <2> QED
        BY <2>1, <2>2
<1>2. Unreserved' = Unreserved \cup P
    <2>1. \A w \in Senders \X Nat : w \in Unreserved' <=> w \in Unreserved \/ w \in P
        <3> SUFFICES ASSUME NEW t \in Senders, NEW i \in Nat
                     PROVE  <<t, i>> \in Unreserved' <=> <<t, i>> \in Unreserved \/ <<t, i>> \in P
            OBVIOUS
        <3>1. CASE t = s
            BY <3>1 DEF Unreserved, Waiting
        <3>2. CASE t # s
            BY <3>2 DEF Unreserved, Waiting
        <3> QED
            BY <3>1, <3>2
    <2>2. Unreserved \subseteq Senders \X Nat /\ Unreserved' \subseteq Senders \X Nat
        BY DEF Unreserved
    <2>3. P \subseteq Senders \X Nat
        BY <1>1
    <2> QED
        BY <2>1, <2>2, <2>3
<1>3. Unreserved \cap P = {}
    BY DEF Unreserved, Waiting
<1> HIDE DEF P
<1>4. /\ IsFiniteSet(Unreserved \cup P)
      /\ Cardinality(Unreserved \cup P)
            = Cardinality(Unreserved) + Cardinality(P) - Cardinality(Unreserved \cap P)
    BY <1>1, FS_Union
<1>5. Cardinality(Unreserved \cap P) = 0 /\ Cardinality(Unreserved) \in Nat
    BY <1>3, FS_EmptySet, FS_CardinalityType
<1> QED
    BY <1>1, <1>2, <1>4, <1>5

\* A message gets its stretch.
LEMMA FewerWait ==
    ASSUME NEW s \in Senders, IsFiniteSet(Unreserved),
           pc \in [Senders -> Stages], values \in [Senders -> Seq(Nat)], pc[s] = "reserve",
           pc' = [pc EXCEPT ![s] = "write"], values' = values
    PROVE  /\ IsFiniteSet(Unreserved')
           /\ Cardinality(Unreserved') = Cardinality(Unreserved) - Len(values[s])
<1> DEFINE P == {s} \X (1 .. Len(values[s]))
<1>1. IsFiniteSet(P) /\ Cardinality(P) = Len(values[s]) /\ Len(values[s]) \in Nat
    <2>1. Len(values[s]) \in Nat
        OBVIOUS
    <2>2. /\ IsFiniteSet({s} \X (1 .. Len(values[s])))
          /\ Cardinality({s} \X (1 .. Len(values[s]))) = Len(values[s])
        BY ONLY <2>1, Product, s \in Senders
    <2> QED
        BY <2>1, <2>2
<1>2. Unreserved' = Unreserved \ P
    <2>1. \A w \in Senders \X Nat : w \in Unreserved' <=> w \in Unreserved /\ w \notin P
        <3> SUFFICES ASSUME NEW t \in Senders, NEW i \in Nat
                     PROVE  <<t, i>> \in Unreserved' <=> <<t, i>> \in Unreserved /\ <<t, i>> \notin P
            OBVIOUS
        <3>1. CASE t = s
            BY <3>1 DEF Unreserved, Waiting
        <3>2. CASE t # s
            BY <3>2 DEF Unreserved, Waiting
        <3> QED
            BY <3>1, <3>2
    <2>2. Unreserved \subseteq Senders \X Nat /\ Unreserved' \subseteq Senders \X Nat
        BY DEF Unreserved
    <2> QED
        BY <2>1, <2>2
<1>3. P \subseteq Unreserved
    <2> SUFFICES ASSUME NEW i \in 1 .. Len(values[s]) PROVE <<s, i>> \in Unreserved
        OBVIOUS
    <2> QED
        BY <1>1 DEF Unreserved, Waiting
<1>4. Unreserved \cap P = P
    BY <1>3
<1> HIDE DEF P
<1>5. /\ IsFiniteSet(Unreserved \ P)
      /\ Cardinality(Unreserved \ P) = Cardinality(Unreserved) - Cardinality(Unreserved \cap P)
    BY FS_Difference
<1> QED
    BY <1>1, <1>2, <1>4, <1>5

\* Nothing begins to wait.
LEMMA NoMoreWait ==
    ASSUME IsFiniteSet(Unreserved), Unreserved' \subseteq Unreserved
    PROVE  IsFiniteSet(Unreserved') /\ Cardinality(Unreserved') <= Cardinality(Unreserved)
BY FS_Subset

-----------------------------------------------------------------------------
(* The steps of the senders *)

\* What a step keeps that changes no stretch, or takes one from a sender it kills.
LEMMA StretchesKept ==
    ASSUME QueueInv, UNCHANGED <<sender_reserve_position, sender_done_position>>,
           \A x \in Senders : Holding(x)' =>
               /\ Holding(x)
               /\ starting_position'[x] = starting_position[x] /\ values'[x] = values[x],
           \/ \E x \in Senders : pc'[x] = "dead"
           \/ /\ \A x \in Senders : Holding(x) => Holding(x)'
              /\ \A x \in Senders : pc[x] = "dead" => pc'[x] = "dead"
    PROVE  PositionInv' /\ ApartInv' /\ CoverInv'
<1>1. \A x \in Senders : Holding(x)' => End(x)' = End(x)
    BY DEF End
<1>2. PositionInv'
    BY DEF QueueInv, PositionInv
<1>3. ApartInv'
    BY <1>1 DEF QueueInv, ApartInv
<1>4. CoverInv'
    <2>1. CASE \E x \in Senders : pc'[x] = "dead"
        BY <2>1 DEF CoverInv
    <2>2. CASE /\ \A x \in Senders : Holding(x) => Holding(x)'
               /\ \A x \in Senders : pc[x] = "dead" => pc'[x] = "dead"
        BY <2>2, <1>1 DEF QueueInv, CoverInv
    <2> QED
        BY <2>1, <2>2
<1> QED
    BY <1>2, <1>3, <1>4

\* A sender to which nothing happens.
LEMMA SenderKept ==
    ASSUME QueueInv, NEW x \in Senders,
           UNCHANGED <<memory, sender_reserve_position, sender_done_position, pc[x], values[x],
                       starting_position[x], new_mem_offset[x], written[x]>>
    PROVE  SenderAt(x)'
<1>1. SenderAt(x)
    BY SenderNow
<1>2. (Holding(x)' <=> Holding(x)) /\ End(x)' = End(x)
    BY DEF Holding, End
<1> QED
    BY <1>1, <1>2 DEF SenderAt

LEMMA StepWriteValues ==
    ASSUME QueueInv, NEW s \in Senders, write_values(s)
    PROVE  QueueInv'
<1>1. PICK m \in Messages[s] :
          /\ total + Len(m) <= MaxWords /\ total' = total + Len(m)
          /\ values' = [values EXCEPT ![s] = m]
    BY DEF write_values
<1>2. /\ pc[s] = "idle" /\ pc' = [pc EXCEPT ![s] = "load"]
      /\ UNCHANGED <<memory, sender_reserve_position, sender_done_position, starting_position,
                     new_mem_offset, written, user_position, receiver, expected, got>>
    BY DEF write_values, receiverVars
<1>3. m \in Seq(Nat) /\ Len(m) \in Nat \ {0}
    BY MessageFacts
<1>4. Shape
    BY ShapeNow
<1>5. /\ pc'[s] = "load" /\ values'[s] = m
      /\ \A x \in Senders \ {s} : pc'[x] = pc[x] /\ values'[x] = values[x]
    BY <1>1, <1>2, <1>4 DEF Shape
<1>6. written[s] = 0
    BY <1>2, SenderNow DEF SenderAt
<1>7. Shape'
    <2>1. total' \in 0 .. MaxWords
        BY <1>1, <1>3, <1>4 DEF Shape
    <2>2. /\ pc' \in [Senders -> Stages]
          /\ values' \in [Senders -> Seq(Nat)]
        BY <1>1, <1>2, <1>3, <1>4 DEF Shape, Stages
    <2>3. \A x \in Senders : values'[x] \in Messages[x] \cup {<<>>} /\ written[x] <= Len(values'[x])
        <3> SUFFICES ASSUME NEW x \in Senders
                     PROVE  /\ values'[x] \in Messages[x] \cup {<<>>}
                            /\ written[x] <= Len(values'[x])
            OBVIOUS
        <3>1. CASE x = s
            BY <3>1, <1>3, <1>5, <1>6
        <3>2. CASE x # s
            BY <3>2, <1>4, <1>5 DEF Shape
        <3> QED
            BY <3>1, <3>2
    <2> QED
        BY <2>1, <2>2, <2>3, <1>2, <1>4 DEF Shape
<1>8. LapInv'
    <2>1. /\ IsFiniteSet(Unreserved')
          /\ Cardinality(Unreserved') = Cardinality(Unreserved) + Len(m)
        <3>1. pc \in [Senders -> Stages] /\ values \in [Senders -> Seq(Nat)]
            BY <1>4 DEF Shape
        <3>2. IsFiniteSet(Unreserved)
            BY DEF QueueInv, LapInv
        <3> QED
            BY <3>1, <3>2, <1>1, <1>2, <1>3, MoreWait
    <2>2. /\ sender_reserve_position + Cardinality(Unreserved) <= msqh_size + total
          /\ Cardinality(Unreserved) \in Nat /\ sender_reserve_position \in Nat /\ total \in Nat
        BY <1>4, FS_CardinalityType DEF QueueInv, LapInv, Shape
    <2> QED
        BY <2>1, <2>2, <1>1, <1>2, <1>3 DEF LapInv, msqh_size
<1>9. PositionInv' /\ ApartInv' /\ CoverInv'
    <2>1. \A x \in Senders : /\ Holding(x)' <=> Holding(x)
                             /\ Holding(x) => x # s
                             /\ pc[x] = "dead" => pc'[x] = "dead"
        BY <1>2, <1>5 DEF Holding
    <2> QED
        BY <2>1, <1>2, <1>5, StretchesKept
<1>10. SenderInv'
    <2> SUFFICES ASSUME NEW x \in Senders PROVE SenderAt(x)'
        BY DEF SenderInv
    <2>1. CASE x = s
        BY <2>1, <1>2, <1>5, <1>6 DEF SenderAt, Holding, Waiting
    <2>2. CASE x # s
        BY <2>2, <1>2, <1>5, SenderKept
    <2> QED
        BY <2>1, <2>2
<1> QED
    BY <1>7, <1>8, <1>9, <1>10 DEF QueueInv

\* The reserve position is read, or read again.
LEMMA StepLoads ==
    ASSUME OneLap, QueueInv, NEW s \in Senders,
           load_reserve_position(s) \/ allocate_memory_again(s)
    PROVE  QueueInv'
<1>1. /\ pc[s] \in Waiting /\ pc' = [pc EXCEPT ![s] = "reserve"]
      /\ starting_position' = [starting_position EXCEPT ![s] = sender_reserve_position]
      /\ UNCHANGED <<memory, sender_reserve_position, sender_done_position, values,
                     new_mem_offset, written, total, user_position, receiver, expected, got>>
    <2>1. pc \in [Senders -> Stages]
        BY ShapeNow DEF Shape
    <2>2. CASE load_reserve_position(s)
        BY <2>2 DEF load_reserve_position, receiverVars, Waiting
    <2>3. CASE allocate_memory_again(s)
        BY <2>1, <2>3 DEF allocate_memory_again, receiverVars, Waiting
    <2> QED
        BY <2>2, <2>3
<1>2. Shape
    BY ShapeNow
<1>3. /\ pc'[s] = "reserve"
      /\ \A x \in Senders \ {s} :
             pc'[x] = pc[x] /\ starting_position'[x] = starting_position[x]
    BY <1>1, <1>2 DEF Shape
<1>4. Shape'
    <2>1. sender_reserve_position \in Positions
        BY BelowTheEnd, QueueAssumption DEF Positions
    <2>2. /\ pc' \in [Senders -> Stages]
          /\ starting_position' \in [Senders -> Positions]
        BY <2>1, <1>1, <1>2 DEF Shape, Stages
    <2> QED
        BY <2>2, <1>1, <1>2 DEF Shape
<1>5. LapInv'
    <2>1. Unreserved' = Unreserved
        BY <1>1, <1>3 DEF Unreserved, Waiting
    <2> QED
        BY <2>1, <1>1 DEF QueueInv, LapInv
<1>6. PositionInv' /\ ApartInv' /\ CoverInv'
    <2>1. \A x \in Senders : /\ Holding(x)' <=> Holding(x)
                             /\ Holding(x) => x # s
                             /\ pc[x] = "dead" => pc'[x] = "dead"
        BY <1>1, <1>3 DEF Holding, Waiting
    <2> QED
        BY <2>1, <1>1, <1>3, StretchesKept
<1>7. SenderInv'
    <2> SUFFICES ASSUME NEW x \in Senders PROVE SenderAt(x)'
        BY DEF SenderInv
    <2>1. CASE x = s
        <3>1. SenderAt(s)
            BY SenderNow
        <3> QED
            BY <2>1, <3>1, <1>1, <1>3 DEF SenderAt, Holding, Waiting
    <2>2. CASE x # s
        BY <2>2, <1>1, <1>3, SenderKept
    <2> QED
        BY <2>1, <2>2
<1> QED
    BY <1>4, <1>5, <1>6, <1>7 DEF QueueInv

LEMMA StepAllocates ==
    ASSUME OneLap, QueueInv, NEW s \in Senders, allocate_memory(s)
    PROVE  QueueInv'
<1> DEFINE n == Len(values[s])
<1>1. Shape
    BY ShapeNow
<1>2. /\ pc[s] = "reserve" /\ pc' = [pc EXCEPT ![s] = "write"]
      /\ sender_reserve_position = starting_position[s]
      /\ sender_reserve_position' = ReservedEnd(starting_position[s], n)
      /\ new_mem_offset' = [new_mem_offset EXCEPT ![s] = starting_position[s]]
      /\ written' = [written EXCEPT ![s] = 0]
      /\ UNCHANGED <<memory, sender_done_position, values, starting_position, total,
                     user_position, receiver, expected, got>>
    BY DEF allocate_memory, receiverVars
<1>3. /\ pc'[s] = "write" /\ new_mem_offset'[s] = starting_position[s] /\ written'[s] = 0
      /\ \A x \in Senders \ {s} : /\ pc'[x] = pc[x] /\ written'[x] = written[x]
                                  /\ new_mem_offset'[x] = new_mem_offset[x]
    BY <1>1, <1>2 DEF Shape
<1>4. values[s] \in Messages[s] /\ n \in Nat \ {0}
    <2>1. values[s] \in Messages[s]
        BY <1>2, SenderNow DEF SenderAt, Waiting
    <2> QED
        BY <2>1, MessageFacts
<1> HIDE DEF n
<1>5. /\ IsFiniteSet(Unreserved') /\ Cardinality(Unreserved') \in Nat
      /\ Cardinality(Unreserved') = Cardinality(Unreserved) - n
    <2>1. IsFiniteSet(Unreserved)
        BY DEF QueueInv, LapInv
    <2>2. pc \in [Senders -> Stages] /\ values \in [Senders -> Seq(Nat)]
        BY <1>1 DEF Shape
    <2> QED
        BY <2>1, <2>2, <1>2, FewerWait, FS_CardinalityType DEF n
<1>6. /\ sender_reserve_position' = sender_reserve_position + n
      /\ sender_reserve_position' + Cardinality(Unreserved') <= msqh_size + total
    <2>1. /\ sender_reserve_position + Cardinality(Unreserved) <= msqh_size + total
          /\ Cardinality(Unreserved) \in Nat
        BY FS_CardinalityType DEF QueueInv, LapInv
    <2>2. total \in 0 .. MaxWords /\ sender_reserve_position \in Nat
        BY <1>1 DEF Shape
    <2>3. sender_reserve_position + n < mmap_size
        BY <2>1, <2>2, <1>4, <1>5, QueueAssumption DEF OneLap, msqh_size
    <2>4. ReservedEnd(starting_position[s], n) = sender_reserve_position + n
        BY <2>2, <2>3, <1>2, <1>4, QueueAssumption DEF ReservedEnd
    <2>5. sender_reserve_position' = sender_reserve_position + n
        BY <2>4, <1>2
    <2> QED
        BY ONLY <2>1, <2>2, <2>5, <1>4, <1>5 DEF msqh_size
<1>7. End(s) = sender_reserve_position' /\ \A x \in Senders : End(x)' = End(x)
    BY <1>2, <1>6 DEF End, n
<1>8. Shape'
    <2>1. sender_reserve_position' \in Nat /\ starting_position[s] \in Positions
        BY <1>1, <1>4, <1>6 DEF Shape
    <2>2. /\ pc' \in [Senders -> Stages]
          /\ new_mem_offset' \in [Senders -> Positions] /\ written' \in [Senders -> Nat]
        BY <2>1, <1>1, <1>2 DEF Shape, Stages
    <2>3. \A x \in Senders : written'[x] <= Len(values[x])
        <3> SUFFICES ASSUME NEW x \in Senders PROVE written'[x] <= Len(values[x])
            OBVIOUS
        <3>1. CASE x = s
            BY <3>1, <1>3, <1>4 DEF n
        <3>2. CASE x # s
            BY <3>2, <1>1, <1>3 DEF Shape
        <3> QED
            BY <3>1, <3>2
    <2> QED
        BY <2>1, <2>2, <2>3, <1>1, <1>2 DEF Shape
<1>9. LapInv'
    BY <1>2, <1>5, <1>6 DEF LapInv, msqh_size
<1>10. /\ sender_done_position \in Nat /\ sender_reserve_position \in Nat
       /\ msqh_size <= sender_done_position /\ sender_done_position <= sender_reserve_position
    BY BelowTheEnd
<1>11. PositionInv'
    BY <1>10, <1>2, <1>4, <1>6 DEF PositionInv
<1>12. \A x \in Senders \ {s} : Holding(x)' <=> Holding(x)
    BY <1>3 DEF Holding
<1>13. ~Holding(s) /\ Holding(s)'
    BY <1>2, <1>3 DEF Holding
<1>14. SenderInv'
    <2> SUFFICES ASSUME NEW x \in Senders PROVE SenderAt(x)'
        BY DEF SenderInv
    <2>1. CASE x = s
        <3>1. sender_done_position <= starting_position[s] /\ starting_position[s] \in Nat
            BY <1>2, <1>10
        <3>2. sender_done_position' <= starting_position'[s] /\ End(s)' <= sender_reserve_position'
            BY <3>1, <1>2, <1>4, <1>6, <1>7
        <3>3. new_mem_offset'[s] = starting_position'[s] + written'[s]
            BY <3>1, <1>2, <1>3
        <3>4. values'[s] = values[s] /\ Len(values[s]) # 0
            BY <1>2, <1>4 DEF n
        <3> QED
            BY <2>1, <3>2, <3>3, <3>4, <1>3, <1>4 DEF SenderAt
    <2>2. CASE x # s
        <3>1. SenderAt(x) /\ End(x) \in Nat
            BY SenderNow
        <3>2. End(x) <= sender_reserve_position => End(x) <= sender_reserve_position'
            BY <3>1, <1>4, <1>6, <1>10
        <3> QED
            BY <2>2, <3>1, <3>2, <1>2, <1>3, <1>7, <1>12 DEF SenderAt
    <2> QED
        BY <2>1, <2>2
<1>15. ApartInv'
    <2> SUFFICES ASSUME NEW x \in Senders, NEW y \in Senders, x # y, Holding(x)', Holding(y)'
                 PROVE  End(x) <= starting_position[y] \/ End(y) <= starting_position[x]
        BY <1>2, <1>7 DEF ApartInv
    <2>1. \A z \in Senders \ {s} : Holding(z) => End(z) <= starting_position[s]
        BY <1>2, SenderNow DEF SenderAt
    <2>2. CASE x # s /\ y # s
        BY <2>2, <1>12 DEF QueueInv, ApartInv
    <2>3. CASE x = s \/ y = s
        BY <2>1, <2>3, <1>12
    <2> QED
        BY <2>2, <2>3
<1>16. CoverInv'
    <2>1. CASE \E x \in Senders : pc[x] = "dead"
        BY <2>1, <1>2, <1>3 DEF CoverInv
    <2>2. CASE ~\E x \in Senders : pc[x] = "dead"
        <3> SUFFICES ASSUME NEW p \in sender_done_position .. sender_reserve_position' - 1
                     PROVE  \E x \in Senders :
                                Holding(x)' /\ p \in starting_position[x] .. End(x) - 1
            BY <1>2, <1>7 DEF CoverInv
        <3>1. CASE p \in sender_done_position .. sender_reserve_position - 1
            <4>1. PICK x \in Senders : Holding(x) /\ p \in starting_position[x] .. End(x) - 1
                BY <2>2, <3>1 DEF QueueInv, CoverInv
            <4> QED
                BY <4>1, <1>12, <1>13
        <3>2. CASE p \in starting_position[s] .. End(s) - 1
            BY <3>2, <1>13
        <3> QED
            BY <3>1, <3>2, <1>2, <1>4, <1>6, <1>7, <1>10
    <2> QED
        BY <2>1, <2>2
<1> QED
    BY <1>8, <1>9, <1>11, <1>14, <1>15, <1>16 DEF QueueInv

\* Where a sender in "write" writes, and that the word belongs to no other sender.
LEMMA WriteFacts ==
    ASSUME OneLap, QueueInv, NEW s \in Senders, pc[s] = "write"
    PROVE  LET offset == new_mem_offset[s] IN
           /\ offset = starting_position[s] + written[s]
           /\ sender_done_position <= offset /\ offset < sender_reserve_position
           /\ offset \in Nat /\ msqh_size <= offset /\ offset + 1 < mmap_size
           /\ written[s] + 1 \in 1 .. Len(values[s])
           /\ \A x \in Senders \ {s} : Holding(x) =>
                  offset < starting_position[x] \/ End(x) <= offset
<1>1. /\ SenderAt(s) /\ Holding(s)
      /\ starting_position[s] \in Nat /\ written[s] \in Nat /\ Len(values[s]) \in Nat
      /\ written[s] <= Len(values[s]) /\ End(s) = starting_position[s] + Len(values[s])
    BY SenderNow DEF Holding, End
<1>2. /\ sender_done_position <= starting_position[s] /\ End(s) <= sender_reserve_position
      /\ new_mem_offset[s] = starting_position[s] + written[s] /\ written[s] < Len(values[s])
    BY <1>1 DEF SenderAt
<1>3. /\ sender_reserve_position < mmap_size /\ sender_reserve_position \in Nat
      /\ sender_done_position \in Nat /\ msqh_size <= sender_done_position
    BY BelowTheEnd
<1>4. ASSUME NEW x \in Senders \ {s}, Holding(x)
      PROVE  new_mem_offset[s] < starting_position[x] \/ End(x) <= new_mem_offset[s]
    <2>1. End(s) <= starting_position[x] \/ End(x) <= starting_position[s]
        BY <1>1, <1>4 DEF QueueInv, ApartInv
    <2>2. starting_position[x] \in Nat /\ End(x) \in Nat
        BY SenderNow
    <2> QED
        BY <2>1, <2>2, <1>1, <1>2
<1> QED
    BY <1>1, <1>2, <1>3, <1>4, QueueAssumption DEF msqh_size

LEMMA StepWrites ==
    ASSUME OneLap, QueueInv, NEW s \in Senders, write_word(s)
    PROVE  QueueInv'
<1> DEFINE offset == new_mem_offset[s]
           word == values[s][written[s] + 1]
<1>1. Shape
    BY ShapeNow
<1>2. /\ pc[s] = "write" /\ offset < mapped_words
      /\ memory' = [memory EXCEPT ![offset] = word]
      /\ written' = [written EXCEPT ![s] = @ + 1]
      /\ new_mem_offset' = [new_mem_offset EXCEPT ![s] = next_offset(@)]
      /\ pc' = [pc EXCEPT ![s] = IF written'[s] = Len(values[s]) THEN "commit" ELSE "write"]
      /\ UNCHANGED <<sender_reserve_position, sender_done_position, values, starting_position,
                     total, user_position, receiver, expected, got>>
    BY DEF write_word, receiverVars
<1>3. /\ offset = starting_position[s] + written[s]
      /\ offset \in Nat /\ msqh_size <= offset /\ offset + 1 < mmap_size
      /\ written[s] + 1 \in 1 .. Len(values[s])
      /\ \A x \in Senders \ {s} : Holding(x) => offset < starting_position[x] \/ End(x) <= offset
    BY <1>2, WriteFacts
<1>4. /\ starting_position[s] \in Nat /\ written[s] \in Nat
      /\ values[s] \in Seq(Nat) /\ Len(values[s]) \in Nat
    BY SenderNow
<1>5. word \in Nat /\ offset \in msqh_size .. mapped_words - 1
    <2>1. word \in Nat
        <3>1. written[s] + 1 \in 1 .. Len(values[s])
            BY <1>3
        <3>2. values[s] \in Seq(Nat)
            BY <1>4
        <3> QED
            BY ONLY <3>1, <3>2, ElementOfSeq
    <2>2. mapped_words \in Nat /\ msqh_size \in Nat
        BY QueueAssumption DEF msqh_size
    <2> HIDE DEF offset
    <2>3. offset \in msqh_size .. mapped_words - 1
        <3>1. offset < mapped_words
            BY <1>2
        <3>2. offset \in Nat /\ msqh_size <= offset
            BY <1>3
        <3> QED
            BY ONLY <2>2, <3>1, <3>2
    <2> QED
        BY <2>1, <2>3
<1> HIDE DEF offset, word
<1>6. memory'[offset] = word /\ \A p \in Nat \ {offset} : memory'[p] = memory[p]
    BY <1>1, <1>2, <1>5 DEF Shape
<1>7. next_offset(offset) = offset + 1
    BY <1>3, QueueAssumption DEF next_offset
<1>8. /\ written'[s] = written[s] + 1 /\ new_mem_offset'[s] = offset + 1
      /\ pc'[s] = IF written[s] + 1 = Len(values[s]) THEN "commit" ELSE "write"
      /\ \A x \in Senders \ {s} : /\ pc'[x] = pc[x] /\ written'[x] = written[x]
                                  /\ new_mem_offset'[x] = new_mem_offset[x]
    BY <1>1, <1>2, <1>7 DEF Shape, offset
<1>9. Shape'
    <2>1. memory' \in [msqh_size .. mapped_words - 1 -> Nat]
        BY <1>1, <1>2, <1>5 DEF Shape
    <2>2. /\ pc' \in [Senders -> Stages] /\ written' \in [Senders -> Nat]
        BY <1>1, <1>2 DEF Shape, Stages
    <2>3. new_mem_offset' \in [Senders -> Positions]
        <3>1. offset + 1 \in Positions
            BY <1>3, QueueAssumption DEF Positions
        <3> QED
            BY <3>1, <1>1, <1>2, <1>7 DEF Shape, offset
    <2>4. \A x \in Senders : written'[x] <= Len(values[x])
        <3> SUFFICES ASSUME NEW x \in Senders PROVE written'[x] <= Len(values[x])
            OBVIOUS
        <3>1. CASE x = s
            BY <3>1, <1>3, <1>8
        <3>2. CASE x # s
            BY <3>2, <1>1, <1>8 DEF Shape
        <3> QED
            BY <3>1, <3>2
    <2> QED
        BY <2>1, <2>2, <2>3, <2>4, <1>1, <1>2 DEF Shape
<1>10. LapInv'
    <2>1. Unreserved' = Unreserved
        BY <1>2, <1>8 DEF Unreserved, Waiting
    <2> QED
        BY <2>1, <1>2 DEF QueueInv, LapInv
<1>11. \A x \in Senders : /\ Holding(x)' <=> Holding(x)
                          /\ End(x)' = End(x)
                          /\ pc[x] = "dead" => pc'[x] = "dead"
    BY <1>2, <1>8 DEF Holding, End
<1>12. PositionInv' /\ ApartInv' /\ CoverInv'
    BY <1>2, <1>11, StretchesKept
<1>13. SenderInv'
    <2> SUFFICES ASSUME NEW x \in Senders PROVE SenderAt(x)'
        BY DEF SenderInv
    <2>1. SenderAt(x)
        BY SenderNow
    <2>2. CASE x = s
        <3>1. Holding(s) /\ Holding(s)'
            BY <1>2, <1>11 DEF Holding
        <3>2. /\ values[s] \in Messages[s]
              /\ sender_done_position <= starting_position[s] /\ End(s) <= sender_reserve_position
              /\ \A i \in 1 .. written[s] : memory[starting_position[s] + i - 1] = values[s][i]
            BY <2>1, <2>2, <3>1 DEF SenderAt
        <3>3. new_mem_offset'[s] = starting_position[s] + written'[s]
            BY <1>3, <1>4, <1>8
        <3>4. pc'[s] = "write" <=> written'[s] # Len(values[s])
            BY <1>8
        <3>5. ASSUME NEW i \in 1 .. written'[s]
              PROVE  memory'[starting_position[s] + i - 1] = values[s][i]
            <4>1. CASE i = written[s] + 1
                BY <4>1, <1>3, <1>4, <1>6 DEF word
            <4>2. CASE i # written[s] + 1
                <5>1. i \in 1 .. written[s]
                    BY <4>2, <1>4, <1>8
                <5>2. starting_position[s] + i - 1 \in Nat \ {offset}
                    <6>1. offset = starting_position[s] + written[s] /\ offset \in Nat
                        BY <1>3
                    <6> QED
                        BY ONLY <5>1, <6>1, <1>4
                <5> QED
                    BY <5>1, <5>2, <3>2, <1>6
            <4> QED
                BY <4>1, <4>2
        <3> QED
            BY <2>2, <3>1, <3>2, <3>3, <3>4, <3>5, <1>2, <1>8, <1>11 DEF SenderAt
    <2>3. CASE x # s
        <3>1. ASSUME Holding(x), NEW i \in 1 .. written[x]
              PROVE  memory'[starting_position[x] + i - 1] = memory[starting_position[x] + i - 1]
            <4>1. offset < starting_position[x] \/ End(x) <= offset
                BY <2>3, <3>1, <1>3
            <4>2. /\ starting_position[x] \in Nat /\ written[x] \in Nat /\ Len(values[x]) \in Nat
                  /\ written[x] <= Len(values[x]) /\ End(x) = starting_position[x] + Len(values[x])
                BY SenderNow DEF End
            <4>3. starting_position[x] + i - 1 \in Nat \ {offset}
                BY <4>1, <4>2, <1>3
            <4> QED
                BY <4>3, <1>6
        <3> QED
            BY <2>1, <2>3, <3>1, <1>2, <1>8, <1>11 DEF SenderAt
    <2> QED
        BY <2>2, <2>3
<1> QED
    BY <1>9, <1>10, <1>12, <1>13 DEF QueueInv

\* The positions at a commit.
LEMMA CommitFacts ==
    ASSUME OneLap, QueueInv, NEW s \in Senders, commit_memory(s)
    PROVE  /\ Holding(s) /\ values[s] \in Messages[s] /\ starting_position[s] = sender_done_position
           /\ sender_done_position' = End(s) /\ End(s) <= sender_reserve_position
           /\ sender_done_position' = sender_done_position + Len(values[s])
           /\ \A i \in 1 .. Len(values[s]) : memory[sender_done_position + i - 1] = values[s][i]
<1>1. /\ pc[s] = "commit" /\ sender_done_position = starting_position[s]
      /\ sender_done_position' = CommittedEnd(starting_position[s], Len(values[s]))
    BY DEF commit_memory
<1>2. /\ SenderAt(s) /\ Holding(s) /\ Len(values[s]) \in Nat
      /\ End(s) = starting_position[s] + Len(values[s]) /\ End(s) \in Nat
    BY <1>1, SenderNow DEF Holding, End
<1>3. /\ values[s] \in Messages[s] /\ End(s) <= sender_reserve_position
      /\ written[s] = Len(values[s])
      /\ \A i \in 1 .. written[s] : memory[starting_position[s] + i - 1] = values[s][i]
    BY <1>1, <1>2 DEF SenderAt
<1>4. ~ (starting_position[s] + Len(values[s]) > mmap_size)
    BY <1>2, <1>3, BelowTheEnd, QueueAssumption
<1> QED
    BY <1>1, <1>2, <1>3, <1>4 DEF CommittedEnd

LEMMA StepCommits ==
    ASSUME OneLap, QueueInv, NEW s \in Senders, commit_memory(s)
    PROVE  QueueInv'
<1>1. Shape
    BY ShapeNow
<1>2. /\ pc[s] = "commit" /\ pc' = [pc EXCEPT ![s] = "idle"]
      /\ values' = [values EXCEPT ![s] = <<>>]
      /\ starting_position' = [starting_position EXCEPT ![s] = 0]
      /\ new_mem_offset' = [new_mem_offset EXCEPT ![s] = 0]
      /\ written' = [written EXCEPT ![s] = 0]
      /\ UNCHANGED <<memory, sender_reserve_position, total,
                     user_position, receiver, expected, got>>
    BY DEF commit_memory, receiverVars
<1>3. /\ Holding(s) /\ values[s] \in Messages[s] /\ starting_position[s] = sender_done_position
      /\ sender_done_position' = End(s) /\ End(s) <= sender_reserve_position
      /\ sender_done_position' = sender_done_position + Len(values[s])
    BY CommitFacts
<1>4. /\ pc'[s] = "idle" /\ values'[s] = <<>> /\ written'[s] = 0
      /\ \A x \in Senders \ {s} :
             /\ pc'[x] = pc[x] /\ values'[x] = values[x] /\ written'[x] = written[x]
             /\ starting_position'[x] = starting_position[x]
             /\ new_mem_offset'[x] = new_mem_offset[x]
    BY <1>1, <1>2 DEF Shape
<1>5. Len(values[s]) \in Nat \ {0} /\ sender_done_position \in Nat
      /\ msqh_size <= sender_done_position /\ sender_reserve_position \in Nat
    BY <1>3, MessageFacts, BelowTheEnd
<1>6. Shape'
    <2>1. 0 \in Positions /\ <<>> \in Seq(Nat) /\ Len(<<>>) = 0
        BY QueueAssumption DEF Positions
    <2>2. /\ pc' \in [Senders -> Stages] /\ values' \in [Senders -> Seq(Nat)]
          /\ starting_position' \in [Senders -> Positions]
          /\ new_mem_offset' \in [Senders -> Positions] /\ written' \in [Senders -> Nat]
        BY <2>1, <1>1, <1>2 DEF Shape, Stages
    <2>3. \A x \in Senders : values'[x] \in Messages[x] \cup {<<>>} /\ written'[x] <= Len(values'[x])
        <3> SUFFICES ASSUME NEW x \in Senders
                     PROVE  /\ values'[x] \in Messages[x] \cup {<<>>}
                            /\ written'[x] <= Len(values'[x])
            OBVIOUS
        <3>1. CASE x = s
            BY <3>1, <2>1, <1>4
        <3>2. CASE x # s
            BY <3>2, <1>1, <1>4 DEF Shape
        <3> QED
            BY <3>1, <3>2
    <2>4. sender_done_position' \in Nat
        BY <1>3, <1>5
    <2> QED
        BY <2>2, <2>3, <2>4, <1>1, <1>2 DEF Shape
<1>7. LapInv'
    <2>1. Unreserved' = Unreserved
        BY <1>2, <1>4 DEF Unreserved, Waiting
    <2> QED
        BY <2>1, <1>2 DEF QueueInv, LapInv
<1>8. PositionInv'
    BY <1>2, <1>3, <1>5 DEF PositionInv, msqh_size
<1>9. /\ ~Holding(s)'
      /\ \A x \in Senders \ {s} : (Holding(x)' <=> Holding(x)) /\ End(x)' = End(x)
    BY <1>4 DEF Holding, End
<1>10. ASSUME NEW x \in Senders \ {s}, Holding(x)
       PROVE  sender_done_position' <= starting_position[x]
    <2>1. End(s) <= starting_position[x] \/ End(x) <= starting_position[s]
        BY <1>3, <1>10 DEF QueueInv, ApartInv
    <2>2. SenderAt(x) /\ starting_position[x] \in Nat
        BY SenderNow
    <2>3. sender_done_position <= starting_position[x] /\ values[x] \in Messages[x]
        BY <2>2, <1>10 DEF SenderAt
    <2>4. Len(values[x]) \in Nat \ {0}
        BY <2>3, MessageFacts
    <2> QED
        BY <2>1, <2>2, <2>3, <2>4, <1>3, <1>5 DEF End
<1>11. SenderInv'
    <2> SUFFICES ASSUME NEW x \in Senders PROVE SenderAt(x)'
        BY DEF SenderInv
    <2>1. CASE x = s
        BY <2>1, <1>4, <1>9 DEF SenderAt, Waiting
    <2>2. CASE x # s
        <3>1. SenderAt(x)
            BY SenderNow
        <3> QED
            BY <2>2, <3>1, <1>2, <1>4, <1>9, <1>10 DEF SenderAt
    <2> QED
        BY <2>1, <2>2
<1>12. ApartInv'
    BY <1>4, <1>9 DEF QueueInv, ApartInv
<1>13. CoverInv'
    <2>1. CASE \E x \in Senders : pc[x] = "dead"
        BY <2>1, <1>2, <1>4 DEF CoverInv
    <2>2. CASE ~\E x \in Senders : pc[x] = "dead"
        <3> SUFFICES ASSUME NEW p \in sender_done_position' .. sender_reserve_position - 1
                     PROVE  \E x \in Senders :
                                Holding(x)' /\ p \in starting_position'[x] .. End(x)' - 1
            BY <1>2 DEF CoverInv
        <3>1. p \in sender_done_position .. sender_reserve_position - 1
            BY <1>3, <1>5
        <3>2. PICK x \in Senders : Holding(x) /\ p \in starting_position[x] .. End(x) - 1
            BY <2>2, <3>1 DEF QueueInv, CoverInv
        <3>3. x # s
            <4>1. ~ (p \in starting_position[s] .. End(s) - 1)
                BY <1>3, <1>5
            <4> QED
                BY <4>1, <3>2
        <3> QED
            BY <3>2, <3>3, <1>4, <1>9
    <2> QED
        BY <2>1, <2>2
<1> QED
    BY <1>6, <1>7, <1>8, <1>11, <1>12, <1>13 DEF QueueInv

LEMMA StepCrashes ==
    ASSUME QueueInv, NEW s \in Senders, crash(s)
    PROVE  QueueInv'
<1>1. Shape
    BY ShapeNow
<1>2. /\ pc' = [pc EXCEPT ![s] = "dead"]
      /\ UNCHANGED <<memory, sender_reserve_position, sender_done_position, values,
                     starting_position, new_mem_offset, written, total,
                     user_position, receiver, expected, got>>
    BY DEF crash, receiverVars
<1>3. pc'[s] = "dead" /\ \A x \in Senders \ {s} : pc'[x] = pc[x]
    BY <1>1, <1>2 DEF Shape
<1>4. Shape'
    BY <1>1, <1>2 DEF Shape, Stages
<1>5. LapInv'
    <2>1. Unreserved' \subseteq Unreserved
        BY <1>2, <1>3 DEF Unreserved, Waiting
    <2>2. IsFiniteSet(Unreserved)
        BY DEF QueueInv, LapInv
    <2>3. /\ IsFiniteSet(Unreserved') /\ Cardinality(Unreserved') <= Cardinality(Unreserved)
          /\ Cardinality(Unreserved') \in Nat /\ Cardinality(Unreserved) \in Nat
        BY <2>1, <2>2, NoMoreWait, FS_CardinalityType
    <2>4. sender_reserve_position \in Nat /\ total \in Nat
        BY <1>1 DEF Shape
    <2> QED
        BY <2>3, <2>4, <1>2 DEF QueueInv, LapInv, msqh_size
<1>6. PositionInv' /\ ApartInv' /\ CoverInv'
    <2>1. \A x \in Senders : Holding(x)' => Holding(x)
        BY <1>3 DEF Holding
    <2> QED
        BY <2>1, <1>2, <1>3, StretchesKept
<1>7. SenderInv'
    <2> SUFFICES ASSUME NEW x \in Senders PROVE SenderAt(x)'
        BY DEF SenderInv
    <2>1. CASE x = s
        BY <2>1, <1>3 DEF SenderAt, Holding, Waiting
    <2>2. CASE x # s
        BY <2>2, <1>2, <1>3, SenderKept
    <2> QED
        BY <2>1, <2>2
<1> QED
    BY <1>4, <1>5, <1>6, <1>7 DEF QueueInv

-----------------------------------------------------------------------------
(* The steps of the receiver *)

\* One word is read.
LEMMA NextValue ==
    ASSUME Shape, get_next_value
    PROVE  /\ user_position' \in msqh_size .. mmap_size + 1 /\ got' \in Nat
           /\ user_position' = IF user_position > mmap_size THEN msqh_size ELSE user_position + 1
           /\ got' = memory[user_position]
           /\ UNCHANGED <<memory, sender_reserve_position, sender_done_position, pc, values,
                          starting_position, new_mem_offset, written, total>>
<1>1. /\ got' = memory[user_position] /\ user_position < mapped_words
      /\ user_position' = IF user_position > mmap_size THEN msqh_size ELSE user_position + 1
      /\ UNCHANGED <<memory, sender_reserve_position, sender_done_position, pc, values,
                     starting_position, new_mem_offset, written, total>>
    BY DEF get_next_value, senderVars
<1>2. user_position \in msqh_size .. mmap_size + 1
    BY DEF Shape
<1>3. memory[user_position] \in Nat
    <2>1. user_position \in msqh_size .. mapped_words - 1
        BY <1>1, <1>2, QueueAssumption DEF msqh_size
    <2> QED
        BY <2>1 DEF Shape
<1>4. user_position' \in msqh_size .. mmap_size + 1
    BY <1>1, <1>2, QueueAssumption DEF msqh_size
<1> QED
    BY <1>1, <1>3, <1>4

LEMMA StepReceives ==
    ASSUME QueueInv, Receive
    PROVE  QueueInv'
<1>1. Shape
    BY ShapeNow
<1>2. UNCHANGED <<memory, sender_reserve_position, sender_done_position, pc, values,
                  starting_position, new_mem_offset, written, total>>
    <2>1. CASE should_I_load
        BY <2>1 DEF should_I_load, senderVars
    <2>2. CASE handle_queue_event
        BY <2>2, <1>1, NextValue DEF handle_queue_event
    <2>3. CASE read_argument
        BY <2>3, <1>1, NextValue DEF read_argument
    <2> QED
        BY <2>1, <2>2, <2>3 DEF Receive
<1>3. /\ user_position' \in msqh_size .. mmap_size + 1 /\ got' \in Nat
      /\ receiver' \in {"polling", "event", "arguments", "aborted"}
      /\ expected' \in 0 .. 2 /\ (receiver' = "arguments" => expected' # 0)
    <2>1. CASE should_I_load
        BY <2>1, <1>1 DEF should_I_load, Shape
    <2>2. CASE handle_queue_event
        <3>1. user_position' \in msqh_size .. mmap_size + 1 /\ got' \in Nat
            BY <2>2, <1>1, NextValue DEF handle_queue_event
        <3>2. /\ expected' = IF got' \in Handled THEN Arguments[got'] ELSE 0
              /\ receiver' = IF got' \notin Handled THEN "aborted"
                             ELSE IF expected' = 0 THEN "polling" ELSE "arguments"
            BY <2>2 DEF handle_queue_event
        <3>3. expected' \in 0 .. 2
            BY <3>2, ArgumentFacts
        <3> QED
            BY <3>1, <3>2, <3>3
    <2>3. CASE read_argument
        <3>1. user_position' \in msqh_size .. mmap_size + 1 /\ got' \in Nat
            BY <2>3, <1>1, NextValue DEF read_argument
        <3>2. /\ receiver = "arguments" /\ expected' = expected - 1
              /\ receiver' = IF expected' = 0 THEN "polling" ELSE "arguments"
            BY <2>3 DEF read_argument
        <3>3. expected \in 1 .. 2
            BY <3>2, <1>1 DEF Shape
        <3> QED
            BY <3>1, <3>2, <3>3
    <2> QED
        BY <2>1, <2>2, <2>3 DEF Receive
<1>4. Shape'
    BY <1>1, <1>2, <1>3 DEF Shape
<1>5. LapInv'
    <2>1. Unreserved' = Unreserved
        BY <1>2 DEF Unreserved
    <2> QED
        BY <2>1, <1>2 DEF QueueInv, LapInv
<1>6. PositionInv' /\ ApartInv' /\ CoverInv'
    <2>1. \A x \in Senders : Holding(x)' <=> Holding(x)
        BY <1>2 DEF Holding
    <2> QED
        BY <2>1, <1>2, StretchesKept
<1>7. SenderInv'
    BY <1>2, SenderKept DEF SenderInv
<1> QED
    BY <1>4, <1>5, <1>6, <1>7 DEF QueueInv

-----------------------------------------------------------------------------
(* The senders' theorems *)

LEMMA QueueInitially == OneLap /\ QueueInit => QueueInv
<1> SUFFICES ASSUME OneLap, QueueInit PROVE QueueInv
    OBVIOUS
<1>1. \A s \in Senders : pc[s] = "idle" /\ values[s] = <<>> /\ written[s] = 0
    BY DEF QueueInit
<1>2. Shape
    <2>1. 0 \in Positions /\ <<>> \in Seq(Nat) /\ Len(<<>>) = 0 /\ msqh_size \in Nat
        BY QueueAssumption DEF Positions, msqh_size
    <2>2. /\ pc \in [Senders -> Stages] /\ values \in [Senders -> Seq(Nat)]
          /\ starting_position \in [Senders -> Positions]
          /\ new_mem_offset \in [Senders -> Positions] /\ written \in [Senders -> Nat]
          /\ memory \in [msqh_size .. mapped_words - 1 -> Nat]
        BY <2>1 DEF QueueInit, Stages
    <2>3. user_position \in msqh_size .. mmap_size + 1 /\ total \in 0 .. MaxWords
        BY QueueAssumption DEF QueueInit, msqh_size
    <2>4. /\ \A s \in Senders : values[s] \in Messages[s] \cup {<<>>}
          /\ \A s \in Senders : written[s] <= Len(values[s])
        BY <1>1, <2>1
    <2> QED
        BY <2>1, <2>2, <2>3, <2>4 DEF QueueInit, Shape
<1>3. LapInv
    <2>1. Unreserved = {}
        BY <1>1 DEF Unreserved, Waiting
    <2>2. IsFiniteSet(Unreserved) /\ Cardinality(Unreserved) = 0
        BY <2>1, FS_EmptySet
    <2> QED
        BY <2>2 DEF QueueInit, LapInv, msqh_size
<1>4. PositionInv
    BY DEF QueueInit, PositionInv, msqh_size
<1>5. \A s \in Senders : ~Holding(s) /\ pc[s] \notin Waiting
    BY <1>1 DEF Holding, Waiting
<1>6. SenderInv /\ ApartInv
    BY <1>1, <1>5 DEF SenderInv, SenderAt, ApartInv
<1>7. CoverInv
    BY DEF QueueInit, CoverInv, msqh_size
<1> QED
    BY <1>2, <1>3, <1>4, <1>6, <1>7 DEF QueueInv

LEMMA QueueStutters == QueueInv /\ UNCHANGED queueVars => QueueInv'
<1> SUFFICES ASSUME QueueInv, UNCHANGED queueVars PROVE QueueInv'
    OBVIOUS
<1>1. UNCHANGED <<memory, sender_reserve_position, sender_done_position, pc, values,
                  starting_position, new_mem_offset, written, total,
                  user_position, receiver, expected, got>>
    BY DEF queueVars, senderVars, receiverVars
<1>2. Shape'
    BY <1>1, ShapeNow DEF Shape
<1>3. LapInv'
    <2>1. Unreserved' = Unreserved
        BY <1>1 DEF Unreserved
    <2> QED
        BY <2>1, <1>1 DEF QueueInv, LapInv
<1>4. PositionInv' /\ ApartInv' /\ CoverInv'
    <2>1. \A x \in Senders : Holding(x)' <=> Holding(x)
        BY <1>1 DEF Holding
    <2> QED
        BY <2>1, <1>1, StretchesKept
<1>5. SenderInv'
    BY <1>1, SenderKept DEF SenderInv
<1> QED
    BY <1>2, <1>3, <1>4, <1>5 DEF QueueInv

LEMMA QueueInduction == OneLap /\ QueueInv /\ [QueueNext]_queueVars => QueueInv'
<1> SUFFICES ASSUME OneLap, QueueInv, [QueueNext]_queueVars PROVE QueueInv'
    OBVIOUS
<1>1. ASSUME NEW s \in Senders, write_values(s) PROVE QueueInv'
    BY <1>1, StepWriteValues
<1>2. ASSUME NEW s \in Senders, Send(s) PROVE QueueInv'
    BY <1>2, StepLoads, StepAllocates, StepWrites, StepCommits DEF Send
<1>3. ASSUME NEW s \in Senders, crash(s) PROVE QueueInv'
    BY <1>3, StepCrashes
<1>4. CASE Receive
    BY <1>4, StepReceives
<1>5. CASE UNCHANGED queueVars
    BY <1>5, QueueStutters
<1> QED
    BY <1>1, <1>2, <1>3, <1>4, <1>5 DEF QueueNext

\* The senders' invariant holds within one lap, whoever is killed.
THEOREM QueueInvariant ==
    ASSUME OneLap
    PROVE  QueueSpec => []QueueInv
<1>1. QueueInit => QueueInv
    BY QueueInitially
<1>2. QueueInv /\ [QueueNext]_queueVars => QueueInv'
    BY QueueInduction
<1> QED
    BY <1>1, <1>2, PTL DEF QueueSpec

\* Every position stays in the ring, and a sender never writes a word too many.
THEOREM QueueTypeCorrect ==
    ASSUME OneLap
    PROVE  QueueSpec => []QueueTypeOK
<1>1. QueueInv => QueueTypeOK
    <2> SUFFICES ASSUME QueueInv PROVE QueueTypeOK
        OBVIOUS
    <2>1. Shape
        BY ShapeNow
    <2>2. sender_reserve_position \in msqh_size .. mmap_size - 1
        BY BelowTheEnd, QueueAssumption DEF msqh_size
    <2>3. {sender_done_position, user_position} \subseteq Positions
        <3>1. user_position \in msqh_size .. mmap_size + 1
            BY <2>1 DEF Shape
        <3>2. sender_done_position \in Positions
            BY BelowTheEnd, QueueAssumption DEF Positions, msqh_size
        <3>3. user_position \in Positions
            BY <3>1, QueueAssumption DEF Positions, msqh_size
        <3> QED
            BY <3>2, <3>3
    <2>4. ASSUME NEW s \in Senders PROVE written[s] \in 0 .. Len(values[s])
        <3>1. written[s] \in Nat /\ Len(values[s]) \in Nat /\ written[s] <= Len(values[s])
            BY SenderNow
        <3> QED
            BY <3>1
    <2> QED
        BY <2>1, <2>2, <2>3, <2>4 DEF QueueTypeOK, Shape, Stages
<1> QED
    BY <1>1, QueueInvariant, PTL

\* No sender's stretch meets another's, or what is committed and unread.
THEOREM WritersApart ==
    ASSUME OneLap
    PROVE  QueueSpec => []StretchesApart
<1>1. QueueInv => StretchesApart
    <2> SUFFICES ASSUME QueueInv PROVE StretchesApart
        OBVIOUS
    <2> DEFINE Stretch(s) == starting_position[s] .. starting_position[s] + Len(values[s]) - 1
    <2>1. ASSUME NEW s \in Senders, NEW t \in Senders, Holding(s), Holding(t), s # t
          PROVE  Stretch(s) \cap Stretch(t) = {}
        <3>1. End(s) <= starting_position[t] \/ End(t) <= starting_position[s]
            BY <2>1 DEF QueueInv, ApartInv
        <3>2. /\ starting_position[s] \in Nat /\ Len(values[s]) \in Nat
              /\ starting_position[t] \in Nat /\ Len(values[t]) \in Nat
            BY SenderNow
        <3>3. \/ starting_position[s] + Len(values[s]) <= starting_position[t]
              \/ starting_position[t] + Len(values[t]) <= starting_position[s]
            BY <3>1 DEF End
        <3> SUFFICES ASSUME NEW p, p \in Stretch(s), p \in Stretch(t) PROVE FALSE
            OBVIOUS
        <3>4. FALSE
            <4>1. p \in Int /\ starting_position[s] <= p /\ p < starting_position[s] + Len(values[s])
                BY ONLY <3>2, p \in Stretch(s)
            <4>2. starting_position[t] <= p /\ p < starting_position[t] + Len(values[t])
                BY ONLY <3>2, p \in Stretch(t)
            <4> QED
                BY ONLY <3>2, <3>3, <4>1, <4>2
        <3> QED
            BY <3>4
    <2>2. ASSUME NEW s \in Senders, Holding(s)
          PROVE  Stretch(s) \cap (user_position .. sender_done_position - 1) = {}
        <3>1. sender_done_position <= starting_position[s]
            BY <2>2, SenderNow DEF SenderAt
        <3>2. /\ starting_position[s] \in Nat /\ Len(values[s]) \in Nat
              /\ sender_done_position \in Nat
            BY SenderNow, BelowTheEnd
        <3>3. user_position \in Nat
            BY ShapeNow, QueueAssumption DEF Shape, msqh_size
        <3> QED
            BY <3>1, <3>2, <3>3
    <2> QED
        BY <2>1, <2>2 DEF StretchesApart
<1> QED
    BY <1>1, QueueInvariant, PTL

\* With no sender under way, all that is reserved is committed.
THEOREM Agreement ==
    ASSUME OneLap
    PROVE  QueueSpec => []PositionsAgree
<1>1. QueueInv => PositionsAgree
    <2> SUFFICES ASSUME QueueInv, \A s \in Senders : pc[s] \in {"idle", "load", "reserve"}
                 PROVE  sender_done_position = sender_reserve_position
        BY DEF PositionsAgree
    <2>1. \A p \in sender_done_position .. sender_reserve_position - 1 :
              \E s \in Senders : Holding(s)
        BY DEF QueueInv, CoverInv
    <2>2. \A s \in Senders : ~Holding(s)
        BY DEF Holding
    <2>3. sender_done_position \notin sender_done_position .. sender_reserve_position - 1
        BY <2>1, <2>2
    <2> QED
        BY <2>3, BelowTheEnd
<1> QED
    BY <1>1, QueueInvariant, PTL

-----------------------------------------------------------------------------
(* The invariant of the receiver: what is committed is whole messages, and   *)
(* the receiver is where its loop takes it to be.                            *)

AllMessages == UNION {Messages[s] : s \in Senders}

\* At b begins message m, all of which is committed.
Message(b, m) == \A i \in 1 .. Len(m) : memory[b + i - 1] = m[i]

\* The messages begin at the positions B.
Parsed(B) ==
    /\ sender_done_position \in B
    /\ \A b \in B : b <= sender_done_position
    /\ \A b \in B : b = sender_done_position
                    \/ \E m \in AllMessages : Message(b, m) /\ b + Len(m) \in B
    /\ receiver \in {"polling", "event"} => user_position \in B
    /\ receiver = "event" => user_position # sender_done_position
    /\ receiver = "arguments" => user_position + expected \in B
    /\ receiver # "aborted"
ReceiverInv == \E B \in SUBSET Nat : Parsed(B)

LEMMA AllMessageFacts ==
    ASSUME WholeMessages, NEW m \in AllMessages
    PROVE  /\ m \in Seq(Nat) /\ m # <<>> /\ Len(m) \in Nat \ {0}
           /\ \A i \in 1 .. Len(m) : m[i] \in Nat
           /\ m[1] \in Handled /\ Len(m) = 1 + Arguments[m[1]]
BY MessageFacts DEF AllMessages, WholeMessages

\* The receiver does not overtake the senders, so that it does not reach the end.
LEMMA ReceiverBehind ==
    ASSUME OneLap, QueueInv, NEW B \in SUBSET Nat, Parsed(B)
    PROVE  /\ user_position \in Nat /\ msqh_size <= user_position
           /\ user_position <= sender_done_position
           /\ receiver \in {"event", "arguments"} => user_position < sender_done_position
           /\ user_position < mmap_size
<1>1. /\ user_position \in msqh_size .. mmap_size + 1 /\ expected \in 0 .. 2
      /\ receiver \in {"polling", "event", "arguments", "aborted"}
      /\ receiver = "arguments" => expected # 0
    BY ShapeNow DEF Shape
<1>2. user_position \in Nat /\ msqh_size <= user_position
    BY <1>1, QueueAssumption DEF msqh_size
<1>3. receiver = "arguments" => user_position + expected <= sender_done_position
    BY DEF Parsed
<1>4. receiver # "arguments" => user_position <= sender_done_position
    BY <1>1 DEF Parsed
<1>5. receiver = "event" => user_position # sender_done_position
    BY DEF Parsed
<1>6. sender_done_position \in Nat /\ sender_done_position < mmap_size
    BY BelowTheEnd, QueueAssumption
<1> QED
    BY <1>1, <1>2, <1>3, <1>4, <1>5, <1>6, QueueAssumption

\* The words of a committed message are below the done position.
LEMMA MessageBelow ==
    ASSUME QueueInv, NEW B \in SUBSET Nat, Parsed(B), NEW b \in B, NEW m \in AllMessages,
           WholeMessages, b + Len(m) \in B, NEW i \in 1 .. Len(m)
    PROVE  b + i - 1 \in Nat /\ b + i - 1 < sender_done_position
<1>1. b + Len(m) <= sender_done_position
    BY DEF Parsed
<1>2. Len(m) \in Nat /\ b \in Nat
    BY AllMessageFacts
<1>3. sender_done_position \in Nat
    BY ShapeNow DEF Shape
<1> QED
    BY <1>1, <1>2, <1>3

\* A step that changes nothing below the done position, nor anything of the receiver.
LEMMA ParsedKept ==
    ASSUME WholeMessages, QueueInv, NEW B \in SUBSET Nat, Parsed(B),
           UNCHANGED <<sender_done_position, user_position, receiver, expected>>,
           \A p \in Nat : p < sender_done_position => memory'[p] = memory[p]
    PROVE  Parsed(B)'
<1>1. ASSUME NEW b \in B, NEW m \in AllMessages, Message(b, m), b + Len(m) \in B
      PROVE  Message(b, m)'
    <2> SUFFICES ASSUME NEW i \in 1 .. Len(m) PROVE memory'[b + i - 1] = m[i]
        BY DEF Message
    <2>1. b + i - 1 \in Nat /\ b + i - 1 < sender_done_position
        BY <1>1, MessageBelow
    <2> QED
        BY <2>1, <1>1 DEF Message
<1>2. ASSUME NEW b \in B, b # sender_done_position
      PROVE  \E m \in AllMessages : Message(b, m)' /\ b + Len(m) \in B
    <2>1. PICK m \in AllMessages : Message(b, m) /\ b + Len(m) \in B
        BY <1>2 DEF Parsed
    <2> QED
        BY <2>1, <1>1
<1> QED
    BY <1>2 DEF Parsed

LEMMA StepSends ==
    ASSUME OneLap, WholeMessages, QueueInv, ReceiverInv, NEW s \in Senders,
           write_values(s) \/ Send(s) \/ crash(s), ~commit_memory(s)
    PROVE  ReceiverInv'
<1>1. PICK B \in SUBSET Nat : Parsed(B)
    BY DEF ReceiverInv
<1>2. CASE write_word(s)
    <2> DEFINE offset == new_mem_offset[s]
    <2>1. /\ pc[s] = "write" /\ memory' = [memory EXCEPT ![offset] = values[s][written[s] + 1]]
          /\ UNCHANGED <<sender_done_position, user_position, receiver, expected>>
        BY <1>2 DEF write_word, receiverVars
    <2>2. sender_done_position <= offset /\ offset \in Nat /\ sender_done_position \in Nat
        BY <2>1, WriteFacts, BelowTheEnd
    <2> HIDE DEF offset
    <2>3. memory \in [msqh_size .. mapped_words - 1 -> Nat]
        BY ShapeNow DEF Shape
    <2>4. \A p \in Nat : p < sender_done_position => memory'[p] = memory[p]
        BY <2>1, <2>2, <2>3
    <2> QED
        BY <2>1, <2>4, <1>1, ParsedKept DEF ReceiverInv
<1>3. CASE ~write_word(s)
    <2>1. UNCHANGED <<memory, sender_done_position, user_position, receiver, expected>>
        BY <1>3 DEF write_values, Send, crash, load_reserve_position, allocate_memory,
                    allocate_memory_again, receiverVars
    <2> QED
        BY <2>1, <1>1, ParsedKept DEF ReceiverInv
<1> QED
    BY <1>2, <1>3

LEMMA StepSendsMessage ==
    ASSUME OneLap, WholeMessages, QueueInv, ReceiverInv, NEW s \in Senders, commit_memory(s)
    PROVE  ReceiverInv'
<1>1. PICK B \in SUBSET Nat : Parsed(B)
    BY DEF ReceiverInv
<1> DEFINE m == values[s]
<1>2. /\ m \in Messages[s]
      /\ sender_done_position' = sender_done_position + Len(m)
      /\ Message(sender_done_position, m)
    BY CommitFacts DEF Message
<1>3. UNCHANGED <<memory, user_position, receiver, expected>>
    BY DEF commit_memory, receiverVars
<1>4. m \in AllMessages /\ Len(m) \in Nat \ {0} /\ sender_done_position \in Nat
    BY <1>2, MessageFacts, BelowTheEnd DEF AllMessages
<1>5. PICK done \in Nat : done = sender_done_position'
    BY <1>2, <1>4
<1> HIDE DEF m
<1> DEFINE C == B \cup {done}
<1>6. \A b \in C : b <= done
    BY <1>2, <1>4, <1>1, <1>5 DEF Parsed
<1>7. ASSUME NEW b \in C, b # done
      PROVE  \E k \in AllMessages : Message(b, k)' /\ b + Len(k) \in C
    <2>1. CASE b = sender_done_position
        BY <2>1, <1>2, <1>3, <1>4, <1>5 DEF Message
    <2>2. CASE b # sender_done_position
        BY <2>2, <1>1, <1>3, <1>7 DEF Parsed, Message
    <2> QED
        BY <2>1, <2>2
<1>8. receiver = "event" => user_position # done
    <2>1. user_position <= sender_done_position /\ user_position \in Nat
        BY <1>1, ReceiverBehind
    <2> QED
        BY <2>1, <1>2, <1>4, <1>5
<1>9. done \in C /\ B \subseteq C
    OBVIOUS
<1>10. C \in SUBSET Nat
    BY <1>5
<1> HIDE DEF C
<1>11. Parsed(C)'
    BY <1>1, <1>3, <1>5, <1>6, <1>7, <1>8, <1>9 DEF Parsed
<1> QED
    BY <1>10, <1>11 DEF ReceiverInv

\* What the receiver reads, and where it is afterwards.
LEMMA Reads ==
    ASSUME OneLap, QueueInv, NEW B \in SUBSET Nat, Parsed(B), get_next_value,
           receiver \in {"event", "arguments"}
    PROVE  /\ user_position' = user_position + 1 /\ got' = memory[user_position]
           /\ user_position \in Nat /\ user_position < sender_done_position
           /\ UNCHANGED <<memory, sender_done_position>>
<1>1. user_position \in Nat /\ user_position < sender_done_position /\ user_position < mmap_size
    BY ReceiverBehind
<1>2. /\ user_position' = IF user_position > mmap_size THEN msqh_size ELSE user_position + 1
      /\ got' = memory[user_position] /\ UNCHANGED <<memory, sender_done_position>>
    BY ShapeNow, NextValue
<1> QED
    BY <1>1, <1>2, QueueAssumption

LEMMA StepReceivesMessage ==
    ASSUME OneLap, WholeMessages, QueueInv, ReceiverInv, Receive
    PROVE  ReceiverInv'
<1>1. PICK B \in SUBSET Nat : Parsed(B)
    BY DEF ReceiverInv
<1>2. CASE should_I_load
    <2>1. /\ receiver = "polling" /\ receiver' = "event"
          /\ sender_done_position # user_position
          /\ UNCHANGED <<memory, sender_done_position, user_position, expected>>
        BY <1>2 DEF should_I_load
    <2>2. Parsed(B)'
        BY <2>1, <1>1 DEF Parsed, Message
    <2> QED
        BY <2>2 DEF ReceiverInv
<1>3. CASE handle_queue_event
    <2>1. /\ receiver = "event" /\ get_next_value
          /\ expected' = IF got' \in Handled THEN Arguments[got'] ELSE 0
          /\ receiver' = IF got' \notin Handled THEN "aborted"
                         ELSE IF expected' = 0 THEN "polling" ELSE "arguments"
        BY <1>3 DEF handle_queue_event
    <2>2. /\ user_position' = user_position + 1 /\ got' = memory[user_position]
          /\ user_position \in Nat /\ UNCHANGED <<memory, sender_done_position>>
        BY <2>1, <1>1, Reads
    <2>3. PICK m \in AllMessages : Message(user_position, m) /\ user_position + Len(m) \in B
        BY <2>1, <1>1 DEF Parsed
    <2>4. /\ m[1] \in Handled /\ Len(m) = 1 + Arguments[m[1]] /\ Len(m) \in Nat \ {0}
        BY AllMessageFacts
    <2>5. got' = m[1]
        BY <2>2, <2>3, <2>4 DEF Message
    <2>6. expected' = Arguments[m[1]] /\ expected' \in 0 .. 2
        BY <2>1, <2>4, <2>5, ArgumentFacts
    <2>7. user_position' + expected' \in B
        <3>1. (user_position + 1) + Arguments[m[1]] = user_position + Len(m)
            BY <2>2, <2>4, <2>6
        <3> QED
            BY <3>1, <2>2, <2>3, <2>6
    <2>8. receiver' = IF expected' = 0 THEN "polling" ELSE "arguments"
        BY <2>1, <2>4, <2>5
    <2>9. expected' = 0 => user_position' \in B
        BY <2>2, <2>7
    <2>10. Parsed(B)'
        BY <2>2, <2>7, <2>8, <2>9, <1>1 DEF Parsed, Message
    <2> QED
        BY <2>10 DEF ReceiverInv
<1>4. CASE read_argument
    <2>1. /\ receiver = "arguments" /\ get_next_value
          /\ expected' = expected - 1
          /\ receiver' = IF expected' = 0 THEN "polling" ELSE "arguments"
        BY <1>4 DEF read_argument
    <2>2. /\ user_position' = user_position + 1
          /\ user_position \in Nat /\ UNCHANGED <<memory, sender_done_position>>
        BY <2>1, <1>1, Reads
    <2>3. user_position + expected \in B /\ expected \in 0 .. 2
        BY <2>1, <1>1, ShapeNow DEF Parsed, Shape
    <2>4. user_position' + expected' \in B
        <3>1. (user_position + 1) + (expected - 1) = user_position + expected
            BY <2>2, <2>3
        <3> QED
            BY <3>1, <2>1, <2>2, <2>3
    <2>5. expected' = 0 => user_position' \in B
        BY <2>2, <2>4
    <2>6. Parsed(B)'
        BY <2>1, <2>2, <2>4, <2>5, <1>1 DEF Parsed, Message
    <2> QED
        BY <2>6 DEF ReceiverInv
<1> QED
    BY <1>2, <1>3, <1>4 DEF Receive

LEMMA ReceiverInduction ==
    OneLap /\ WholeMessages /\ QueueInv /\ ReceiverInv /\ [QueueNext]_queueVars => ReceiverInv'
<1> SUFFICES ASSUME OneLap, WholeMessages, QueueInv, ReceiverInv, [QueueNext]_queueVars
             PROVE  ReceiverInv'
    OBVIOUS
<1>1. ASSUME NEW s \in Senders, write_values(s) \/ Send(s) \/ crash(s) PROVE ReceiverInv'
    BY <1>1, StepSends, StepSendsMessage
<1>2. CASE Receive
    BY <1>2, StepReceivesMessage
<1>3. CASE UNCHANGED queueVars
    <2>1. UNCHANGED <<memory, sender_done_position, user_position, receiver, expected>>
        BY <1>3 DEF queueVars, receiverVars
    <2> QED
        BY <2>1 DEF ReceiverInv, Parsed, Message
<1> QED
    BY <1>1, <1>2, <1>3 DEF QueueNext

LEMMA ReceiverInitially == QueueInit => ReceiverInv
<1> SUFFICES ASSUME QueueInit PROVE ReceiverInv
    OBVIOUS
<1>1. Parsed({msqh_size})
    BY DEF QueueInit, Parsed, msqh_size
<1>2. {msqh_size} \in SUBSET Nat
    BY DEF msqh_size
<1> QED
    BY <1>1, <1>2 DEF ReceiverInv

\* What is committed is whole messages, and the receiver is behind the senders.
THEOREM WholeInvariant ==
    ASSUME OneLap, WholeMessages
    PROVE  QueueSpec => [](QueueInv /\ ReceiverInv)
<1>1. QueueInit => QueueInv /\ ReceiverInv
    BY QueueInitially, ReceiverInitially
<1>2. (QueueInv /\ ReceiverInv) /\ [QueueNext]_queueVars => (QueueInv /\ ReceiverInv)'
    BY QueueInduction, ReceiverInduction
<1> QED
    BY <1>1, <1>2, PTL DEF QueueSpec

\* Wherever the receiver looks for an event it finds one of its switch.
THEOREM EventsFound ==
    ASSUME OneLap, WholeMessages
    PROVE  QueueSpec => []EventsAreEvents
<1>1. ReceiverInv => EventsAreEvents
    BY DEF ReceiverInv, Parsed, EventsAreEvents
<1> QED
    BY <1>1, WholeInvariant, PTL

-----------------------------------------------------------------------------
(* The queue is a channel *)

Words(f) == {f[p] : p \in Nat} \cup Nat

\* The words of memory f from position u to position d.
LEMMA ContentsFacts ==
    ASSUME NEW f, NEW u \in Nat, NEW d \in Nat, u <= d,
           NEW c, c = [i \in 1 .. d - u |-> f[u + i - 1]]
    PROVE  /\ c \in Seq(Words(f)) /\ Len(c) = d - u
           /\ \A i \in 1 .. d - u : c[i] = f[u + i - 1]
<1> DEFINE n == d - u
<1>1. n \in Nat /\ \A i \in 1 .. n : u + i - 1 \in Nat
    OBVIOUS
<1>2. \A i \in 1 .. n : f[u + i - 1] \in Words(f)
    BY <1>1 DEF Words
<1>3. c = [i \in 1 .. n |-> f[u + i - 1]]
    OBVIOUS
<1> HIDE DEF n
<1>4. c \in [1 .. n -> Words(f)]
    BY <1>2, <1>3
<1>5. c \in Seq(Words(f))
    BY <1>1, <1>4, SeqDef
<1>6. Len(c) = n
    BY <1>1, <1>3, <1>5, LenProperties
<1> QED
    BY <1>3, <1>5, <1>6 DEF n

\* A step that writes nothing below the done position and receives nothing.
LEMMA ContentsKept ==
    ASSUME user_position \in Nat, sender_done_position \in Nat,
           UNCHANGED <<user_position, sender_done_position>>,
           \A p \in Nat : p < sender_done_position => memory'[p] = memory[p]
    PROVE  Contents' = Contents
<1>1. \A i \in 1 .. sender_done_position - user_position :
          memory'[user_position + i - 1] = memory[user_position + i - 1]
    OBVIOUS
<1> QED
    BY <1>1 DEF Contents

\* A commit sends the message of its sender.
LEMMA CommitSends ==
    ASSUME OneLap, WholeMessages, QueueInv, ReceiverInv, NEW s \in Senders, commit_memory(s)
    PROVE  Contents' = Contents \o values[s] /\ values[s] \in AllMessages /\ got' = got
<1> DEFINE m == values[s]
<1>1. /\ m \in Messages[s]
      /\ sender_done_position' = sender_done_position + Len(m)
      /\ \A i \in 1 .. Len(m) : memory[sender_done_position + i - 1] = m[i]
    BY CommitFacts
<1>2. UNCHANGED <<memory, user_position, got>>
    BY DEF commit_memory, receiverVars
<1>3. m \in AllMessages /\ m \in Seq(Nat) /\ Len(m) \in Nat
    BY <1>1, MessageFacts DEF AllMessages
<1> HIDE DEF m
<1>4. /\ user_position \in Nat /\ sender_done_position \in Nat
      /\ user_position <= sender_done_position
    BY ReceiverBehind, BelowTheEnd DEF ReceiverInv
<1>5. /\ Contents \in Seq(Words(memory)) /\ Len(Contents) = sender_done_position - user_position
      /\ \A i \in 1 .. sender_done_position - user_position :
             Contents[i] = memory[user_position + i - 1]
    BY <1>4, ContentsFacts DEF Contents
<1>6. /\ user_position' \in Nat /\ sender_done_position' \in Nat
      /\ user_position' <= sender_done_position'
    BY <1>1, <1>2, <1>3, <1>4
<1>7. /\ Contents' \in Seq(Words(memory')) /\ Len(Contents') = sender_done_position' - user_position'
      /\ \A i \in 1 .. sender_done_position' - user_position' :
             Contents'[i] = memory'[user_position' + i - 1]
    BY <1>6, ContentsFacts DEF Contents
<1>8. Contents' \in Seq(Words(memory))
    BY <1>2, <1>7
<1>9. m \in Seq(Words(memory))
    BY <1>3, SeqMonotonic DEF Words
<1>10. /\ Contents \o m \in Seq(Words(memory)) /\ Len(Contents \o m) = Len(Contents) + Len(m)
       /\ \A i \in 1 .. Len(Contents) + Len(m) :
              (Contents \o m)[i] = IF i <= Len(Contents) THEN Contents[i]
                                   ELSE m[i - Len(Contents)]
    BY <1>5, <1>9, ConcatProperties
<1>11. Len(Contents') = Len(Contents \o m)
    BY <1>1, <1>2, <1>3, <1>4, <1>5, <1>7, <1>10
<1>12. ASSUME NEW i \in 1 .. Len(Contents')
       PROVE  Contents'[i] = (Contents \o m)[i]
    <2>1. i \in 1 .. Len(Contents) + Len(m) /\ Contents'[i] = memory[user_position + i - 1]
        BY <1>2, <1>7, <1>10, <1>11
    <2>2. CASE i <= Len(Contents)
        BY <2>1, <2>2, <1>4, <1>5, <1>10
    <2>3. CASE ~(i <= Len(Contents))
        <3> DEFINE j == i - Len(Contents)
        <3>1. /\ j \in 1 .. Len(m)
              /\ user_position + i - 1 = sender_done_position + j - 1
            BY <2>1, <2>3, <1>3, <1>4, <1>5
        <3>2. (Contents \o m)[i] = m[j]
            BY <2>1, <2>3, <1>10
        <3> QED
            BY <3>1, <3>2, <2>1, <1>1
    <2> QED
        BY <2>2, <2>3
<1>13. Contents' = Contents \o m
    BY <1>8, <1>10, <1>11, <1>12, SeqEqual
<1> QED
    BY <1>2, <1>3, <1>13 DEF m

\* Reading a word receives it.
LEMMA ReadReceives ==
    ASSUME OneLap, WholeMessages, QueueInv, ReceiverInv, get_next_value,
           receiver \in {"event", "arguments"}
    PROVE  Contents # <<>> /\ got' = Head(Contents) /\ Contents' = Tail(Contents)
<1>1. /\ user_position' = user_position + 1 /\ got' = memory[user_position]
      /\ user_position \in Nat /\ user_position < sender_done_position
      /\ UNCHANGED <<memory, sender_done_position>>
    BY Reads DEF ReceiverInv
<1>2. sender_done_position \in Nat /\ user_position <= sender_done_position
    BY <1>1, BelowTheEnd
<1>3. /\ Contents \in Seq(Words(memory)) /\ Len(Contents) = sender_done_position - user_position
      /\ \A i \in 1 .. sender_done_position - user_position :
             Contents[i] = memory[user_position + i - 1]
    BY <1>1, <1>2, ContentsFacts DEF Contents
<1>4. /\ user_position' \in Nat /\ sender_done_position' \in Nat
      /\ user_position' <= sender_done_position'
    BY <1>1, <1>2
<1>5. /\ Contents' \in Seq(Words(memory')) /\ Len(Contents') = sender_done_position' - user_position'
      /\ \A i \in 1 .. sender_done_position' - user_position' :
             Contents'[i] = memory'[user_position' + i - 1]
    BY <1>4, ContentsFacts DEF Contents
<1>6. Contents # <<>>
    BY <1>1, <1>2, <1>3, EmptySeq
<1>7. Contents' \in Seq(Words(memory))
    BY <1>1, <1>5
<1>8. /\ Tail(Contents) \in Seq(Words(memory)) /\ Len(Tail(Contents)) = Len(Contents) - 1
      /\ \A i \in 1 .. Len(Tail(Contents)) : Tail(Contents)[i] = Contents[i + 1]
    BY <1>3, <1>6, HeadTailProperties
<1>9. Len(Contents') = Len(Tail(Contents))
    BY <1>1, <1>2, <1>3, <1>5, <1>8
<1>10. ASSUME NEW i \in 1 .. Len(Contents')
       PROVE  Contents'[i] = Tail(Contents)[i]
    <2>1. /\ i \in Nat /\ i + 1 \in 1 .. sender_done_position - user_position
          /\ user_position' + i - 1 = user_position + (i + 1) - 1
        BY <1>1, <1>2, <1>5
    <2>2. Contents'[i] = memory[user_position + (i + 1) - 1]
        BY <2>1, <1>1, <1>5
    <2>3. Contents[i + 1] = memory[user_position + (i + 1) - 1]
        BY <2>1, <1>3
    <2>4. Tail(Contents)[i] = Contents[i + 1]
        BY <1>8, <1>9
    <2> QED
        BY <2>2, <2>3, <2>4
<1>11. Contents' = Tail(Contents)
    BY <1>7, <1>8, <1>9, <1>10, SeqEqual
<1>12. Contents[1] = memory[user_position]
    BY <1>1, <1>2, <1>3
<1>13. Head(Contents) = Contents[1]
    BY <1>3, <1>6
<1> QED
    BY <1>1, <1>6, <1>11, <1>12, <1>13

\* Within one lap the queue is a channel, though no lock is held from a
\* reservation to its commit.
THEOREM QueueIsAChannel ==
    ASSUME OneLap, WholeMessages
    PROVE  QueueSpec => ImplementsChannel
<1>1. QueueInit => Abstract!Init
    <2> SUFFICES ASSUME QueueInit PROVE Contents = <<>> /\ got = 0
        BY DEF Abstract!Init
    <2>1. user_position \in Nat /\ sender_done_position = user_position /\ got = 0
        BY DEF QueueInit, msqh_size
    <2>2. Contents \in Seq(Words(memory)) /\ Len(Contents) = 0
        BY <2>1, ContentsFacts DEF Contents
    <2> QED
        BY <2>1, <2>2, EmptySeq
<1>2. (QueueInv /\ ReceiverInv) /\ [QueueNext]_queueVars
          => [Abstract!Next]_<<Contents, got>>
    <2> SUFFICES ASSUME QueueInv, ReceiverInv, [QueueNext]_queueVars
                 PROVE  Abstract!Send \/ Abstract!Receive \/ UNCHANGED <<Contents, got>>
        BY DEF Abstract!Next
    <2>1. user_position \in Nat /\ sender_done_position \in Nat
        BY ReceiverBehind, BelowTheEnd DEF ReceiverInv
    <2>2. ASSUME NEW s \in Senders, commit_memory(s) PROVE Abstract!Send
        BY <2>2, CommitSends DEF Abstract!Send, AllMessages
    <2>3. ASSUME NEW s \in Senders, write_word(s) PROVE UNCHANGED <<Contents, got>>
        <3> DEFINE offset == new_mem_offset[s]
        <3>1. /\ pc[s] = "write" /\ memory' = [memory EXCEPT ![offset] = values[s][written[s] + 1]]
              /\ UNCHANGED <<sender_done_position, user_position, got>>
            BY <2>3 DEF write_word, receiverVars
        <3>2. sender_done_position <= offset /\ offset \in Nat
            BY <3>1, WriteFacts
        <3> HIDE DEF offset
        <3>3. memory \in [msqh_size .. mapped_words - 1 -> Nat]
            BY ShapeNow DEF Shape
        <3>4. \A p \in Nat : p < sender_done_position => memory'[p] = memory[p]
            BY <3>1, <3>2, <3>3, <2>1
        <3> QED
            BY <3>1, <3>4, <2>1, ContentsKept
    <2>4. CASE handle_queue_event \/ read_argument
        <3>1. receiver \in {"event", "arguments"} /\ get_next_value
            BY <2>4 DEF handle_queue_event, read_argument
        <3> QED
            BY <3>1, ReadReceives DEF Abstract!Receive
    <2>5. ASSUME UNCHANGED <<memory, sender_done_position, user_position, got>>
          PROVE  UNCHANGED <<Contents, got>>
        BY <2>5 DEF Contents
    <2>6. ASSUME NEW s \in Senders, write_values(s) \/ Send(s) \/ crash(s),
                 ~commit_memory(s), ~write_word(s)
          PROVE  UNCHANGED <<memory, sender_done_position, user_position, got>>
        BY <2>6 DEF write_values, Send, crash, load_reserve_position, allocate_memory,
                    allocate_memory_again, receiverVars
    <2>7. CASE should_I_load
        <3>1. UNCHANGED <<memory, sender_done_position, user_position, got>>
            BY <2>7 DEF should_I_load
        <3> QED
            BY <3>1, <2>5
    <2>8. CASE UNCHANGED queueVars
        <3>1. UNCHANGED <<memory, sender_done_position, user_position, got>>
            BY <2>8 DEF queueVars, receiverVars
        <3> QED
            BY <3>1, <2>5
    <2>9. ASSUME NEW s \in Senders, write_values(s) \/ Send(s) \/ crash(s)
          PROVE  Abstract!Send \/ UNCHANGED <<Contents, got>>
        BY <2>9, <2>2, <2>3, <2>5, <2>6
    <2> QED
        BY <2>4, <2>7, <2>8, <2>9 DEF QueueNext, Receive
<1> QED
    BY <1>1, <1>2, WholeInvariant, PTL DEF QueueSpec, ImplementsChannel, Abstract!Spec
=============================================================================
