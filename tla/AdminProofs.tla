---------------------------- MODULE AdminProofs ----------------------------
(***************************************************************************)
(* Theorems about module AdminProtocol, for any number of users and any    *)
(* timeouts and pauses that TimesAssumption allows.                        *)
(*                                                                         *)
(* NoneWronged is about one moment, when the admin looks at a user; the    *)
(* invariant that implies it follows a question through the queues.  A     *)
(* user that was asked has the question in its queue or its answer in the  *)
(* admin's; a question is as old as the user's last poll at most; and the  *)
(* answers are read before the users are looked at.                        *)
(***************************************************************************)
EXTENDS AdminProtocol, TLAPS, SequenceTheorems, FiniteSetTheorems

EventNames == {"file_ID_of_king", "file_ID_of_admin", "file_ID_of_user", "aliveness_check"}
Messages == [event : EventNames, about : 0 .. number_of_users]
Questions == {file_ID_of_admin, aliveness_check}

Asked(x) == \E i \in DOMAIN to_user[x] : to_user[x][i] \in Questions
Answered(x) == \E i \in DOMAIN to_admin : to_admin[i] = x

\* Time since the admin last looked at user x, at most.
Unseen(x) ==
    IF round \in {"sleep", "events"} THEN admin_rest
    ELSE IF round = "users" /\ x < current THEN 0 ELSE AdminPause

-----------------------------------------------------------------------------
(* The inductive invariant *)

TypeInv ==
    /\ to_user \in [Users -> Seq(Messages)] /\ to_admin \in Seq(Users)
    /\ round \in {"sleep", "events", "users", "error"} /\ current \in Users
    /\ round = "sleep" => current = number_of_users - 1
    /\ admin_rest \in 0 .. AdminPause
    /\ silence \in [Users -> Nat]
    /\ user_rest \in [Users -> 0 .. UserPause]
    /\ pinged_already \in [Users -> BOOLEAN]
    /\ awake \subseteq alive /\ alive \subseteq Users
    /\ admin_receive_mem \subseteq Users
    /\ citizen_mem \in Seq(0 .. number_of_users)

\* Where a question is, and how long a user can have been silent.
QuestionOf(x) ==
    /\ pinged_already[x] => Asked(x) \/ Answered(x)
    /\ ~pinged_already[x] => silence[x] <= PingAfter + Unseen(x)
    /\ silence[x] <= GiveUp + Unseen(x)
    /\ x \in alive /\ Asked(x) => silence[x] <= PingAfter + AdminPause + user_rest[x]
    /\ x \in alive /\ round = "users" => silence[x] <= PingAfter + AdminPause + UserPause
QuestionInv == \A x \in Users : QuestionOf(x)

\* The bound on the questions and answers under way, from AdminTypeOK.
CountInv == \A x \in Users : Outstanding(x) <= IF pinged_already[x] THEN 2 ELSE 1

\* What is left of Initial(x): the king first, then the citizens in order, only
\* then what makes a user ping.
CitizenAt(x, i) ==
    /\ to_user[x][i].event = "file_ID_of_king" => i = 1
    /\ to_user[x][i].event = "file_ID_of_user" =>
           /\ x = king
           /\ to_user[x][i].about = Len(citizen_mem) + i
                  - (IF to_user[x][1].event = "file_ID_of_king" THEN 1 ELSE 0)
           /\ \A j \in 1 .. i - 1 : to_user[x][j] \notin Questions
CitizenInv == \A x \in Users : \A i \in DOMAIN to_user[x] : CitizenAt(x, i)

\* No question comes before the admin's address.
AddressOf(x) == x \notin admin_receive_mem =>
    /\ \E i \in DOMAIN to_user[x] : to_user[x][i] = file_ID_of_admin
    /\ \A i \in DOMAIN to_user[x] : to_user[x][i] = aliveness_check =>
           \E j \in 1 .. i - 1 : to_user[x][j] = file_ID_of_admin
AddressInv == \A x \in Users : AddressOf(x)

AdminInv == TypeInv /\ QuestionInv /\ CountInv /\ CitizenInv /\ AddressInv /\ ToldInOrder

LEMMA QuestionNow ==
    ASSUME AdminInv, NEW x \in Users
    PROVE  QuestionOf(x)
BY DEF AdminInv, QuestionInv

LEMMA TypeNow ==
    ASSUME AdminInv
    PROVE  TypeInv
BY DEF AdminInv

-----------------------------------------------------------------------------
(* Facts about queues *)

LEMMA TailFacts ==
    ASSUME NEW S, NEW s \in Seq(S), s # <<>>
    PROVE  /\ Tail(s) \in Seq(S) /\ Head(s) \in S /\ Head(s) = s[1]
           /\ Len(s) \in Nat \ {0}
           /\ DOMAIN s = 1 .. Len(s) /\ DOMAIN Tail(s) = 1 .. Len(s) - 1
           /\ \A i \in 1 .. Len(s) - 1 : Tail(s)[i] = s[i + 1]
<1>1. Len(s) \in Nat \ {0}
    BY EmptySeq
<1>2. Tail(s) \in Seq(S) /\ Len(Tail(s)) = Len(s) - 1
    BY HeadTailProperties
<1>3. \A i \in 1 .. Len(Tail(s)) : Tail(s)[i] = s[i + 1]
    BY HeadTailProperties
<1>4. DOMAIN Tail(s) = 1 .. Len(Tail(s)) /\ DOMAIN s = 1 .. Len(s)
    BY <1>2, LenProperties
<1>5. Head(s) = s[1] /\ Head(s) \in S
    BY HeadTailProperties
<1> QED
    BY <1>1, <1>2, <1>3, <1>4, <1>5

LEMMA AppendFacts ==
    ASSUME NEW S, NEW s \in Seq(S), NEW e \in S
    PROVE  /\ Append(s, e) \in Seq(S)
           /\ Len(s) \in Nat /\ DOMAIN s = 1 .. Len(s) /\ DOMAIN Append(s, e) = 1 .. Len(s) + 1
           /\ \A i \in 1 .. Len(s) : Append(s, e)[i] = s[i]
           /\ Append(s, e)[Len(s) + 1] = e
<1>1. Append(s, e) \in Seq(S) /\ Len(Append(s, e)) = Len(s) + 1
    OBVIOUS
<1>2. Len(s) \in Nat /\ DOMAIN s = 1 .. Len(s) /\ DOMAIN Append(s, e) = 1 .. Len(s) + 1
    BY <1>1, LenProperties
<1>3. /\ \A i \in 1 .. Len(s) : Append(s, e)[i] = s[i]
      /\ Append(s, e)[Len(s) + 1] = e
    BY <1>2
<1> QED
    BY <1>1, <1>2, <1>3

\* Counting what is in a queue.
LEMMA CountType ==
    ASSUME NEW S, NEW s \in Seq(S), NEW m
    PROVE  /\ IsFiniteSet({i \in DOMAIN s : s[i] = m})
           /\ Count(s, m) \in Nat
<1>1. DOMAIN s = 1 .. Len(s) /\ Len(s) \in Nat
    BY LenProperties
<1>2. IsFiniteSet(DOMAIN s)
    BY <1>1, FS_Interval
<1>3. IsFiniteSet({i \in DOMAIN s : s[i] = m})
    BY <1>2, FS_Subset
<1> QED
    BY <1>3, FS_CardinalityType DEF Count

LEMMA CountAppend ==
    ASSUME NEW S, NEW s \in Seq(S), NEW e \in S, NEW m
    PROVE  Count(Append(s, e), m) = Count(s, m) + IF e = m THEN 1 ELSE 0
<1> DEFINE Places == {i \in DOMAIN s : s[i] = m}
           Later == {i \in DOMAIN Append(s, e) : Append(s, e)[i] = m}
<1>1. Len(s) + 1 \notin Places
    BY AppendFacts
<1>2. IsFiniteSet(Places) /\ Cardinality(Places) \in Nat
    BY CountType, FS_CardinalityType
<1>3. Count(Append(s, e), m) = Cardinality(Later) /\ Count(s, m) = Cardinality(Places)
    BY DEF Count
<1>4. CASE e = m
    <2>1. Later = Places \cup {Len(s) + 1}
        BY <1>4, AppendFacts
    <2>2. Cardinality(Later) = Cardinality(Places) + 1
        BY <2>1, <1>1, <1>2, FS_AddElement
    <2> QED
        BY <2>2, <1>3, <1>4
<1>5. CASE e # m
    <2>1. Later = Places
        BY <1>5, AppendFacts
    <2> HIDE DEF Places, Later
    <2> QED
        BY <2>1, <1>2, <1>3, <1>5
<1> QED
    BY <1>4, <1>5

LEMMA CountTail ==
    ASSUME NEW S, NEW s \in Seq(S), s # <<>>, NEW m
    PROVE  Count(s, m) = Count(Tail(s), m) + IF Head(s) = m THEN 1 ELSE 0
<1> DEFINE Left == {i \in DOMAIN Tail(s) : Tail(s)[i] = m}
           Shifted == {i \in DOMAIN s \ {1} : s[i] = m}
           Places == {i \in DOMAIN s : s[i] = m}
           shift == [i \in Left |-> i + 1]
<1>1. shift \in Bijection(Left, Shifted)
    <2>1. shift \in [Left -> Shifted]
        BY TailFacts
    <2>2. \A i, j \in Left : shift[i] = shift[j] => i = j
        BY TailFacts
    <2>3. ASSUME NEW k \in Shifted PROVE \E i \in Left : shift[i] = k
        <3>1. k - 1 \in Left /\ (k - 1) + 1 = k
            BY TailFacts
        <3> QED
            BY <3>1
    <2> QED
        BY <2>1, <2>2, <2>3 DEF Bijection, Injection, Surjection, IsInjective
<1>2. IsFiniteSet(Left) /\ Cardinality(Left) \in Nat
    <2>1. Tail(s) \in Seq(S)
        BY TailFacts
    <2> QED
        BY <2>1, CountType, FS_CardinalityType
<1>3. IsFiniteSet(Shifted) /\ Cardinality(Shifted) = Cardinality(Left)
    BY <1>1, <1>2, FS_Bijection DEF ExistsBijection
<1>4. Count(Tail(s), m) = Cardinality(Left) /\ Count(s, m) = Cardinality(Places)
    BY DEF Count
<1>5. CASE Head(s) = m
    <2>1. Places = Shifted \cup {1} /\ 1 \notin Shifted
        BY <1>5, TailFacts
    <2>2. Cardinality(Places) = Cardinality(Shifted) + 1
        BY <2>1, <1>3, FS_AddElement
    <2> HIDE DEF Places, Left, Shifted
    <2> QED
        BY <2>2, <1>2, <1>3, <1>4, <1>5
<1>6. CASE Head(s) # m
    <2>1. Places = Shifted
        BY <1>6, TailFacts
    <2> HIDE DEF Places, Left, Shifted
    <2> QED
        BY <2>1, <1>2, <1>3, <1>4, <1>6
<1> QED
    BY <1>5, <1>6

-----------------------------------------------------------------------------
(* Messages and the initial state *)

LEMMA MessagesApart ==
    /\ file_ID_of_king \in Messages /\ file_ID_of_admin \in Messages /\ aliveness_check \in Messages
    /\ \A x \in Users : file_ID_of_user(x) \in Messages
    /\ file_ID_of_king.event = "file_ID_of_king" /\ file_ID_of_admin.event = "file_ID_of_admin"
    /\ aliveness_check.event = "aliveness_check"
    /\ \A x \in Users : file_ID_of_user(x).event = "file_ID_of_user" /\ file_ID_of_user(x).about = x
    /\ \A m \in Questions : m \in Messages /\ m.event \in {"file_ID_of_admin", "aliveness_check"}
BY TimesAssumption
    DEF file_ID_of_king, file_ID_of_admin, aliveness_check, file_ID_of_user, Event, Messages,
        EventNames, Questions, Users, king

LEMMA InitialFacts ==
    ASSUME NEW x \in Users
    PROVE  /\ Initial(x) \in Seq(Messages)
           /\ Len(Initial(x)) >= 2 /\ DOMAIN Initial(x) = 1 .. Len(Initial(x))
           /\ Initial(x)[1] = file_ID_of_king
           /\ Initial(x)[Len(Initial(x))] = file_ID_of_admin
           /\ \A i \in 2 .. Len(Initial(x)) - 1 :
                  x = king /\ i - 1 \in Users /\ Initial(x)[i] = file_ID_of_user(i - 1)
<1> DEFINE citizens == IF x = king THEN [i \in 1 .. number_of_users - 1 |-> file_ID_of_user(i)]
                       ELSE <<>>
           first == <<file_ID_of_king>>
           last == <<file_ID_of_admin>>
<1>1. /\ citizens \in Seq(Messages) /\ Len(citizens) \in Nat
      /\ \A i \in 1 .. Len(citizens) :
             x = king /\ i \in Users /\ citizens[i] = file_ID_of_user(i)
    <2>1. CASE x = king
        <3>1. \A i \in 1 .. number_of_users - 1 : i \in Users /\ file_ID_of_user(i) \in Messages
            BY MessagesApart, TimesAssumption DEF Users
        <3>2. number_of_users - 1 \in Nat
            BY TimesAssumption
        <3> QED
            BY <2>1, <3>1, <3>2
    <2>2. CASE x # king
        BY <2>2
    <2> QED
        BY <2>1, <2>2
<1>2. /\ first \in Seq(Messages) /\ Len(first) = 1 /\ first[1] = file_ID_of_king
      /\ last \in Seq(Messages) /\ Len(last) = 1 /\ last[1] = file_ID_of_admin
    BY MessagesApart
<1>3. Initial(x) = (first \o citizens) \o last
    BY DEF Initial
<1> HIDE DEF first, citizens, last
<1>4. \A s1, s2 \in Seq(Messages) :
          /\ s1 \o s2 \in Seq(Messages) /\ Len(s1 \o s2) = Len(s1) + Len(s2)
          /\ \A i \in 1 .. Len(s1) + Len(s2) :
                 (s1 \o s2)[i] = IF i <= Len(s1) THEN s1[i] ELSE s2[i - Len(s1)]
    BY ConcatProperties
<1>5. /\ first \o citizens \in Seq(Messages) /\ Len(first \o citizens) = 1 + Len(citizens)
      /\ \A i \in 1 .. 1 + Len(citizens) :
             (first \o citizens)[i] = IF i <= 1 THEN first[i] ELSE citizens[i - 1]
    <2>1. first \in Seq(Messages) /\ citizens \in Seq(Messages) /\ Len(first) = 1
        BY <1>1, <1>2
    <2>2. /\ first \o citizens \in Seq(Messages)
          /\ Len(first \o citizens) = Len(first) + Len(citizens)
          /\ \A i \in 1 .. Len(first) + Len(citizens) :
                 (first \o citizens)[i] = IF i <= Len(first) THEN first[i]
                                          ELSE citizens[i - Len(first)]
        BY ONLY <2>1, <1>4
    <2> QED
        BY ONLY <2>1, <2>2
<1>6. /\ Initial(x) \in Seq(Messages) /\ Len(Initial(x)) = 2 + Len(citizens)
      /\ \A i \in 1 .. 2 + Len(citizens) :
             Initial(x)[i] = IF i <= 1 + Len(citizens) THEN (first \o citizens)[i]
                             ELSE last[i - (1 + Len(citizens))]
    <2> DEFINE start == first \o citizens
    <2>1. /\ start \in Seq(Messages) /\ last \in Seq(Messages) /\ Len(last) = 1
          /\ Len(start) = 1 + Len(citizens) /\ Len(citizens) \in Nat
          /\ Initial(x) = start \o last
        BY <1>1, <1>2, <1>3, <1>5
    <2> HIDE DEF start
    <2>2. /\ start \o last \in Seq(Messages) /\ Len(start \o last) = Len(start) + Len(last)
          /\ \A i \in 1 .. Len(start) + Len(last) :
                 (start \o last)[i] = IF i <= Len(start) THEN start[i] ELSE last[i - Len(start)]
        BY ONLY <2>1, <1>4
    <2>3. (1 + Len(citizens)) + 1 = 2 + Len(citizens)
        BY ONLY <2>1
    <2>4. /\ Initial(x) \in Seq(Messages) /\ Len(Initial(x)) = 2 + Len(citizens)
          /\ \A i \in 1 .. 2 + Len(citizens) :
                 Initial(x)[i] = IF i <= 1 + Len(citizens) THEN start[i]
                                 ELSE last[i - (1 + Len(citizens))]
        BY ONLY <2>1, <2>2, <2>3
    <2> QED
        BY <2>4 DEF start
<1>7. DOMAIN Initial(x) = 1 .. Len(Initial(x))
    BY <1>6, LenProperties
<1>8. Initial(x)[1] = file_ID_of_king /\ Initial(x)[Len(Initial(x))] = file_ID_of_admin
    <2>1. Initial(x)[1] = first[1]
        BY <1>1, <1>5, <1>6
    <2>2. Initial(x)[2 + Len(citizens)] = last[1]
        BY <1>1, <1>6
    <2> QED
        BY <2>1, <2>2, <1>2, <1>6
<1>9. ASSUME NEW i \in 2 .. Len(Initial(x)) - 1
      PROVE  x = king /\ i - 1 \in Users /\ Initial(x)[i] = file_ID_of_user(i - 1)
    <2>1. Initial(x)[i] = citizens[i - 1] /\ i - 1 \in 1 .. Len(citizens)
        BY <1>1, <1>5, <1>6
    <2> QED
        BY <2>1, <1>1
<1> QED
    BY <1>1, <1>6, <1>7, <1>8, <1>9

LEMMA InitialCounts ==
    ASSUME NEW x \in Users
    PROVE  /\ Count(Initial(x), file_ID_of_admin) = 1 /\ Count(Initial(x), aliveness_check) = 0
           /\ Count(<<>>, x) = 0
<1>1. \A i \in 1 .. Len(Initial(x)) - 1 : Initial(x)[i] \notin Questions
    BY InitialFacts, MessagesApart
<1>2. file_ID_of_admin # aliveness_check
    BY MessagesApart
<1>3. {i \in DOMAIN Initial(x) : Initial(x)[i] = file_ID_of_admin} = {Len(Initial(x))}
    BY <1>1, InitialFacts DEF Questions
<1>4. {i \in DOMAIN Initial(x) : Initial(x)[i] = aliveness_check} = {}
    BY <1>1, <1>2, InitialFacts DEF Questions
<1>5. {i \in DOMAIN <<>> : <<>>[i] = x} = {}
    OBVIOUS
<1> QED
    BY <1>3, <1>4, <1>5, FS_EmptySet, FS_Singleton DEF Count

LEMMA InvInit == Init => AdminInv
<1> SUFFICES ASSUME Init PROVE AdminInv
    OBVIOUS
<1>1. TypeInv
    BY InitialFacts, TimesAssumption DEF Init, TypeInv, Users, king
<1>2. QuestionInv
    BY TimesAssumption DEF Init, QuestionInv, QuestionOf, Unseen, Users
<1>3. CountInv
    BY InitialCounts DEF Init, CountInv, Outstanding
<1>4. CitizenInv
    <2> SUFFICES ASSUME NEW x \in Users, NEW i \in DOMAIN to_user[x] PROVE CitizenAt(x, i)
        BY DEF CitizenInv
    <2>1. to_user[x] = Initial(x) /\ Len(citizen_mem) = 0
        BY DEF Init
    <2>2. i = 1 \/ i = Len(Initial(x)) \/ i \in 2 .. Len(Initial(x)) - 1
        BY <2>1, InitialFacts
    <2>3. \A j \in 1 .. Len(Initial(x)) - 1 : Initial(x)[j] \notin Questions
        BY InitialFacts, MessagesApart
    <2> QED
        BY <2>1, <2>2, <2>3, InitialFacts, MessagesApart DEF Users, CitizenAt
<1>5. AddressInv
    <2>1. ASSUME NEW x \in Users, NEW i \in DOMAIN to_user[x]
          PROVE  to_user[x][i] # aliveness_check
        <3>1. to_user[x] = Initial(x)
            BY DEF Init
        <3>2. i = 1 \/ i = Len(Initial(x)) \/ i \in 2 .. Len(Initial(x)) - 1
            BY <3>1, InitialFacts
        <3> QED
            BY <3>1, <3>2, InitialFacts, MessagesApart
    <2>2. ASSUME NEW x \in Users
          PROVE  \E i \in DOMAIN to_user[x] : to_user[x][i] = file_ID_of_admin
        BY InitialFacts DEF Init
    <2> QED
        BY <2>1, <2>2 DEF AddressInv, AddressOf
<1> QED
    BY <1>1, <1>2, <1>3, <1>4, <1>5 DEF AdminInv, ToldInOrder, Init

-----------------------------------------------------------------------------
(* The steps that write no queue *)

LEMMA QueuesKept ==
    ASSUME AdminInv, UNCHANGED <<queues, memories, pinged_already>>
    PROVE  CountInv' /\ CitizenInv' /\ AddressInv' /\ ToldInOrder'
<1>1. CountInv'
    BY DEF AdminInv, CountInv, Outstanding, queues
<1>2. CitizenInv'
    BY DEF AdminInv, CitizenInv, CitizenAt, queues, memories
<1>3. AddressInv'
    BY DEF AdminInv, AddressInv, AddressOf, queues, memories
<1> QED
    BY <1>1, <1>2, <1>3 DEF AdminInv, ToldInOrder, memories

LEMMA StepTick == AdminInv /\ tick => AdminInv'
<1> SUFFICES ASSUME AdminInv, tick PROVE AdminInv'
    OBVIOUS
<1> USE TimesAssumption
<1>1. TypeInv'
    <2>1. TypeInv
        BY TypeNow
    <2>2. /\ UNCHANGED <<queues, memories, round, current, pinged_already, awake, alive>>
          /\ round = "sleep"
        BY DEF tick
    <2>3. admin_rest \in 0 .. AdminPause /\ admin_rest' \in 0 .. AdminPause
        BY <2>1 DEF TypeInv, tick
    <2>4. silence' \in [Users -> Nat]
        BY <2>1 DEF TypeInv, tick
    <2>5. user_rest' \in [Users -> 0 .. UserPause]
        <3>1. \A x \in alive : user_rest[x] + 1 \in 0 .. UserPause
            BY <2>1 DEF TypeInv, tick
        <3> QED
            BY <2>1, <3>1 DEF TypeInv, tick
    <2> QED
        BY <2>1, <2>2, <2>3, <2>4, <2>5 DEF TypeInv, queues, memories
<1>2. QuestionInv'
    <2> SUFFICES ASSUME NEW x \in Users PROVE QuestionOf(x)'
        BY DEF QuestionInv
    <2>1. Asked(x)' = Asked(x) /\ Answered(x)' = Answered(x)
        BY DEF tick, queues, Asked, Answered
    <2>2. Unseen(x)' = Unseen(x) + 1 /\ Unseen(x) \in Nat /\ round' = "sleep"
        BY DEF tick, Unseen, AdminInv, TypeInv
    <2>3. silence[x]' = silence[x] + 1 /\ silence[x] \in Nat
        BY DEF tick, AdminInv, TypeInv
    <2>4. x \in alive => x \in alive' /\ user_rest[x]' = user_rest[x] + 1 /\ user_rest[x] \in Nat
        BY DEF tick, AdminInv, TypeInv
    <2>5. pinged_already' = pinged_already /\ alive' = alive
        BY DEF tick
    <2> QED
        BY <2>1, <2>2, <2>3, <2>4, <2>5, QuestionNow DEF QuestionOf
<1> QED
    BY <1>1, <1>2, QueuesKept DEF tick, AdminInv

LEMMA StepUserSleeps ==
    ASSUME AdminInv, NEW u \in Users, user_wakes(u) \/ user_sleeps(u) \/ die(u)
    PROVE  AdminInv'
<1> USE TimesAssumption
<1>1. TypeInv'
    <2>1. TypeInv
        BY TypeNow
    <2>2. CASE user_wakes(u)
        BY <2>1, <2>2 DEF TypeInv, user_wakes, queues, admin, memories
    <2>3. CASE user_sleeps(u)
        BY <2>1, <2>3 DEF TypeInv, user_sleeps, queues, admin, memories
    <2>4. CASE die(u)
        BY <2>1, <2>4 DEF TypeInv, die, queues, admin, memories
    <2> QED
        BY <2>2, <2>3, <2>4
<1>2. /\ UNCHANGED <<queues, memories, admin>> /\ alive' \subseteq alive
      /\ \A x \in Users : \/ user_rest'[x] = user_rest[x]
                          \/ user_rest'[x] = 0 /\ to_user[x] = <<>>
    BY DEF AdminInv, TypeInv, user_wakes, user_sleeps, die, memories
<1>3. QuestionInv'
    <2> SUFFICES ASSUME NEW x \in Users PROVE QuestionOf(x)'
        BY DEF QuestionInv
    <2>1. Asked(x)' = Asked(x) /\ Answered(x)' = Answered(x) /\ Unseen(x)' = Unseen(x)
        BY <1>2 DEF queues, admin, Asked, Answered, Unseen
    <2>2. to_user[x] = <<>> => ~Asked(x)
        BY DEF Asked
    <2> QED
        BY <1>2, <2>1, <2>2, QuestionNow DEF QuestionOf, admin
<1> QED
    BY <1>1, <1>2, <1>3, QueuesKept DEF AdminInv, admin

LEMMA StepAdminTurns ==
    ASSUME AdminInv, events_handled \/ admin_wakes
    PROVE  AdminInv'
<1> USE TimesAssumption
<1>1. TypeInv'
    <2>1. king \in Users
        BY DEF king, Users
    <2>2. current' \in Users
        BY <2>1 DEF AdminInv, TypeInv, events_handled, admin_wakes
    <2> QED
        BY <2>2 DEF AdminInv, TypeInv, events_handled, admin_wakes, queues, user, memories
<1>2. /\ UNCHANGED <<queues, memories, pinged_already, silence, user_rest, alive, admin_rest>>
      /\ \/ round = "sleep" /\ round' = "events"
         \/ round = "events" /\ to_admin = <<>> /\ round' = "users" /\ current' = 0
    BY DEF events_handled, admin_wakes, user, king
<1>3. QuestionInv'
    <2> SUFFICES ASSUME NEW x \in Users PROVE QuestionOf(x)'
        BY DEF QuestionInv
    <2>1. Asked(x)' = Asked(x) /\ Answered(x)' = Answered(x)
        BY <1>2 DEF queues, Asked, Answered
    <2>2. /\ Unseen(x) = admin_rest /\ admin_rest \in 0 .. AdminPause
          /\ Unseen(x)' \in Nat /\ Unseen(x) <= Unseen(x)'
        <3>1. Unseen(x) = admin_rest /\ admin_rest \in 0 .. AdminPause
            BY <1>2 DEF Unseen, AdminInv, TypeInv
        <3>2. Unseen(x)' = admin_rest \/ Unseen(x)' = AdminPause
            BY <1>2 DEF Unseen, Users
        <3> QED
            BY <3>1, <3>2
    <2>3. silence[x] \in Nat /\ user_rest[x] \in 0 .. UserPause
        BY DEF AdminInv, TypeInv
    <2>4. to_admin = <<>> => ~Answered(x)
        BY DEF Answered
    <2>5. round' = "users" /\ x \in alive => silence[x] <= PingAfter + AdminPause + UserPause
        BY <1>2, <2>2, <2>3, <2>4, QuestionNow DEF QuestionOf
    <2> QED
        BY <1>2, <2>1, <2>2, <2>3, <2>5, QuestionNow DEF QuestionOf
<1> QED
    BY <1>1, <1>2, <1>3, QueuesKept DEF AdminInv

-----------------------------------------------------------------------------
(* The admin looks at a user *)

\* How the loop goes on once a user was looked at.
LEMMA NextUser ==
    ASSUME AdminInv, round = "users", next_user, admin_rest' = 0, NEW x \in Users
    PROVE  /\ current' \in Users /\ round' \in {"users", "sleep"}
           /\ round' = "sleep" => current' = number_of_users - 1
           /\ Unseen(x)' = IF x <= current THEN 0 ELSE AdminPause
           /\ x >= current => Unseen(x) = AdminPause
           /\ x < current => Unseen(x) = 0
<1>1. current \in Users /\ AdminPause \in Nat
    BY TimesAssumption DEF AdminInv, TypeInv
<1>2. x \in Int /\ current \in Int
    BY <1>1 DEF Users
<1>3. /\ current' \in Users /\ round' \in {"users", "sleep"}
      /\ round' = "sleep" => current' = number_of_users - 1 /\ current = current'
    BY <1>1, TimesAssumption DEF next_user, Users
<1>4. Unseen(x)' = IF x <= current THEN 0 ELSE AdminPause
    <2>1. CASE current + 1 \in Users
        BY <2>1, <1>2 DEF next_user, Unseen
    <2>2. CASE current + 1 \notin Users
        <3>1. x <= current
            BY <2>2, <1>1, TimesAssumption DEF Users
        <3> QED
            BY <2>2, <3>1 DEF next_user, Unseen
    <2> QED
        BY <2>1, <2>2
<1>5. Unseen(x) = IF x < current THEN 0 ELSE AdminPause
    BY DEF Unseen
<1> QED
    BY <1>2, <1>3, <1>4, <1>5

\* It is given up: the admin aborts and nothing else changes.
LEMMA StepGivesUp ==
    ASSUME AdminInv, check_user, silence[current] > GiveUp
    PROVE  AdminInv'
<1> USE TimesAssumption
<1>1. /\ UNCHANGED <<queues, memories, pinged_already, silence, user_rest, alive, awake, current>>
      /\ round = "users" /\ round' = "error" /\ admin_rest' = 0
    BY DEF check_user, queues, user
<1>2. TypeInv'
    BY <1>1 DEF AdminInv, TypeInv, queues, memories
<1>3. QuestionInv'
    <2> SUFFICES ASSUME NEW x \in Users PROVE QuestionOf(x)'
        BY DEF QuestionInv
    <2>1. Asked(x)' = Asked(x) /\ Answered(x)' = Answered(x)
        BY <1>1 DEF queues, Asked, Answered
    <2>2. Unseen(x)' = AdminPause /\ Unseen(x) \in 0 .. AdminPause
        BY <1>1 DEF Unseen
    <2>3. silence[x] \in Nat
        BY DEF AdminInv, TypeInv
    <2> QED
        BY <1>1, <2>1, <2>2, <2>3, QuestionNow DEF QuestionOf
<1> QED
    BY <1>1, <1>2, <1>3, QueuesKept DEF AdminInv

\* It is left alone.
LEMMA StepLooks ==
    ASSUME AdminInv, check_user, silence[current] <= GiveUp,
           silence[current] <= PingAfter \/ pinged_already[current]
    PROVE  AdminInv'
<1> USE TimesAssumption
<1>1. silence[current] \in Nat /\ current \in Users
    BY DEF AdminInv, TypeInv
<1>2. /\ UNCHANGED <<queues, memories, pinged_already, silence, user_rest, alive, awake>>
      /\ round = "users" /\ next_user /\ admin_rest' = 0
    BY <1>1 DEF check_user, queues, user
<1>3. TypeInv'
    <2>1. TypeInv
        BY TypeNow
    <2>2. /\ current' \in Users /\ round' \in {"users", "sleep"}
          /\ round' = "sleep" => current' = number_of_users - 1
        BY <1>1, <1>2, NextUser
    <2> QED
        BY <2>1, <2>2, <1>2 DEF TypeInv, queues, memories
<1>4. QuestionInv'
    <2> SUFFICES ASSUME NEW x \in Users PROVE QuestionOf(x)'
        BY DEF QuestionInv
    <2>1. Asked(x)' = Asked(x) /\ Answered(x)' = Answered(x)
        BY <1>2 DEF queues, Asked, Answered
    <2>2. /\ Unseen(x)' = IF x <= current THEN 0 ELSE AdminPause
          /\ x >= current => Unseen(x) = AdminPause
          /\ x < current => Unseen(x) = 0
        BY <1>2, NextUser
    <2>3. silence[x] \in Nat /\ x \in Int /\ current \in Int
        <3>1. silence[x] \in Nat
            BY DEF AdminInv, TypeInv
        <3> QED
            BY <1>1, <3>1 DEF Users
    <2>4. /\ silence[x] <= GiveUp + Unseen(x)'
          /\ ~pinged_already[x] => silence[x] <= PingAfter + Unseen(x)'
        <3>1. CASE x = current
            BY <3>1, <2>2, <2>3
        <3>2. CASE x # current
            BY <3>2, <2>2, <2>3, QuestionNow DEF QuestionOf
        <3> QED
            BY <3>1, <3>2
    <2> QED
        BY <1>2, <2>1, <2>4, QuestionNow DEF QuestionOf
<1> QED
    BY <1>2, <1>3, <1>4, QueuesKept DEF AdminInv

\* It is asked.
LEMMA StepAsks ==
    ASSUME AdminInv, check_user, silence[current] <= GiveUp,
           silence[current] > PingAfter, ~pinged_already[current]
    PROVE  AdminInv'
<1> USE TimesAssumption
<1> DEFINE s == to_user[current]
<1>1. silence[current] \in Nat /\ current \in Users /\ s \in Seq(Messages)
    BY DEF AdminInv, TypeInv
<1>2. /\ UNCHANGED <<to_admin, memories, silence, user_rest, alive, awake>>
      /\ round = "users" /\ next_user /\ admin_rest' = 0
      /\ to_user' = [to_user EXCEPT ![current] = Append(@, aliveness_check)]
      /\ pinged_already' = [pinged_already EXCEPT ![current] = TRUE]
    BY <1>1 DEF check_user, user
<1>3. /\ to_user \in [Users -> Seq(Messages)] /\ aliveness_check \in Messages
      /\ pinged_already \in [Users -> BOOLEAN]
    BY MessagesApart DEF AdminInv, TypeInv
<1>4. /\ to_user'[current] = Append(s, aliveness_check)
      /\ to_user'[current] \in Seq(Messages)
      /\ Len(s) \in Nat /\ DOMAIN s = 1 .. Len(s) /\ DOMAIN to_user'[current] = 1 .. Len(s) + 1
      /\ \A i \in 1 .. Len(s) : to_user'[current][i] = s[i]
      /\ to_user'[current][Len(s) + 1] = aliveness_check
      /\ pinged_already'[current]
    <2>1. to_user'[current] = Append(s, aliveness_check) /\ pinged_already'[current]
        BY <1>1, <1>2, <1>3
    <2> QED
        BY <2>1, <1>1, <1>3, AppendFacts
<1>5. \A x \in Users \ {current} :
          to_user'[x] = to_user[x] /\ pinged_already'[x] = pinged_already[x]
    BY <1>1, <1>2, <1>3
<1> HIDE DEF s
<1>6. TypeInv'
    <2>1. to_user' \in [Users -> Seq(Messages)] /\ pinged_already' \in [Users -> BOOLEAN]
        BY <1>1, <1>2, <1>3, <1>4
    <2>2. /\ current' \in Users /\ round' \in {"users", "sleep"}
          /\ round' = "sleep" => current' = number_of_users - 1
        BY <1>1, <1>2, NextUser
    <2>3. TypeInv
        BY TypeNow
    <2>4. /\ UNCHANGED <<to_admin, silence, user_rest, alive, awake>>
          /\ UNCHANGED <<admin_receive_mem, citizen_mem>> /\ admin_rest' = 0
        BY <1>2 DEF memories
    <2>5. admin_rest' \in 0 .. AdminPause
        BY <2>4
    <2> QED
        BY ONLY <2>1, <2>2, <2>3, <2>4, <2>5 DEF TypeInv
<1>7. QuestionInv'
    <2> SUFFICES ASSUME NEW x \in Users PROVE QuestionOf(x)'
        BY DEF QuestionInv
    <2>1. /\ Unseen(x)' = IF x <= current THEN 0 ELSE AdminPause
          /\ x >= current => Unseen(x) = AdminPause
          /\ x < current => Unseen(x) = 0
        BY <1>2, NextUser
    <2>2. silence[x] \in Nat /\ x \in Int /\ current \in Int /\ user_rest[x] \in 0 .. UserPause
        <3>1. silence[x] \in Nat /\ user_rest[x] \in 0 .. UserPause
            BY DEF AdminInv, TypeInv
        <3> QED
            BY <3>1, <1>1 DEF Users
    <2>3. CASE x = current
        <3>1. Asked(x)'
            BY <2>3, <1>4 DEF Asked, Questions
        <3>2. silence[x] <= PingAfter + AdminPause
            BY <1>1, <2>1, <2>2, <2>3, QuestionNow DEF QuestionOf
        <3>3. /\ pinged_already'[x] /\ silence'[x] = silence[x] /\ user_rest'[x] = user_rest[x]
              /\ Unseen(x)' = 0
            BY <1>2, <1>4, <2>1, <2>2, <2>3
        <3>4. PingAfter + AdminPause <= GiveUp /\ user_rest[x] \in Nat /\ UserPause \in Nat
            BY <2>2
        <3>5. silence[x] <= GiveUp
            BY <2>2, <2>3
        <3> QED
            BY <3>1, <3>2, <3>3, <3>4, <3>5, <2>2 DEF QuestionOf
    <2>4. CASE x # current
        <3>1. Asked(x)' = Asked(x) /\ Answered(x)' = Answered(x)
            BY <2>4, <1>2, <1>5 DEF Asked, Answered
        <3>2. Unseen(x)' = Unseen(x)
            BY <2>1, <2>2, <2>4
        <3> QED
            BY <3>1, <3>2, <1>2, <1>5, <2>4, QuestionNow DEF QuestionOf
    <2> QED
        BY <2>3, <2>4
<1>8. CountInv'
    <2> SUFFICES ASSUME NEW x \in Users
                 PROVE  Outstanding(x)' <= IF pinged_already'[x] THEN 2 ELSE 1
        BY DEF CountInv
    <2>1. CASE x = current
        <3>1. /\ Count(to_user'[x], aliveness_check) = Count(to_user[x], aliveness_check) + 1
              /\ Count(to_user'[x], file_ID_of_admin) = Count(to_user[x], file_ID_of_admin)
            <4>1. aliveness_check # file_ID_of_admin
                BY MessagesApart
            <4>2. \A m : Count(Append(s, aliveness_check), m)
                            = Count(s, m) + IF aliveness_check = m THEN 1 ELSE 0
                BY <1>1, <1>3, CountAppend DEF s
            <4>3. Count(s, file_ID_of_admin) \in Nat
                BY <1>1, CountType DEF s
            <4> QED
                BY <4>1, <4>2, <4>3, <2>1, <1>4 DEF s
        <3>2. Outstanding(x) <= 1
            BY <2>1 DEF AdminInv, CountInv
        <3>3. /\ Count(to_user[x], aliveness_check) \in Nat /\ Count(to_user[x], file_ID_of_admin) \in Nat
              /\ Count(to_admin, x) \in Nat
            BY <1>3, CountType DEF AdminInv, TypeInv
        <3> QED
            BY <3>1, <3>2, <3>3, <2>1, <1>2, <1>4 DEF Outstanding
    <2>2. CASE x # current
        BY <2>2, <1>2, <1>5 DEF AdminInv, CountInv, Outstanding
    <2> QED
        BY <2>1, <2>2
<1>9. CitizenInv'
    <2> SUFFICES ASSUME NEW x \in Users, NEW i \in DOMAIN to_user'[x] PROVE CitizenAt(x, i)'
        BY DEF CitizenInv
    <2>1. CASE x = current
        <3>1. CASE i \in 1 .. Len(s)
            <4>1. CitizenAt(x, i)
                BY <3>1, <2>1, <1>4 DEF AdminInv, CitizenInv, s
            <4>2. /\ to_user'[x][i] = to_user[x][i] /\ to_user'[x][1] = to_user[x][1]
                  /\ \A j \in 1 .. i - 1 : to_user'[x][j] = to_user[x][j]
                BY <3>1, <2>1, <1>4 DEF s
            <4> QED
                BY <4>1, <4>2, <1>2 DEF CitizenAt, memories
        <3>2. CASE i = Len(s) + 1
            BY <3>2, <2>1, <1>4, MessagesApart DEF CitizenAt
        <3> QED
            BY <3>1, <3>2, <2>1, <1>4
    <2>2. CASE x # current
        BY <2>2, <1>2, <1>5 DEF AdminInv, CitizenInv, CitizenAt, memories
    <2> QED
        BY <2>1, <2>2
<1>10. AddressInv'
    <2> SUFFICES ASSUME NEW x \in Users PROVE AddressOf(x)'
        BY DEF AddressInv
    <2>1. CASE x = current
        BY <2>1, <1>2, <1>4 DEF AdminInv, AddressInv, AddressOf, memories, s
    <2>2. CASE x # current
        BY <2>2, <1>2, <1>5 DEF AdminInv, AddressInv, AddressOf, memories
    <2> QED
        BY <2>1, <2>2
<1> QED
    BY <1>2, <1>6, <1>7, <1>8, <1>9, <1>10 DEF AdminInv, ToldInOrder, memories

LEMMA StepCheckUser == AdminInv /\ check_user => AdminInv'
<1> SUFFICES ASSUME AdminInv, check_user PROVE AdminInv'
    OBVIOUS
<1>1. silence[current] \in Nat /\ pinged_already[current] \in BOOLEAN
    BY DEF AdminInv, TypeInv
<1>2. \/ silence[current] > GiveUp
      \/ silence[current] <= GiveUp /\ (silence[current] <= PingAfter \/ pinged_already[current])
      \/ silence[current] <= GiveUp /\ silence[current] > PingAfter /\ ~pinged_already[current]
    BY <1>1, TimesAssumption
<1> QED
    BY <1>2, StepGivesUp, StepLooks, StepAsks

-----------------------------------------------------------------------------
(* Events *)

LEMMA StepAdminEvent == AdminInv /\ admin_handle_event => AdminInv'
<1> SUFFICES ASSUME AdminInv, admin_handle_event PROVE AdminInv'
    OBVIOUS
<1> USE TimesAssumption
<1> DEFINE u == Head(to_admin)
<1>1. /\ to_admin \in Seq(Users) /\ to_admin # <<>>
      /\ silence \in [Users -> Nat] /\ pinged_already \in [Users -> BOOLEAN]
    BY DEF AdminInv, TypeInv, admin_handle_event
<1>2. /\ u \in Users /\ Tail(to_admin) \in Seq(Users)
      /\ DOMAIN to_admin = 1 .. Len(to_admin) /\ DOMAIN Tail(to_admin) = 1 .. Len(to_admin) - 1
      /\ u = to_admin[1] /\ Len(to_admin) \in Nat \ {0}
      /\ \A i \in 1 .. Len(to_admin) - 1 : Tail(to_admin)[i] = to_admin[i + 1]
    BY <1>1, TailFacts
<1>3. /\ UNCHANGED <<to_user, round, current, admin_rest, awake, user_rest, memories, alive>>
      /\ round = "events" /\ to_admin' = Tail(to_admin)
      /\ silence' = [silence EXCEPT ![u] = 0]
      /\ pinged_already' = [pinged_already EXCEPT ![u] = FALSE]
    BY DEF admin_handle_event, user
<1>4. silence'[u] = 0 /\ ~pinged_already'[u]
    BY <1>1, <1>2, <1>3
<1>5. \A x \in Users \ {u} : silence'[x] = silence[x] /\ pinged_already'[x] = pinged_already[x]
    BY <1>1, <1>2, <1>3
<1>6. TypeInv'
    <2>1. silence' \in [Users -> Nat] /\ pinged_already' \in [Users -> BOOLEAN]
        BY <1>1, <1>2, <1>3
    <2> QED
        BY <2>1, <1>2, <1>3 DEF AdminInv, TypeInv, memories
<1> HIDE DEF u
<1>7. QuestionInv'
    <2> SUFFICES ASSUME NEW x \in Users PROVE QuestionOf(x)'
        BY DEF QuestionInv
    <2>1. Unseen(x)' = Unseen(x) /\ Unseen(x) \in Nat
        BY <1>3 DEF Unseen, AdminInv, TypeInv
    <2>2. CASE x = u
        <3>1. user_rest[x] \in Nat /\ user_rest'[x] = user_rest[x]
            BY <1>3 DEF AdminInv, TypeInv
        <3> QED
            BY <3>1, <2>1, <2>2, <1>3, <1>4 DEF QuestionOf
    <2>3. CASE x # u
        <3>1. Asked(x)' = Asked(x)
            BY <1>3 DEF Asked
        <3>2. Answered(x) => Answered(x)'
            <4>1. SUFFICES ASSUME NEW i \in DOMAIN to_admin, to_admin[i] = x PROVE Answered(x)'
                BY DEF Answered
            <4>2. i - 1 \in 1 .. Len(to_admin) - 1 /\ Tail(to_admin)[i - 1] = x
                BY <4>1, <2>3, <1>2
            <4> QED
                BY <4>2, <1>2, <1>3 DEF Answered
        <3> QED
            BY <3>1, <3>2, <2>1, <2>3, <1>3, <1>5, QuestionNow DEF QuestionOf
    <2> QED
        BY <2>2, <2>3
<1>8. CountInv'
    <2> SUFFICES ASSUME NEW x \in Users
                 PROVE  Outstanding(x)' <= IF pinged_already'[x] THEN 2 ELSE 1
        BY DEF CountInv
    <2>1. /\ Count(to_admin, x) = Count(to_admin', x) + IF u = x THEN 1 ELSE 0
          /\ Count(to_admin', x) \in Nat
        BY <1>1, <1>2, <1>3, CountTail, CountType DEF u
    <2>2. /\ Count(to_user[x], aliveness_check) \in Nat /\ Count(to_user[x], file_ID_of_admin) \in Nat
          /\ to_user' = to_user
        BY <1>3, CountType DEF AdminInv, TypeInv
    <2>3. /\ Outstanding(x) <= IF pinged_already[x] THEN 2 ELSE 1
          /\ Outstanding(x) = Outstanding(x)' + IF u = x THEN 1 ELSE 0
          /\ Outstanding(x)' \in Nat
        BY <2>1, <2>2 DEF AdminInv, CountInv, Outstanding
    <2> QED
        BY <2>3, <1>4, <1>5
<1>9. CitizenInv' /\ AddressInv'
    BY <1>3 DEF AdminInv, CitizenInv, CitizenAt, AddressInv, AddressOf, memories
<1> QED
    BY <1>3, <1>6, <1>7, <1>8, <1>9 DEF AdminInv, ToldInOrder, memories

\* What a user's event does to the user's memory and to the queues.
Handled(u, message) ==
    \/ /\ message = file_ID_of_admin
       /\ admin_receive_mem' = admin_receive_mem \cup {u} /\ UNCHANGED <<citizen_mem, failed>>
       /\ to_admin' = Append(to_admin, u)
    \/ /\ message = aliveness_check /\ UNCHANGED memories
       /\ to_admin' = Append(to_admin, u)
    \/ /\ message.event = "file_ID_of_user" /\ message \notin Questions /\ u = king
       /\ citizen_mem' = Append(citizen_mem, message.about)
       /\ UNCHANGED <<to_admin, admin_receive_mem, failed>>
    \/ message = file_ID_of_king /\ message \notin Questions /\ UNCHANGED <<to_admin, memories>>

\* No check fails: a citizen is the next one, and who pings knows the address.
LEMMA EventHandled ==
    ASSUME AdminInv, NEW u \in Users, handle_queue_event(u)
    PROVE  Handled(u, Head(to_user[u]))
<1> DEFINE m == Head(to_user[u])
<1>1. to_user[u] \in Seq(Messages) /\ to_user[u] # <<>>
    BY DEF AdminInv, TypeInv, handle_queue_event
<1>2. m = to_user[u][1] /\ 1 \in DOMAIN to_user[u] /\ m \in Messages
    BY <1>1, TailFacts
<1>3. /\ CitizenAt(u, 1) /\ AddressOf(u) /\ failed = FALSE /\ citizen_mem \in Seq(0 .. number_of_users)
    BY <1>2 DEF AdminInv, CitizenInv, AddressInv, ToldInOrder, TypeInv
<1>4. CASE m = file_ID_of_admin /\ ping(u) /\ admin_receive_mem' = admin_receive_mem \cup {u}
              /\ UNCHANGED citizen_mem
    BY <1>3, <1>4 DEF ping, Handled
<1>5. CASE m = aliveness_check /\ ping(u) /\ UNCHANGED <<admin_receive_mem, citizen_mem>>
    <2>1. u \in admin_receive_mem
        BY <1>2, <1>3, <1>5 DEF AddressOf
    <2> QED
        BY <2>1, <1>3, <1>5 DEF ping, Handled, memories
<1>6. CASE m = file_ID_of_king /\ UNCHANGED <<to_admin, memories>>
    <2>1. m \notin Questions
        BY <1>6, MessagesApart
    <2> QED
        BY <2>1, <1>6 DEF Handled
<1>7. CASE m.event = "file_ID_of_user" /\ open_user(u, m.about)
    <2>1. m \notin Questions
        BY <1>7, MessagesApart
    <2>2. m.about = Len(citizen_mem) + 1 /\ u = king
        BY <1>2, <1>3, <1>7 DEF CitizenAt
    <2>3. Len(citizen_mem) \in Nat
        BY <1>3
    <2>4. ~(Len(citizen_mem) # m.about - 1)
        BY <2>2, <2>3
    <2>5. failed' = failed /\ citizen_mem' = Append(citizen_mem, m.about)
        BY <2>4, <1>3, <1>7 DEF open_user
    <2> QED
        BY <2>1, <2>2, <2>5, <1>7 DEF open_user, Handled
<1>8. \/ /\ m = file_ID_of_admin /\ ping(u) /\ admin_receive_mem' = admin_receive_mem \cup {u}
         /\ UNCHANGED citizen_mem
      \/ m = aliveness_check /\ ping(u) /\ UNCHANGED <<admin_receive_mem, citizen_mem>>
      \/ m = file_ID_of_king /\ UNCHANGED <<to_admin, memories>>
      \/ m.event = "file_ID_of_user" /\ open_user(u, m.about)
    BY DEF handle_queue_event
<1> HIDE DEF m
<1>9. Handled(u, m)
    BY <1>4, <1>5, <1>6, <1>7, <1>8 DEF m
<1> QED
    BY <1>9 DEF m

LEMMA StepUserEvent ==
    ASSUME AdminInv, NEW u \in Users, handle_queue_event(u)
    PROVE  AdminInv'
<1> USE TimesAssumption
<1> DEFINE s == to_user[u]
           m == Head(to_user[u])
<1>1. s \in Seq(Messages) /\ s # <<>> /\ to_user \in [Users -> Seq(Messages)] /\ to_admin \in Seq(Users)
    BY DEF AdminInv, TypeInv, handle_queue_event
<1>2. /\ Tail(s) \in Seq(Messages) /\ m \in Messages /\ m = s[1] /\ Len(s) \in Nat \ {0}
      /\ DOMAIN s = 1 .. Len(s) /\ DOMAIN Tail(s) = 1 .. Len(s) - 1
      /\ \A i \in 1 .. Len(s) - 1 : Tail(s)[i] = s[i + 1]
    BY <1>1, TailFacts
<1>3. /\ UNCHANGED <<round, current, admin_rest, silence, pinged_already, awake, user_rest, alive>>
      /\ to_user' = [to_user EXCEPT ![u] = Tail(@)]
    BY DEF handle_queue_event, admin
<1>4. to_user'[u] = Tail(s) /\ \A x \in Users \ {u} : to_user'[x] = to_user[x]
    BY <1>1, <1>3
<1>5. Handled(u, m)
    BY EventHandled
<1>6. /\ to_admin' = IF m \in Questions THEN Append(to_admin, u) ELSE to_admin
      /\ admin_receive_mem \subseteq admin_receive_mem' /\ failed' = failed
      /\ admin_receive_mem' \subseteq admin_receive_mem \cup {u}
      /\ u \notin admin_receive_mem' => m # file_ID_of_admin
    <2> HIDE DEF m
    <2>1. /\ file_ID_of_admin \in Questions /\ aliveness_check \in Questions
          /\ file_ID_of_admin # aliveness_check
        BY MessagesApart DEF Questions
    <2>2. CASE m \in Questions
        BY <2>1, <2>2, <1>5 DEF Handled, memories
    <2>3. CASE m \notin Questions
        BY <2>1, <2>3, <1>5 DEF Handled, memories
    <2> QED
        BY <2>2, <2>3
<1>7. /\ DOMAIN to_admin = 1 .. Len(to_admin) /\ Len(to_admin) \in Nat
      /\ to_admin' \in Seq(Users)
      /\ \A i \in DOMAIN to_admin : i \in DOMAIN to_admin' /\ to_admin'[i] = to_admin[i]
      /\ m \in Questions => Len(to_admin) + 1 \in DOMAIN to_admin' /\ to_admin'[Len(to_admin) + 1] = u
    <2>1. DOMAIN to_admin = 1 .. Len(to_admin) /\ Len(to_admin) \in Nat
        BY <1>1, LenProperties
    <2>2. CASE m \in Questions
        <3>1. to_admin' = Append(to_admin, u)
            BY <1>6, <2>2
        <3> QED
            BY <3>1, <2>1, <1>1, AppendFacts
    <2>3. CASE m \notin Questions
        BY <2>1, <2>3, <1>1, <1>6
    <2> QED
        BY <2>1, <2>2, <2>3
<1>8. TypeInv'
    <2>1. to_user' \in [Users -> Seq(Messages)]
        BY <1>1, <1>2, <1>3
    <2>2. citizen_mem' \in Seq(0 .. number_of_users)
        <3>1. m.about \in 0 .. number_of_users
            BY <1>2 DEF Messages
        <3>2. citizen_mem \in Seq(0 .. number_of_users)
            BY DEF AdminInv, TypeInv
        <3> QED
            BY <3>1, <3>2, <1>5 DEF Handled, memories
    <2> QED
        BY <2>1, <2>2, <1>3, <1>6, <1>7 DEF AdminInv, TypeInv
<1> HIDE DEF s, m
<1>9. QuestionInv'
    <2> SUFFICES ASSUME NEW x \in Users PROVE QuestionOf(x)'
        BY DEF QuestionInv
    <2>1. Unseen(x)' = Unseen(x)
        BY <1>3 DEF Unseen
    <2>2. Answered(x) => Answered(x)'
        BY <1>7 DEF Answered
    <2>3. Asked(x)' => Asked(x)
        <3>1. SUFFICES ASSUME NEW i \in DOMAIN to_user'[x], to_user'[x][i] \in Questions
                       PROVE  Asked(x)
            BY DEF Asked
        <3>2. CASE x = u
            <4>1. i + 1 \in DOMAIN s /\ s[i + 1] \in Questions
                BY <3>1, <3>2, <1>2, <1>4
            <4> QED
                BY <4>1, <3>2 DEF Asked, s
        <3>3. CASE x # u
            BY <3>1, <3>3, <1>4 DEF Asked
        <3> QED
            BY <3>2, <3>3
    <2>4. Asked(x) => Asked(x)' \/ Answered(x)'
        <3>1. SUFFICES ASSUME NEW i \in DOMAIN to_user[x], to_user[x][i] \in Questions
                       PROVE  Asked(x)' \/ Answered(x)'
            BY DEF Asked
        <3>2. CASE x = u /\ i = 1
            BY <3>1, <3>2, <1>2, <1>7 DEF Answered, s
        <3>3. CASE x = u /\ i # 1
            <4>1. i - 1 \in 1 .. Len(s) - 1 /\ (i - 1) + 1 = i
                BY <3>1, <3>3, <1>2 DEF s
            <4> QED
                BY <4>1, <3>1, <3>3, <1>2, <1>4 DEF Asked, s
        <3>4. CASE x # u
            BY <3>1, <3>4, <1>4 DEF Asked
        <3> QED
            BY <3>2, <3>3, <3>4
    <2> QED
        BY <2>1, <2>2, <2>3, <2>4, <1>3, QuestionNow DEF QuestionOf
<1>10. CountInv'
    <2> SUFFICES ASSUME NEW x \in Users
                 PROVE  Outstanding(x)' <= IF pinged_already'[x] THEN 2 ELSE 1
        BY DEF CountInv
    <2>1. /\ Count(to_user[x], aliveness_check) \in Nat /\ Count(to_user[x], file_ID_of_admin) \in Nat
          /\ Count(to_admin, x) \in Nat
          /\ Count(to_user'[x], aliveness_check) \in Nat /\ Count(to_user'[x], file_ID_of_admin) \in Nat
        BY <1>1, <1>8, CountType DEF TypeInv
    <2>2. Count(to_admin', x) = Count(to_admin, x) + IF m \in Questions /\ u = x THEN 1 ELSE 0
        <3>1. CASE m \in Questions
            <4>1. Count(Append(to_admin, u), x) = Count(to_admin, x) + IF u = x THEN 1 ELSE 0
                BY <1>1, CountAppend
            <4> QED
                BY <4>1, <3>1, <1>6, <2>1
        <3>2. CASE m \notin Questions
            BY <3>2, <1>6, <2>1
        <3> QED
            BY <3>1, <3>2
    <2>3. CASE x = u
        <3>1. /\ Count(s, aliveness_check) = Count(Tail(s), aliveness_check)
                                              + IF m = aliveness_check THEN 1 ELSE 0
              /\ Count(s, file_ID_of_admin) = Count(Tail(s), file_ID_of_admin)
                                              + IF m = file_ID_of_admin THEN 1 ELSE 0
            BY <1>1, CountTail DEF s, m
        <3>2. aliveness_check # file_ID_of_admin
            BY MessagesApart
        <3>3. Outstanding(x)' = Outstanding(x)
            BY <2>1, <2>2, <2>3, <3>1, <3>2, <1>4 DEF Outstanding, Questions, s
        <3> QED
            BY <3>3, <1>3 DEF AdminInv, CountInv
    <2>4. CASE x # u
        <3>1. Outstanding(x)' = Outstanding(x)
            BY <2>1, <2>2, <2>4, <1>4 DEF Outstanding
        <3> QED
            BY <3>1, <1>3 DEF AdminInv, CountInv
    <2> QED
        BY <2>3, <2>4
<1>11. CitizenInv'
    <2> SUFFICES ASSUME NEW x \in Users, NEW i \in DOMAIN to_user'[x] PROVE CitizenAt(x, i)'
        BY DEF CitizenInv
    <2>1. CASE x = u
        <3>1. i \in 1 .. Len(s) - 1 /\ i + 1 \in DOMAIN s /\ 1 \in DOMAIN s
            BY <2>1, <1>2, <1>4
        <3>2. CitizenAt(u, i + 1)
            BY <3>1 DEF AdminInv, CitizenInv, s
        <3>3. to_user'[u][i] = s[i + 1] /\ to_user'[u][1] = s[2]
            BY <3>1, <1>2, <1>4
        <3>4. s[i + 1].event # "file_ID_of_king"
            BY <3>1, <3>2 DEF CitizenAt, s
        <3>5. ASSUME s[i + 1].event = "file_ID_of_user"
              PROVE  /\ u = king /\ s[i + 1].about = Len(citizen_mem') + i
                     /\ s[2].event # "file_ID_of_king"
                     /\ \A j \in 1 .. i - 1 : to_user'[u][j] \notin Questions
            <4>1. /\ u = king
                  /\ s[i + 1].about = Len(citizen_mem) + (i + 1)
                                          - (IF s[1].event = "file_ID_of_king" THEN 1 ELSE 0)
                  /\ \A j \in 1 .. i : s[j] \notin Questions
                BY <3>1, <3>2, <3>5 DEF CitizenAt, s
            <4>2. Len(citizen_mem) \in Nat /\ citizen_mem \in Seq(0 .. number_of_users)
                BY DEF AdminInv, TypeInv
            <4>3. s[i + 1].about = Len(citizen_mem') + i
                <5>1. m \notin Questions
                    BY <4>1, <3>1, <1>2
                <5>2. CASE m = file_ID_of_king /\ UNCHANGED memories
                    BY <5>2, <4>1, <4>2, <3>1, <1>2, MessagesApart DEF memories
                <5>3. CASE m.event = "file_ID_of_user" /\ citizen_mem' = Append(citizen_mem, m.about)
                    <6>1. m.about \in 0 .. number_of_users
                        BY <1>2 DEF Messages
                    <6>2. Len(citizen_mem') = Len(citizen_mem) + 1
                        BY <6>1, <5>3, <4>2
                    <6>3. s[1].event # "file_ID_of_king"
                        BY <5>3, <1>2
                    <6>4. s[i + 1].about = Len(citizen_mem) + (i + 1) - 0
                        BY <6>3, <4>1
                    <6>5. i \in Int /\ Len(citizen_mem) \in Int
                        BY <4>2, <3>1, <1>2
                    <6> QED
                        BY <6>2, <6>4, <6>5
                <5>4. \/ m = file_ID_of_king /\ UNCHANGED memories
                      \/ m.event = "file_ID_of_user" /\ citizen_mem' = Append(citizen_mem, m.about)
                    <6>1. m # file_ID_of_admin /\ m # aliveness_check
                        BY <5>1 DEF Questions
                    <6> QED
                        BY <6>1, <1>5 DEF Handled, memories
                <5> QED
                    BY <5>2, <5>3, <5>4
            <4>4. 2 \in DOMAIN s
                BY <3>1, <1>2
            <4>5. CitizenAt(u, 2)
                BY <4>4 DEF AdminInv, CitizenInv, s
            <4>6. s[2].event # "file_ID_of_king"
                BY <4>5 DEF CitizenAt, s
            <4>7. \A j \in 1 .. i - 1 : j + 1 \in 1 .. i /\ to_user'[u][j] = s[j + 1]
                BY <3>1, <1>2, <1>4
            <4> QED
                BY <4>1, <4>3, <4>6, <4>7
        <3>6. Len(citizen_mem') \in Nat
            BY <1>8 DEF TypeInv
        <3> QED
            BY <2>1, <3>1, <3>3, <3>4, <3>5, <3>6 DEF CitizenAt
    <2>2. CASE x # u
        <3>1. CitizenAt(x, i) /\ to_user'[x] = to_user[x]
            BY <2>2, <1>4 DEF AdminInv, CitizenInv
        <3>2. x = king => citizen_mem' = citizen_mem
            BY <2>2, <1>5 DEF Handled, memories
        <3> QED
            BY <3>1, <3>2 DEF CitizenAt
    <2> QED
        BY <2>1, <2>2
<1>12. AddressInv'
    <2> SUFFICES ASSUME NEW x \in Users, x \notin admin_receive_mem' PROVE AddressOf(x)'
        BY DEF AddressInv, AddressOf
    <2>1. AddressOf(x) /\ x \notin admin_receive_mem
        BY <1>6 DEF AdminInv, AddressInv
    <2>2. CASE x = u
        <3>1. m # file_ID_of_admin /\ s[1] = m
            BY <2>2, <1>2, <1>6
        <3>2. PICK i \in DOMAIN s : s[i] = file_ID_of_admin
            BY <2>1, <2>2 DEF AddressOf, s
        <3>3. i - 1 \in 1 .. Len(s) - 1 /\ to_user'[u][i - 1] = file_ID_of_admin
            BY <3>1, <3>2, <1>2, <1>4
        <3>4. ASSUME NEW k \in DOMAIN to_user'[u], to_user'[u][k] = aliveness_check
              PROVE  \E j \in 1 .. k - 1 : to_user'[u][j] = file_ID_of_admin
            <4>1. k \in 1 .. Len(s) - 1 /\ k + 1 \in DOMAIN s /\ s[k + 1] = aliveness_check
                BY <3>4, <1>2, <1>4
            <4>2. PICK j \in 1 .. k : s[j] = file_ID_of_admin
                BY <4>1, <2>1, <2>2 DEF AddressOf, s
            <4>3. j - 1 \in 1 .. k - 1 /\ to_user'[u][j - 1] = s[j]
                BY <4>1, <4>2, <3>1, <1>2, <1>4
            <4> QED
                BY <4>2, <4>3
        <3> QED
            BY <2>2, <3>3, <3>4, <1>2, <1>4 DEF AddressOf
    <2>3. CASE x # u
        BY <2>1, <2>3, <1>4 DEF AddressOf
    <2> QED
        BY <2>2, <2>3
<1> QED
    BY <1>6, <1>8, <1>9, <1>10, <1>11, <1>12 DEF AdminInv, ToldInOrder

-----------------------------------------------------------------------------
(* The theorems *)

LEMMA AdminInduction == AdminInv /\ [Next]_vars => AdminInv'
<1> SUFFICES ASSUME AdminInv, [Next]_vars PROVE AdminInv'
    OBVIOUS
<1>1. CASE UNCHANGED vars
    <2>1. UNCHANGED <<queues, memories, pinged_already>>
        BY <1>1 DEF vars, user, admin
    <2>2. TypeInv'
        BY <1>1 DEF AdminInv, TypeInv, vars, queues, admin, user, memories
    <2>3. QuestionInv'
        BY <1>1 DEF AdminInv, QuestionInv, QuestionOf, Asked, Answered, Unseen, vars, queues, admin, user
    <2> QED
        BY <2>1, <2>2, <2>3, QueuesKept DEF AdminInv
<1>2. CASE admin_handle_event
    BY <1>2, StepAdminEvent
<1>3. CASE events_handled \/ admin_wakes
    BY <1>3, StepAdminTurns
<1>4. CASE check_user
    BY <1>4, StepCheckUser
<1>5. CASE tick
    BY <1>5, StepTick
<1>6. ASSUME NEW x \in Users, user_wakes(x) \/ user_sleeps(x) \/ die(x) PROVE AdminInv'
    BY <1>6, StepUserSleeps
<1>7. ASSUME NEW x \in Users, handle_queue_event(x) PROVE AdminInv'
    BY <1>7, StepUserEvent
<1> QED
    BY <1>1, <1>2, <1>3, <1>4, <1>5, <1>6, <1>7 DEF Next, Running

\* Every state of the protocol satisfies the inductive invariant.
THEOREM AdminInvariant == Spec => []AdminInv
<1>1. Init => AdminInv
    BY InvInit
<1>2. AdminInv /\ [Next]_vars => AdminInv'
    BY AdminInduction
<1> QED
    BY <1>1, <1>2, PTL DEF Spec

\* Type correctness, and the bound on the questions under way: pinged_already
\* keeps the admin from filling the queues (mmap.cpp:132).
THEOREM AdminTypeCorrect == Spec => []AdminTypeOK
<1>1. AdminInv => AdminTypeOK
    <2> SUFFICES ASSUME AdminInv PROVE AdminTypeOK
        OBVIOUS
    <2>1. \A x \in Users : silence[x] \in 0 .. GiveUp + AdminPause
        <3> SUFFICES ASSUME NEW x \in Users PROVE silence[x] \in 0 .. GiveUp + AdminPause
            OBVIOUS
        <3>1. silence[x] \in Nat /\ admin_rest \in 0 .. AdminPause
            BY DEF AdminInv, TypeInv
        <3>2. Unseen(x) \in 0 .. AdminPause
            BY <3>1, TimesAssumption DEF Unseen
        <3>3. silence[x] <= GiveUp + Unseen(x)
            BY QuestionNow DEF QuestionOf
        <3> QED
            BY <3>1, <3>2, <3>3, TimesAssumption
    <2>2. silence \in [Users -> 0 .. GiveUp + AdminPause]
        BY <2>1 DEF AdminInv, TypeInv
    <2> QED
        BY <2>2 DEF AdminInv, TypeInv, CountInv, AdminTypeOK
<1> QED
    BY <1>1, AdminInvariant, PTL

\* No user that runs is given up, whatever the timeouts are, so long as the
\* pauses of both sides fit between them (mmap.cpp:126-130).
THEOREM NoUserWronged == Spec => []NoneWronged
<1>1. AdminInv => NoneWronged
    <2> SUFFICES ASSUME AdminInv, round = "users", current \in alive
                 PROVE  silence[current] <= GiveUp
        BY DEF NoneWronged
    <2>1. current \in Users /\ silence[current] \in Nat
        BY DEF AdminInv, TypeInv
    <2>2. silence[current] <= PingAfter + AdminPause + UserPause
        BY <2>1, QuestionNow DEF QuestionOf
    <2> QED
        BY <2>1, <2>2, TimesAssumption
<1> QED
    BY <1>1, AdminInvariant, PTL

\* The king is told its citizens in order, and nobody pings an admin whose
\* address it was not told (slave.cpp:40, 49), for any number of users.
THEOREM CitizensInOrder == Spec => []ToldInOrder
<1>1. AdminInv => ToldInOrder
    BY DEF AdminInv
<1> QED
    BY <1>1, AdminInvariant, PTL
=============================================================================
