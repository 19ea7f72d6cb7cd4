---------------------------- MODULE AdminProtocol ----------------------------
(***************************************************************************)
(* The admin and its users (user_admin/mmap.cpp, slave.cpp): each user has *)
(* a queue, the admin has one; the admin asks a user that was silent for   *)
(* too long whether it is alive and gives it up if it does not answer.     *)
(* The queues are channels (module Channel says what they promise).        *)
(***************************************************************************)
EXTENDS Integers, Sequences, FiniteSets

CONSTANTS
    number_of_users,    \* users are 0 .. number_of_users - 1, 0 is the king
    PingAfter,          \* silence after which a user is asked, one second
    GiveUp,             \* silence after which it is given up, three seconds
    AdminPause,         \* the longest that the admin takes from round to round
    UserPause           \* the longest that a user takes to start, and from poll to poll

Users == 0 .. number_of_users - 1
king == 0

ASSUME TimesAssumption ==
    /\ number_of_users \in Nat \ {0}
    /\ PingAfter \in Nat /\ GiveUp \in Nat
    /\ AdminPause \in Nat \ {0} /\ UserPause \in Nat \ {0}
    /\ PingAfter + AdminPause + UserPause <= GiveUp

VARIABLES
    to_user,        \* the users' queues
    to_admin,       \* admin_receiver: the users that pinged
    round,          \* the admin: "sleep", "events", "users", or "error" when it aborted
    current,        \* x, the user that the admin's loop looks at
    admin_rest,     \* time since the admin's last round
    silence,        \* current_time - time_of_last_ping[x]
    pinged_already,
    awake,          \* the users that are handling events
    user_rest,      \* time since a user's last poll
    admin_receive_mem,  \* the users that have opened the admin's queue
    citizen_mem,    \* the king's list of citizens
    failed,         \* a check failed, or a queue was written that is not open
    alive           \* the users that still run

queues == <<to_user, to_admin>>
admin == <<round, current, admin_rest, silence, pinged_already>>
memories == <<admin_receive_mem, citizen_mem, failed>>
user == <<awake, user_rest, memories>>
vars == <<queues, admin, user, alive>>

----------------------------------------------------------------------------
(* Messages: an event and whom it is about. *)
Event(name, about) == [event |-> name, about |-> about]
file_ID_of_king == Event("file_ID_of_king", king)
file_ID_of_admin == Event("file_ID_of_admin", number_of_users)
aliveness_check == Event("aliveness_check", number_of_users)
file_ID_of_user(x) == Event("file_ID_of_user", x)

\* Mutant: the citizens are counted downwards.
Initial_downwards(x) ==
    <<file_ID_of_king>>
        \o (IF x = king THEN [i \in 1 .. number_of_users - 1 |-> file_ID_of_user(number_of_users - i)]
            ELSE <<>>)
        \o <<file_ID_of_admin>>

\* What the admin writes to a user's queue before it starts the user.
Initial(x) ==
    <<file_ID_of_king>>
        \o (IF x = king THEN [i \in 1 .. number_of_users - 1 |-> file_ID_of_user(i)] ELSE <<>>)
        \o <<file_ID_of_admin>>

Init ==
    /\ to_user = [x \in Users |-> Initial(x)]
    /\ to_admin = <<>>
    /\ round = "events"
    /\ current = king
    /\ admin_rest = 0
    /\ silence = [x \in Users |-> 0]
    /\ pinged_already = [x \in Users |-> FALSE]
    /\ awake = {}
    /\ user_rest = [x \in Users |-> 0]
    /\ admin_receive_mem = {}
    /\ citizen_mem = <<>>
    /\ failed = FALSE
    /\ alive = Users

----------------------------------------------------------------------------
(* The admin's loop. *)

\* Mutant: that the user was asked is not forgotten when it answers.
admin_handle_event_asked ==
    /\ round = "events" /\ to_admin # <<>>
    /\ silence' = [silence EXCEPT ![Head(to_admin)] = 0]
    /\ to_admin' = Tail(to_admin)
    /\ UNCHANGED <<to_user, round, current, admin_rest, pinged_already, user, alive>>

\* existence_ping: the user was heard of now.
admin_handle_event ==
    /\ round = "events" /\ to_admin # <<>>
    /\ silence' = [silence EXCEPT ![Head(to_admin)] = 0]
    /\ pinged_already' = [pinged_already EXCEPT ![Head(to_admin)] = FALSE]
    /\ to_admin' = Tail(to_admin)
    /\ UNCHANGED <<to_user, round, current, admin_rest, user, alive>>

events_handled ==
    /\ round = "events" /\ to_admin = <<>>
    /\ round' = "users" /\ current' = king
    /\ UNCHANGED <<queues, admin_rest, silence, pinged_already, user, alive>>

next_user ==
    /\ round' = IF current + 1 \in Users THEN "users" ELSE "sleep"
    /\ current' = IF current + 1 \in Users THEN current + 1 ELSE current

\* Mutant: a silent user is asked in every round.
check_user_repeating ==
    /\ round = "users"
    /\ IF silence[current] > GiveUp
       THEN round' = "error" /\ UNCHANGED <<current, to_user, pinged_already>>
       ELSE /\ next_user
            /\ IF silence[current] > PingAfter
               THEN /\ pinged_already' = [pinged_already EXCEPT ![current] = TRUE]
                    /\ to_user' = [to_user EXCEPT ![current] = Append(@, aliveness_check)]
               ELSE UNCHANGED <<to_user, pinged_already>>
    /\ admin_rest' = 0
    /\ UNCHANGED <<to_admin, silence, user, alive>>

\* Mutant: a user that was asked is waited for.
check_user_waiting ==
    /\ round = "users"
    /\ IF silence[current] > GiveUp /\ ~pinged_already[current]
       THEN round' = "error" /\ UNCHANGED <<current, to_user, pinged_already>>
       ELSE /\ next_user
            /\ IF silence[current] > PingAfter /\ ~pinged_already[current]
               THEN /\ pinged_already' = [pinged_already EXCEPT ![current] = TRUE]
                    /\ to_user' = [to_user EXCEPT ![current] = Append(@, aliveness_check)]
               ELSE UNCHANGED <<to_user, pinged_already>>
    /\ admin_rest' = 0
    /\ silence' = [silence EXCEPT ![current] = IF @ > GiveUp THEN GiveUp ELSE @]
    /\ UNCHANGED <<to_admin, user, alive>>

\* One turn of the loop over the users; error() ends the admin.
check_user ==
    /\ round = "users"
    /\ IF silence[current] > GiveUp
       THEN round' = "error" /\ UNCHANGED <<current, to_user, pinged_already>>
       ELSE /\ next_user
            /\ IF silence[current] > PingAfter /\ ~pinged_already[current]
               THEN /\ pinged_already' = [pinged_already EXCEPT ![current] = TRUE]
                    /\ to_user' = [to_user EXCEPT ![current] = Append(@, aliveness_check)]
               ELSE UNCHANGED <<to_user, pinged_already>>
    /\ admin_rest' = 0
    /\ UNCHANGED <<to_admin, silence, user, alive>>

admin_wakes ==
    /\ round = "sleep" /\ admin_rest > 0
    /\ round' = "events"
    /\ UNCHANGED <<queues, current, admin_rest, silence, pinged_already, user, alive>>

----------------------------------------------------------------------------
(* A user's loop. *)
user_wakes(x) ==
    /\ x \in alive \ awake /\ user_rest[x] > 0
    /\ awake' = awake \cup {x}
    /\ UNCHANGED <<queues, admin, user_rest, memories, alive>>

\* existence_ping goes to where the admin's queue was opened.
ping(x) ==
    /\ to_admin' = Append(to_admin, x)
    /\ failed' = (failed \/ x \notin admin_receive_mem')

open_user(x, citizen_ID) ==
    /\ failed' = (failed \/ Len(citizen_mem) # citizen_ID - 1)
    /\ citizen_mem' = Append(citizen_mem, citizen_ID)
    /\ UNCHANGED <<to_admin, admin_receive_mem>>

handle_queue_event(x) ==
    /\ x \in alive \cap awake /\ to_user[x] # <<>>
    /\ to_user' = [to_user EXCEPT ![x] = Tail(@)]
    /\ LET message == Head(to_user[x]) IN
       \/ /\ message = file_ID_of_admin
          /\ admin_receive_mem' = admin_receive_mem \cup {x}
          /\ ping(x)
          /\ UNCHANGED citizen_mem
       \/ /\ message = file_ID_of_king
          /\ UNCHANGED <<to_admin, memories>>
       \/ /\ message.event = "file_ID_of_user"
          /\ open_user(x, message.about)
       \/ /\ message = aliveness_check
          /\ UNCHANGED <<admin_receive_mem, citizen_mem>>
          /\ ping(x)
    /\ UNCHANGED <<admin, awake, user_rest, alive>>

user_sleeps(x) ==
    /\ x \in alive \cap awake /\ to_user[x] = <<>>
    /\ awake' = awake \ {x}
    /\ user_rest' = [user_rest EXCEPT ![x] = 0]
    /\ UNCHANGED <<queues, admin, memories, alive>>

\* A user stops, in its sleep or before any event.  It is not killed inside a send,
\* between its reservation and its commit: generic_ipc.h:11 assumes that, as the
\* other users' messages would then never arrive.
die(x) ==
    /\ x \in alive
    /\ alive' = alive \ {x}
    /\ awake' = awake \ {x}
    /\ UNCHANGED <<queues, admin, user_rest, memories>>

----------------------------------------------------------------------------
\* Time passes while everyone who runs sleeps, and nobody oversleeps.
tick ==
    /\ round = "sleep" /\ admin_rest < AdminPause
    /\ awake = {}
    /\ \A x \in alive : user_rest[x] < UserPause
    /\ admin_rest' = admin_rest + 1
    /\ silence' = [x \in Users |-> silence[x] + 1]
    /\ user_rest' = [x \in Users |-> IF x \in alive THEN user_rest[x] + 1 ELSE user_rest[x]]
    /\ UNCHANGED <<queues, round, current, pinged_already, awake, memories, alive>>

\* Once the admin has aborted nothing more is followed.
Running ==
    \/ admin_handle_event \/ events_handled \/ check_user \/ admin_wakes \/ tick
    \/ \E x \in Users : user_wakes(x) \/ handle_queue_event(x) \/ user_sleeps(x)

Next == round # "error" /\ (Running \/ \E x \in Users : die(x))

Spec == Init /\ [][Next]_vars

\* Processes that run are scheduled and time goes on; nobody has to die.
FairSpec == Spec /\ WF_vars(round # "error" /\ Running)

----------------------------------------------------------------------------
(* Properties. *)

\* How often user x will yet be heard of if it runs: its address of the admin,
\* the questions in its queue, and its answers on their way.
Count(s, m) == Cardinality({i \in DOMAIN s : s[i] = m})
Outstanding(x) ==
    Count(to_user[x], file_ID_of_admin) + Count(to_user[x], aliveness_check) + Count(to_admin, x)

\* The type invariant. pinged_already keeps the admin from filling the queues:
\* it has at most one question open beside the first ping (mmap.cpp:132).
AdminTypeOK ==
    /\ round \in {"sleep", "events", "users", "error"} /\ current \in Users
    /\ admin_rest \in 0 .. AdminPause
    /\ silence \in [Users -> 0 .. GiveUp + AdminPause]
    /\ user_rest \in [Users -> 0 .. UserPause]
    /\ pinged_already \in [Users -> BOOLEAN]
    /\ awake \subseteq alive /\ alive \subseteq Users
    /\ admin_receive_mem \subseteq Users
    /\ \A x \in Users : Outstanding(x) <= IF pinged_already[x] THEN 2 ELSE 1

\* The admin gives up no user that runs: whenever it looks at one, an answer to
\* its question has arrived in time (mmap.cpp:126-130), although questions and
\* answers wait in queues and both sides sleep.
NoneWronged == round = "users" /\ current \in alive => silence[current] <= GiveUp

\* The king's citizens arrive in order, and nobody pings the admin before it was
\* told the admin's address (slave.cpp:40, 49).
ToldInOrder == ~failed

\* A user that died is noticed (mmap.cpp:128).
DeadAreFound == \A x \in Users : x \notin alive ~> round = "error"
=============================================================================
