------------------------- MODULE MultipleSenderQueue -------------------------
(***************************************************************************)
(* multiple_sender_queue of src/src/generic_ipc.h: a ring in shared memory *)
(* that several processes write to without a lock and one process reads.   *)
(* A sender reserves a stretch by compare-and-swap, fills it word by word, *)
(* and commits it, by a second compare-and-swap, when everything reserved  *)
(* before it has been committed.                                           *)
(*                                                                         *)
(* The atomics are sequentially consistent and publish the plain writes    *)
(* before them, so each access to shared memory is one step.  A failing    *)
(* compare-and-swap of commit_memory, and one that fails for no reason,    *)
(* which the _weak form may, change nothing and are no steps here.         *)
(***************************************************************************)
EXTENDS Integers, Sequences

CONSTANTS
    Senders,       \* the processes that write
    Messages,      \* by sender, what it may write: sequences of words
    Handled,       \* the events the receiver's switch has a case for
    MayCrash,      \* the senders that may be killed
    mmap_size,     \* generic_ipc.h:12, where the ring ends
    mapped_words,  \* the words behind the pointer mmap() returned
    MaxWords       \* bound: words written in a behaviour

\* generic_ipc.h:112: the three positions at the front of the memory.
msqh_size == 3

\* generic_ipc.h:15-23: the numbers of the events.
file_ID_of_king == 0
file_ID_of_user == 1
file_ID_of_admin == 2
existence_ping == 3
aliveness_check == 4

\* How many words a handler reads after the event, slave.cpp:33-60 and mmap.cpp:25-38.
Arguments ==
    [e \in file_ID_of_king .. aliveness_check |->
        CASE e = aliveness_check -> 0 [] e = file_ID_of_user -> 2 [] OTHER -> 1]

ASSUME QueueAssumption ==
    /\ mmap_size \in Nat /\ mmap_size > msqh_size + 20
    /\ mapped_words \in Nat /\ mapped_words > msqh_size
    /\ MaxWords \in Nat
    /\ Messages \in [Senders -> SUBSET (Seq(Nat) \ {<<>>})]
    /\ Handled \subseteq DOMAIN Arguments
    /\ MayCrash \subseteq Senders

\* The sizes that the checks of generic_ipc.h:152, 192 and 193 let pass: a longer
\* message would abort its sender, and every caller writes one to three words.
ASSUME LengthAssumption ==
    \A s \in Senders : \A m \in Messages[s] : Len(m) < mmap_size - msqh_size - 20

VARIABLES
    memory,                   \* the words of the mapping behind the header
    sender_reserve_position,
    sender_done_position,
    user_position,
    pc,                       \* where each sender is in write_values
    values,                   \* its argument
    starting_position,        \* what it has read of, then reserved at, the reserve position
    new_mem_offset,           \* where it writes next
    written,                  \* how many words it has written
    receiver,                 \* where the receiver is: polling, event, arguments, aborted
    expected,                 \* how many arguments it has yet to read
    got,                      \* the word it has read last
    total                     \* words of all messages so far, for the bound

senderVars == <<pc, values, starting_position, new_mem_offset, written>>
receiverVars == <<user_position, receiver, expected, got>>
queueVars == <<memory, sender_reserve_position, sender_done_position, senderVars,
               receiverVars, total>>

-----------------------------------------------------------------------------
QueueInit ==
    /\ memory = [w \in msqh_size .. mapped_words - 1 |-> 0]
    /\ sender_reserve_position = msqh_size
    /\ sender_done_position = msqh_size
    /\ user_position = msqh_size
    /\ pc = [s \in Senders |-> "idle"]
    /\ values = [s \in Senders |-> <<>>]
    /\ starting_position = [s \in Senders |-> 0]
    /\ new_mem_offset = [s \in Senders |-> 0]
    /\ written = [s \in Senders |-> 0]
    /\ receiver = "polling"
    /\ expected = 0
    /\ got = 0
    /\ total = 0

\* write_values is called.  Its checks on the size hold of every message there is
\* (LengthAssumption), so that no sender aborts here.
write_values(s) ==
    /\ pc[s] = "idle"
    /\ \E m \in Messages[s] :
        /\ total + Len(m) <= MaxWords
        /\ values' = [values EXCEPT ![s] = m]
        /\ total' = total + Len(m)
    /\ pc' = [pc EXCEPT ![s] = "load"]
    /\ UNCHANGED <<memory, sender_reserve_position, sender_done_position, starting_position,
                   new_mem_offset, written, receiverVars>>

load_reserve_position(s) ==
    /\ pc[s] = "load"
    /\ starting_position' = [starting_position EXCEPT ![s] = sender_reserve_position]
    /\ pc' = [pc EXCEPT ![s] = "reserve"]
    /\ UNCHANGED <<memory, sender_reserve_position, sender_done_position, values,
                   new_mem_offset, written, receiverVars, total>>

\* allocate_memory and commit_memory each compute where a stretch ends.
ReservedEnd(start, elements) ==
    IF start + elements >= mmap_size
    THEN start + elements - (mmap_size - msqh_size)
    ELSE start + elements

CommittedEnd(start, elements) ==
    IF start + elements > mmap_size
    THEN start + elements - (mmap_size - msqh_size)
    ELSE start + elements

\* Mutant of allocate_memory: a store, whatever the others have reserved meanwhile.
allocate_memory_NoCompare(s) ==
    /\ pc[s] = "reserve"
    /\ sender_reserve_position' = ReservedEnd(starting_position[s], Len(values[s]))
    /\ new_mem_offset' = [new_mem_offset EXCEPT ![s] = starting_position[s]]
    /\ written' = [written EXCEPT ![s] = 0]
    /\ pc' = [pc EXCEPT ![s] = "write"]
    /\ UNCHANGED <<memory, sender_done_position, values, starting_position, receiverVars, total>>

\* The compare-and-swap of allocate_memory.  The position of the reader is looked
\* at, but what follows from it is still to be written (generic_ipc.h:158-162).
allocate_memory(s) ==
    /\ pc[s] = "reserve"
    /\ sender_reserve_position = starting_position[s]
    /\ sender_reserve_position' = ReservedEnd(starting_position[s], Len(values[s]))
    /\ new_mem_offset' = [new_mem_offset EXCEPT ![s] = starting_position[s]]
    /\ written' = [written EXCEPT ![s] = 0]
    /\ pc' = [pc EXCEPT ![s] = "write"]
    /\ UNCHANGED <<memory, sender_done_position, values, starting_position, receiverVars, total>>

\* Mutant of allocate_memory_again: the new position is not loaded.
allocate_memory_again_Stale(s) ==
    /\ pc[s] = "reserve"
    /\ sender_reserve_position # starting_position[s]
    /\ UNCHANGED queueVars

\* Another sender was first: the failed swap has loaded the new position.
allocate_memory_again(s) ==
    /\ pc[s] = "reserve"
    /\ sender_reserve_position # starting_position[s]
    /\ starting_position' = [starting_position EXCEPT ![s] = sender_reserve_position]
    /\ UNCHANGED <<memory, sender_reserve_position, sender_done_position, pc, values,
                   new_mem_offset, written, receiverVars, total>>

\* Mutant of next_offset: the offset stays.
next_offset_Stays(offset) == offset

next_offset(offset) == IF offset + 1 = mmap_size THEN msqh_size ELSE offset + 1

\* Mutant of write_word: ready to commit after the first word.
write_word_CommitsEarly(s) ==
    /\ pc[s] = "write"
    /\ new_mem_offset[s] < mapped_words
    /\ memory' = [memory EXCEPT ![new_mem_offset[s]] = values[s][written[s] + 1]]
    /\ written' = [written EXCEPT ![s] = @ + 1]
    /\ new_mem_offset' = [new_mem_offset EXCEPT ![s] = next_offset(@)]
    /\ pc' = [pc EXCEPT ![s] = "commit"]
    /\ UNCHANGED <<sender_reserve_position, sender_done_position, values, starting_position,
                   receiverVars, total>>

\* One word of the message.  A process that writes behind the mapping gets no
\* further.
write_word(s) ==
    /\ pc[s] = "write"
    /\ new_mem_offset[s] < mapped_words
    /\ memory' = [memory EXCEPT ![new_mem_offset[s]] = values[s][written[s] + 1]]
    /\ written' = [written EXCEPT ![s] = @ + 1]
    /\ new_mem_offset' = [new_mem_offset EXCEPT ![s] = next_offset(@)]
    /\ pc' = [pc EXCEPT ![s] = IF written'[s] = Len(values[s]) THEN "commit" ELSE "write"]
    /\ UNCHANGED <<sender_reserve_position, sender_done_position, values, starting_position,
                   receiverVars, total>>

\* Mutant of commit_memory: it does not wait for its turn.
commit_memory_NoTurn(s) ==
    /\ pc[s] = "commit"
    /\ sender_done_position' = CommittedEnd(starting_position[s], Len(values[s]))
    /\ pc' = [pc EXCEPT ![s] = "idle"]
    /\ values' = [values EXCEPT ![s] = <<>>]
    /\ starting_position' = [starting_position EXCEPT ![s] = 0]
    /\ new_mem_offset' = [new_mem_offset EXCEPT ![s] = 0]
    /\ written' = [written EXCEPT ![s] = 0]
    /\ UNCHANGED <<memory, sender_reserve_position, receiverVars, total>>

\* The compare-and-swap of commit_memory succeeds when it is this sender's turn.
commit_memory(s) ==
    /\ pc[s] = "commit"
    /\ sender_done_position = starting_position[s]
    /\ sender_done_position' = CommittedEnd(starting_position[s], Len(values[s]))
    /\ pc' = [pc EXCEPT ![s] = "idle"]
    /\ values' = [values EXCEPT ![s] = <<>>]
    /\ starting_position' = [starting_position EXCEPT ![s] = 0]
    /\ new_mem_offset' = [new_mem_offset EXCEPT ![s] = 0]
    /\ written' = [written EXCEPT ![s] = 0]
    /\ UNCHANGED <<memory, sender_reserve_position, receiverVars, total>>

\* "what if the admin decides to send a kill-message?", generic_ipc.h:11.
crash(s) ==
    /\ s \in MayCrash /\ pc[s] # "dead"
    /\ pc' = [pc EXCEPT ![s] = "dead"]
    /\ UNCHANGED <<memory, sender_reserve_position, sender_done_position, values,
                   starting_position, new_mem_offset, written, receiverVars, total>>

-----------------------------------------------------------------------------
should_I_load ==
    /\ receiver = "polling"
    /\ sender_done_position # user_position
    /\ receiver' = "event"
    /\ UNCHANGED <<memory, sender_reserve_position, sender_done_position, senderVars,
                   user_position, expected, got, total>>

\* Mutant of get_next_value: the reader's position is not stored.
get_next_value_Stays ==
    /\ user_position < mapped_words
    /\ got' = memory[user_position]
    /\ UNCHANGED <<memory, sender_reserve_position, sender_done_position, senderVars,
                   user_position, total>>

\* Nobody else stores to user_position, and senders do not act on it: reading the
\* word and moving on are one step.
get_next_value ==
    /\ user_position < mapped_words
    /\ got' = memory[user_position]
    /\ user_position' = IF user_position > mmap_size THEN msqh_size ELSE user_position + 1
    /\ UNCHANGED <<memory, sender_reserve_position, sender_done_position, senderVars, total>>

\* handle_queue_event, admin_handle_event: the event, then its arguments, which it
\* reads without asking whether they are there.
handle_queue_event ==
    /\ receiver = "event"
    /\ get_next_value
    /\ expected' = IF got' \in Handled THEN Arguments[got'] ELSE 0
    /\ receiver' = IF got' \notin Handled THEN "aborted"
                   ELSE IF expected' = 0 THEN "polling" ELSE "arguments"

\* Mutant of read_argument: one argument too many.
read_argument_OneMore ==
    /\ receiver = "arguments"
    /\ get_next_value
    /\ expected' = expected - 1
    /\ receiver' = IF expected = 0 THEN "polling" ELSE "arguments"

read_argument ==
    /\ receiver = "arguments"
    /\ get_next_value
    /\ expected' = expected - 1
    /\ receiver' = IF expected' = 0 THEN "polling" ELSE "arguments"

Send(s) ==
    \/ load_reserve_position(s)
    \/ allocate_memory(s)
    \/ allocate_memory_again(s)
    \/ write_word(s)
    \/ commit_memory(s)

Receive == should_I_load \/ handle_queue_event \/ read_argument

QueueNext ==
    \/ \E s \in Senders : write_values(s) \/ Send(s) \/ crash(s)
    \/ Receive

QueueSpec == QueueInit /\ [][QueueNext]_queueVars

\* The operating system runs every process; nobody has to send anything.
QueueFairSpec ==
    /\ QueueSpec
    /\ \A s \in Senders : WF_queueVars(Send(s))
    /\ WF_queueVars(Receive)

-----------------------------------------------------------------------------
(* Properties *)

Positions == 0 .. mmap_size + 2

QueueTypeOK ==
    /\ memory \in [msqh_size .. mapped_words - 1 -> Nat]
    /\ sender_reserve_position \in msqh_size .. mmap_size - 1
    /\ {sender_done_position, user_position} \subseteq Positions
    /\ pc \in [Senders -> {"idle", "load", "reserve", "write", "commit", "dead"}]
    /\ \A s \in Senders : values[s] \in Messages[s] \cup {<<>>}
    /\ starting_position \in [Senders -> Positions]
    /\ new_mem_offset \in [Senders -> Positions]
    /\ \A s \in Senders : written[s] \in 0 .. Len(values[s])
    /\ receiver \in {"polling", "event", "arguments", "aborted"}
    /\ expected \in 0 .. 2
    /\ got \in Nat
    /\ total \in 0 .. MaxWords

\* A sender holds a stretch from its compare-and-swap to its commit.
Holding(s) == pc[s] \in {"write", "commit"}

\* A word of the message that is not written yet is nobody else's: the stretches
\* of two senders do not meet, and none reaches into what is committed and still
\* unread, although no lock is held from the reservation to the commit.
StretchesApart ==
    LET Stretch(s) == starting_position[s] .. starting_position[s] + Len(values[s]) - 1 IN
    /\ \A s, t \in {u \in Senders : Holding(u)} : s # t => Stretch(s) \cap Stretch(t) = {}
    /\ \A s \in {u \in Senders : Holding(u)} :
          Stretch(s) \cap (user_position .. sender_done_position - 1) = {}

\* What is committed is the words, in order, of the oldest reservations: with no
\* sender under way, all that is reserved is committed.  "It's important to have
\* sender and receiver agree on where the next relevant element is located."
PositionsAgree ==
    (\A s \in Senders : pc[s] \in {"idle", "load", "reserve"}) =>
        sender_done_position = sender_reserve_position

\* The receiver takes no argument for an event: it reads the arguments of an event
\* without looking whether they have arrived, and a sender publishes a message
\* only whole.  Otherwise its switch ends in error("unknown event enum").
EventsAreEvents == receiver # "aborted"

\* Senders wait for each other only in commit_memory, in the order of their
\* reservations: if nobody is killed, everyone who has begun to send is done one
\* day.
WritesFinish ==
    [](\A s \in Senders : pc[s] # "dead") => \A s \in Senders : pc[s] = "load" ~> pc[s] = "idle"

\* What is committed is received, whoever is killed and wherever the receiver is:
\* from every state in which committed words are unread the receiver comes to one
\* in which it has read them all, arguments included, and is polling again.
MessagesArrive ==
    sender_done_position # user_position ~>
        user_position = sender_done_position /\ receiver = "polling"

\* The queue is a channel: the committed words between the two positions are what
\* has been sent and not received.
Contents ==
    [i \in 1 .. sender_done_position - user_position |-> memory[user_position + i - 1]]

Abstract == INSTANCE Channel WITH
    Messages <- UNION {Messages[s] : s \in Senders}, chan <- Contents
ImplementsChannel == Abstract!Spec
=============================================================================
