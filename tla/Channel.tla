------------------------------- MODULE Channel -------------------------------
(***************************************************************************)
(* What the processes of user_admin expect of a queue: a message is sent   *)
(* whole, messages are received in the order they were sent in, word by    *)
(* word, each word once.                                                   *)
(***************************************************************************)
EXTENDS Sequences

CONSTANT Messages  \* what may be sent: sequences of words

VARIABLES
    chan,  \* the words sent and not yet received
    got    \* the word received last

Init == chan = <<>> /\ got = 0

Send == \E m \in Messages : chan' = chan \o m /\ UNCHANGED got

Receive ==
    /\ chan # <<>>
    /\ got' = Head(chan)
    /\ chan' = Tail(chan)

Next == Send \/ Receive

Spec == Init /\ [][Next]_<<chan, got>>
=============================================================================
