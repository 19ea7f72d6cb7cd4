------------------------------- MODULE MCQueue -------------------------------
(* The queues of user_admin.  Identifiers are numbers that are no event.     *)
EXTENDS MultipleSenderQueue, TLC

\* A user's queue: the admin (1), the king (2) and a third process write messages
\* of each length to it; "both the king and the admin can send messages".
Orders == (1 :> {<<aliveness_check>>})
       @@ (2 :> {<<file_ID_of_king, 12>>, <<file_ID_of_user, 22, 32>>})
       @@ (3 :> {<<file_ID_of_admin, 13>>})

\* A user's queue, later: only the admin's requests to answer.
Checks == [s \in Senders |-> {<<aliveness_check>>}]
=============================================================================
