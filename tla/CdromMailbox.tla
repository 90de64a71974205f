----------------------------- MODULE CdromMailbox -----------------------------
(***************************************************************************)
(* What the CD-ROM controller promises the guest about its interrupts,     *)
(* without saying how: the replies to its commands arrive in a mailbox in  *)
(* the order of the commands, only the oldest code is outstanding, and a   *)
(* code leaves the mailbox only when the guest has acknowledged all of its *)
(* bits.  A drive that reads adds a sector's announcement, or the error    *)
(* that ends the read, by itself, but only to an empty mailbox.            *)
(***************************************************************************)
EXTENDS Sequences

VARIABLE mail      \* the codes not acknowledged yet, oldest first

DataReady == {0}
Complete  == {1}
Ack       == {0, 1}
Error     == {0, 2}

\* The replies to one command.
Replies ==
    {<<Ack>>, <<Error>>, <<Ack, Complete>>, <<Ack, DataReady>>, <<Ack, Error>>}

\* What a drive that reads may post by itself.
StreamPosts == {<<DataReady>>, <<Error>>}

Init == mail = <<>>

Reply == \E reply \in Replies : mail' = mail \o reply

Stream ==
    /\ mail = <<>>
    /\ mail' \in StreamPosts

\* Some bits of the outstanding code are acknowledged, not all of them.
AcknowledgePart ==
    /\ mail # <<>>
    /\ \E left \in (SUBSET mail[1]) \ {{}} : mail' = <<left>> \o Tail(mail)

AcknowledgeAll ==
    /\ mail # <<>>
    /\ \/ mail' = Tail(mail)
       \/ Tail(mail) = <<>> /\ mail' \in StreamPosts

Next == Reply \/ Stream \/ AcknowledgePart \/ AcknowledgeAll

Spec == Init /\ [][Next]_mail
=============================================================================
