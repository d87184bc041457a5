------------------------------ MODULE Mailbox ------------------------------
(***************************************************************************)
(* What the message queue and its loop promise to those who post: messages *)
(* are handed over one at a time and in order, each accepted one once; a   *)
(* message is not accepted again while an equal one waits behind the head; *)
(* after Close nothing more is handed over.                                *)
(***************************************************************************)
EXTENDS Sequences, Naturals

CONSTANTS
    Messages,               \* what, arg1 and arg2 of a message
    NoMessage

VARIABLES
    messages,               \* those that wait
    current,                \* the one that is being handled, or NoMessage
    closed

mailboxVars == <<messages, current, closed>>

Init ==
    /\ messages = <<>>
    /\ current = NoMessage
    /\ closed = FALSE

WaitsBehindHead(m) == \E i \in 2 .. Len(messages) : messages[i] = m

Post(m) ==
    /\ ~closed
    /\ ~WaitsBehindHead(m)
    /\ messages' = Append(messages, m)
    /\ UNCHANGED <<current, closed>>

Hand ==
    /\ current = NoMessage
    /\ messages # <<>>
    /\ current' = Head(messages)
    /\ messages' = Tail(messages)
    /\ UNCHANGED closed

Handled ==
    /\ current # NoMessage
    /\ current' = NoMessage
    /\ UNCHANGED <<messages, closed>>

Close ==
    /\ ~closed
    /\ closed' = TRUE
    /\ messages' = <<>>
    /\ UNCHANGED current

Next ==
    \/ \E m \in Messages : Post(m)
    \/ Hand
    \/ Handled
    \/ Close

Spec == Init /\ [][Next]_mailboxVars
=============================================================================
