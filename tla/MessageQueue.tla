---------------------------- MODULE MessageQueue ----------------------------
(***************************************************************************)
(* The message queue and the message loop of a player:                     *)
(* src/ffplayer/message_queue.{h,cc} and ffp_msg_queue.{h,cc}.             *)
(*                                                                         *)
(* Any thread posts with NotifyMsg; the loop thread takes the messages and *)
(* calls message_callback, which may post itself; the user interface stops *)
(* the loop and joins it.  The list, blocked_ and quitting_ are under      *)
(* message_queue_lock_, but the wait of PollOnce is under another lock: a  *)
(* Wake between next()'s last look at the list and the wait is lost, and   *)
(* the 300 ms of the wait are what recovers it.                            *)
(***************************************************************************)
EXTENDS Sequences, Naturals, FiniteSets

CONSTANTS
    Messages,               \* what, arg1 and arg2 of a message
    NoMessage,
    Posters,                \* the threads that post
    Loop,                   \* the thread of MessageContext
    User                    \* the poster that destroys the context

ASSUME MessageQueueAssumption ==
    /\ NoMessage \notin Messages
    /\ Loop \notin Posters
    /\ User \in Posters

Threads == Posters \union {Loop}

VARIABLES
    messages, quitting, blocked,
    started,
    loop,                   \* where the loop thread is
    current,                \* the message it handles, or NoMessage
    posting,                \* the message a thread is about to enqueue
    stop                    \* how far StopAndWait has come

queueVars == <<messages, quitting, blocked>>
vars == <<queueVars, started, loop, current, posting, stop>>

(* The constructor has called Start.                                       *)
Init ==
    /\ messages = <<>>
    /\ quitting = FALSE
    /\ blocked = FALSE
    /\ started = TRUE
    /\ loop = "next"
    /\ current = NoMessage
    /\ posting = [t \in Threads |-> NoMessage]
    /\ stop = "running"

-----------------------------------------------------------------------------
(* The test of started_ in NotifyMsg, which takes no lock.  The loop       *)
(* thread posts from within the callback only, and there at most once: one *)
(* run of DoSomeWork changes the state once.                               *)
NotifyMsg(t, m) ==
    /\ posting[t] = NoMessage
    /\ t = Loop => loop = "callback"
    /\ t = User => stop = "running"
    /\ started
    /\ loop' = IF t = Loop THEN "posted" ELSE loop
    /\ posting' = [posting EXCEPT ![t] = m]
    /\ UNCHANGED <<queueVars, started, current, stop>>

(* Mutant of AlreadyQueued: only the head is looked at.                    *)
AlreadyQueuedAtHead(m) == messages # <<>> /\ Head(messages) = m

(* EnqueueMessage, under message_queue_lock_.  The comparison with the     *)
(* messages that wait begins at the second one.                            *)
AlreadyQueued(m) == \E i \in 2 .. Len(messages) : messages[i] = m

Wake == loop' = IF loop = "asleep" THEN "fetch" ELSE loop

(* Mutant of EnqueueMessage: quitting_ is not tested.                      *)
EnqueueAfterQuit(t) ==
    /\ posting[t] # NoMessage
    /\ ~AlreadyQueued(posting[t])
    /\ messages' = Append(messages, posting[t])
    /\ IF messages = <<>> /\ blocked THEN Wake ELSE UNCHANGED loop
    /\ posting' = [posting EXCEPT ![t] = NoMessage]
    /\ UNCHANGED <<quitting, blocked, started, current, stop>>

(* Mutant of EnqueueMessage: the new element is not filled in.             *)
EnqueueEmpty(t) ==
    /\ posting[t] # NoMessage
    /\ ~quitting
    /\ messages' = Append(messages, NoMessage)
    /\ posting' = [posting EXCEPT ![t] = NoMessage]
    /\ UNCHANGED <<quitting, blocked, started, loop, current, stop>>

EnqueueMessage(t) ==
    /\ posting[t] # NoMessage
    /\ \/ /\ quitting \/ AlreadyQueued(posting[t])
          /\ UNCHANGED <<messages, loop>>
       \/ /\ ~quitting /\ ~AlreadyQueued(posting[t])
          /\ messages' = Append(messages, posting[t])
          /\ IF messages = <<>> /\ blocked THEN Wake ELSE UNCHANGED loop
    /\ posting' = [posting EXCEPT ![t] = NoMessage]
    /\ UNCHANGED <<quitting, blocked, started, current, stop>>

-----------------------------------------------------------------------------
Goto(from, to) == loop = from /\ loop' = to

(* next() looks at quitting_ before it takes the lock.                     *)
EnterNext ==
    /\ Goto("next", IF quitting THEN "over" ELSE "fetch")
    /\ UNCHANGED <<queueVars, started, current, posting, stop>>

FetchMessage ==
    /\ messages # <<>>
    /\ Goto("fetch", "callback")
    /\ current' = Head(messages)
    /\ messages' = Tail(messages)
    /\ blocked' = FALSE
    /\ UNCHANGED <<quitting, started, posting, stop>>

(* Mutant of FetchQuit: quitting_ is not tested in the loop.               *)
FetchQuitIgnored ==
    /\ messages = <<>> /\ quitting
    /\ Goto("fetch", "poll")
    /\ blocked' = TRUE
    /\ UNCHANGED <<messages, quitting, started, current, posting, stop>>

FetchQuit ==
    /\ messages = <<>> /\ quitting
    /\ Goto("fetch", "over")
    /\ UNCHANGED <<queueVars, started, current, posting, stop>>

(* Mutant of FetchNothing: blocked_ is not set.                            *)
FetchNothingQuietly ==
    /\ messages = <<>> /\ ~quitting
    /\ Goto("fetch", "poll")
    /\ UNCHANGED <<queueVars, started, current, posting, stop>>

FetchNothing ==
    /\ messages = <<>> /\ ~quitting
    /\ Goto("fetch", "poll")
    /\ blocked' = TRUE
    /\ UNCHANGED <<messages, quitting, started, current, posting, stop>>

(* PollOnce: the wait begins, and ends after 300 ms or spuriously if no    *)
(* Wake ends it before.                                                    *)
BeginPoll ==
    /\ Goto("poll", "asleep")
    /\ UNCHANGED <<queueVars, started, current, posting, stop>>

(* Mutant of PollTimeout: the wait has no time limit.                      *)
PollForever == FALSE /\ UNCHANGED vars

PollTimeout ==
    /\ Goto("asleep", "fetch")
    /\ UNCHANGED <<queueVars, started, current, posting, stop>>

(* message_callback returns.                                               *)
EndCallback ==
    /\ posting[Loop] = NoMessage
    /\ loop \in {"callback", "posted"}
    /\ loop' = "next"
    /\ current' = NoMessage
    /\ UNCHANGED <<queueVars, started, posting, stop>>

-----------------------------------------------------------------------------
(* StopAndWait: started_ is reset, the queue quits, the thread is joined.  *)
ResetStarted ==
    /\ stop = "running"
    /\ posting[User] = NoMessage
    /\ stop' = "quit"
    /\ started' = FALSE
    /\ UNCHANGED <<queueVars, loop, current, posting>>

(* Mutant of Quit: the messages are kept.                                  *)
QuitKeepsMessages ==
    /\ stop = "quit"
    /\ stop' = "join"
    /\ quitting' = TRUE
    /\ Wake
    /\ UNCHANGED <<messages, blocked, started, current, posting>>

Quit ==
    /\ stop = "quit"
    /\ stop' = "join"
    /\ quitting' = TRUE
    /\ messages' = <<>>
    /\ Wake
    /\ UNCHANGED <<blocked, started, current, posting>>

Join ==
    /\ stop = "join"
    /\ loop = "over"
    /\ stop' = "stopped"
    /\ UNCHANGED <<queueVars, started, loop, current, posting>>

-----------------------------------------------------------------------------
Poster(t) == EnqueueMessage(t) \/ \E m \in Messages : NotifyMsg(t, m)

MessageThread ==
    \/ EnterNext
    \/ FetchMessage \/ FetchQuit \/ FetchNothing
    \/ BeginPoll
    \/ EndCallback

StopAndWait == ResetStarted \/ Quit \/ Join

Next ==
    \/ \E t \in Threads : Poster(t)
    \/ MessageThread
    \/ PollTimeout
    \/ StopAndWait

(* Threads that can run do, the time of a wait passes, a call of NotifyMsg *)
(* or StopAndWait that has begun goes on.                                  *)
Fairness ==
    /\ WF_vars(MessageThread)
    /\ WF_vars(PollTimeout)
    /\ \A t \in Threads : WF_vars(EnqueueMessage(t))
    /\ WF_vars(Quit \/ Join)

Spec == Init /\ [][Next]_vars
FairSpec == Spec /\ Fairness

-----------------------------------------------------------------------------
(* The values the fields take.                                             *)
TypeOK ==
    /\ messages \in Seq(Messages)
    /\ quitting \in BOOLEAN /\ blocked \in BOOLEAN /\ started \in BOOLEAN
    /\ loop \in {"next", "fetch", "poll", "asleep", "callback", "posted",
                "over"}
    /\ current \in Messages \union {NoMessage}
    /\ posting \in [Threads -> Messages \union {NoMessage}]
    /\ stop \in {"running", "quit", "join", "stopped"}

(* The flood of DO_SOME_WORK, one per packet read and per buffer played,   *)
(* does not grow the list: behind its head no message waits twice.         *)
DistinctBehindHead ==
    \A i, j \in 2 .. Len(messages) : messages[i] = messages[j] => i = j

(* The loop thread keeps nothing back: it handles a message exactly while  *)
(* it is in the callback, and once it is over, or once the context has     *)
(* been stopped, no message waits that nobody will take.                   *)
NothingLeftBehind ==
    /\ loop \in {"callback", "posted"} <=> current # NoMessage
    /\ loop = "over" \/ stop = "stopped" => quitting /\ messages = <<>>

(* A message posted to an empty queue ends the wait of the loop thread at  *)
(* once: the timeout is needed only for a Wake that comes before the wait. *)
PromptWake ==
    [][loop = "asleep" /\ messages = <<>> /\ messages' # <<>> =>
         loop' = "fetch"]_vars

(* The queue, the wait and the loop together are a mailbox.                *)
Box == INSTANCE Mailbox WITH closed <- quitting
IsMailbox == Box!Spec

(* Liveness: what is posted is handled, by the timeout if a Wake was lost, *)
(* unless the context is stopped.                                          *)
Delivered ==
    \A m \in Messages :
        (\E i \in DOMAIN messages : messages[i] = m) ~> (current = m \/ quitting)

(* Liveness: StopAndWait returns, whatever the loop thread is doing.       *)
StopReturns == stop # "running" ~> stop = "stopped"
=============================================================================
