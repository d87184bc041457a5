------------------------- MODULE MessageQueueProofs -------------------------
(* Proofs about MessageQueue, for any messages and any posting threads.    *)
EXTENDS MessageQueue, TLAPS

(***************************************************************************)
(* Where the threads are says what they know: blocked_ is set from the     *)
(* last look at the list to the end of the wait, the list is empty from    *)
(* Quit on, and the loop ends, and is joined, only after Quit.             *)
(***************************************************************************)
Progress ==
    /\ loop \in {"poll", "asleep"} => blocked
    /\ loop \in {"callback", "posted"} <=> current # NoMessage
    /\ quitting <=> stop \in {"join", "stopped"}
    /\ quitting => messages = <<>>
    /\ loop = "over" => quitting

IInv == TypeOK /\ Progress /\ DistinctBehindHead

-----------------------------------------------------------------------------
(***************************************************************************)
(* A list whose elements differ behind the head keeps that when its head   *)
(* is taken, and when an element that is not behind the head is appended.  *)
(***************************************************************************)
LEMMA TailDistinct ==
    ASSUME NEW S, NEW s \in Seq(S), s # <<>>,
           \A i, j \in 2 .. Len(s) : s[i] = s[j] => i = j
    PROVE  \A i, j \in 2 .. Len(Tail(s)) : Tail(s)[i] = Tail(s)[j] => i = j
<1>1. /\ Len(s) \in Nat \ {0}
      /\ Len(Tail(s)) = Len(s) - 1
      /\ \A i \in 1 .. Len(s) - 1 : Tail(s)[i] = s[i + 1]
  OBVIOUS
<1>2. SUFFICES ASSUME NEW i \in 2 .. Len(Tail(s)), NEW j \in 2 .. Len(Tail(s)),
                      Tail(s)[i] = Tail(s)[j]
               PROVE  i = j
  OBVIOUS
<1>3. /\ i + 1 \in 2 .. Len(s)
      /\ j + 1 \in 2 .. Len(s)
      /\ s[i + 1] = s[j + 1]
  BY <1>1, <1>2
<1>4. i + 1 = j + 1
  BY <1>3
<1>5. QED
  BY <1>4

(* Nothing is behind the head of an empty list.                           *)
LEMMA NoneBehindEmpty == 2 .. Len(<<>>) = {}
OBVIOUS

(* The list of a queue that is new or has quit has its type.               *)
LEMMA EmptyType == <<>> \in Seq(Messages)
OBVIOUS

(* A message that EnqueueMessage does not find behind the head can be      *)
(* appended: the list stays distinct there.                                *)
LEMMA AppendDistinct ==
    ASSUME NEW S, NEW s \in Seq(S), NEW m \in S,
           \A i, j \in 2 .. Len(s) : s[i] = s[j] => i = j,
           ~ \E i \in 2 .. Len(s) : s[i] = m
    PROVE  \A i, j \in 2 .. Len(Append(s, m)) :
              Append(s, m)[i] = Append(s, m)[j] => i = j
<1>1. /\ Len(s) \in Nat
      /\ Len(Append(s, m)) = Len(s) + 1
      /\ \A i \in 1 .. Len(s) : Append(s, m)[i] = s[i]
      /\ Append(s, m)[Len(s) + 1] = m
  OBVIOUS
<1>2. SUFFICES ASSUME NEW i \in 2 .. Len(s) + 1, NEW j \in 2 .. Len(s) + 1,
                      Append(s, m)[i] = Append(s, m)[j]
               PROVE  i = j
  BY <1>1
<1>3. CASE i \in 2 .. Len(s) /\ j \in 2 .. Len(s)
  BY <1>1, <1>2, <1>3
<1>4. CASE i \in 2 .. Len(s) /\ j = Len(s) + 1
  BY <1>1, <1>2, <1>4
<1>5. CASE i = Len(s) + 1 /\ j \in 2 .. Len(s)
  BY <1>1, <1>2, <1>5
<1>6. CASE i = Len(s) + 1 /\ j = Len(s) + 1
  BY <1>6
<1>7. QED
  BY <1>1, <1>3, <1>4, <1>5, <1>6

-----------------------------------------------------------------------------
(* A new queue satisfies the inductive invariant.                          *)
LEMMA InitInv == Init => IInv
<1> SUFFICES ASSUME Init
             PROVE  IInv
  OBVIOUS
<1>1. TypeOK
  <2>1. messages \in Seq(Messages)
    BY EmptyType DEF Init
  <2>2. posting \in [Threads -> Messages \union {NoMessage}]
    BY DEF Init
  <2>3. QED
    BY <2>1, <2>2 DEF Init, TypeOK
<1>2. Progress
  BY DEF Init, Progress
<1>3. DistinctBehindHead
  <2>1. messages = <<>>
    BY DEF Init
  <2>2. QED
    BY <2>1, NoneBehindEmpty DEF DistinctBehindHead
<1>4. QED
  BY <1>1, <1>2, <1>3 DEF IInv

(***************************************************************************)
(* Posting: EnqueueMessage keeps the invariant, on whatever thread.        *)
(***************************************************************************)
LEMMA EnqueueKeepsInv ==
    ASSUME IInv, NEW t \in Threads, EnqueueMessage(t)
    PROVE  IInv'
<1> USE MessageQueueAssumption
<1>1. TypeOK /\ Progress /\ DistinctBehindHead
  BY DEF IInv
<1>2. posting[t] \in Messages
  BY <1>1 DEF EnqueueMessage, TypeOK
<1>3. /\ loop' \in {loop, "fetch"}
      /\ loop' # loop => loop = "asleep"
  BY DEF EnqueueMessage, Wake
<1>4. UNCHANGED <<quitting, blocked, started, current, stop>>
  BY DEF EnqueueMessage
<1>5. \/ messages' = messages
      \/ /\ messages' = Append(messages, posting[t])
         /\ ~quitting
         /\ ~AlreadyQueued(posting[t])
  BY DEF EnqueueMessage
<1>6. TypeOK'
  <2>1. posting' \in [Threads -> Messages \union {NoMessage}]
    BY <1>1 DEF EnqueueMessage, TypeOK
  <2>2. messages' \in Seq(Messages)
    BY <1>1, <1>2, <1>5 DEF TypeOK
  <2>3. QED
    BY <1>1, <1>3, <1>4, <2>1, <2>2 DEF TypeOK
<1>7. Progress'
  BY <1>1, <1>3, <1>4, <1>5 DEF Progress
<1>8. DistinctBehindHead'
  <2>1. CASE messages' = messages
    BY <1>1, <2>1 DEF DistinctBehindHead
  <2>2. CASE messages' = Append(messages, posting[t]) /\ ~AlreadyQueued(posting[t])
    <3>1. messages \in Seq(Messages)
      BY <1>1 DEF TypeOK
    <3>2. \A i, j \in 2 .. Len(messages) : messages[i] = messages[j] => i = j
      BY <1>1 DEF DistinctBehindHead
    <3>3. ~ \E i \in 2 .. Len(messages) : messages[i] = posting[t]
      BY <2>2 DEF AlreadyQueued
    <3>4. QED
      BY <1>2, <2>2, <3>1, <3>2, <3>3, AppendDistinct DEF DistinctBehindHead
  <2>3. QED
    BY <1>5, <2>1, <2>2
<1>9. QED
  BY <1>6, <1>7, <1>8 DEF IInv

(***************************************************************************)
(* Every other step of a thread keeps the invariant.  Those that leave the *)
(* list alone are told apart only by Progress.                             *)
(***************************************************************************)
LEMMA StepKeepsInv ==
    ASSUME IInv, [Next]_vars
    PROVE  IInv'
<1> USE MessageQueueAssumption
<1>1. TypeOK /\ Progress /\ DistinctBehindHead
  BY DEF IInv
<1>2. ASSUME NEW t \in Threads, NEW m \in Messages, NotifyMsg(t, m)
      PROVE  IInv'
  <2>1. TypeOK'
    BY <1>1, <1>2 DEF NotifyMsg, TypeOK, queueVars
  <2>2. Progress'
    BY <1>1, <1>2 DEF NotifyMsg, Progress, queueVars
  <2>3. DistinctBehindHead'
    BY <1>1, <1>2 DEF NotifyMsg, DistinctBehindHead, queueVars
  <2>4. QED
    BY <2>1, <2>2, <2>3 DEF IInv
<1>3. CASE FetchMessage
  <2>1. messages \in Seq(Messages) /\ messages # <<>>
    BY <1>1, <1>3 DEF FetchMessage, TypeOK
  <2>2. Head(messages) \in Messages /\ Tail(messages) \in Seq(Messages)
    BY <2>1
  <2>3. TypeOK'
    BY <1>1, <1>3, <2>2 DEF FetchMessage, Goto, TypeOK
  <2>4. Progress'
    BY <1>1, <1>3, <2>2 DEF FetchMessage, Goto, Progress
  <2>5. DistinctBehindHead'
    BY <1>1, <1>3, <2>1, TailDistinct DEF FetchMessage, DistinctBehindHead
  <2>6. QED
    BY <2>3, <2>4, <2>5 DEF IInv
<1>4. CASE EnterNext \/ FetchQuit \/ FetchNothing \/ BeginPoll \/ PollTimeout
           \/ EndCallback
  <2>1. TypeOK'
    BY <1>1, <1>4
    DEF EnterNext, FetchQuit, FetchNothing, BeginPoll, PollTimeout,
        EndCallback, Goto, TypeOK, queueVars
  <2>2. Progress'
    BY <1>1, <1>4
    DEF EnterNext, FetchQuit, FetchNothing, BeginPoll, PollTimeout,
        EndCallback, Goto, Progress, queueVars
  <2>3. DistinctBehindHead'
    BY <1>1, <1>4
    DEF EnterNext, FetchQuit, FetchNothing, BeginPoll, PollTimeout,
        EndCallback, DistinctBehindHead, queueVars
  <2>4. QED
    BY <2>1, <2>2, <2>3 DEF IInv
<1>5. CASE StopAndWait
  <2>1. TypeOK'
    <3>1. messages' \in Seq(Messages)
      BY <1>1, <1>5, EmptyType
      DEF StopAndWait, ResetStarted, Quit, Join, TypeOK, queueVars
    <3>2. QED
      BY <1>1, <1>5, <3>1
      DEF StopAndWait, ResetStarted, Quit, Join, Wake, TypeOK, queueVars
  <2>2. Progress'
    BY <1>1, <1>5
    DEF StopAndWait, ResetStarted, Quit, Join, Wake, Progress, TypeOK,
        queueVars
  <2>3. DistinctBehindHead'
    <3>1. CASE messages' = messages
      BY <1>1, <3>1 DEF DistinctBehindHead
    <3>2. CASE messages' = <<>>
      BY <3>2, NoneBehindEmpty DEF DistinctBehindHead
    <3>3. QED
      BY <1>5, <3>1, <3>2
      DEF StopAndWait, ResetStarted, Quit, Join, queueVars
  <2>4. QED
    BY <2>1, <2>2, <2>3 DEF IInv
<1>6. CASE UNCHANGED vars
  BY <1>1, <1>6
  DEF IInv, TypeOK, Progress, DistinctBehindHead, vars, queueVars
<1>7. QED
  BY <1>2, <1>3, <1>4, <1>5, <1>6, EnqueueKeepsInv
  DEF Next, Poster, MessageThread

(* The inductive invariant holds in every run of the queue and its loop.   *)
LEMMA InvHolds == Spec => []IInv
BY InitInv, StepKeepsInv, PTL DEF Spec

-----------------------------------------------------------------------------
(***************************************************************************)
(* The fields of the queue, the context and the loop keep their types.     *)
(***************************************************************************)
THEOREM TypeCorrect == Spec => []TypeOK
BY InvHolds, PTL DEF IInv

(***************************************************************************)
(* The de-duplication of EnqueueMessage works: however many threads post,  *)
(* no message waits twice behind the head.                                 *)
(***************************************************************************)
THEOREM DistinctCorrect == Spec => []DistinctBehindHead
BY InvHolds, PTL DEF IInv

(***************************************************************************)
(* The loop ends with nothing in its hands and nothing in the list.        *)
(***************************************************************************)
THEOREM NothingLeftCorrect == Spec => []NothingLeftBehind
<1>1. IInv => NothingLeftBehind
  BY DEF IInv, Progress, NothingLeftBehind
<1>2. QED
  BY <1>1, InvHolds, PTL

(***************************************************************************)
(* A message posted to an empty list wakes the loop thread at once if it   *)
(* has begun to wait.                                                      *)
(***************************************************************************)
THEOREM WakeCorrect == Spec => PromptWake
<1>1. IInv /\ [Next]_vars =>
        [loop = "asleep" /\ messages = <<>> /\ messages' # <<>> =>
           loop' = "fetch"]_vars
  <2> SUFFICES ASSUME IInv, [Next]_vars, loop = "asleep", messages = <<>>,
                      messages' # <<>>
               PROVE  loop' = "fetch"
    OBVIOUS
  <2>1. blocked
    BY DEF IInv, Progress
  <2>2. PICK t \in Threads : EnqueueMessage(t)
    BY DEF Next, Poster, NotifyMsg, MessageThread, EnterNext, FetchMessage,
           FetchQuit, FetchNothing, BeginPoll, EndCallback, PollTimeout,
           StopAndWait, ResetStarted, Quit, Join, Goto, vars, queueVars
  <2>3. QED
    BY <2>1, <2>2 DEF EnqueueMessage, Wake
<1>2. QED
  BY <1>1, InvHolds, PTL DEF Spec, PromptWake

(***************************************************************************)
(* The queue with its locks, its wait and its loop implements Mailbox:     *)
(* messages are handed over in order, one at a time, none after Quit.      *)
(***************************************************************************)
THEOREM Refinement == Spec => IsMailbox
<1> USE MessageQueueAssumption
<1>1. Init => Box!Init
  BY DEF Init, Box!Init
<1>2. IInv /\ [Next]_vars => [Box!Next]_(Box!mailboxVars)
  <2> SUFFICES ASSUME IInv, [Next]_vars
               PROVE  Box!Next \/ UNCHANGED Box!mailboxVars
    BY DEF Box!mailboxVars
  <2>1. ASSUME NEW t \in Threads, EnqueueMessage(t)
        PROVE  Box!Next \/ UNCHANGED Box!mailboxVars
    <3>1. posting[t] \in Messages
      BY <2>1 DEF EnqueueMessage, IInv, TypeOK
    <3>2. UNCHANGED <<current, quitting>>
      BY <2>1 DEF EnqueueMessage
    <3>3. CASE messages' = messages
      BY <3>2, <3>3 DEF Box!mailboxVars
    <3>4. CASE /\ ~quitting /\ ~AlreadyQueued(posting[t])
               /\ messages' = Append(messages, posting[t])
      <4>1. Box!Post(posting[t])
        BY <3>2, <3>4 DEF Box!Post, Box!WaitsBehindHead, AlreadyQueued
      <4>2. QED
        BY <3>1, <4>1 DEF Box!Next
    <3>5. QED
      BY <2>1, <3>3, <3>4 DEF EnqueueMessage
  <2>2. CASE FetchMessage
    <3>1. Box!Hand
      BY <2>2 DEF FetchMessage, Goto, Box!Hand, IInv, Progress
    <3>2. QED
      BY <3>1 DEF Box!Next
  <2>3. CASE EndCallback
    <3>1. Box!Handled
      BY <2>3 DEF EndCallback, Box!Handled, IInv, Progress, queueVars
    <3>2. QED
      BY <3>1 DEF Box!Next
  <2>4. CASE Quit
    <3>1. Box!Close
      BY <2>4 DEF Quit, Box!Close, IInv, Progress
    <3>2. QED
      BY <3>1 DEF Box!Next
  <2>5. CASE \/ \E t \in Threads, m \in Messages : NotifyMsg(t, m)
             \/ EnterNext \/ FetchQuit \/ FetchNothing \/ BeginPoll
             \/ PollTimeout \/ ResetStarted \/ Join \/ UNCHANGED vars
    BY <2>5
    DEF NotifyMsg, EnterNext, FetchQuit, FetchNothing, BeginPoll, PollTimeout,
        ResetStarted, Join, vars, queueVars, Box!mailboxVars
  <2>6. QED
    BY <2>1, <2>2, <2>3, <2>4, <2>5
    DEF Next, Poster, MessageThread, StopAndWait
<1>3. QED
  BY <1>1, <1>2, InvHolds, PTL DEF Spec, IsMailbox, Box!Spec
=============================================================================
