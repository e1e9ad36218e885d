------------------------- MODULE ModbusClientProofs -------------------------
(***************************************************************************)
(* Proofs about ModbusClient, for any number of clients, links, callers    *)
(* and requests.                                                           *)
(***************************************************************************)
EXTENDS ModbusClient, SequenceTheorems, TLAPS

Queues == [Clients -> Seq(Tasks)]
Holders == [Clients -> Tasks \cup {NoTask}]
Frames == {Frame(UnitOf[c], r) : c \in Clients, r \in Requests}
Wires == [Links -> SUBSET Frames]
AnswerSet == [of : Requests, length : Nat, error : BOOLEAN]

\* Handing the lock on leaves a holder and a queue (client.py:76), and of the
\* tasks of that client none but the head of the queue holds it.
LEMMA HandOnType ==
    ASSUME TypeOK, NEW c \in Clients, NEW queue \in Seq(Tasks), HandOn(c, queue)
    PROVE  /\ holder' \in Holders /\ waiters' \in Queues
           /\ \A d \in Clients : d # c => holder'[d] = holder[d]
<1>1. CASE queue = <<>>
  BY <1>1 DEF HandOn, TypeOK, Holders, Queues
<1>2. CASE queue # <<>>
  <2>1. Head(queue) \in Tasks /\ Tail(queue) \in Seq(Tasks)
    BY <1>2, HeadTailProperties
  <2> QED
    BY <1>2, <2>1 DEF HandOn, TypeOK, Holders, Queues
<1> QED
  BY <1>1, <1>2

\* An acquire leaves the lock with who has it, if anyone (client.py:76).
LEMMA AcquireKeeps ==
    ASSUME TypeOK, NEW t \in Tasks, Acquire(t)
    PROVE  /\ holder' \in Holders /\ waiters' \in Queues
           /\ \A d \in Clients : holder[d] # NoTask => holder'[d] = holder[d]
<1> DEFINE c == ClientOf[t]
<1>1. c \in Clients
  BY LinkAssumption
<1>2. CASE holder[c] = NoTask
  <2>1. <<t>> \in Seq(Tasks) /\ HandOn(c, <<t>>)
    BY <1>2 DEF Acquire
  <2> QED
    BY <1>1, <1>2, <2>1, HandOnType
<1>3. CASE holder[c] # NoTask
  <2>1. Append(waiters[c], t) \in Seq(Tasks)
    BY <1>1, AppendProperties DEF TypeOK
  <2>2. /\ waiters' = [waiters EXCEPT ![c] = Append(waiters[c], t)]
        /\ holder' = holder
    BY <1>3 DEF Acquire
  <2>3. waiters \in Queues /\ holder \in Holders
    BY DEF TypeOK, Queues, Holders
  <2>4. waiters' \in Queues
    <3> HIDE DEF c
    <3> QED
      BY <2>1, <2>2, <2>3 DEF Queues
  <2> QED
    BY <2>2, <2>3, <2>4
<1> QED
  BY <1>2, <1>3

\* A release takes the lock from nobody else's client (client.py:76).
LEMMA ReleaseKeeps ==
    ASSUME TypeOK, NEW t \in Tasks, Release(t)
    PROVE  /\ holder' \in Holders /\ waiters' \in Queues
           /\ \A d \in Clients : d # ClientOf[t] => holder'[d] = holder[d]
<1>1. ClientOf[t] \in Clients /\ waiters[ClientOf[t]] \in Seq(Tasks)
  BY LinkAssumption DEF TypeOK
<1> QED
  BY <1>1, HandOnType DEF Release

\* Nor does a release that goes on to the next request (client.py:105-110).
LEMMA ReacquireKeeps ==
    ASSUME TypeOK, NEW t \in Tasks, Reacquire(t)
    PROVE  /\ holder' \in Holders /\ waiters' \in Queues
           /\ \A d \in Clients : d # ClientOf[t] => holder'[d] = holder[d]
<1>1. ClientOf[t] \in Clients /\ waiters[ClientOf[t]] \in Seq(Tasks)
  BY LinkAssumption DEF TypeOK
<1>2. Append(waiters[ClientOf[t]], t) \in Seq(Tasks)
  BY <1>1, AppendProperties
<1> QED
  BY <1>1, <1>2, HandOnType DEF Reacquire

\* A task that is at a request has one, of its plan.
LEMMA CurrentType ==
    ASSUME TypeOK, NEW t \in Tasks, Active(t)
    PROVE  /\ plan[t] \in Seq(Requests) /\ step[t] \in 1 .. Len(plan[t])
           /\ Current(t) \in Requests /\ LengthOf[Current(t)] \in Nat \ {0}
           /\ LinkOfTask(t) \in Links
           /\ FrameOf(t) \in Frames
<1>1. plan[t] \in Seq(Requests)
  BY LinkAssumption, EmptySeq DEF TypeOK
<1>2. DOMAIN plan[t] = 1 .. Len(plan[t])
  BY <1>1, LenProperties
<1>3. step[t] \in 1 .. Len(plan[t])
  BY <1>2 DEF TypeOK
<1>4. Current(t) \in Requests
  BY <1>1, <1>3, ElementOfSeq DEF Current
<1> QED
  BY <1>1, <1>3, <1>4, LinkAssumption DEF LinkOfTask, FrameOf, Frames

\* Nothing read is a type of its own.
LEMMA NothingType ==
    Nothing \in [Requests -> AnswerSet]
  BY DEF Nothing, Answer, AnswerSet

\* What a meter answers to a request is an answer.
LEMMA AnswersType ==
    ASSUME NEW r \in Requests
    PROVE  Answers(r) \subseteq AnswerSet
<1>1. LengthOf[r] \in Nat /\ 0 .. LengthOf[r] - 1 \subseteq Nat
  BY LinkAssumption
<1>2. \A n \in Nat : \A error \in BOOLEAN :
         Answer(r, n, error) \in AnswerSet
  BY DEF Answer, AnswerSet
<1>3. Whole(r) \in AnswerSet
  BY <1>1, <1>2 DEF Whole
<1>4. {Answer(r, n, FALSE) : n \in 0 .. LengthOf[r] - 1}
         \subseteq AnswerSet
  BY <1>1, <1>2
<1>5. Answer(r, 0, TRUE) \in AnswerSet
  BY <1>2
<1> QED
  BY <1>3, <1>4, <1>5 DEF Answers

\* Leaving a queue leaves a queue (client.py:76).
LEMMA LeaveQueueType ==
    ASSUME NEW s \in Seq(Tasks), NEW i \in DOMAIN s
    PROVE  SubSeq(s, 1, i - 1) \o SubSeq(s, i + 1, Len(s)) \in Seq(Tasks)
<1>1. Len(s) \in Nat /\ i \in 1 .. Len(s)
  BY LenProperties
<1>2. \A n \in 1 .. Len(s) : s[n] \in Tasks
  BY ElementOfSeq
<1>3. SubSeq(s, 1, i - 1) \in Seq(Tasks) /\ SubSeq(s, i + 1, Len(s)) \in Seq(Tasks)
  BY <1>1, <1>2
<1> QED
  BY <1>3, ConcatProperties

---------------------------------------------------------------------------
(* The lock.                                                               *)

\* A call that holds the lock and ends without a result hands the lock on:
\* whoever else asks holds another client's (client.py:76).
LEMMA EndKeeps ==
    ASSUME LockInv, NEW t \in Tasks, holder[ClientOf[t]] = t,
           Release(t), GiveUp(t),
           open' \in [Clients -> BOOLEAN], wire' \in Wires
    PROVE  LockInv'
<1>1. /\ holder' \in Holders /\ waiters' \in Queues
      /\ \A d \in Clients : d # ClientOf[t] => holder'[d] = holder[d]
  BY ReleaseKeeps DEF LockInv
<1>2. /\ state' = [state EXCEPT ![t] = "idle"]
      /\ values' = [values EXCEPT ![t] = Nothing]
      /\ plan' = plan /\ step' = step
  BY DEF GiveUp
<1>3. TypeOK'
  <2>1. \A u \in Tasks : Active(u)' => Active(u)
    BY <1>2 DEF Active, LockInv, TypeOK
  <2> QED
    BY <1>1, <1>2, <2>1, NothingType
       DEF LockInv, TypeOK, Holders, Queues, Wires, Frames, AnswerSet
<1>4. AskersHold'
  <2> SUFFICES ASSUME NEW u \in Tasks, state'[u] = "asking"
               PROVE  holder'[ClientOf[u]] = u
    BY DEF AskersHold
  <2>1. u # t /\ state[u] = "asking"
    BY <1>2 DEF LockInv, TypeOK
  <2>2. holder[ClientOf[u]] = u /\ ClientOf[u] \in Clients
    BY <2>1, LinkAssumption DEF LockInv, AskersHold
  <2> QED
    BY <1>1, <2>1, <2>2
<1> QED
  BY <1>3, <1>4 DEF LockInv

\* What is left on the links when a request is abandoned.
LEMMA AbandonType ==
    ASSUME TypeOK, NEW t \in Tasks, Active(t), Abandon(t)
    PROVE  wire' \in Wires
  BY CurrentType DEF TypeOK, Abandon, Wires, Frames

\* Answers leave the lock with who asks next (client.py:76-95, 105-110).
LEMMA MergeKeeps ==
    ASSUME LockInv, NEW t \in Tasks, state[t] = "asking",
           NEW answer \in AnswerSet, Merge(t, answer),
           open' = open, wire' \in Wires
    PROVE  LockInv'
<1>a. Active(t) /\ holder[ClientOf[t]] = t /\ ClientOf[t] \in Clients
  BY LinkAssumption DEF Active, LockInv, AskersHold
<1>b. /\ plan[t] \in Seq(Requests) /\ step[t] \in 1 .. Len(plan[t])
      /\ Current(t) \in Requests
      /\ DOMAIN plan[t] = 1 .. Len(plan[t]) /\ Len(plan[t]) \in Nat
  BY <1>a, CurrentType, LenProperties DEF LockInv
<1>1. /\ holder' \in Holders /\ waiters' \in Queues
      /\ \A d \in Clients : d # ClientOf[t] => holder'[d] = holder[d]
  BY ReleaseKeeps, ReacquireKeeps DEF LockInv, Merge
<1>2. plan' = plan /\ values' \in [Tasks -> [Requests -> AnswerSet]]
  <2>1. values \in [Tasks -> [Requests -> AnswerSet]]
    BY DEF LockInv, TypeOK, AnswerSet
  <2> QED
    BY <1>b, <2>1 DEF Merge
<1>3. /\ state'[t] \in {"returned", "waiting"}
      /\ state' \in [Tasks -> {"idle", "waiting", "asking", "returned"}]
      /\ \A u \in Tasks : u # t => state'[u] = state[u]
  <2>1. \/ state' = [state EXCEPT ![t] = "returned"]
        \/ state' = [state EXCEPT ![t] = "waiting"]
    BY DEF Merge
  <2>2. state \in [Tasks -> {"idle", "waiting", "asking", "returned"}]
    BY DEF LockInv, TypeOK
  <2> QED
    BY <2>1, <2>2
<1>4. /\ step' \in [Tasks -> Nat]
      /\ \A u \in Tasks : u # t => step'[u] = step[u]
      /\ state'[t] = "waiting" => step'[t] \in DOMAIN plan[t]
  <2>1. CASE IsLast(t)
    BY <2>1 DEF LockInv, TypeOK, Merge
  <2>2. CASE ~IsLast(t)
    <3>1. step' = [step EXCEPT ![t] = step[t] + 1]
      BY <2>2 DEF Merge
    <3>2. step[t] + 1 \in 1 .. Len(plan[t])
      BY <1>b, <2>2 DEF IsLast
    <3> QED
      BY <1>b, <3>1, <3>2 DEF LockInv, TypeOK
  <2> QED
    BY <2>1, <2>2
<1>5. TypeOK'
  <2>1. \A u \in Tasks : Active(u)' => step'[u] \in DOMAIN plan'[u]
    <3> SUFFICES ASSUME NEW u \in Tasks, Active(u)'
                 PROVE  step'[u] \in DOMAIN plan'[u]
      OBVIOUS
    <3>1. CASE u = t
      BY <1>2, <1>3, <1>4, <3>1 DEF Active
    <3>2. CASE u # t
      BY <1>2, <1>3, <1>4, <3>2 DEF Active, LockInv, TypeOK
    <3> QED
      BY <3>1, <3>2
  <2> QED
    BY <1>1, <1>2, <1>3, <1>4, <2>1
       DEF LockInv, TypeOK, Holders, Queues, Wires, Frames, AnswerSet
<1>6. AskersHold'
  <2> SUFFICES ASSUME NEW u \in Tasks, state'[u] = "asking"
               PROVE  holder'[ClientOf[u]] = u
    BY DEF AskersHold
  <2>1. u # t /\ state[u] = "asking"
    BY <1>3
  <2>2. holder[ClientOf[u]] = u /\ ClientOf[u] \in Clients
    BY <2>1, LinkAssumption DEF LockInv, AskersHold
  <2> QED
    BY <1>1, <1>a, <2>1, <2>2
<1> QED
  BY <1>5, <1>6 DEF LockInv

\* Each step keeps the types and leaves the lock with whoever asks.
LEMMA LockStep ==
    ASSUME LockInv, [Next]_vars
    PROVE  LockInv'
<1> USE DEF LockInv
<1>a. /\ ClientOf \in [Tasks -> Clients] /\ NoTask \notin Tasks
      /\ \A reads \in Plans : reads \in Seq(Requests) /\ reads # <<>>
  BY LinkAssumption
<1>b. wire \in Wires /\ open \in [Clients -> BOOLEAN]
  BY DEF TypeOK, Wires, Frames
<1>1. ASSUME NEW t \in Tasks, NEW reads \in Plans, Call(t, reads)
      PROVE  LockInv'
  <2>1. /\ holder' \in Holders /\ waiters' \in Queues
        /\ \A d \in Clients : holder[d] # NoTask => holder'[d] = holder[d]
    BY <1>1, AcquireKeeps DEF Call
  <2>2. /\ state' = [state EXCEPT ![t] = "waiting"]
        /\ plan' = [plan EXCEPT ![t] = reads] /\ step' = [step EXCEPT ![t] = 1]
        /\ values' = [values EXCEPT ![t] = Nothing]
        /\ open' = open /\ wire' = wire
    BY <1>1 DEF Call
  <2>3. 1 \in DOMAIN reads
    BY <1>a, LenProperties, EmptySeq
  <2>4. TypeOK'
    <3>1. \A u \in Tasks : Active(u)' => step'[u] \in DOMAIN plan'[u]
      <4> SUFFICES ASSUME NEW u \in Tasks, Active(u)'
                   PROVE  step'[u] \in DOMAIN plan'[u]
        OBVIOUS
      <4>1. CASE u = t
        BY <2>2, <2>3, <4>1 DEF TypeOK
      <4>2. CASE u # t
        BY <2>2, <4>2 DEF Active, TypeOK
      <4> QED
        BY <4>1, <4>2
    <3>2. /\ plan' \in [Tasks -> Plans \cup {<<>>}] /\ step' \in [Tasks -> Nat]
          /\ state' \in [Tasks -> {"idle", "waiting", "asking", "returned"}]
          /\ values' \in [Tasks -> [Requests -> AnswerSet]]
      BY <2>2, NothingType DEF TypeOK, AnswerSet
    <3> QED
      BY <2>1, <2>2, <3>1, <3>2 DEF TypeOK, Holders, Queues, AnswerSet
  <2>5. AskersHold'
    BY <1>a, <2>1, <2>2 DEF AskersHold, TypeOK
  <2> QED
    BY <2>4, <2>5
<1>2. ASSUME NEW t \in Tasks, Send(t)
      PROVE  LockInv'
  <2>1. FrameOf(t) \in Frames /\ LinkOfTask(t) \in Links
    BY <1>2, CurrentType DEF Send, Active
  <2>2. wire' \in Wires
    BY <1>2, <1>b, <2>1 DEF Send, Wires
  <2>3. /\ state' = [state EXCEPT ![t] = "asking"] /\ holder[ClientOf[t]] = t
        /\ UNCHANGED <<open, holder, waiters, plan, step, values>>
    BY <1>2 DEF Send, lock
  <2>4. \A u \in Tasks : Active(u)' => Active(u)
    BY <1>2, <2>3 DEF Send, Active, TypeOK
  <2> QED
    BY <2>2, <2>3, <2>4 DEF TypeOK, AskersHold, Wires, Frames
<1>3. ASSUME NEW t \in Tasks, SendFails(t)
      PROVE  LockInv'
  BY <1>3, <1>b, EndKeeps DEF SendFails
<1>4. ASSUME NEW t \in Tasks, Receive(t)
      PROVE  LockInv'
  <2>1. /\ state[t] = "asking" /\ Active(t) /\ holder[ClientOf[t]] = t
        /\ LinkOfTask(t) \in Links
    BY <1>4, CurrentType DEF Receive, Active, AskersHold
  <2>2. PICK frame \in wire[LinkOfTask(t)] :
          /\ \E answer \in Answers(frame.request) :
                IF Accepts(t, answer) THEN Merge(t, answer) ELSE Release(t) /\ GiveUp(t)
          /\ \/ wire' = [wire EXCEPT ![LinkOfTask(t)] = @ \ {frame}]
             \/ LinkOfTask(t) \in Late /\ UNCHANGED wire
    BY <1>4 DEF Receive
  <2>3. wire' \in Wires
    BY <1>b, <2>1, <2>2 DEF Wires
  <2>4. frame.request \in Requests
    BY <1>b, <2>1 DEF Wires, Frames, Frame
  <2>5. PICK answer \in AnswerSet :
          IF Accepts(t, answer) THEN Merge(t, answer) ELSE Release(t) /\ GiveUp(t)
    BY <2>2, <2>4, AnswersType
  <2>6. open' = open
    BY <1>4 DEF Receive
  <2>7. CASE Accepts(t, answer)
    BY <2>1, <2>3, <2>5, <2>6, <2>7, MergeKeeps
  <2>8. CASE ~Accepts(t, answer)
    BY <1>b, <2>1, <2>3, <2>5, <2>6, <2>8, EndKeeps
  <2> QED
    BY <2>7, <2>8
<1>5. ASSUME NEW t \in Tasks, Timeout(t)
      PROVE  LockInv'
  <2>1. Active(t) /\ holder[ClientOf[t]] = t /\ wire' \in Wires
    BY <1>5, AbandonType DEF Timeout, Active, AskersHold
  <2> QED
    BY <1>5, <1>b, <2>1, EndKeeps DEF Timeout
<1>6. ASSUME NEW t \in Tasks, Cancel(t)
      PROVE  LockInv'
  <2>1. wire' \in Wires /\ open' = open /\ GiveUp(t)
    BY <1>6, <1>b, AbandonType DEF Cancel
  <2>2. CASE holder[ClientOf[t]] = t
    <3>1. Release(t)
      BY <1>6, <2>2 DEF Cancel
    <3> QED
      BY <1>b, <2>1, <2>2, <3>1, EndKeeps
  <2>3. CASE holder[ClientOf[t]] # t
    <3>1. PICK i \in DOMAIN waiters[ClientOf[t]] :
            /\ waiters' = [waiters EXCEPT ![ClientOf[t]] =
                  SubSeq(waiters[ClientOf[t]], 1, i - 1)
                    \o SubSeq(waiters[ClientOf[t]], i + 1, Len(waiters[ClientOf[t]]))]
            /\ holder' = holder
      BY <1>6, <2>3 DEF Cancel
    <3>2. waiters \in Queues /\ waiters[ClientOf[t]] \in Seq(Tasks)
      BY <1>a DEF TypeOK, Queues
    <3>3. waiters' \in Queues
      BY <1>a, <3>1, <3>2, LeaveQueueType DEF Queues
    <3>4. /\ state' = [state EXCEPT ![t] = "idle"]
          /\ values' = [values EXCEPT ![t] = Nothing]
          /\ plan' = plan /\ step' = step
      BY <2>1 DEF GiveUp
    <3>5. \A u \in Tasks : Active(u)' => Active(u)
      BY <3>4 DEF Active, TypeOK
    <3>6. values' \in [Tasks -> [Requests -> AnswerSet]]
      BY <3>4, NothingType DEF TypeOK, AnswerSet
    <3>7. TypeOK'
      <4>1. holder' = holder /\ open' = open
        BY <2>1, <3>1
      <4>2. state' \in [Tasks -> {"idle", "waiting", "asking", "returned"}]
        BY <3>4 DEF TypeOK
      <4>3. \A u \in Tasks : Active(u)' => step'[u] \in DOMAIN plan'[u]
        BY <3>4, <3>5 DEF TypeOK
      <4> QED
        BY <2>1, <3>3, <3>4, <3>6, <4>1, <4>2, <4>3
           DEF TypeOK, Queues, Wires, Frames, AnswerSet
    <3>8. AskersHold'
      BY <3>1, <3>4 DEF TypeOK, AskersHold
    <3> QED
      BY <3>7, <3>8
  <2> QED
    BY <2>2, <2>3
<1>7. ASSUME NEW t \in Tasks, Resend(t)
      PROVE  LockInv'
  <2>1. FrameOf(t) \in Frames /\ LinkOfTask(t) \in Links
    BY <1>7, CurrentType DEF Resend, Active
  <2>2. wire' \in Wires
    BY <1>7, <1>b, <2>1 DEF Resend, Wires
  <2>3. UNCHANGED <<open, holder, waiters, state, plan, step, values>>
    BY <1>7 DEF Resend, lock, call
  <2>4. \A u \in Tasks : Active(u)' => Active(u)
    BY <2>3 DEF Active
  <2> QED
    BY <2>2, <2>3, <2>4 DEF TypeOK, AskersHold, Wires, Frames
<1>8. ASSUME NEW c \in Clients, Connect(c)
      PROVE  LockInv'
  BY <1>8 DEF Connect, TypeOK, AskersHold, Active, lock, call
<1>9. ASSUME NEW c \in Clients, Close(c)
      PROVE  LockInv'
  <2>1. open' \in [Clients -> BOOLEAN]
    BY <1>9, <1>b DEF Close
  <2>2. CASE \E t \in Tasks : holder[c] = t /\ state[t] = "asking"
    <3>1. PICK t \in Tasks : holder[c] = t /\ state[t] = "asking"
      BY <2>2
    <3>2. Release(t) /\ GiveUp(t) /\ Abandon(t)
      BY <1>9, <2>2, <3>1 DEF Close
    <3>3. wire' \in Wires /\ holder[ClientOf[t]] = t
      BY <3>1, <3>2, AbandonType DEF Active, AskersHold
    <3> QED
      BY <2>1, <3>2, <3>3, EndKeeps
  <2>3. CASE ~\E t \in Tasks : holder[c] = t /\ state[t] = "asking"
    BY <1>9, <2>1, <2>3 DEF Close, TypeOK, AskersHold, Active, lock, call
  <2> QED
    BY <2>2, <2>3
<1>10. ASSUME NEW l \in Links, NEW frame \in wire[l], Lose(l, frame)
       PROVE  LockInv'
  <2>1. wire' \in Wires
    BY <1>10, <1>b DEF Lose, Wires
  <2> QED
    BY <1>10, <2>1 DEF Lose, TypeOK, AskersHold, Active, Wires, Frames, lock, call
<1>11. CASE UNCHANGED vars
  BY <1>11 DEF vars, TypeOK, AskersHold, Active, lock, call
<1> QED
  BY <1>1, <1>2, <1>3, <1>4, <1>5, <1>6, <1>7, <1>8, <1>9, <1>10, <1>11
     DEF Next, EndOfTransaction

\* The lock belongs to whoever asks (client.py:76).
THEOREM LockInvariant == Spec => []LockInv
<1>1. Init => LockInv
  BY LinkAssumption, NothingType, EmptySeq
     DEF Init, LockInv, TypeOK, AskersHold, Active, AnswerSet
<1>2. LockInv /\ [Next]_vars => LockInv'
  BY LockStep
<1> QED
  BY <1>1, <1>2, PTL DEF Spec

\* Type correctness of clients, calls and links (client.py:51-110).
THEOREM ClientTypes == Spec => []TypeOK
<1>1. LockInv => TypeOK
  BY DEF LockInv
<1> QED
  BY <1>1, LockInvariant, PTL

\* Two transactions of one client would both hold its lock (client.py:54, 76).
THEOREM TransactionsExclusive == Spec => []OneTransactionPerClient
<1>1. LockInv => OneTransactionPerClient
  BY DEF LockInv, AskersHold, OneTransactionPerClient
<1> QED
  BY <1>1, LockInvariant, PTL

\* No two clients are on one link.
SeparateLinks == \A c, d \in Clients : LinkOf[c] = LinkOf[d] => c = d

\* The promise at client.py:3-7 is kept as long as no two clients share a link:
\* a lock per client is then one per link.
THEOREM LinkExclusive ==
    ASSUME SeparateLinks
    PROVE  Spec => []OneTransactionPerLink
<1>1. LockInv => OneTransactionPerLink
  BY LinkAssumption
     DEF LockInv, AskersHold, OneTransactionPerLink, LinkOfTask, SeparateLinks
<1> QED
  BY <1>1, LockInvariant, PTL

---------------------------------------------------------------------------
(* The words of a call.                                                    *)

\* What is on the wire for t and passes its checks is the answer to its request.
AcceptsItsOwn(t) ==
    \A frame \in wire[LinkOfTask(t)] : \A answer \in Answers(frame.request) :
        Belongs(t, frame) /\ Accepts(t, answer) => answer = Whole(Current(t))

\* Only the requests up to the last word count: merging the answer to the
\* current request brings a call one request further (client.py:105-110).
LEMMA MergeAddsWords ==
    ASSUME TypeOK, WordsInv, NEW t \in Served, state[t] = "asking",
           Merge(t, Whole(Current(t)))
    PROVE  /\ Active(t)' => values'[t] = WordsAfter(t, step[t] - 1)'
           /\ state'[t] = "returned" => values'[t] = WordsAfter(t, Len(plan[t]))'
<1>0. t \in Tasks
  BY DEF Served
<1>1. /\ Active(t) /\ step[t] \in 1 .. Len(plan[t]) /\ Len(plan[t]) \in Nat
      /\ Current(t) \in Requests
  BY <1>0, CurrentType, LenProperties DEF Active
<1>2. values[t] = WordsAfter(t, step[t] - 1)
  BY <1>1 DEF WordsInv
<1>3. values'[t] = [values[t] EXCEPT ![Current(t)] = Whole(Current(t))]
  BY <1>0 DEF Merge, TypeOK
<1>4. plan' = plan
  BY DEF Merge
<1>5. values'[t] = WordsAfter(t, step[t])
  <2>1. \A r \in Requests : (\E i \in 1 .. step[t] : plan[t][i] = r)
            <=> (r = Current(t) \/ \E i \in 1 .. step[t] - 1 : plan[t][i] = r)
    BY <1>1 DEF Current
  <2>2. \A r \in Requests : values'[t][r] = WordsAfter(t, step[t])[r]
    BY <1>1, <1>2, <1>3, <2>1 DEF WordsAfter
  <2> QED
    BY <1>2, <1>3, <2>2 DEF WordsAfter
<1>6. \A n \in Nat : WordsAfter(t, n)' = WordsAfter(t, n)
  BY <1>4 DEF WordsAfter, Nothing
<1>7. CASE IsLast(t)
  <2>1. state'[t] = "returned" /\ step[t] = Len(plan[t])
    BY <1>0, <1>7 DEF Merge, TypeOK, IsLast
  <2>2. values'[t] = WordsAfter(t, Len(plan[t]))'
    BY <1>4, <1>5, <2>1 DEF WordsAfter, Nothing
  <2> QED
    BY <2>1, <2>2 DEF Active
<1>8. CASE ~IsLast(t)
  <2>1. state'[t] = "waiting" /\ step'[t] = step[t] + 1
    BY <1>0, <1>8 DEF Merge, TypeOK
  <2>2. step'[t] - 1 = step[t]
    BY <1>1, <2>1
  <2>3. values'[t] = WordsAfter(t, step[t] - 1)'
    BY <1>4, <1>5, <2>2 DEF WordsAfter, Nothing
  <2> QED
    BY <2>1, <2>3
<1> QED
  BY <1>7, <1>8

\* A call whose state, plan, place and words stay keeps them right.
LEMMA OthersKeepWords ==
    ASSUME WordsInv, NEW u \in Served,
           state'[u] = state[u], plan'[u] = plan[u], step'[u] = step[u],
           values'[u] = values[u]
    PROVE  /\ Active(u)' => values'[u] = WordsAfter(u, step[u] - 1)'
           /\ state'[u] = "returned" => values'[u] = WordsAfter(u, Len(plan[u]))'
<1>1. /\ Active(u)' <=> Active(u)
      /\ WordsAfter(u, step[u] - 1)' = WordsAfter(u, step[u] - 1)
      /\ WordsAfter(u, Len(plan[u]))' = WordsAfter(u, Len(plan[u]))
  BY DEF Active, WordsAfter, Nothing
<1> QED
  BY <1>1 DEF WordsInv

\* While calls accept nothing but the answers to their requests, they have the
\* words they should have.
LEMMA WordsStep ==
    ASSUME LockInv, WordsInv, [Next]_vars,
           \A t \in Served : state[t] = "asking" => AcceptsItsOwn(t)
    PROVE  WordsInv'
<1> USE DEF LockInv
<1> SUFFICES ASSUME NEW u \in Served
             PROVE  /\ Active(u)' => values'[u] = WordsAfter(u, step[u] - 1)'
                    /\ state'[u] = "returned" => values'[u] = WordsAfter(u, Len(plan[u]))'
  BY DEF WordsInv
<1>u. u \in Tasks
  BY DEF Served
<1>a. ASSUME NEW t \in Tasks, GiveUp(t)
      PROVE  /\ Active(u)' => values'[u] = WordsAfter(u, step[u] - 1)'
             /\ state'[u] = "returned" => values'[u] = WordsAfter(u, Len(plan[u]))'
  <2>1. CASE u = t
    BY <1>a, <1>u, <2>1 DEF GiveUp, Active, TypeOK
  <2>2. CASE u # t
    BY <1>a, <1>u, <2>2, OthersKeepWords DEF GiveUp, TypeOK
  <2> QED
    BY <2>1, <2>2
<1>1. ASSUME NEW t \in Tasks, NEW reads \in Plans, Call(t, reads)
      PROVE  /\ Active(u)' => values'[u] = WordsAfter(u, step[u] - 1)'
             /\ state'[u] = "returned" => values'[u] = WordsAfter(u, Len(plan[u]))'
  <2>1. CASE u = t
    <3>1. state'[t] = "waiting" /\ step'[t] = 1 /\ values'[t] = Nothing
      BY <1>1 DEF Call, TypeOK
    <3>2. WordsAfter(t, step[t] - 1)' = Nothing
      <4>1. 1 .. step'[t] - 1 = {}
        BY <3>1
      <4> QED
        BY <4>1 DEF WordsAfter, Nothing
    <3> QED
      BY <2>1, <3>1, <3>2
  <2>2. CASE u # t
    BY <1>1, <1>u, <2>2, OthersKeepWords DEF Call, TypeOK
  <2> QED
    BY <2>1, <2>2
<1>2. ASSUME NEW t \in Tasks, Send(t)
      PROVE  /\ Active(u)' => values'[u] = WordsAfter(u, step[u] - 1)'
             /\ state'[u] = "returned" => values'[u] = WordsAfter(u, Len(plan[u]))'
  <2>1. CASE u = t
    <3>1. Active(t) /\ state'[t] = "asking" /\ UNCHANGED <<plan, step, values>>
      BY <1>2 DEF Send, Active, TypeOK
    <3>2. WordsAfter(t, step[t] - 1)' = WordsAfter(t, step[t] - 1)
      BY <3>1 DEF WordsAfter, Nothing
    <3> QED
      BY <2>1, <3>1, <3>2 DEF WordsInv
  <2>2. CASE u # t
    BY <1>2, <1>u, <2>2, OthersKeepWords DEF Send, TypeOK
  <2> QED
    BY <2>1, <2>2
<1>3. ASSUME NEW t \in Tasks, SendFails(t)
      PROVE  GiveUp(t)
  BY <1>3 DEF SendFails
<1>4. ASSUME NEW t \in Tasks, Receive(t)
      PROVE  /\ Active(u)' => values'[u] = WordsAfter(u, step[u] - 1)'
             /\ state'[u] = "returned" => values'[u] = WordsAfter(u, Len(plan[u]))'
  <2>1. state[t] = "asking"
    BY <1>4 DEF Receive
  <2>a. PICK frame \in wire[LinkOfTask(t)] :
          /\ Belongs(t, frame)
          /\ \E answer \in Answers(frame.request) :
                IF Accepts(t, answer) THEN Merge(t, answer) ELSE Release(t) /\ GiveUp(t)
    BY <1>4 DEF Receive
  <2>2. PICK answer \in Answers(frame.request) :
          IF Accepts(t, answer) THEN Merge(t, answer) ELSE Release(t) /\ GiveUp(t)
    BY <2>a
  <2>3. CASE GiveUp(t)
    BY <1>a, <2>3
  <2>4. CASE Accepts(t, answer) /\ Merge(t, answer)
    <3>1. CASE u = t
      <4>1. answer = Whole(Current(t))
        BY <2>1, <2>a, <2>4, <3>1 DEF AcceptsItsOwn
      <4> QED
        BY <2>1, <2>4, <3>1, <4>1, MergeAddsWords
    <3>2. CASE u # t
      <4>1. /\ state'[u] = state[u] /\ plan'[u] = plan[u]
            /\ step'[u] = step[u] /\ values'[u] = values[u]
        BY <1>u, <2>4, <3>2 DEF Merge, TypeOK
      <4> QED
        BY <4>1, OthersKeepWords
    <3> QED
      BY <3>1, <3>2
  <2> QED
    BY <2>2, <2>3, <2>4
<1>5. ASSUME NEW t \in Tasks, Timeout(t)
      PROVE  GiveUp(t)
  BY <1>5 DEF Timeout
<1>6. ASSUME NEW t \in Tasks, Cancel(t)
      PROVE  GiveUp(t)
  BY <1>6 DEF Cancel
<1>7. ASSUME NEW c \in Clients, Close(c)
      PROVE  (\E t \in Tasks : GiveUp(t)) \/ UNCHANGED call
  <2>1. CASE \E t \in Tasks : holder[c] = t /\ state[t] = "asking"
    BY <1>7, <2>1 DEF Close
  <2>2. CASE ~\E t \in Tasks : holder[c] = t /\ state[t] = "asking"
    BY <1>7, <2>2 DEF Close
  <2> QED
    BY <2>1, <2>2
<1>8. ASSUME UNCHANGED call
      PROVE  /\ Active(u)' => values'[u] = WordsAfter(u, step[u] - 1)'
             /\ state'[u] = "returned" => values'[u] = WordsAfter(u, Len(plan[u]))'
  BY <1>8, OthersKeepWords DEF call
<1>9. \/ \E t \in Tasks : (\E reads \in Plans : Call(t, reads)) \/ Send(t) \/ Receive(t)
      \/ \E t \in Tasks : SendFails(t) \/ Timeout(t) \/ Cancel(t)
      \/ \E c \in Clients : Close(c)
      \/ UNCHANGED call
  BY DEF Next, EndOfTransaction, Resend, Connect, Lose, vars
<1> QED
  BY <1>a, <1>1, <1>2, <1>3, <1>4, <1>5, <1>6, <1>7, <1>8, <1>9

\* A step that sends nothing, after which every other call asks what it asked,
\* leaves nothing for an orderly client that belongs to no transaction, if it
\* takes away what belonged to a transaction it ends.
LEMMA OthersKeepWire ==
    ASSUME WireInv, NEW t \in Tasks,
           \A u \in Tasks : u # t =>
               state'[u] = state[u] /\ plan'[u] = plan[u] /\ step'[u] = step[u],
           \A l \in Links : wire'[l] \subseteq wire[l],
           state[t] = "asking" /\ Orderly(ClientOf[t]) =>
               FrameOf(t) \notin wire'[LinkOfTask(t)]
    PROVE  WireInv'
<1> SUFFICES ASSUME NEW c \in Clients, Orderly(c),
                    NEW frame \in wire'[LinkOf[c]], frame.unit = UnitOf[c]
             PROVE  \E u \in Tasks : /\ state'[u] = "asking" /\ ClientOf[u] = c
                                     /\ FrameOf(u)' = frame
  BY DEF WireInv, Orderly
<1>1. LinkOf[c] \in Links /\ frame \in wire[LinkOf[c]]
  BY LinkAssumption
<1>2. PICK u \in Tasks : state[u] = "asking" /\ ClientOf[u] = c /\ FrameOf(u) = frame
  BY <1>1 DEF WireInv
<1>3. u # t
  BY <1>2 DEF LinkOfTask
<1>4. FrameOf(u)' = FrameOf(u) /\ state'[u] = "asking"
  BY <1>2, <1>3 DEF FrameOf, Current
<1> QED
  BY <1>2, <1>4

\* A step after which every call asks what it asked and nothing is on a link
\* but what was there and the request of one of them.
LEMMA SendersKeepWire ==
    ASSUME WireInv, NEW t \in Tasks, state'[t] = "asking",
           \A u \in Tasks : state[u] = "asking" => state'[u] = "asking",
           UNCHANGED <<plan, step>>,
           \A l \in Links : wire'[l] \subseteq
               wire[l] \cup (IF l = LinkOfTask(t) THEN {FrameOf(t)} ELSE {})
    PROVE  WireInv'
<1> SUFFICES ASSUME NEW c \in Clients, Orderly(c),
                    NEW frame \in wire'[LinkOf[c]], frame.unit = UnitOf[c]
             PROVE  \E u \in Tasks : /\ state'[u] = "asking" /\ ClientOf[u] = c
                                     /\ FrameOf(u)' = frame
  BY DEF WireInv, Orderly
<1>1. \A u \in Tasks : FrameOf(u)' = FrameOf(u)
  BY DEF FrameOf, Current
<1>2. LinkOf[c] \in Links /\ ClientOf[t] \in Clients
  BY LinkAssumption
<1>3. CASE frame \in wire[LinkOf[c]]
  BY <1>1, <1>3 DEF WireInv
<1>4. CASE LinkOf[c] = LinkOfTask(t) /\ frame = FrameOf(t)
  <2>1. UnitOf[ClientOf[t]] = UnitOf[c]
    BY <1>4 DEF FrameOf, Frame
  <2>2. ClientOf[t] = c
    BY <1>2, <1>4, <2>1 DEF Orderly, LinkOfTask
  <2> QED
    BY <1>1, <1>4, <2>2
<1> QED
  BY <1>2, <1>3, <1>4

\* An orderly client hears of nothing but the transaction it is in.
LEMMA OnlyItsFrame ==
    ASSUME LockInv, WireInv, NEW t \in Tasks, state[t] = "asking",
           Orderly(ClientOf[t]),
           NEW frame \in wire[LinkOfTask(t)], Belongs(t, frame)
    PROVE  frame = FrameOf(t)
<1>1. ClientOf[t] \in Clients
  BY LinkAssumption
<1>2. PICK u \in Tasks :
        state[u] = "asking" /\ ClientOf[u] = ClientOf[t] /\ FrameOf(u) = frame
  BY <1>1 DEF WireInv, Belongs, LinkOfTask
<1>3. u = t
  BY <1>2 DEF LockInv, AskersHold
<1> QED
  BY <1>2, <1>3

\* Abandoning leaves nothing of the transaction of an orderly client.
LEMMA AbandonClears ==
    ASSUME TypeOK, NEW t \in Tasks, Abandon(t)
    PROVE  /\ Orderly(ClientOf[t]) => FrameOf(t) \notin wire'[LinkOfTask(t)]
           /\ \A l \in Links : wire'[l] \subseteq wire[l]
<1>1. LinkOfTask(t) \in Links
  BY LinkAssumption DEF LinkOfTask
<1>2. CASE LinkOfTask(t) \in Late
  BY <1>2 DEF Abandon, Orderly, LinkOfTask
<1>3. CASE LinkOfTask(t) \notin Late
  <2>1. wire' = [wire EXCEPT ![LinkOfTask(t)] = wire[LinkOfTask(t)] \ {FrameOf(t)}]
    BY <1>3 DEF Abandon
  <2> QED
    BY <1>1, <2>1 DEF TypeOK
<1> QED
  BY <1>2, <1>3

LEMMA WireStep ==
    ASSUME LockInv, WireInv, [Next]_vars
    PROVE  WireInv'
<1> USE DEF LockInv
<1>a. ASSUME NEW t \in Tasks, GiveUp(t)
      PROVE  \A u \in Tasks : u # t =>
               state'[u] = state[u] /\ plan'[u] = plan[u] /\ step'[u] = step[u]
  BY <1>a DEF GiveUp, TypeOK
<1>1. ASSUME NEW t \in Tasks, NEW reads \in Plans, Call(t, reads)
      PROVE  WireInv'
  <2>1. /\ \A u \in Tasks : u # t =>
             state'[u] = state[u] /\ plan'[u] = plan[u] /\ step'[u] = step[u]
        /\ wire' = wire /\ state[t] # "asking"
    BY <1>1 DEF Call, Active, TypeOK
  <2> QED
    BY <2>1, OthersKeepWire
<1>2. ASSUME NEW t \in Tasks, Send(t) \/ Resend(t)
      PROVE  WireInv'
  <2>1. state' = [state EXCEPT ![t] = "asking"] /\ UNCHANGED <<plan, step>>
    BY <1>2 DEF Send, Resend, TypeOK, call
  <2>2. wire' = [wire EXCEPT ![LinkOfTask(t)] = wire[LinkOfTask(t)] \cup {FrameOf(t)}]
    BY <1>2 DEF Send, Resend
  <2> QED
    BY <2>1, <2>2, SendersKeepWire DEF TypeOK
<1>3. ASSUME NEW t \in Tasks, SendFails(t)
      PROVE  WireInv'
  BY <1>3, <1>a, OthersKeepWire DEF SendFails
<1>4. ASSUME NEW t \in Tasks, Receive(t)
      PROVE  WireInv'
  <2>1. state[t] = "asking" /\ LinkOfTask(t) \in Links
    BY <1>4, LinkAssumption DEF Receive, LinkOfTask
  <2>2. PICK frame \in wire[LinkOfTask(t)] :
          /\ Belongs(t, frame)
          /\ \/ wire' = [wire EXCEPT ![LinkOfTask(t)] = wire[LinkOfTask(t)] \ {frame}]
             \/ LinkOfTask(t) \in Late /\ wire' = wire
    BY <1>4 DEF Receive
  <2>3. \A u \in Tasks : u # t =>
             state'[u] = state[u] /\ plan'[u] = plan[u] /\ step'[u] = step[u]
    <3>1. PICK answer : Merge(t, answer) \/ GiveUp(t)
      BY <1>4 DEF Receive
    <3> QED
      BY <1>a, <3>1 DEF Merge, TypeOK
  <2>4. Orderly(ClientOf[t]) => frame = FrameOf(t) /\ LinkOfTask(t) \notin Late
    BY <2>1, <2>2, OnlyItsFrame DEF Orderly, LinkOfTask
  <2>5. /\ Orderly(ClientOf[t]) => FrameOf(t) \notin wire'[LinkOfTask(t)]
        /\ \A l \in Links : wire'[l] \subseteq wire[l]
    <3>1. CASE wire' = [wire EXCEPT ![LinkOfTask(t)] = wire[LinkOfTask(t)] \ {frame}]
      BY <2>1, <2>4, <3>1 DEF TypeOK
    <3>2. CASE LinkOfTask(t) \in Late /\ wire' = wire
      BY <2>4, <3>2
    <3> QED
      BY <2>2, <3>1, <3>2
  <2> QED
    BY <2>1, <2>3, <2>5, OthersKeepWire
<1>5. ASSUME NEW t \in Tasks, GiveUp(t), Abandon(t)
      PROVE  WireInv'
  BY <1>5, <1>a, AbandonClears, OthersKeepWire
<1>6. ASSUME NEW t \in Tasks, Timeout(t)
      PROVE  WireInv'
  BY <1>5, <1>6 DEF Timeout
<1>7. ASSUME NEW t \in Tasks, Cancel(t)
      PROVE  WireInv'
  <2>1. CASE state[t] = "asking"
    BY <1>5, <1>7, <2>1 DEF Cancel
  <2>2. CASE state[t] # "asking"
    BY <1>7, <1>a, <2>2, OthersKeepWire DEF Cancel
  <2> QED
    BY <2>1, <2>2
<1>8. ASSUME UNCHANGED call, \A l \in Links : wire'[l] \subseteq wire[l]
      PROVE  WireInv'
  BY <1>8, LinkAssumption DEF call, WireInv, Orderly, FrameOf, Current
<1>9. ASSUME NEW c \in Clients, Close(c)
      PROVE  WireInv'
  <2>1. CASE \E t \in Tasks : holder[c] = t /\ state[t] = "asking"
    <3>1. PICK t \in Tasks : GiveUp(t) /\ Abandon(t)
      BY <1>9, <2>1 DEF Close
    <3> QED
      BY <1>5, <3>1
  <2>2. CASE ~\E t \in Tasks : holder[c] = t /\ state[t] = "asking"
    BY <1>8, <1>9, <2>2 DEF Close
  <2> QED
    BY <2>1, <2>2
<1>10. ASSUME NEW l \in Links, NEW frame \in wire[l], Lose(l, frame)
       PROVE  WireInv'
  BY <1>8, <1>10 DEF Lose, TypeOK
<1>11. ASSUME NEW c \in Clients, Connect(c)
       PROVE  WireInv'
  BY <1>8, <1>11 DEF Connect
<1>12. CASE UNCHANGED vars
  BY <1>8, <1>12 DEF vars
<1> QED
  BY <1>1, <1>2, <1>3, <1>4, <1>6, <1>7, <1>9, <1>10, <1>11, <1>12
     DEF Next, EndOfTransaction

\* An answer to the request in progress that passes the checks is whole: a
\* served call takes no other frame for its own (client.py:83-94).
LEMMA ServedTells ==
    ASSUME LockInv, WireInv, NEW t \in Served, state[t] = "asking"
    PROVE  AcceptsItsOwn(t)
<1> SUFFICES ASSUME NEW frame \in wire[LinkOfTask(t)],
                    NEW answer \in Answers(frame.request),
                    Belongs(t, frame), Accepts(t, answer)
             PROVE  answer = Whole(Current(t))
  BY DEF AcceptsItsOwn
<1>0. t \in Tasks
  BY DEF Served
<1>1. frame = FrameOf(t)
  BY <1>0, OnlyItsFrame DEF Served, Attributable, Belongs
<1>2. frame.request = Current(t)
  BY <1>1 DEF FrameOf, Frame
<1>3. Current(t) \in Requests /\ LengthOf[Current(t)] \in Nat
  BY <1>0, CurrentType DEF LockInv, Active
<1>4. \A n \in 0 .. LengthOf[Current(t)] - 1 : n # LengthOf[Current(t)]
  BY <1>3
<1> QED
  BY <1>2, <1>4 DEF Answers, Accepts, Fits, Answer, Whole

\* What a call has that it keeps fits what it asked for.
FitsUpTo(t, n) == \A i \in 1 .. n : Fits(plan[t][i], values[t][plan[t][i]])

FitsNow(u) ==
    /\ Active(u)' => FitsUpTo(u, step[u] - 1)'
    /\ state'[u] = "returned" =>
          \A i \in DOMAIN plan'[u] : Fits(plan'[u][i], values'[u][plan'[u][i]])

LEMMA OthersKeepFit ==
    ASSUME FitInv, NEW u \in Tasks,
           state'[u] = state[u], plan'[u] = plan[u], step'[u] = step[u],
           values'[u] = values[u]
    PROVE  FitsNow(u)
<1>1. Active(u)' <=> Active(u)
  BY DEF Active
<1> QED
  BY <1>1 DEF FitInv, FitsNow, FitsUpTo

\* The words of a request that are merged fit it (client.py:83-94, 105-110).
LEMMA MergeFits ==
    ASSUME TypeOK, FitInv, NEW t \in Tasks, state[t] = "asking",
           NEW answer, Accepts(t, answer), Merge(t, answer)
    PROVE  FitsNow(t)
<1>1. /\ Active(t) /\ plan[t] \in Seq(Requests)
      /\ step[t] \in 1 .. Len(plan[t]) /\ Len(plan[t]) \in Nat
      /\ DOMAIN plan[t] = 1 .. Len(plan[t])
  BY CurrentType, LenProperties DEF Active
<1>2. values'[t] = [values[t] EXCEPT ![Current(t)] = answer] /\ plan' = plan
  BY DEF Merge, TypeOK
<1>3. FitsUpTo(t, step[t] - 1)
  BY <1>1 DEF FitInv, FitsUpTo
<1>4. \A i \in 1 .. step[t] : Fits(plan[t][i], values'[t][plan[t][i]])
  <2> SUFFICES ASSUME NEW i \in 1 .. step[t]
               PROVE  Fits(plan[t][i], values'[t][plan[t][i]])
    OBVIOUS
  <2>1. plan[t][i] \in Requests /\ values[t] \in [Requests -> AnswerSet]
    BY <1>1, ElementOfSeq DEF TypeOK, AnswerSet
  <2>2. CASE plan[t][i] = Current(t)
    BY <1>2, <2>1, <2>2 DEF Accepts
  <2>3. CASE plan[t][i] # Current(t)
    <3>1. i \in 1 .. step[t] - 1
      BY <1>1, <2>3 DEF Current
    <3>2. values'[t][plan[t][i]] = values[t][plan[t][i]]
      BY <1>2, <2>1, <2>3
    <3> QED
      BY <1>3, <3>1, <3>2 DEF FitsUpTo
  <2> QED
    BY <2>2, <2>3
<1>5. CASE IsLast(t)
  <2>1. state'[t] = "returned" /\ step[t] = Len(plan[t])
    BY <1>5 DEF Merge, TypeOK, IsLast
  <2> QED
    BY <1>1, <1>2, <1>4, <2>1 DEF FitsNow, Active
<1>6. CASE ~IsLast(t)
  <2>1. state'[t] = "waiting" /\ step'[t] = step[t] + 1
    BY <1>6 DEF Merge, TypeOK
  <2>2. step'[t] - 1 = step[t]
    BY <1>1, <2>1
  <2>3. FitsUpTo(t, step[t] - 1)'
    BY <1>2, <1>4, <2>2 DEF FitsUpTo, Fits
  <2> QED
    BY <2>1, <2>3 DEF FitsNow
<1> QED
  BY <1>5, <1>6

\* No exception response and no short answer gets into a call.
LEMMA FitStep ==
    ASSUME LockInv, FitInv, [Next]_vars
    PROVE  FitInv'
<1> USE DEF LockInv
<1> SUFFICES ASSUME NEW u \in Tasks
             PROVE  FitsNow(u)
  BY DEF FitInv, FitsNow, FitsUpTo
<1>a. ASSUME NEW t \in Tasks, GiveUp(t)
      PROVE  FitsNow(u)
  <2>1. CASE u = t
    BY <1>a, <2>1 DEF GiveUp, Active, TypeOK, FitsNow
  <2>2. CASE u # t
    BY <1>a, <2>2, OthersKeepFit DEF GiveUp, TypeOK
  <2> QED
    BY <2>1, <2>2
<1>1. ASSUME NEW t \in Tasks, NEW reads \in Plans, Call(t, reads)
      PROVE  FitsNow(u)
  <2>1. CASE u = t
    <3>1. state'[t] = "waiting" /\ step'[t] = 1
      BY <1>1 DEF Call, TypeOK
    <3>2. 1 .. step'[t] - 1 = {}
      BY <3>1
    <3> QED
      BY <2>1, <3>1, <3>2 DEF FitsNow, FitsUpTo
  <2>2. CASE u # t
    BY <1>1, <2>2, OthersKeepFit DEF Call, TypeOK
  <2> QED
    BY <2>1, <2>2
<1>2. ASSUME NEW t \in Tasks, Send(t)
      PROVE  FitsNow(u)
  <2>1. CASE u = t
    <3>1. Active(t) /\ state'[t] = "asking" /\ UNCHANGED <<plan, step, values>>
      BY <1>2 DEF Send, Active, TypeOK
    <3> QED
      BY <2>1, <3>1 DEF FitInv, FitsNow, FitsUpTo
  <2>2. CASE u # t
    BY <1>2, <2>2, OthersKeepFit DEF Send, TypeOK
  <2> QED
    BY <2>1, <2>2
<1>3. ASSUME NEW t \in Tasks, SendFails(t) \/ Timeout(t) \/ Cancel(t)
      PROVE  GiveUp(t)
  BY <1>3 DEF SendFails, Timeout, Cancel
<1>4. ASSUME NEW t \in Tasks, Receive(t)
      PROVE  FitsNow(u)
  <2>1. state[t] = "asking"
    BY <1>4 DEF Receive
  <2>2. PICK answer :
          IF Accepts(t, answer) THEN Merge(t, answer) ELSE Release(t) /\ GiveUp(t)
    BY <1>4 DEF Receive
  <2>3. CASE GiveUp(t)
    BY <1>a, <2>3
  <2>4. CASE Accepts(t, answer) /\ Merge(t, answer)
    <3>1. CASE u = t
      BY <2>1, <2>4, <3>1, MergeFits
    <3>2. CASE u # t
      BY <2>4, <3>2, OthersKeepFit DEF Merge, TypeOK
    <3> QED
      BY <3>1, <3>2
  <2> QED
    BY <2>2, <2>3, <2>4
<1>5. ASSUME NEW c \in Clients, Close(c)
      PROVE  (\E t \in Tasks : GiveUp(t)) \/ UNCHANGED call
  <2>1. CASE \E t \in Tasks : holder[c] = t /\ state[t] = "asking"
    BY <1>5, <2>1 DEF Close
  <2>2. CASE ~\E t \in Tasks : holder[c] = t /\ state[t] = "asking"
    BY <1>5, <2>2 DEF Close
  <2> QED
    BY <2>1, <2>2
<1>6. ASSUME UNCHANGED call
      PROVE  FitsNow(u)
  BY <1>6, OthersKeepFit DEF call
<1>7. \/ \E t \in Tasks : (\E reads \in Plans : Call(t, reads)) \/ Send(t) \/ Receive(t)
      \/ \E t \in Tasks : SendFails(t) \/ Timeout(t) \/ Cancel(t)
      \/ \E c \in Clients : Close(c)
      \/ UNCHANGED call
  BY DEF Next, EndOfTransaction, Resend, Connect, Lose, vars
<1> QED
  BY <1>a, <1>1, <1>2, <1>3, <1>4, <1>5, <1>6, <1>7

\* A call that returns has as many words as it asked for, whatever happens on
\* the link, and where answers can be told apart none of another's
\* (client.py:76-95, 105-110).
THEOREM AnswersAreOwn == Spec => []ReturnsItsWords
<1>1. Init => WordsInv /\ WireInv /\ FitInv
  <2>1. Init => WordsInv /\ FitInv
    BY DEF Init, WordsInv, FitInv, Active, Served
  <2>2. Init => WireInv
    BY LinkAssumption DEF Init, WireInv
  <2> QED
    BY <2>1, <2>2
<1>2. LockInv /\ WordsInv /\ WireInv /\ [Next]_vars => WordsInv' /\ WireInv'
  BY WordsStep, WireStep, ServedTells
<1>3. LockInv /\ FitInv /\ [Next]_vars => FitInv'
  BY FitStep
<1>4. WordsInv /\ FitInv => ReturnsItsWords
  BY DEF WordsInv, FitInv, ReturnsItsWords, Served
<1> QED
  BY <1>1, <1>2, <1>3, <1>4, LockInvariant, PTL DEF Spec
-----------------------------------------------------------------------------
(* The order in which the lock is served.                                  *)

\* What a client's line does in a step.
LineKept(c) == InLine(c)' /\ LineMovesUp(c)

\* The first of a queue gets the lock, the others move up (client.py:76).
LEMMA HandOnFacts ==
    ASSUME TypeOK, NEW c \in Clients, NEW queue \in Seq(Tasks), HandOn(c, queue)
    PROVE  /\ queue = <<>> => holder'[c] = NoTask /\ waiters'[c] = <<>>
           /\ queue # <<>> =>
                 /\ 1 \in DOMAIN queue /\ holder'[c] = queue[1]
                 /\ Len(queue) \in Nat /\ DOMAIN queue = 1 .. Len(queue)
                 /\ DOMAIN waiters'[c] = 1 .. Len(queue) - 1
                 /\ \A i \in 1 .. Len(queue) - 1 : waiters'[c][i] = queue[i + 1]
           /\ \A d \in Clients : d # c =>
                 holder'[d] = holder[d] /\ waiters'[d] = waiters[d]
<1>1. CASE queue = <<>>
  BY <1>1 DEF HandOn, TypeOK
<1>2. CASE queue # <<>>
  <2>1. /\ Head(queue) = queue[1] /\ Tail(queue) \in Seq(Tasks)
        /\ Len(Tail(queue)) = Len(queue) - 1
        /\ \A i \in 1 .. Len(Tail(queue)) : Tail(queue)[i] = queue[i + 1]
    BY <1>2, HeadTailProperties
  <2>2. /\ Len(queue) \in Nat /\ DOMAIN queue = 1 .. Len(queue) /\ Len(queue) # 0
        /\ DOMAIN Tail(queue) = 1 .. Len(Tail(queue))
    BY <1>2, <2>1, LenProperties, EmptySeq
  <2>3. holder'[c] = queue[1] /\ waiters'[c] = Tail(queue)
    BY <1>2, <2>1 DEF HandOn, TypeOK
  <2>4. \A d \in Clients : d # c => holder'[d] = holder[d] /\ waiters'[d] = waiters[d]
    BY DEF HandOn, TypeOK
  <2> QED
    BY <1>2, <2>1, <2>2, <2>3, <2>4
<1> QED
  BY <1>1, <1>2

\* When the lock goes to the first of a queue in which all who wait have their
\* old places, and who is new one behind them, then nobody is lost and nobody
\* overtaken.
LEMMA HandOnKeepsLine ==
    ASSUME TypeOK, NEW c \in Clients, NEW queue \in Seq(Tasks), HandOn(c, queue),
           \A i \in DOMAIN queue :
               /\ ClientOf[queue[i]] = c /\ state'[queue[i]] = "waiting"
               /\ \A j \in DOMAIN queue : queue[j] = queue[i] => j = i,
           \A t \in Tasks : ClientOf[t] = c /\ Active(t)' =>
               \E i \in DOMAIN queue : queue[i] = t,
           \A i \in DOMAIN waiters[c] : i \in DOMAIN queue /\ queue[i] = waiters[c][i]
    PROVE  LineKept(c)
<1>1. CASE queue = <<>>
  <2>1. holder'[c] = NoTask /\ waiters'[c] = <<>>
    BY <1>1, HandOnFacts
  <2>2. queue \in Seq(Tasks) /\ Len(queue) = 0 /\ DOMAIN queue = 1 .. Len(queue)
    BY <1>1, LenProperties, EmptySeq
  <2>3. \A i \in DOMAIN queue : FALSE
    BY <2>2
  <2>4. \A i \in DOMAIN waiters'[c] : FALSE
    BY <1>1, <2>1, <2>3
  <2> QED
    BY <2>1, <2>3, <2>4 DEF LineKept, InLine, LineMovesUp
<1>2. CASE queue # <<>>
  <2>1. /\ holder'[c] = queue[1]
        /\ Len(queue) \in Nat /\ DOMAIN queue = 1 .. Len(queue) /\ 1 <= Len(queue)
        /\ DOMAIN waiters'[c] = 1 .. Len(queue) - 1
        /\ \A i \in 1 .. Len(queue) - 1 : waiters'[c][i] = queue[i + 1]
    BY <1>2, HandOnFacts
  <2>2. queue[1] \in Tasks /\ queue[1] # NoTask
    BY <2>1, ElementOfSeq, LinkAssumption
  <2>3. \A t \in Tasks : \A i \in DOMAIN queue : queue[i] = t =>
           \/ i = 1 /\ holder'[c] = t
           \/ i - 1 \in DOMAIN waiters'[c] /\ waiters'[c][i - 1] = t /\ i - 1 < i
    BY <2>1
  <2>4. InLine(c)'
    <3>1. holder'[c] # NoTask /\ ClientOf[holder'[c]] = c /\ Active(holder[c])'
      BY <2>1, <2>2 DEF Active
    <3>2. \A t \in Tasks : ClientOf[t] = c /\ Active(t)' =>
             holder'[c] = t \/ \E i \in DOMAIN waiters'[c] : waiters'[c][i] = t
      BY <2>3
    <3>3. \A i \in DOMAIN waiters'[c] :
             /\ i + 1 \in DOMAIN queue /\ waiters'[c][i] = queue[i + 1]
             /\ i + 1 # 1
      BY <2>1
    <3>4. \A i \in DOMAIN waiters'[c] :
             /\ ClientOf[waiters'[c][i]] = c /\ state'[waiters'[c][i]] = "waiting"
             /\ waiters'[c][i] # holder'[c]
             /\ \A j \in DOMAIN waiters'[c] : waiters'[c][j] = waiters'[c][i] => j = i
      BY <2>1, <3>3
    <3> QED
      BY <3>1, <3>2, <3>4 DEF InLine
  <2>5. LineMovesUp(c)
    <3> SUFFICES ASSUME NEW t \in Tasks, NEW i \in DOMAIN waiters[c],
                        waiters[c][i] = t
                 PROVE  \/ i = 1 /\ holder'[c] = t
                        \/ \E j \in DOMAIN waiters'[c] : waiters'[c][j] = t /\ j < i
      BY <2>1 DEF LineMovesUp, TypeOK
    <3> QED
      BY <2>1, <2>3
  <2> QED
    BY <2>4, <2>5 DEF LineKept
<1> QED
  BY <1>1, <1>2

\* A line that nobody joins or leaves stays as it is; its first may begin to
\* ask.
LEMMA LineStays ==
    ASSUME TypeOK, NEW c \in Clients, InLine(c),
           holder'[c] = holder[c], waiters'[c] = waiters[c],
           \A t \in Tasks : ClientOf[t] = c =>
               \/ state'[t] = state[t]
               \/ holder[c] = t /\ state[t] = "waiting" /\ state'[t] = "asking"
    PROVE  LineKept(c)
<1>1. \A i \in DOMAIN waiters[c] : waiters[c][i] \in Tasks /\ i \in Nat
  <2>1. waiters[c] \in Seq(Tasks)
    BY DEF TypeOK
  <2> QED
    BY <2>1, ElementOfSeq, LenProperties
<1>2. \A t \in Tasks : ClientOf[t] = c => (Active(t)' <=> Active(t))
  BY DEF Active
<1>3. holder[c] \in Tasks \cup {NoTask}
  BY DEF TypeOK
<1>4. InLine(c)'
  BY <1>1, <1>2, <1>3 DEF InLine
<1>5. ~TurnEnds(c)
  <2> SUFFICES ASSUME NEW t \in Tasks, holder[c] = t, state[t] = "asking"
               PROVE  state'[t] = "asking"
    BY DEF TurnEnds
  <2> QED
    BY LinkAssumption DEF InLine
<1>6. LineMovesUp(c)
  BY <1>1, <1>5 DEF LineMovesUp
<1> QED
  BY <1>4, <1>6 DEF LineKept

\* A step of one task and of its client's lock leaves the other lines alone.
LEMMA OtherLines ==
    ASSUME TypeOK, NEW t \in Tasks, NEW c \in Clients, InLine(c), c # ClientOf[t],
           holder'[c] = holder[c], waiters'[c] = waiters[c],
           \A u \in Tasks : u # t => state'[u] = state[u]
    PROVE  LineKept(c)
  BY LineStays

\* Whoever leaves the block ends its turn, and its call with it
\* (client.py:76-95).
LEMMA ReleaseKeepsLine ==
    ASSUME TypeOK, \A c \in Clients : InLine(c),
           NEW t \in Tasks, holder[ClientOf[t]] = t, Release(t), ~Active(t)',
           \A u \in Tasks : u # t => state'[u] = state[u]
    PROVE  \A c \in Clients : LineKept(c)
<1> DEFINE b == ClientOf[t]
<1>1. b \in Clients /\ waiters[b] \in Seq(Tasks) /\ InLine(b) /\ t # NoTask
  BY LinkAssumption DEF TypeOK
<1>2. HandOn(b, waiters[b])
  BY DEF Release
<1>3. \A i \in DOMAIN waiters[b] : waiters[b][i] \in Tasks \ {t}
  BY <1>1, ElementOfSeq, LenProperties DEF InLine
<1>4. LineKept(b)
  <2>1. \A i \in DOMAIN waiters[b] :
           /\ ClientOf[waiters[b][i]] = b /\ state'[waiters[b][i]] = "waiting"
           /\ \A j \in DOMAIN waiters[b] : waiters[b][j] = waiters[b][i] => j = i
    BY <1>1, <1>3 DEF InLine
  <2>2. \A u \in Tasks : ClientOf[u] = b /\ Active(u)' =>
           \E i \in DOMAIN waiters[b] : waiters[b][i] = u
    BY <1>1 DEF InLine, Active
  <2> HIDE DEF b
  <2> QED
    BY <1>1, <1>2, <2>1, <2>2, HandOnKeepsLine
<1>5. \A c \in Clients : c # b => LineKept(c)
  BY <1>1, <1>2, HandOnFacts, OtherLines
<1> QED
  BY <1>4, <1>5

\* Whoever goes on to its next request goes to the end of the line
\* (client.py:108-109).
LEMMA ReacquireKeepsLine ==
    ASSUME TypeOK, \A c \in Clients : InLine(c),
           NEW t \in Tasks, holder[ClientOf[t]] = t, Reacquire(t),
           state'[t] = "waiting", \A u \in Tasks : u # t => state'[u] = state[u]
    PROVE  \A c \in Clients : LineKept(c)
<1> DEFINE b == ClientOf[t]
           queue == Append(waiters[b], t)
<1>1. b \in Clients /\ waiters[b] \in Seq(Tasks) /\ InLine(b) /\ t # NoTask
  BY LinkAssumption DEF TypeOK
<1>2. HandOn(b, queue)
  BY DEF Reacquire
<1>3. /\ DOMAIN waiters[b] = 1 .. Len(waiters[b]) /\ Len(waiters[b]) \in Nat
      /\ \A i \in DOMAIN waiters[b] : waiters[b][i] \in Tasks \ {t}
  BY <1>1, ElementOfSeq, LenProperties DEF InLine
<1>4. /\ queue \in Seq(Tasks) /\ Len(queue) = Len(waiters[b]) + 1
      /\ \A i \in 1 .. Len(waiters[b]) : queue[i] = waiters[b][i]
      /\ queue[Len(waiters[b]) + 1] = t
  BY <1>1, AppendProperties
<1>5. DOMAIN queue = 1 .. Len(waiters[b]) + 1
  BY <1>4, LenProperties
<1>6. LineKept(b)
  <2>1. \A i \in DOMAIN queue :
           \/ i \in DOMAIN waiters[b] /\ queue[i] = waiters[b][i]
           \/ i = Len(waiters[b]) + 1 /\ queue[i] = t
    BY <1>3, <1>4, <1>5
  <2>2. \A i \in DOMAIN waiters[b] :
           /\ ClientOf[waiters[b][i]] = b /\ state'[waiters[b][i]] = "waiting"
           /\ waiters[b][i] # t
           /\ \A j \in DOMAIN waiters[b] : waiters[b][j] = waiters[b][i] => j = i
    BY <1>1, <1>3 DEF InLine
  <2>3. \A i \in DOMAIN queue :
           /\ ClientOf[queue[i]] = b /\ state'[queue[i]] = "waiting"
           /\ \A j \in DOMAIN queue : queue[j] = queue[i] => j = i
    BY <2>1, <2>2
  <2>4. \A u \in Tasks : ClientOf[u] = b /\ Active(u)' =>
           \E i \in DOMAIN queue : queue[i] = u
    <3> SUFFICES ASSUME NEW u \in Tasks, ClientOf[u] = b, Active(u)'
                 PROVE  \E i \in DOMAIN queue : queue[i] = u
      OBVIOUS
    <3>1. CASE u = t
      BY <1>3, <1>4, <1>5, <3>1
    <3>2. CASE u # t
      <4>1. \E i \in DOMAIN waiters[b] : waiters[b][i] = u
        BY <1>1, <3>2 DEF InLine, Active
      <4> QED
        BY <1>3, <1>4, <1>5, <4>1
    <3> QED
      BY <3>1, <3>2
  <2>5. \A i \in DOMAIN waiters[b] : i \in DOMAIN queue /\ queue[i] = waiters[b][i]
    BY <1>3, <1>4, <1>5
  <2> HIDE DEF b, queue
  <2> QED
    BY <1>1, <1>2, <1>4, <2>3, <2>4, <2>5, HandOnKeepsLine
<1>7. \A c \in Clients : c # b => LineKept(c)
  BY <1>1, <1>2, <1>4, HandOnFacts, OtherLines
<1> QED
  BY <1>6, <1>7

\* Whoever calls has no place in the line yet, and gets the last (client.py:76).
LEMMA AcquireKeepsLine ==
    ASSUME TypeOK, \A c \in Clients : InLine(c),
           NEW t \in Tasks, ~Active(t), Acquire(t),
           state'[t] = "waiting", \A u \in Tasks : u # t => state'[u] = state[u]
    PROVE  \A c \in Clients : LineKept(c)
<1> DEFINE b == ClientOf[t]
           queue == Append(waiters[b], t)
<1>1. b \in Clients /\ waiters[b] \in Seq(Tasks) /\ InLine(b) /\ t # NoTask
  BY LinkAssumption DEF TypeOK
<1>2. /\ DOMAIN waiters[b] = 1 .. Len(waiters[b]) /\ Len(waiters[b]) \in Nat
      /\ \A i \in DOMAIN waiters[b] : waiters[b][i] \in Tasks \ {t}
  BY <1>1, ElementOfSeq, LenProperties DEF InLine, Active
<1>3. /\ queue \in Seq(Tasks) /\ Len(queue) = Len(waiters[b]) + 1
      /\ \A i \in 1 .. Len(waiters[b]) : queue[i] = waiters[b][i]
      /\ queue[Len(waiters[b]) + 1] = t
  BY <1>1, AppendProperties
<1>4. DOMAIN queue = 1 .. Len(waiters[b]) + 1
  BY <1>3, LenProperties
<1>5. \A i \in DOMAIN queue :
         \/ i \in DOMAIN waiters[b] /\ queue[i] = waiters[b][i]
         \/ i = Len(waiters[b]) + 1 /\ queue[i] = t
  BY <1>2, <1>3, <1>4
<1>6. \A i \in DOMAIN waiters[b] :
         /\ ClientOf[waiters[b][i]] = b /\ state'[waiters[b][i]] = "waiting"
         /\ waiters[b][i] # t /\ waiters[b][i] # holder[b]
         /\ \A j \in DOMAIN waiters[b] : waiters[b][j] = waiters[b][i] => j = i
  BY <1>1, <1>2 DEF InLine
<1>7. CASE holder[b] = NoTask
  <2>1. waiters[b] = <<>> /\ queue = <<t>> /\ HandOn(b, queue)
    <3>1. waiters[b] = <<>> /\ HandOn(b, <<t>>)
      BY <1>1, <1>7 DEF InLine, Acquire
    <3>2. Append(<<>>, t) = <<t>>
      OBVIOUS
    <3> QED
      BY <3>1, <3>2
  <2>2. \A i \in DOMAIN waiters[b] : FALSE
    BY <1>2, <2>1
  <2>3. \A i \in DOMAIN queue : i = Len(waiters[b]) + 1 /\ queue[i] = t
    BY <1>5, <2>2
  <2>4. \A u \in Tasks : ClientOf[u] = b /\ Active(u)' => u = t
    BY <1>1, <1>7, <2>2, LinkAssumption DEF InLine, Active
  <2>5. \E i \in DOMAIN queue : queue[i] = t
    BY <1>2, <1>3, <1>4
  <2>6. ClientOf[t] = b
    OBVIOUS
  <2>7. LineKept(b)
    <3>1. \A i \in DOMAIN queue :
             /\ ClientOf[queue[i]] = b /\ state'[queue[i]] = "waiting"
             /\ \A j \in DOMAIN queue : queue[j] = queue[i] => j = i
      BY <2>3, <2>6
    <3>2. \A u \in Tasks : ClientOf[u] = b /\ Active(u)' =>
             \E i \in DOMAIN queue : queue[i] = u
      BY <2>4, <2>5
    <3>3. \A i \in DOMAIN waiters[b] : i \in DOMAIN queue /\ queue[i] = waiters[b][i]
      BY <2>2
    <3> HIDE DEF b, queue
    <3> QED
      BY <1>1, <1>3, <2>1, <3>1, <3>2, <3>3, HandOnKeepsLine
  <2>8. \A c \in Clients : c # b => LineKept(c)
    BY <1>1, <1>3, <2>1, HandOnFacts, OtherLines
  <2> QED
    BY <2>7, <2>8
<1>8. CASE holder[b] # NoTask
  <2>1. /\ holder' = holder /\ waiters'[b] = queue
        /\ \A c \in Clients : c # b => waiters'[c] = waiters[c]
    BY <1>1, <1>8 DEF Acquire, TypeOK
  <2>2. /\ holder[b] \in Tasks /\ ClientOf[holder[b]] = b /\ Active(holder[b])
        /\ holder[b] # t /\ state'[holder[b]] = state[holder[b]]
    BY <1>1, <1>8 DEF InLine, TypeOK
  <2>3. InLine(b)'
    <3>1. ClientOf[holder[b]] = b /\ Active(holder[b])' /\ holder'[b] # NoTask
      BY <1>8, <2>1, <2>2 DEF Active
    <3>2. \A u \in Tasks : ClientOf[u] = b /\ Active(u)' =>
             holder'[b] = u \/ \E i \in DOMAIN queue : queue[i] = u
      <4> SUFFICES ASSUME NEW u \in Tasks, ClientOf[u] = b, Active(u)'
                   PROVE  holder[b] = u \/ \E i \in DOMAIN queue : queue[i] = u
        BY <2>1
      <4>1. CASE u = t
        BY <1>2, <1>3, <1>4, <4>1
      <4>2. CASE u # t
        <5>1. holder[b] = u \/ \E i \in DOMAIN waiters[b] : waiters[b][i] = u
          BY <1>1, <4>2 DEF InLine, Active
        <5> QED
          BY <1>2, <1>3, <1>4, <5>1
      <4> QED
        BY <4>1, <4>2
    <3>3. \A i \in DOMAIN queue :
             /\ ClientOf[queue[i]] = b /\ state'[queue[i]] = "waiting"
             /\ queue[i] # holder'[b]
             /\ \A j \in DOMAIN queue : queue[j] = queue[i] => j = i
      BY <1>5, <1>6, <2>1, <2>2
    <3> QED
      BY <2>1, <3>1, <3>2, <3>3 DEF InLine
  <2>4. LineMovesUp(b)
    <3>1. ~TurnEnds(b)
      BY <2>1, <2>2 DEF TurnEnds
    <3>2. \A i \in DOMAIN waiters[b] :
             i \in DOMAIN waiters'[b] /\ waiters'[b][i] = waiters[b][i] /\ i <= i
      BY <1>2, <1>3, <1>4, <2>1
    <3> QED
      BY <3>1, <3>2 DEF LineMovesUp
  <2>5. \A c \in Clients : c # b => LineKept(c)
    BY <1>1, <2>1, OtherLines
  <2> QED
    BY <2>3, <2>4, <2>5 DEF LineKept
<1> QED
  BY <1>7, <1>8

\* What is left when one leaves a queue.
LEMMA LeaveQueueFacts ==
    ASSUME NEW s \in Seq(Tasks), NEW i \in DOMAIN s
    PROVE  LET rest == SubSeq(s, 1, i - 1) \o SubSeq(s, i + 1, Len(s))
           IN  /\ DOMAIN s = 1 .. Len(s) /\ Len(s) \in Nat
               /\ DOMAIN rest = 1 .. Len(s) - 1
               /\ \A j \in 1 .. Len(s) - 1 :
                     rest[j] = IF j < i THEN s[j] ELSE s[j + 1]
<1> DEFINE front == SubSeq(s, 1, i - 1)
           back == SubSeq(s, i + 1, Len(s))
           rest == front \o back
<1>1. Len(s) \in Nat /\ DOMAIN s = 1 .. Len(s) /\ i \in 1 .. Len(s)
  BY LenProperties
<1>2. \A n \in 1 .. Len(s) : s[n] \in Tasks
  BY ElementOfSeq
<1>3. /\ front \in Seq(Tasks) /\ Len(front) = i - 1
      /\ \A j \in 1 .. i - 1 : front[j] = s[j]
  <2>1. 1 \in Int /\ i - 1 \in Int /\ \A n \in 1 .. i - 1 : s[n] \in Tasks
    BY <1>1, <1>2
  <2>2. /\ front \in Seq(Tasks)
        /\ Len(front) = IF 1 <= i - 1 THEN i - 1 - 1 + 1 ELSE 0
        /\ \A j \in 1 .. i - 1 - 1 + 1 : front[j] = s[1 + j - 1]
    BY <2>1, SubSeqProperties
  <2> HIDE DEF front
  <2> QED
    BY <1>1, <2>2
<1>4. /\ back \in Seq(Tasks) /\ Len(back) = Len(s) - i
      /\ \A j \in 1 .. Len(s) - i : back[j] = s[i + j]
  <2>1. i + 1 \in Int /\ Len(s) \in Int /\ \A n \in i + 1 .. Len(s) : s[n] \in Tasks
    BY <1>1, <1>2
  <2>2. /\ back \in Seq(Tasks)
        /\ Len(back) = IF i + 1 <= Len(s) THEN Len(s) - (i + 1) + 1 ELSE 0
        /\ \A j \in 1 .. Len(s) - (i + 1) + 1 : back[j] = s[i + 1 + j - 1]
    BY <2>1, SubSeqProperties
  <2>3. Len(s) - (i + 1) + 1 = Len(s) - i /\ \A j \in Int : i + 1 + j - 1 = i + j
    BY <1>1
  <2>4. Len(back) = Len(s) - i
    <3> HIDE DEF back
    <3> QED
      BY <1>1, <2>2
  <2>5. \A j \in 1 .. Len(s) - i : back[j] = s[i + j]
    <3> SUFFICES ASSUME NEW j \in 1 .. Len(s) - i
                 PROVE  back[j] = s[i + j]
      OBVIOUS
    <3> HIDE DEF back
    <3>1. j \in 1 .. Len(s) - (i + 1) + 1
      BY <2>3
    <3>2. back[j] = s[i + 1 + j - 1]
      BY <2>2, <3>1
    <3>3. i + 1 + j - 1 = i + j
      BY <1>1
    <3> QED
      BY <3>2, <3>3
  <2> QED
    BY <2>2, <2>4, <2>5
<1>5. /\ rest \in Seq(Tasks) /\ Len(rest) = Len(s) - 1
      /\ \A j \in 1 .. Len(s) - 1 :
            rest[j] = IF j <= i - 1 THEN front[j] ELSE back[j - (i - 1)]
  <2> HIDE DEF front, back
  <2>1. /\ rest \in Seq(Tasks) /\ Len(rest) = Len(front) + Len(back)
        /\ \A j \in 1 .. Len(front) + Len(back) :
              rest[j] = IF j <= Len(front) THEN front[j] ELSE back[j - Len(front)]
    BY <1>3, <1>4, ConcatProperties
  <2>2. Len(front) + Len(back) = Len(s) - 1
    BY <1>1, <1>3, <1>4
  <2> QED
    BY <1>3, <2>1, <2>2
<1>6. \A j \in 1 .. Len(s) - 1 : rest[j] = IF j < i THEN s[j] ELSE s[j + 1]
  <2> SUFFICES ASSUME NEW j \in 1 .. Len(s) - 1
               PROVE  rest[j] = IF j < i THEN s[j] ELSE s[j + 1]
    OBVIOUS
  <2> HIDE DEF front, back, rest
  <2>1. CASE j < i
    <3>1. j <= i - 1 /\ j \in 1 .. i - 1
      BY <1>1, <2>1
    <3> QED
      BY <1>3, <1>5, <2>1, <3>1
  <2>2. CASE ~(j < i)
    <3>1. /\ ~(j <= i - 1) /\ j - (i - 1) \in 1 .. Len(s) - i
          /\ i + (j - (i - 1)) = j + 1
      BY <1>1, <2>2
    <3>2. rest[j] = back[j - (i - 1)]
      BY <1>5, <3>1
    <3> QED
      BY <1>4, <2>2, <3>1, <3>2
  <2> QED
    BY <2>1, <2>2
<1>7. DOMAIN rest = 1 .. Len(s) - 1
  <2> HIDE DEF rest
  <2> QED
    BY <1>5, LenProperties
<1> QED
  BY <1>1, <1>6, <1>7

\* Whoever is cancelled in the queue leaves it; those behind move up
\* (client.py:76).
LEMMA CancelKeepsLine ==
    ASSUME TypeOK, \A c \in Clients : InLine(c),
           NEW t \in Tasks, NEW i \in DOMAIN waiters[ClientOf[t]],
           waiters[ClientOf[t]][i] = t,
           NEW rest, waiters' = [waiters EXCEPT ![ClientOf[t]] = rest],
           DOMAIN rest = 1 .. Len(waiters[ClientOf[t]]) - 1,
           \A j \in 1 .. Len(waiters[ClientOf[t]]) - 1 :
               rest[j] = IF j < i THEN waiters[ClientOf[t]][j]
                         ELSE waiters[ClientOf[t]][j + 1],
           holder' = holder, ~Active(t)',
           \A u \in Tasks : u # t => state'[u] = state[u]
    PROVE  \A c \in Clients : LineKept(c)
<1> DEFINE b == ClientOf[t]
           s == waiters[b]
<1>1. b \in Clients /\ s \in Seq(Tasks) /\ InLine(b) /\ i \in DOMAIN s /\ s[i] = t
  BY LinkAssumption DEF TypeOK
<1>2. waiters'[b] = rest
  BY <1>1 DEF TypeOK
<1>3. /\ DOMAIN s = 1 .. Len(s) /\ Len(s) \in Nat
      /\ DOMAIN waiters'[b] = 1 .. Len(s) - 1
      /\ \A j \in 1 .. Len(s) - 1 :
            waiters'[b][j] = IF j < i THEN s[j] ELSE s[j + 1]
  BY <1>1, <1>2, LenProperties
<1>4. \A j \in DOMAIN s : /\ ClientOf[s[j]] = b /\ state[s[j]] = "waiting" /\ s[j] \in Tasks
                          /\ s[j] # holder[b]
                          /\ \A k \in DOMAIN s : s[k] = s[j] => k = j
  BY <1>1, ElementOfSeq, LenProperties DEF InLine
<1>5. \A j \in DOMAIN waiters'[b] :
         \E k \in DOMAIN s : /\ k # i /\ waiters'[b][j] = s[k] /\ s[k] # t
                             /\ k = IF j < i THEN j ELSE j + 1
  <2> SUFFICES ASSUME NEW j \in DOMAIN waiters'[b]
               PROVE  \E k \in DOMAIN s : /\ k # i /\ waiters'[b][j] = s[k] /\ s[k] # t
                                          /\ k = IF j < i THEN j ELSE j + 1
    OBVIOUS
  <2> DEFINE k == IF j < i THEN j ELSE j + 1
  <2> HIDE DEF b, s
  <2>1. j \in 1 .. Len(s) - 1 /\ k \in 1 .. Len(s) /\ k # i
    BY <1>1, <1>3
  <2>2. k \in DOMAIN s /\ k # i /\ waiters'[b][j] = s[k]
    BY <1>3, <2>1
  <2>3. s[k] # t
    BY <1>1, <1>4, <2>2
  <2> QED
    BY <2>2, <2>3
<1>6. \A k \in DOMAIN s : k # i =>
         \E j \in DOMAIN waiters'[b] : waiters'[b][j] = s[k] /\ j <= k
  <2> SUFFICES ASSUME NEW k \in DOMAIN s, k # i
               PROVE  \E j \in DOMAIN waiters'[b] : waiters'[b][j] = s[k] /\ j <= k
    OBVIOUS
  <2> DEFINE j == IF k < i THEN k ELSE k - 1
  <2> HIDE DEF b, s
  <2>1. /\ j \in 1 .. Len(s) - 1 /\ j <= k
        /\ k < i => j < i /\ j = k
        /\ ~(k < i) => ~(j < i) /\ j + 1 = k
    BY <1>1, <1>3
  <2>2. j \in DOMAIN waiters'[b] /\ waiters'[b][j] = s[k] /\ j <= k
    BY <1>3, <2>1
  <2> QED
    BY <2>2
<1>7. /\ holder[b] # t /\ holder'[b] = holder[b] /\ holder[b] # NoTask
      /\ holder[b] \in Tasks /\ ClientOf[holder[b]] = b /\ Active(holder[b])
      /\ state'[holder[b]] = state[holder[b]]
  <2>1. holder[b] # t
    BY <1>1, <1>4
  <2>2. s # <<>>
    <3>1. DOMAIN <<>> = {}
      BY EmptySeq, LenProperties
    <3> QED
      BY <1>1, <3>1
  <2>3. holder[b] # NoTask
    BY <1>1, <2>2 DEF InLine
  <2> QED
    BY <1>1, <2>1, <2>3 DEF InLine, TypeOK
<1>8. InLine(b)'
  <2>1. ClientOf[holder'[b]] = b /\ Active(holder[b])' /\ holder'[b] # NoTask
    BY <1>7 DEF Active
  <2>2. \A u \in Tasks : ClientOf[u] = b /\ Active(u)' =>
           holder'[b] = u \/ \E j \in DOMAIN waiters'[b] : waiters'[b][j] = u
    <3> SUFFICES ASSUME NEW u \in Tasks, ClientOf[u] = b, Active(u)'
                 PROVE  holder[b] = u \/ \E j \in DOMAIN waiters'[b] : waiters'[b][j] = u
      OBVIOUS
    <3>1. u # t /\ Active(u)
      BY DEF Active
    <3>2. holder[b] = u \/ \E k \in DOMAIN s : s[k] = u
      BY <1>1, <3>1 DEF InLine
    <3> QED
      BY <1>1, <1>6, <3>1, <3>2
  <2>3. \A j \in DOMAIN waiters'[b] :
           /\ ClientOf[waiters'[b][j]] = b /\ state'[waiters'[b][j]] = "waiting"
           /\ waiters'[b][j] # holder'[b]
    <3> HIDE DEF b, s
    <3> QED
      BY <1>4, <1>5, <1>7
  <2>4. \A j, n \in DOMAIN waiters'[b] : waiters'[b][n] = waiters'[b][j] => n = j
    <3> SUFFICES ASSUME NEW j \in DOMAIN waiters'[b], NEW n \in DOMAIN waiters'[b],
                        waiters'[b][n] = waiters'[b][j]
                 PROVE  n = j
      OBVIOUS
    <3>1. PICK k \in DOMAIN s : waiters'[b][j] = s[k] /\ k = IF j < i THEN j ELSE j + 1
      BY <1>5
    <3>2. PICK m \in DOMAIN s : waiters'[b][n] = s[m] /\ m = IF n < i THEN n ELSE n + 1
      BY <1>5
    <3>3. m = k
      BY <1>4, <3>1, <3>2
    <3> HIDE DEF b, s
    <3> QED
      BY <1>1, <1>3, <3>1, <3>2, <3>3
  <2> QED
    BY <2>1, <2>2, <2>3, <2>4 DEF InLine
<1>9. LineMovesUp(b)
  <2>1. ~TurnEnds(b)
    BY <1>7 DEF TurnEnds
  <2> SUFFICES ASSUME NEW u \in Tasks, NEW k \in DOMAIN waiters[b],
                      waiters[b][k] = u, u # t
               PROVE  \E j \in DOMAIN waiters'[b] : waiters'[b][j] = u /\ j <= k
    BY <2>1 DEF LineMovesUp
  <2> QED
    BY <1>1, <1>6
<1>10. \A c \in Clients : c # b => LineKept(c)
  <2>1. \A c \in Clients : c # b => waiters'[c] = waiters[c]
    BY DEF TypeOK
  <2> QED
    BY <1>1, <2>1, OtherLines
<1> QED
  BY <1>8, <1>9, <1>10 DEF LineKept

\* Every step keeps every line.
LEMMA LineStep ==
    ASSUME LockInv, \A c \in Clients : InLine(c), [Next]_vars
    PROVE  \A c \in Clients : LineKept(c)
<1> USE DEF LockInv
<1>a. ASSUME NEW t \in Tasks, GiveUp(t)
      PROVE  ~Active(t)' /\ \A u \in Tasks : u # t => state'[u] = state[u]
  BY <1>a DEF GiveUp, Active, TypeOK
<1>1. ASSUME NEW t \in Tasks, GiveUp(t), Release(t), holder[ClientOf[t]] = t
      PROVE  \A c \in Clients : LineKept(c)
  BY <1>1, <1>a, ReleaseKeepsLine
<1>2. ASSUME UNCHANGED lock, UNCHANGED state
      PROVE  \A c \in Clients : LineKept(c)
  BY <1>2, LineStays DEF lock
<1>3. ASSUME NEW t \in Tasks, NEW reads \in Plans, Call(t, reads)
      PROVE  \A c \in Clients : LineKept(c)
  <2>1. /\ ~Active(t) /\ Acquire(t) /\ state'[t] = "waiting"
        /\ \A u \in Tasks : u # t => state'[u] = state[u]
    BY <1>3 DEF Call, TypeOK
  <2> QED
    BY <2>1, AcquireKeepsLine
<1>4. ASSUME NEW t \in Tasks, Send(t)
      PROVE  \A c \in Clients : LineKept(c)
  <2>1. /\ UNCHANGED <<holder, waiters>>
        /\ holder[ClientOf[t]] = t /\ state[t] = "waiting" /\ state'[t] = "asking"
        /\ \A u \in Tasks : u # t => state'[u] = state[u]
    BY <1>4 DEF Send, lock, TypeOK
  <2> QED
    BY <2>1, LineStays
<1>5. ASSUME NEW t \in Tasks, SendFails(t)
      PROVE  \A c \in Clients : LineKept(c)
  BY <1>1, <1>5 DEF SendFails
<1>6. ASSUME NEW t \in Tasks, Receive(t)
      PROVE  \A c \in Clients : LineKept(c)
  <2>1. holder[ClientOf[t]] = t
    BY <1>6 DEF Receive, AskersHold
  <2>2. (\E answer : Merge(t, answer)) \/ (Release(t) /\ GiveUp(t))
    BY <1>6 DEF Receive
  <2>3. ASSUME NEW answer, Merge(t, answer)
        PROVE  \A c \in Clients : LineKept(c)
    <3>1. \A u \in Tasks : u # t => state'[u] = state[u]
      BY <2>3 DEF Merge, TypeOK
    <3>2. CASE IsLast(t)
      <4>1. Release(t) /\ ~Active(t)'
        BY <2>3, <3>2 DEF Merge, Active, TypeOK
      <4> QED
        BY <2>1, <3>1, <4>1, ReleaseKeepsLine
    <3>3. CASE ~IsLast(t)
      <4>1. Reacquire(t) /\ state'[t] = "waiting"
        BY <2>3, <3>3 DEF Merge, TypeOK
      <4> QED
        BY <2>1, <3>1, <4>1, ReacquireKeepsLine
    <3> QED
      BY <3>2, <3>3
  <2> QED
    BY <1>1, <2>1, <2>2, <2>3
<1>7. ASSUME NEW t \in Tasks, Timeout(t)
      PROVE  \A c \in Clients : LineKept(c)
  BY <1>1, <1>7 DEF Timeout, AskersHold
<1>8. ASSUME NEW t \in Tasks, Cancel(t)
      PROVE  \A c \in Clients : LineKept(c)
  <2>1. CASE holder[ClientOf[t]] = t
    BY <1>1, <1>8, <2>1 DEF Cancel
  <2>2. CASE holder[ClientOf[t]] # t
    <3>1. ~Active(t)' /\ \A u \in Tasks : u # t => state'[u] = state[u]
      BY <1>8, <1>a DEF Cancel
    <3>2. PICK i \in DOMAIN waiters[ClientOf[t]] :
             /\ waiters[ClientOf[t]][i] = t
             /\ waiters' = [waiters EXCEPT ![ClientOf[t]] =
                              SubSeq(@, 1, i - 1) \o SubSeq(@, i + 1, Len(@))]
             /\ holder' = holder
      BY <1>8, <2>2 DEF Cancel
    <3> DEFINE queue == waiters[ClientOf[t]]
               rest == SubSeq(queue, 1, i - 1) \o SubSeq(queue, i + 1, Len(queue))
    <3>3. queue \in Seq(Tasks)
      BY LinkAssumption DEF TypeOK
    <3>4. /\ DOMAIN rest = 1 .. Len(queue) - 1
          /\ \A j \in 1 .. Len(queue) - 1 :
                rest[j] = IF j < i THEN queue[j] ELSE queue[j + 1]
      BY <3>2, <3>3, LeaveQueueFacts
    <3>5. waiters' = [waiters EXCEPT ![ClientOf[t]] = rest]
      BY <3>2
    <3> HIDE DEF rest
    <3> QED
      BY <3>1, <3>2, <3>4, <3>5, CancelKeepsLine
  <2> QED
    BY <2>1, <2>2
<1>9. ASSUME NEW c \in Clients, Close(c)
      PROVE  \A d \in Clients : LineKept(d)
  <2>1. CASE \E t \in Tasks : holder[c] = t /\ state[t] = "asking"
    <3>1. PICK t \in Tasks : holder[c] = t /\ state[t] = "asking" /\ Release(t) /\ GiveUp(t)
      BY <1>9, <2>1 DEF Close
    <3>2. holder[ClientOf[t]] = t
      BY <3>1 DEF AskersHold
    <3> QED
      BY <1>1, <3>1, <3>2
  <2>2. CASE ~\E t \in Tasks : holder[c] = t /\ state[t] = "asking"
    BY <1>2, <1>9, <2>2 DEF Close, call
  <2> QED
    BY <2>1, <2>2
<1>10. CASE \E t \in Tasks : Resend(t)
  BY <1>2, <1>10 DEF Resend, call
<1>11. CASE \E c \in Clients : Connect(c)
  BY <1>2, <1>11 DEF Connect, call
<1>12. CASE \E l \in Links : \E frame \in wire[l] : Lose(l, frame)
  BY <1>2, <1>12 DEF Lose, call
<1>13. CASE UNCHANGED vars
  BY <1>2, <1>13 DEF vars, call
<1> QED
  BY <1>3, <1>4, <1>5, <1>6, <1>7, <1>8, <1>9, <1>10, <1>11, <1>12, <1>13
     DEF Next, EndOfTransaction

\* Each caller of a client has its place in one line, in which nobody is lost
\* and nobody overtaken, however callers leave it and however often they come
\* back (client.py:76, 108-109).
THEOREM ServesInOrder == Spec => LockServesInOrder
<1> DEFINE Lines == \A c \in Clients : InLine(c)
           Moves == \A c \in Clients : LineMovesUp(c)
<1>1. Init => Lines
  <2> SUFFICES ASSUME Init, NEW c \in Clients PROVE InLine(c)
    OBVIOUS
  <2>1. holder[c] = NoTask /\ waiters[c] = <<>> /\ \A t \in Tasks : ~Active(t)
    BY DEF Init, Active
  <2>2. DOMAIN <<>> = {}
    BY EmptySeq, LenProperties
  <2> QED
    BY <2>1, <2>2 DEF InLine
<1>2. LockInv /\ Lines /\ [Next]_vars => Lines' /\ Moves
  BY LineStep DEF LineKept
<1> QED
  <2> HIDE DEF Lines, Moves
  <2>1. LockServesInOrder <=> []Lines /\ [][Moves]_vars
    BY PTL DEF LockServesInOrder, Lines, Moves
  <2> QED
    BY <1>1, <1>2, <2>1, LockInvariant, PTL DEF Spec
-----------------------------------------------------------------------------
(* The contract of read_batch: every step is a step of BatchRead or leaves *)
(* the calls, as their callers know them, as they are.                     *)

\* A step of one call leaves the others alone.
LEMMA OtherCallsStay ==
    ASSUME NEW t \in Tasks,
           \A u \in Tasks : u # t =>
               /\ state'[u] = state[u] /\ plan'[u] = plan[u]
               /\ step'[u] = step[u] /\ values'[u] = values[u]
    PROVE  /\ t \in Served => Calls' = [Calls EXCEPT ![t] = CallOf(t)']
           /\ t \notin Served => Calls' = Calls
<1>1. \A u \in Served : u # t => CallOf(u)' = CallOf(u)
  BY DEF CallOf, Active, Served
<1>2. Served' = Served
  BY DEF Served, Attributable, Orderly, LinkOfTask
<1> QED
  BY <1>1, <1>2 DEF Calls

LEMMA CallsStay ==
    ASSUME UNCHANGED call
    PROVE  Calls' = Calls
  BY DEF call, Calls, CallOf, Active, Served, Attributable, Orderly, LinkOfTask

\* A call that is given up ends with nothing (client.py:81-95).
LEMMA GiveUpRaises ==
    ASSUME TypeOK, NEW t \in Tasks, Active(t), GiveUp(t)
    PROVE  IF t \in Served THEN Batch!Raised(t) ELSE Calls' = Calls
<1>1. /\ state'[t] = "idle" /\ values'[t] = Nothing
      /\ \A u \in Tasks : u # t =>
            /\ state'[u] = state[u] /\ plan'[u] = plan[u]
            /\ step'[u] = step[u] /\ values'[u] = values[u]
  BY DEF GiveUp, TypeOK
<1>2. CallOf(t)' = Batch!Idle
  BY <1>1, Zenon DEF CallOf, Active, Batch!Idle, Batch!Progress
<1>3. t \in Served => Calls[t].status = "running"
  BY DEF Calls, CallOf
<1> QED
  BY <1>1, <1>2, <1>3, OtherCallsStay DEF Batch!Raised

\* A new call has nothing yet (client.py:105-107).
LEMMA CallBegins ==
    ASSUME TypeOK, NEW t \in Tasks, NEW reads \in Plans, Call(t, reads)
    PROVE  IF t \in Served THEN Batch!Begin(t, reads) ELSE Calls' = Calls
<1>1. /\ ~Active(t) /\ state'[t] = "waiting" /\ plan'[t] = reads
      /\ step'[t] = 1 /\ values'[t] = Nothing
      /\ \A u \in Tasks : u # t =>
            /\ state'[u] = state[u] /\ plan'[u] = plan[u]
            /\ step'[u] = step[u] /\ values'[u] = values[u]
  BY DEF Call, TypeOK
<1>2. CallOf(t)' = Batch!Progress("running", reads, 0, Nothing)
  BY <1>1 DEF CallOf, Active, Batch!Progress
<1>3. t \in Served => Calls[t].status # "running"
  BY <1>1 DEF Calls, CallOf, TypeOK, Active
<1> QED
  BY <1>1, <1>2, <1>3, OtherCallsStay DEF Batch!Begin

\* An answer brings it the words of its next request (client.py:108-110).
LEMMA MergeAnswers ==
    ASSUME TypeOK, NEW t \in Served, state[t] = "asking", Merge(t, Whole(Current(t)))
    PROVE  Batch!Answered(t)
<1>0. t \in Tasks
  BY DEF Served
<1>1. /\ Active(t) /\ step[t] \in 1 .. Len(plan[t]) /\ Len(plan[t]) \in Nat
      /\ Current(t) \in Requests
  BY <1>0, CurrentType, LenProperties DEF Active
<1>2. /\ plan' = plan
      /\ values'[t] = [values[t] EXCEPT ![Current(t)] = Whole(Current(t))]
      /\ \A u \in Tasks : u # t =>
            /\ state'[u] = state[u] /\ plan'[u] = plan[u]
            /\ step'[u] = step[u] /\ values'[u] = values[u]
  BY <1>0 DEF Merge, TypeOK
<1>3. /\ Calls[t].status = "running" /\ Calls[t].asked = plan[t]
      /\ Calls[t].done = step[t] - 1 /\ Calls[t].words = values[t]
  BY <1>1 DEF Calls, CallOf, Active
<1>4. Batch!Upcoming(t) = Current(t) /\ (Batch!AtLast(t) <=> IsLast(t))
  BY <1>1, <1>3 DEF Batch!Upcoming, Batch!AtLast, Current, IsLast
<1>5. CallOf(t)' = Batch!Progress(IF IsLast(t) THEN "returned" ELSE "running",
                                  plan[t], step[t],
                                  [values[t] EXCEPT ![Current(t)] = Whole(Current(t))])
  <2>1. CASE IsLast(t)
    <3>1. state'[t] = "returned" /\ step[t] = Len(plan[t])
      BY <1>0, <2>1 DEF Merge, TypeOK, IsLast
    <3> QED
      BY <1>2, <2>1, <3>1 DEF CallOf, Active, Batch!Progress
  <2>2. CASE ~IsLast(t)
    <3>1. state'[t] = "waiting" /\ step'[t] = step[t] + 1
      BY <1>0, <2>2 DEF Merge, TypeOK
    <3>2. step'[t] - 1 = step[t]
      BY <1>1, <3>1
    <3> QED
      BY <1>2, <2>2, <3>1, <3>2 DEF CallOf, Active, Batch!Progress
  <2> QED
    BY <2>1, <2>2
<1>6. Calls[t].done + 1 = step[t]
  BY <1>1, <1>3
<1>7. Calls' = [Calls EXCEPT ![t] = CallOf(t)']
  BY <1>0, <1>2, OtherCallsStay
<1> QED
  BY <1>1, <1>3, <1>4, <1>5, <1>6, <1>7 DEF Batch!Answered

\* Every step of the client, while calls accept nothing but their answers.
LEMMA BatchStep ==
    ASSUME LockInv, [Next]_vars,
           \A t \in Served : state[t] = "asking" => AcceptsItsOwn(t)
    PROVE  [Batch!Next]_Calls
<1> USE DEF LockInv
<1>1. ASSUME NEW t \in Tasks, Active(t), GiveUp(t)
      PROVE  [Batch!Next]_Calls
  BY <1>1, GiveUpRaises DEF Batch!Next
<1>2. ASSUME NEW t \in Tasks, NEW reads \in Plans, Call(t, reads)
      PROVE  [Batch!Next]_Calls
  BY <1>2, CallBegins DEF Batch!Next
<1>3. ASSUME NEW t \in Tasks, Receive(t)
      PROVE  [Batch!Next]_Calls
  <2>1. state[t] = "asking" /\ Active(t)
    BY <1>3 DEF Receive, Active
  <2>a. PICK frame \in wire[LinkOfTask(t)] :
          /\ Belongs(t, frame)
          /\ \E answer \in Answers(frame.request) :
                IF Accepts(t, answer) THEN Merge(t, answer) ELSE Release(t) /\ GiveUp(t)
    BY <1>3 DEF Receive
  <2>2. PICK answer \in Answers(frame.request) :
          IF Accepts(t, answer) THEN Merge(t, answer) ELSE Release(t) /\ GiveUp(t)
    BY <2>a
  <2>3. CASE ~Accepts(t, answer)
    BY <1>1, <2>1, <2>2, <2>3
  <2>4. CASE Accepts(t, answer) /\ t \in Served
    <3>1. answer = Whole(Current(t))
      BY <2>1, <2>a, <2>4 DEF AcceptsItsOwn
    <3> QED
      BY <2>1, <2>2, <2>4, <3>1, MergeAnswers DEF Batch!Next
  <2>5. CASE Accepts(t, answer) /\ t \notin Served
    <3>1. \A u \in Tasks : u # t =>
             /\ state'[u] = state[u] /\ plan'[u] = plan[u]
             /\ step'[u] = step[u] /\ values'[u] = values[u]
      BY <2>2, <2>5 DEF Merge, TypeOK
    <3> QED
      BY <2>5, <3>1, OtherCallsStay
  <2> QED
    BY <2>3, <2>4, <2>5
<1>4. ASSUME NEW t \in Tasks, SendFails(t) \/ Timeout(t) \/ Cancel(t)
      PROVE  Active(t) /\ GiveUp(t)
  BY <1>4 DEF SendFails, Timeout, Cancel, Active
<1>5. ASSUME NEW t \in Tasks, Send(t)
      PROVE  Calls' = Calls
  <2>1. /\ state[t] = "waiting" /\ state'[t] = "asking"
        /\ UNCHANGED <<plan, step, values>>
        /\ \A u \in Tasks : u # t => state'[u] = state[u]
    BY <1>5 DEF Send, TypeOK
  <2>2. CallOf(t)' = CallOf(t)
    BY <2>1 DEF CallOf, Active
  <2>3. \A u \in Tasks : u # t => CallOf(u)' = CallOf(u)
    BY <2>1 DEF CallOf, Active
  <2>4. Served' = Served
    BY DEF Served, Attributable, Orderly, LinkOfTask
  <2> QED
    BY <2>2, <2>3, <2>4 DEF Calls, Served
<1>6. ASSUME NEW c \in Clients, Close(c)
      PROVE  (\E t \in Tasks : Active(t) /\ GiveUp(t)) \/ UNCHANGED call
  <2>1. CASE \E t \in Tasks : holder[c] = t /\ state[t] = "asking"
    BY <1>6, <2>1 DEF Close, Active
  <2>2. CASE ~\E t \in Tasks : holder[c] = t /\ state[t] = "asking"
    BY <1>6, <2>2 DEF Close
  <2> QED
    BY <2>1, <2>2
<1>7. \/ \E t \in Tasks : (\E reads \in Plans : Call(t, reads)) \/ Send(t) \/ Receive(t)
      \/ \E t \in Tasks : SendFails(t) \/ Timeout(t) \/ Cancel(t)
      \/ \E c \in Clients : Close(c)
      \/ UNCHANGED call
  BY DEF Next, EndOfTransaction, Resend, Connect, Lose, vars
<1> QED
  BY <1>1, <1>2, <1>3, <1>4, <1>5, <1>6, <1>7, CallsStay

LEMMA BatchInit == Init => Batch!Init
<1> SUFFICES ASSUME Init PROVE Batch!Init
  OBVIOUS
<1>1. ASSUME NEW t \in Served PROVE CallOf(t) = Batch!Idle
  BY DEF Init, CallOf, Active, Served, Batch!Idle, Batch!Progress
<1> QED
  BY <1>1 DEF Batch!Init, Calls

\* Where answers can be told apart, by their numbers or because there is only
\* one on the link, read_batch is what its callers take it for
\* (client.py:65-95, 105-110).
THEOREM ContractIsKept == Spec => KeepsBatchContract
<1>1. Init => WireInv
  BY LinkAssumption DEF Init, WireInv
<1>2. LockInv /\ WireInv /\ [Next]_vars => WireInv'
  BY WireStep
<1>3. LockInv /\ WireInv /\ [Next]_vars => [Batch!Next]_Calls
  BY BatchStep, ServedTells
<1> QED
  BY <1>1, <1>2, <1>3, BatchInit, LockInvariant, PTL
  DEF Spec, KeepsBatchContract, Batch!Spec
=============================================================================
