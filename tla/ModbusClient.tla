---------------------------- MODULE ModbusClient ----------------------------
(***************************************************************************)
(* The transport of api/client.py: any number of callers read batches of   *)
(* registers through clients, each of which has one connection and one     *)
(* lock.  Several clients may be on one link: two meters behind a gateway, *)
(* or an entry and the probe of a config flow.                             *)
(*                                                                         *)
(* A request stands for a start address and a length, and its words for    *)
(* the request they were read by.  asyncio.Lock serves its waiters in      *)
(* order.  pymodbus and the link are external: frames are lost and answers *)
(* may come late.  A frame carries a unit; with Modbus TCP framing it also *)
(* carries the number of its transaction, with RTU framing it does not.    *)
(***************************************************************************)
EXTENDS Integers, Sequences

CONSTANTS
    Clients, Links, LinkOf, UnitOf, \* the link and the meter of each client
    Tasks, NoTask, ClientOf,        \* calls of read_batch that may coincide
    Requests, LengthOf,
    Plans,                          \* what read_batch may be asked to read
    Numbered,  \* the links whose frames carry transaction numbers
    Late       \* those on which a request that was given up or was sent again
               \* may still be answered

ASSUME LinkAssumption ==
    /\ LinkOf \in [Clients -> Links]
    /\ ClientOf \in [Tasks -> Clients] /\ NoTask \notin Tasks
    /\ LengthOf \in [Requests -> Nat \ {0}]
    /\ Plans \subseteq Seq(Requests) \ {<<>>}
    /\ Numbered \subseteq Links /\ Late \subseteq Links

VARIABLES
    open,     \* whether each client's connection is open
    holder,   \* the task that holds each client's _lock, or NoTask
    waiters,  \* the tasks that wait for it
    state,    \* each task: "idle", "waiting", "asking" or "returned"
    plan,     \* the reads argument of each task, and
    step,     \* which of them it is at
    values,   \* the words it has so far: for each request an answer
    wire      \* the requests on each link that were not answered

lock == <<holder, waiters>>
call == <<state, plan, step, values>>
vars == <<open, lock, call, wire>>

Frame(unit, request) == [unit |-> unit, request |-> request]
Answer(request, length, error) ==
    [of |-> request, length |-> length, error |-> error]
Whole(request) == Answer(request, LengthOf[request], FALSE)
Nothing == [r \in Requests |-> Answer(r, 0, FALSE)]

Current(t) == plan[t][step[t]]
LinkOfTask(t) == LinkOf[ClientOf[t]]
FrameOf(t) == Frame(UnitOf[ClientOf[t]], Current(t))
Active(t) == state[t] \in {"waiting", "asking"}

TypeOK ==
    /\ open \in [Clients -> BOOLEAN]
    /\ holder \in [Clients -> Tasks \cup {NoTask}]
    /\ waiters \in [Clients -> Seq(Tasks)]
    /\ state \in [Tasks -> {"idle", "waiting", "asking", "returned"}]
    /\ plan \in [Tasks -> Plans \cup {<<>>}]
    /\ step \in [Tasks -> Nat]
    /\ \A t \in Tasks : Active(t) => step[t] \in DOMAIN plan[t]
    /\ values \in [Tasks -> [Requests ->
                      [of : Requests, length : Nat, error : BOOLEAN]]]
    /\ wire \in [Links -> SUBSET {Frame(UnitOf[c], r) : c \in Clients, r \in Requests}]

Init ==
    /\ open = [c \in Clients |-> FALSE]
    /\ holder = [c \in Clients |-> NoTask]
    /\ waiters = [c \in Clients |-> <<>>]
    /\ state = [t \in Tasks |-> "idle"]
    /\ plan = [t \in Tasks |-> <<>>]
    /\ step = [t \in Tasks |-> 0]
    /\ values = [t \in Tasks |-> Nothing]
    /\ wire = [l \in Links |-> {}]

-----------------------------------------------------------------------------
(* The lock.  A definition called Buggy... is its successor with a mistake *)
(* in it; no action uses one.                                              *)

\* The lock of c goes to the first task of a queue.
HandOn(c, queue) ==
    /\ holder' = [holder EXCEPT ![c] = IF queue = <<>> THEN NoTask ELSE Head(queue)]
    /\ waiters' = [waiters EXCEPT ![c] = IF queue = <<>> THEN <<>> ELSE Tail(queue)]

BuggyAcquire(t) == HandOn(ClientOf[t], <<t>>)

Acquire(t) ==
    IF holder[ClientOf[t]] = NoTask THEN HandOn(ClientOf[t], <<t>>)
    ELSE /\ waiters' = [waiters EXCEPT ![ClientOf[t]] = Append(@, t)]
         /\ UNCHANGED holder

BuggyRelease(t) == UNCHANGED lock

\* Leaving the block, by whichever way.
Release(t) == HandOn(ClientOf[t], waiters[ClientOf[t]])

\* One lock for a whole batch.
BuggyReacquire(t) == UNCHANGED lock

\* A release, and an acquire of the same task for its next request.
Reacquire(t) == HandOn(ClientOf[t], Append(waiters[ClientOf[t]], t))

-----------------------------------------------------------------------------
(* Callers.                                                                *)

BuggyGiveUp(t) ==
    /\ state' = [state EXCEPT ![t] = "returned"]
    /\ UNCHANGED <<plan, step, values>>

\* A call that ends without a result, raised or cancelled.
GiveUp(t) ==
    /\ state' = [state EXCEPT ![t] = "idle"]
    /\ values' = [values EXCEPT ![t] = Nothing]
    /\ UNCHANGED <<plan, step>>

\* The request of a transaction nobody waits for any more.
Abandon(t) ==
    wire' = IF LinkOfTask(t) \in Late THEN wire
            ELSE [wire EXCEPT ![LinkOfTask(t)] = @ \ {FrameOf(t)}]

\* read_batch begins with its first request.
Call(t, reads) ==
    /\ ~Active(t)
    /\ state' = [state EXCEPT ![t] = "waiting"]
    /\ plan' = [plan EXCEPT ![t] = reads]
    /\ step' = [step EXCEPT ![t] = 1]
    /\ values' = [values EXCEPT ![t] = Nothing]
    /\ Acquire(t)
    /\ UNCHANGED <<open, wire>>

\* With the lock, the request is sent.
Send(t) ==
    /\ state[t] = "waiting" /\ holder[ClientOf[t]] = t /\ open[ClientOf[t]]
    /\ state' = [state EXCEPT ![t] = "asking"]
    /\ wire' = [wire EXCEPT ![LinkOfTask(t)] = @ \cup {FrameOf(t)}]
    /\ UNCHANGED <<open, lock, plan, step, values>>

\* On a connection that is not open, pymodbus raises.
SendFails(t) ==
    /\ state[t] = "waiting" /\ holder[ClientOf[t]] = t /\ ~open[ClientOf[t]]
    /\ Release(t) /\ GiveUp(t)
    /\ UNCHANGED <<open, wire>>

\* What the checks on a response let pass: no exception response, and as many
\* words as were asked for.
Fits(request, answer) == ~answer.error /\ answer.length = LengthOf[request]

BuggyAccepts(t, answer) == ~answer.error

Accepts(t, answer) == Fits(Current(t), answer)

BuggyIsLast(t) == step[t] > Len(plan[t])

IsLast(t) == step[t] = Len(plan[t])

\* The checks hold: the words are merged, and the next read begins.
Merge(t, answer) ==
    /\ values' = [values EXCEPT ![t][Current(t)] = answer]
    /\ IF IsLast(t)
         THEN /\ Release(t)
              /\ state' = [state EXCEPT ![t] = "returned"]
              /\ UNCHANGED step
         ELSE /\ Reacquire(t)
              /\ step' = [step EXCEPT ![t] = @ + 1]
              /\ state' = [state EXCEPT ![t] = "waiting"]
    /\ UNCHANGED plan

\* What a meter says to a request: its words, an exception response, or too
\* few words.
Answers(request) ==
    {Whole(request), Answer(request, 0, TRUE)} \cup
    {Answer(request, n, FALSE) : n \in 0 .. LengthOf[request] - 1}

\* pymodbus gives a frame from the unit that was asked to whoever waits.  It
\* passes over those that carry the number of another transaction; the number
\* stands for what was asked in it.
Belongs(t, frame) ==
    /\ frame.unit = UnitOf[ClientOf[t]]
    /\ LinkOfTask(t) \in Numbered => frame = FrameOf(t)

Receive(t) ==
    /\ state[t] = "asking"
    /\ \E frame \in wire[LinkOfTask(t)] :
          /\ Belongs(t, frame)
          /\ \E answer \in Answers(frame.request) :
                IF Accepts(t, answer) THEN Merge(t, answer)
                ELSE Release(t) /\ GiveUp(t)
          /\ \/ wire' = [wire EXCEPT ![LinkOfTask(t)] = @ \ {frame}]
             \/ LinkOfTask(t) \in Late /\ UNCHANGED wire
    /\ UNCHANGED open

\* No answer after the last retry.
Timeout(t) ==
    /\ state[t] = "asking"
    /\ LinkOfTask(t) \in Late \/ FrameOf(t) \notin wire[LinkOfTask(t)]
    /\ Release(t) /\ GiveUp(t) /\ Abandon(t)
    /\ UNCHANGED open

\* Home Assistant cancels the caller, at either await.
Cancel(t) ==
    /\ Active(t)
    /\ IF holder[ClientOf[t]] = t THEN Release(t)
       ELSE \E i \in DOMAIN waiters[ClientOf[t]] :
              /\ waiters[ClientOf[t]][i] = t
              /\ waiters' = [waiters EXCEPT ![ClientOf[t]] =
                               SubSeq(@, 1, i - 1) \o SubSeq(@, i + 1, Len(@))]
              /\ UNCHANGED holder
    /\ GiveUp(t)
    /\ IF state[t] = "asking" THEN Abandon(t) ELSE UNCHANGED wire
    /\ UNCHANGED open

-----------------------------------------------------------------------------
(* Connections and links.                                                  *)

\* An attempt that fails changes nothing.
Connect(c) ==
    /\ ~open[c]
    /\ open' = [open EXCEPT ![c] = TRUE]
    /\ UNCHANGED <<lock, call, wire>>

\* Closing fails the transaction under way.
Close(c) ==
    /\ open[c]
    /\ open' = [open EXCEPT ![c] = FALSE]
    /\ IF \E t \in Tasks : holder[c] = t /\ state[t] = "asking"
         THEN Release(holder[c]) /\ GiveUp(holder[c]) /\ Abandon(holder[c])
         ELSE UNCHANGED <<lock, call, wire>>

\* A request or its answer is lost.
Lose(l, frame) ==
    /\ wire' = [wire EXCEPT ![l] = @ \ {frame}]
    /\ UNCHANGED <<open, lock, call>>

\* pymodbus sends the request again.
Resend(t) ==
    /\ state[t] = "asking"
    /\ wire' = [wire EXCEPT ![LinkOfTask(t)] = @ \cup {FrameOf(t)}]
    /\ UNCHANGED <<open, lock, call>>

EndOfTransaction(t) == Receive(t) \/ Timeout(t)

Next ==
    \/ \E t \in Tasks :
          \/ \E reads \in Plans : Call(t, reads)
          \/ Send(t) \/ SendFails(t) \/ EndOfTransaction(t) \/ Cancel(t) \/ Resend(t)
    \/ \E c \in Clients : Connect(c) \/ Close(c)
    \/ \E l \in Links : \E frame \in wire[l] : Lose(l, frame)

Spec == Init /\ [][Next]_vars

\* The event loop runs what is ready, and every transaction ends: pymodbus
\* gives up after its timeout and retries.
Fairness ==
    \A t \in Tasks :
        WF_vars(Send(t) \/ SendFails(t)) /\ WF_vars(EndOfTransaction(t))

FairSpec == Spec /\ Fairness

-----------------------------------------------------------------------------
(* Properties.                                                             *)

\* client.py:76: the lock keeps the transactions of one client apart, also
\* when they are given up, cancelled or cut off by a close.
OneTransactionPerClient ==
    \A t, u \in Tasks :
        state[t] = "asking" /\ state[u] = "asking" /\ ClientOf[t] = ClientOf[u]
            => t = u

\* client.py:3-7: "Modbus is a single request/response link on which
\* overlapping transactions corrupt each other's frames": no two transactions
\* are under way on one link.
OneTransactionPerLink ==
    \A t, u \in Tasks :
        state[t] = "asking" /\ state[u] = "asking" /\ LinkOfTask(t) = LinkOfTask(u)
            => t = u

\* The words a call would have after a number of its requests.
WordsAfter(t, n) ==
    [r \in Requests |-> IF \E i \in 1 .. n : plan[t][i] = r THEN Whole(r)
                        ELSE Nothing[r]]

\* No answer but to the transaction under way comes to a client: no answer is
\* late, and no other client asks the same meter over the same link.
Orderly(c) ==
    /\ LinkOf[c] \notin Late
    /\ \A d \in Clients : LinkOf[d] = LinkOf[c] /\ UnitOf[d] = UnitOf[c] => d = c

\* Answers can be told apart: by number, or because there is only one.
Attributable(t) == LinkOfTask(t) \in Numbered \/ Orderly(ClientOf[t])

Served == {t \in Tasks : Attributable(t)}

\* client.py:81-95, 105-110: a call that returns has all the words it asked
\* for, no exception and no short answer passes for data, and where answers
\* can be told apart none of them is the answer to something else.
ReturnsItsWords ==
    \A t \in Tasks : state[t] = "returned" =>
        /\ \A i \in DOMAIN plan[t] : Fits(plan[t][i], values[t][plan[t][i]])
        /\ Attributable(t) => values[t] = WordsAfter(t, Len(plan[t]))

\* client.py:5-7: "Every transaction is serialised through a lock, because
\* Modbus is a single request/response link on which overlapping transactions
\* corrupt each other's frames": whoever reads gets its own words.
NothingOfAnothers ==
    \A t \in Tasks :
        state[t] = "returned" => values[t] = WordsAfter(t, Len(plan[t]))

\* A call as its caller knows it: that it waits or asks is not seen outside.
CallOf(t) ==
    [status |-> IF Active(t) THEN "running" ELSE state[t],
     asked |-> IF state[t] = "idle" THEN <<>> ELSE plan[t],
     done |-> IF Active(t) THEN step[t] - 1
              ELSE IF state[t] = "returned" THEN Len(plan[t]) ELSE 0,
     words |-> values[t]]

Calls == [t \in Served |-> CallOf(t)]

Batch == INSTANCE BatchRead
         WITH Tasks <- Served, call <- Calls, NoWords <- Nothing,
              WordsOf <- [r \in Requests |-> Whole(r)]

\* client.py:65-110: where answers can be told apart, the locks, the retries,
\* the late answers and the other callers do not show.  Each call advances a
\* whole request at a time, in the order it asked for, gets nothing of
\* another's, and has no part of its words when it fails.
KeepsBatchContract == Batch!Spec

\* Each running call of a client has the lock or one place in the queue, and
\* whoever has the lock is a running call of that client.
InLine(c) ==
    /\ holder[c] = NoTask => waiters[c] = <<>>
    /\ holder[c] # NoTask => ClientOf[holder[c]] = c /\ Active(holder[c])
    /\ \A t \in Tasks : ClientOf[t] = c /\ Active(t) =>
          holder[c] = t \/ \E i \in DOMAIN waiters[c] : waiters[c][i] = t
    /\ \A i \in DOMAIN waiters[c] :
          /\ ClientOf[waiters[c][i]] = c /\ state[waiters[c][i]] = "waiting"
          /\ waiters[c][i] # holder[c]
          /\ \A j \in DOMAIN waiters[c] : waiters[c][j] = waiters[c][i] => j = i

\* The lock changes hands, or the transaction under it ends.
TurnEnds(c) ==
    \/ holder'[c] # holder[c]
    \/ \E t \in Tasks : holder[c] = t /\ state[t] = "asking" /\ state'[t] # "asking"

\* Whoever is in the queue ends its call, gets the lock as the first, or stays
\* in the queue and no further back: further to the front when a turn ends.
LineMovesUp(c) ==
    \A t \in Tasks : \A i \in DOMAIN waiters[c] : waiters[c][i] = t =>
        \/ ~Active(t)'
        \/ i = 1 /\ holder'[c] = t
        \/ \E j \in DOMAIN waiters'[c] :
              waiters'[c][j] = t /\ j <= i /\ (TurnEnds(c) => j < i)

\* client.py:76: nobody waits for a lock that nobody will release, and nobody
\* is overtaken, also between two requests of one batch (client.py:108-109),
\* whichever way callers leave: with an error, cancelled or cut off by a close.
LockServesInOrder ==
    /\ [](\A c \in Clients : InLine(c))
    /\ [][\A c \in Clients : LineMovesUp(c)]_vars

\* Every call ends, whatever is lost or closed, although others go on calling:
\* none waits for the lock for ever.
CallsEnd == \A t \in Tasks : Active(t) ~> ~Active(t)
-----------------------------------------------------------------------------
(* The inductive invariants behind the properties.                         *)

\* Whoever asks holds the lock.
AskersHold == \A t \in Tasks : state[t] = "asking" => holder[ClientOf[t]] = t

LockInv == TypeOK /\ AskersHold

\* What a call has got so far is as long as it asked for.
FitInv ==
    \A t \in Tasks :
        /\ Active(t) =>
             \A i \in 1 .. step[t] - 1 : Fits(plan[t][i], values[t][plan[t][i]])
        /\ state[t] = "returned" =>
             \A i \in DOMAIN plan[t] : Fits(plan[t][i], values[t][plan[t][i]])

\* Where answers can be told apart a call has the words of the requests it is
\* past, whole.
WordsInv ==
    \A t \in Served :
        /\ Active(t) => values[t] = WordsAfter(t, step[t] - 1)
        /\ state[t] = "returned" => values[t] = WordsAfter(t, Len(plan[t]))

\* Nothing comes to an orderly client but of the transaction it is in.
WireInv ==
    \A c \in Clients : Orderly(c) =>
        \A frame \in wire[LinkOf[c]] : frame.unit = UnitOf[c] =>
            \E t \in Tasks :
                state[t] = "asking" /\ ClientOf[t] = c /\ FrameOf(t) = frame
=============================================================================
