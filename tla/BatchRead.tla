----------------------------- MODULE BatchRead -----------------------------
(***************************************************************************)
(* What read_batch promises its callers (api/client.py), however many      *)
(* there are and whatever the link does: a call gets the words of its      *)
(* requests one request after the other, each at one stroke, as they were  *)
(* asked for and from nobody else's answer; it returns when it has them    *)
(* all, or it ends with nothing.                                           *)
(***************************************************************************)
EXTENDS Naturals, Sequences

CONSTANTS
    Tasks, Requests,
    Plans,    \* what may be asked for
    WordsOf,  \* the words of each request, and
    NoWords   \* what stands for them before they are read

VARIABLE call  \* each task's call

Progress(status, asked, done, words) ==
    [status |-> status, asked |-> asked, done |-> done, words |-> words]

Idle == Progress("idle", <<>>, 0, NoWords)

Init == call = [t \in Tasks |-> Idle]

Begin(t, reads) ==
    /\ call[t].status # "running"
    /\ call' = [call EXCEPT ![t] = Progress("running", reads, 0, NoWords)]

\* The next request, and the last of them.
Upcoming(t) == call[t].asked[call[t].done + 1]
AtLast(t) == call[t].done + 1 = Len(call[t].asked)

Answered(t) ==
    /\ call[t].status = "running"
    /\ call' = [call EXCEPT ![t] =
                  Progress(IF AtLast(t) THEN "returned" ELSE "running",
                           @.asked, @.done + 1,
                           [@.words EXCEPT ![Upcoming(t)] = WordsOf[Upcoming(t)]])]

\* A request that fails or is cancelled takes the call with it.
Raised(t) ==
    /\ call[t].status = "running"
    /\ call' = [call EXCEPT ![t] = Idle]

Next ==
    \E t \in Tasks : (\E reads \in Plans : Begin(t, reads)) \/ Answered(t) \/ Raised(t)

Spec == Init /\ [][Next]_call
=============================================================================
