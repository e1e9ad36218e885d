--------------------------- MODULE SplitAddresses ---------------------------
(***************************************************************************)
(* The batch planner of api/batch.py: split_addresses and _split_run turn  *)
(* the word addresses an integration wants into read requests.             *)
(*                                                                         *)
(* The code's loops are kept, one step per iteration; the sorted list is   *)
(* the set of addresses not yet visited, of which the least comes next,    *)
(* and the list of reads is a set, since nothing depends on its order.     *)
(***************************************************************************)
EXTENDS Integers, FiniteSets

CONSTANTS
    Inputs,         \* the sets of addresses the planner is called with
    MaximumLength   \* the maximum_length argument, MAX_READ_REGISTERS

ASSUME SplitAssumption ==
    /\ Inputs \subseteq SUBSET Nat
    /\ MaximumLength \in Nat \ {0}

VARIABLES
    pc,       \* "start", "scan" the addresses, "chop" a run, "done"
    wanted,   \* the addresses argument
    todo,     \* the part of ordered that the loop has not reached
    runStart, \* run_start, and
    runEnd,   \* run_end: the run of contiguous addresses being collected
    offset,   \* the offset of _split_run's range
    reads     \* the requests so far

vars == <<pc, wanted, todo, runStart, runEnd, offset, reads>>

Read(start, length) == [start |-> start, length |-> length]

Words(read) == read.start .. (read.start + read.length - 1)

Covered == UNION {Words(read) : read \in reads}

\* The next address of the sorted list.
IsNext(address) == address \in todo /\ \A other \in todo : address <= other

Width == runEnd - runStart + 1

\* The words of the run that are left to ask for.
Rest == Width - offset

\* A definition called Buggy... is its successor with a mistake in it; no
\* action uses one, they show that the properties would notice.

Init ==
    /\ pc = "start"
    /\ wanted \in Inputs
    /\ todo = wanted
    /\ runStart = 0 /\ runEnd = 0 /\ offset = 0
    /\ reads = {}

\* No addresses, no reads.
Empty ==
    /\ pc = "start" /\ todo = {}
    /\ pc' = "done"
    /\ UNCHANGED <<wanted, todo, runStart, runEnd, offset, reads>>

\* run_start = run_end = address, at the first address and after a gap.
StartRun ==
    /\ \/ pc = "start"
       \/ pc = "chop" /\ offset >= Width
    /\ \E address \in todo :
          /\ IsNext(address)
          /\ runStart' = address
          /\ runEnd' = address
          /\ todo' = todo \ {address}
    /\ pc' = "scan"
    /\ offset' = 0
    /\ UNCHANGED <<wanted, reads>>

BuggyExtendRun ==
    /\ pc = "scan"
    /\ \E address \in todo :
          /\ IsNext(address)
          /\ address <= runEnd + 2
          /\ runEnd' = address
          /\ todo' = todo \ {address}
    /\ UNCHANGED <<pc, wanted, runStart, offset, reads>>

ExtendRun ==
    /\ pc = "scan"
    /\ \E address \in todo :
          /\ IsNext(address)
          /\ address = runEnd + 1
          /\ runEnd' = address
          /\ todo' = todo \ {address}
    /\ UNCHANGED <<pc, wanted, runStart, offset, reads>>

\* A gap, or the end of the list: the run is handed to _split_run.
EndRun ==
    /\ pc = "scan"
    /\ \A address \in todo : IsNext(address) => address # runEnd + 1
    /\ pc' = "chop"
    /\ UNCHANGED <<wanted, todo, runStart, runEnd, offset, reads>>

BuggyLongChunk == Read(runStart + offset, Rest)

BuggyShiftedChunk ==
    Read(runStart + offset - 1,
         IF Rest < MaximumLength THEN Rest ELSE MaximumLength)

BuggyShortChunk ==
    Read(runStart + offset,
         IF Rest < MaximumLength THEN Rest ELSE MaximumLength - 1)

\* The request of one iteration of _split_run, no longer than the limit.
Chunk ==
    Read(runStart + offset,
         IF Rest < MaximumLength THEN Rest ELSE MaximumLength)

BuggyOverlappingChop ==
    /\ pc = "chop" /\ offset < Width
    /\ reads' = reads \cup {Chunk}
    /\ offset' = offset + MaximumLength - 1
    /\ UNCHANGED <<pc, wanted, todo, runStart, runEnd>>

BuggyStuckChop ==
    /\ pc = "chop" /\ offset < Width
    /\ reads' = reads \cup {Chunk}
    /\ UNCHANGED <<pc, wanted, todo, runStart, runEnd, offset>>

Chop ==
    /\ pc = "chop" /\ offset < Width
    /\ reads' = reads \cup {Chunk}
    /\ offset' = offset + MaximumLength
    /\ UNCHANGED <<pc, wanted, todo, runStart, runEnd>>

Finish ==
    /\ pc = "chop" /\ offset >= Width /\ todo = {}
    /\ pc' = "done"
    /\ UNCHANGED <<wanted, todo, runStart, runEnd, offset, reads>>

Next == Empty \/ StartRun \/ ExtendRun \/ EndRun \/ Chop \/ Finish

Spec == Init /\ [][Next]_vars

\* A plain function runs to its end.
FairSpec == Spec /\ WF_vars(Next)

-----------------------------------------------------------------------------
(* Properties.                                                             *)

TypeOK ==
    /\ pc \in {"start", "scan", "chop", "done"}
    /\ wanted \in Inputs
    /\ todo \subseteq wanted
    /\ runStart \in Nat /\ runEnd \in Nat /\ offset \in Nat
    /\ reads \subseteq [start : Nat, length : Nat]

\* batch.py:25-35: the requests ask for the wanted words, for every one of
\* them and -- since reading across a hole draws an exception -- for no other.
ReadsExactlyWanted == pc = "done" => Covered = wanted

\* batch.py:15-22: no request is empty or longer than the frame allows.
RequestsFitFrame == \A read \in reads : read.length \in 1..MaximumLength

\* The starts of two different requests cannot be asked for in one: they are
\* too far apart, or there is a word between them that must not be read.
Apart(r, s) ==
    r.start < s.start => \/ r.start + MaximumLength <= s.start
                         \/ \E gap \in r.start .. s.start : gap \notin wanted

\* batch.py:4-6: "the smallest set of read requests": the starts of the
\* requests are words no two of which fit in one legal request, so any other
\* plan has at least as many requests.
RequestsAreFewest == \A r, s \in reads : Apart(r, s)

\* No word is asked for twice.
RequestsAreDisjoint == \A r, s \in reads : r # s => Words(r) \cap Words(s) = {}

\* The planner comes to an end.
Terminates == <>(pc = "done")

-----------------------------------------------------------------------------
(* The loop invariant.                                                     *)

\* Where the next request would start.
Frontier == runStart + offset

\* What has been asked for is what lies behind the frontier.
LoopInv ==
    /\ pc = "start" => todo = wanted /\ reads = {}
    /\ pc \in {"scan", "chop"} =>
          /\ runStart .. runEnd \subseteq wanted
          /\ runStart <= runEnd
          /\ todo = {a \in wanted : a > runEnd}
          /\ Covered = {a \in wanted : a <= runEnd /\ a < Frontier}
          /\ \A r \in reads : Apart(r, Read(Frontier, 1))
    /\ pc = "scan" => offset = 0
    /\ pc = "chop" => runEnd + 1 \notin wanted
    /\ ReadsExactlyWanted
    /\ RequestsFitFrame
    /\ RequestsAreFewest
    /\ RequestsAreDisjoint

\* Every run starts at an even address: an odd word is wanted only together
\* with the word before it.
RunsStartEven(addresses) == \A a \in addresses : a % 2 = 1 => a - 1 \in addresses

\* With an even limit every request then starts at an even address, and it ends
\* before an even one or with its run.
EvenInv ==
    /\ pc \in {"scan", "chop"} => Frontier % 2 = 0
    /\ \A r \in reads :
          /\ r.start % 2 = 0
          /\ r.length % 2 = 0 \/ r.start + r.length \notin wanted

-----------------------------------------------------------------------------
(* Why the loops end.                                                      *)

\* What lies before the loops: every address is visited, every word is asked
\* for, and the run at hand is collected and chopped.
Left ==
    2 * Cardinality(todo) + Cardinality(wanted \ Covered)
      + (IF pc = "scan" THEN 2 ELSE IF pc = "done" THEN 0 ELSE 1)

\* The guards of the six actions, in their order.
HasStep ==
    \/ pc = "start" /\ todo = {}
    \/ (pc = "start" \/ (pc = "chop" /\ offset >= Width)) /\ \E a \in todo : IsNext(a)
    \/ pc = "scan" /\ \E a \in todo : IsNext(a) /\ a = runEnd + 1
    \/ pc = "scan" /\ \A a \in todo : IsNext(a) => a # runEnd + 1
    \/ pc = "chop" /\ offset < Width
    \/ pc = "chop" /\ offset >= Width /\ todo = {}

\* What remains of Terminates without fairness: until it is done, the planner
\* has a step, and every step leaves less to do, of at most three for each
\* address and one.
EndsInTime ==
    /\ [](pc # "done" => HasStep)
    /\ [](Left \in 0 .. 3 * Cardinality(wanted) + 1)
    /\ [][Left' < Left]_vars

-----------------------------------------------------------------------------
(* What RequestsAreFewest is for.                                          *)

\* The sets of requests that would do as well: of legal length, for all that is
\* wanted and nothing else; they may overlap.
LegalPlans ==
    {plan \in SUBSET [start : wanted, length : 1 .. MaximumLength] :
        UNION {Words(read) : read \in plan} = wanted}

\* batch.py:4-6: "the smallest set of read requests".
PlanIsSmallest ==
    pc = "done" =>
        /\ reads \in LegalPlans
        /\ \A plan \in LegalPlans :
              IsFiniteSet(plan) => Cardinality(reads) <= Cardinality(plan)
=============================================================================
