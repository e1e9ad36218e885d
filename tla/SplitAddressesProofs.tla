------------------------ MODULE SplitAddressesProofs ------------------------
(***************************************************************************)
(* The batch planner is correct for every set of addresses and every limit *)
(* (api/batch.py:25-60), by the invariant of its loops.                    *)
(***************************************************************************)
EXTENDS SplitAddresses, FiniteSetTheorems, WellFoundedInduction, TLAPS

\* A request of _split_run covers the part of its run it starts at, up to the
\* limit, and is neither empty nor too long (batch.py:57-60).
LEMMA ChunkFits ==
    ASSUME TypeOK, offset < Width
    PROVE  /\ Chunk \in [start : Nat, length : Nat]
           /\ Chunk.start = runStart + offset
           /\ Chunk.length \in 1..MaximumLength
           /\ Words(Chunk) = {a \in Nat : /\ runStart + offset <= a
                                          /\ a <= runEnd
                                          /\ a < runStart + offset + MaximumLength}
  BY SplitAssumption DEF TypeOK, Chunk, Read, Words, Width, Rest

\* Adding a request adds its words.
LEMMA CoveredGrows ==
    ASSUME NEW read, reads' = reads \cup {read}
    PROVE  Covered' = Covered \cup Words(read)
  BY DEF Covered, Words

\* The iterations keep the types of the planner's variables.
LEMMA TypeStep ==
    ASSUME TypeOK, [Next]_vars
    PROVE  TypeOK'
<1> USE DEF TypeOK
<1>a. wanted \subseteq Nat
  BY SplitAssumption
<1>1. CASE Empty
  BY <1>1 DEF Empty
<1>2. CASE StartRun
  BY <1>2, <1>a DEF StartRun
<1>3. CASE ExtendRun
  BY <1>3, <1>a DEF ExtendRun
<1>4. CASE EndRun
  BY <1>4 DEF EndRun
<1>5. CASE Chop
  BY <1>5, ChunkFits, SplitAssumption DEF Chop
<1>6. CASE Finish
  BY <1>6 DEF Finish
<1>7. CASE UNCHANGED vars
  BY <1>7 DEF vars
<1> QED
  BY <1>1, <1>2, <1>3, <1>4, <1>5, <1>6, <1>7 DEF Next

\* Every variable keeps its type, for every input and limit.
THEOREM PlannerTypes == Spec => []TypeOK
<1>1. Init => TypeOK
  BY DEF Init, TypeOK
<1>2. TypeOK /\ [Next]_vars => TypeOK'
  BY TypeStep
<1> QED
  BY <1>1, <1>2, PTL DEF Spec

\* The four properties speak of pc, wanted and reads only: a step that leaves
\* wanted and reads alone and does not end the function keeps them.
LEMMA PropertiesKept ==
    ASSUME LoopInv, UNCHANGED <<wanted, reads>>, pc' # "done"
    PROVE  /\ Covered' = Covered
           /\ (ReadsExactlyWanted /\ RequestsFitFrame)'
           /\ (RequestsAreFewest /\ RequestsAreDisjoint)'
<1>1. Covered' = Covered
  BY DEF Covered
<1>2. ReadsExactlyWanted'
  BY DEF ReadsExactlyWanted
<1>3. RequestsFitFrame'
  BY DEF LoopInv, RequestsFitFrame
<1>4. RequestsAreFewest'
  BY DEF LoopInv, RequestsAreFewest, Apart
<1>5. RequestsAreDisjoint'
  BY DEF LoopInv, RequestsAreDisjoint
<1> QED
  BY <1>1, <1>2, <1>3, <1>4, <1>5

\* What the invariant says while a run is collected or chopped, word by word.
LEMMA Behind ==
    ASSUME TypeOK, LoopInv, pc \in {"scan", "chop"}
    PROVE  /\ runStart .. runEnd \subseteq wanted
           /\ runStart <= runEnd
           /\ Frontier \in Nat
           /\ todo \subseteq wanted /\ Covered \subseteq wanted
           /\ \A a \in Nat : a \in todo <=> a \in wanted /\ a > runEnd
           /\ \A a \in Nat : a \in Covered <=> a \in wanted /\ a <= runEnd /\ a < Frontier
           /\ \A r \in reads : Apart(r, Read(Frontier, 1))
  BY DEF LoopInv, TypeOK, Frontier

\* Starting a run keeps the invariant: the run before it was chopped to its
\* end, and a hole lies between the two.
LEMMA StartRunStep ==
    ASSUME TypeOK, LoopInv, StartRun
    PROVE  LoopInv'
<1>a. wanted \subseteq Nat /\ runEnd \in Nat /\ runStart \in Nat /\ offset \in Nat
  BY SplitAssumption DEF TypeOK
<1>b. \A r \in reads : r.start \in Nat /\ r.length \in 1..MaximumLength
  BY DEF LoopInv, RequestsFitFrame, TypeOK
<1>c. \A r \in reads : r.start \in Covered
  BY <1>b, SplitAssumption DEF Words, Covered
<1>1. PICK address \in todo :
             /\ IsNext(address)
             /\ runStart' = address /\ runEnd' = address
             /\ todo' = todo \ {address}
  BY DEF StartRun
<1>2. address \in wanted /\ address \in Nat
  BY <1>1, <1>a DEF TypeOK
<1>3. pc' = "scan" /\ UNCHANGED <<wanted, reads>>
      /\ offset' = 0 /\ Frontier' = address
  BY <1>1, <1>2 DEF StartRun, Frontier
<1>4. /\ todo \subseteq wanted /\ Covered \subseteq wanted
      /\ \A a \in Nat : a \in Covered <=> a \in wanted /\ a < address
      /\ \A a \in Nat : a \in todo <=> a \in wanted /\ a >= address
      /\ \A r \in reads : \E gap \in r.start .. address : gap \notin wanted
  <2>1. CASE pc = "start"
    <3>1. todo = wanted /\ reads = {} /\ Covered = {}
      BY <2>1 DEF LoopInv, Covered
    <3>2. \A a \in wanted : address <= a
      BY <3>1, <1>1 DEF IsNext
    <3> QED
      BY <3>1, <3>2, <1>a, <1>2
  <2>2. CASE pc = "chop" /\ offset >= Width
    <3>1. Frontier > runEnd /\ Frontier \in Nat
      BY <2>2, <1>a DEF Frontier, Width
    <3>2. runEnd + 1 \notin wanted
      BY <2>2 DEF LoopInv
    <3>3. /\ todo \subseteq wanted /\ Covered \subseteq wanted
          /\ \A a \in Nat : a \in todo <=> a \in wanted /\ a > runEnd
          /\ \A a \in Nat : a \in Covered <=> a \in wanted /\ a <= runEnd /\ a < Frontier
      BY <2>2, Behind
    <3>4. \A a \in Nat : a \in Covered <=> a \in wanted /\ a <= runEnd
      BY <3>1, <3>3, <1>a
    <3>5. address > runEnd /\ \A a \in wanted : a > runEnd => a >= address
      BY <3>3, <1>1, <1>a DEF IsNext
    <3>6. \A r \in reads : runEnd + 1 \in r.start .. address
      BY <3>4, <3>5, <1>a, <1>b, <1>c, <1>2
    <3>7. \A a \in Nat : a \in Covered <=> a \in wanted /\ a < address
      BY <3>4, <3>5, <1>a, <1>2
    <3>8. \A a \in Nat : a \in todo <=> a \in wanted /\ a >= address
      BY <3>3, <3>5, <1>a, <1>2
    <3> QED
      BY <3>2, <3>3, <3>6, <3>7, <3>8
  <2> QED
    BY <2>1, <2>2 DEF StartRun
<1>5. \A r \in reads : Apart(r, Read(address, 1))'
  BY <1>3, <1>4 DEF Apart, Read
<1>6. /\ Covered' = Covered
      /\ (ReadsExactlyWanted /\ RequestsFitFrame)'
      /\ (RequestsAreFewest /\ RequestsAreDisjoint)'
  BY <1>3, PropertiesKept
<1>7. (runStart .. runEnd \subseteq wanted /\ runStart <= runEnd)'
  BY <1>1, <1>3, <1>2
<1>8. todo' = {a \in wanted' : a > runEnd'}
  <2>1. \A a \in todo' : a \in wanted /\ a > address
    BY <1>1, <1>2, <1>4, <1>a
  <2>2. \A a \in wanted : a > address => a \in todo'
    BY <1>1, <1>2, <1>4, <1>a
  <2> QED
    BY <2>1, <2>2, <1>1, <1>3
<1>9. Covered' = {a \in wanted' : a <= runEnd' /\ a < Frontier'}
  <2>1. \A a \in Covered : a \in wanted /\ a <= address /\ a < address
    BY <1>2, <1>4, <1>a
  <2>2. \A a \in wanted : a < address => a \in Covered
    BY <1>2, <1>4, <1>a
  <2> QED
    BY <2>1, <2>2, <1>1, <1>3, <1>6
<1>10. \A r \in reads' : Apart(r, Read(Frontier, 1))'
  BY <1>3, <1>5 DEF Read, Apart
<1> QED
  BY <1>3, <1>6, <1>7, <1>8, <1>9, <1>10 DEF LoopInv

\* Extending the run keeps the invariant: the frontier stays where it is.
LEMMA ExtendRunStep ==
    ASSUME TypeOK, LoopInv, ExtendRun
    PROVE  LoopInv'
<1>a. wanted \subseteq Nat /\ runEnd \in Nat /\ runStart \in Nat
  BY SplitAssumption DEF TypeOK
<1>1. PICK address \in todo :
             /\ address = runEnd + 1
             /\ runEnd' = address
             /\ todo' = todo \ {address}
  BY DEF ExtendRun
<1>2. /\ pc = "scan" /\ pc' = "scan" /\ offset = 0
      /\ UNCHANGED <<wanted, runStart, reads, offset>>
      /\ Frontier = runStart /\ Frontier' = runStart
  BY <1>a DEF ExtendRun, Frontier, LoopInv
<1>3. /\ runStart .. runEnd \subseteq wanted /\ runStart <= runEnd
      /\ todo \subseteq wanted /\ Covered \subseteq wanted
      /\ \A a \in Nat : a \in todo <=> a \in wanted /\ a > runEnd
      /\ \A a \in Nat : a \in Covered <=> a \in wanted /\ a <= runEnd /\ a < runStart
      /\ \A r \in reads : Apart(r, Read(Frontier, 1))
  BY <1>2, Behind
<1>4. /\ Covered' = Covered
      /\ (ReadsExactlyWanted /\ RequestsFitFrame)'
      /\ (RequestsAreFewest /\ RequestsAreDisjoint)'
  BY <1>2, PropertiesKept
<1>5. (runStart .. runEnd \subseteq wanted /\ runStart <= runEnd)'
  BY <1>1, <1>2, <1>3, <1>a
<1>6. todo' = {a \in wanted' : a > runEnd'}
  <2>1. \A a \in todo' : a \in wanted /\ a > runEnd + 1
    BY <1>1, <1>3, <1>a
  <2>2. \A a \in wanted : a > runEnd + 1 => a \in todo'
    BY <1>1, <1>3, <1>a
  <2> QED
    BY <2>1, <2>2, <1>1, <1>2
<1>7. Covered' = {a \in wanted' : a <= runEnd' /\ a < Frontier'}
  <2>1. \A a \in Covered : a \in wanted /\ a <= runEnd + 1 /\ a < runStart
    BY <1>3, <1>a
  <2>2. \A a \in wanted : a < runStart => a \in Covered
    BY <1>3, <1>a
  <2> QED
    BY <2>1, <2>2, <1>1, <1>2, <1>4
<1>8. \A r \in reads' : Apart(r, Read(Frontier, 1))'
  BY <1>2, <1>3 DEF Apart, Read
<1> QED
  BY <1>2, <1>4, <1>5, <1>6, <1>7, <1>8 DEF LoopInv

\* Ending a run keeps the invariant: the word after it is not wanted.
LEMMA EndRunStep ==
    ASSUME TypeOK, LoopInv, EndRun
    PROVE  LoopInv'
<1>a. wanted \subseteq Nat /\ runEnd \in Nat /\ runStart \in Nat
  BY SplitAssumption DEF TypeOK
<1>1. /\ pc = "scan" /\ pc' = "chop"
      /\ UNCHANGED <<wanted, todo, runStart, runEnd, offset, reads>>
      /\ \A address \in todo : IsNext(address) => address # runEnd + 1
  BY DEF EndRun
<1>2. /\ runStart .. runEnd \subseteq wanted /\ runStart <= runEnd
      /\ todo \subseteq wanted
      /\ \A a \in Nat : a \in todo <=> a \in wanted /\ a > runEnd
      /\ \A a \in Nat : a \in Covered <=> a \in wanted /\ a <= runEnd /\ a < Frontier
      /\ \A r \in reads : Apart(r, Read(Frontier, 1))
  BY <1>1, Behind
<1>3. runEnd + 1 \notin wanted
  BY <1>1, <1>2, <1>a DEF IsNext
<1>4. Frontier' = Frontier
  BY <1>1 DEF Frontier
<1>5. /\ Covered' = Covered
      /\ (ReadsExactlyWanted /\ RequestsFitFrame)'
      /\ (RequestsAreFewest /\ RequestsAreDisjoint)'
  BY <1>1, PropertiesKept
<1>6. \A r \in reads' : Apart(r, Read(Frontier, 1))'
  BY <1>1, <1>2, <1>4 DEF Apart, Read
<1>7. (/\ runStart .. runEnd \subseteq wanted
       /\ runStart <= runEnd
       /\ todo = {a \in wanted : a > runEnd})'
  BY <1>1 DEF LoopInv
<1>8. (Covered = {a \in wanted : a <= runEnd /\ a < Frontier})'
  BY <1>1, <1>4, <1>5 DEF LoopInv
<1> QED
  BY <1>1, <1>3, <1>5, <1>6, <1>7, <1>8 DEF LoopInv

\* One iteration of _split_run keeps the invariant: the request takes the
\* words from the frontier on, up to the limit or to the end of the run.
LEMMA ChopStep ==
    ASSUME TypeOK, LoopInv, Chop
    PROVE  LoopInv'
<1>a. /\ wanted \subseteq Nat /\ runEnd \in Nat /\ runStart \in Nat
      /\ offset \in Nat /\ MaximumLength \in Nat \ {0}
  BY SplitAssumption DEF TypeOK
<1>b. \A r \in reads : r.start \in Nat /\ r.length \in 1..MaximumLength
  BY DEF LoopInv, RequestsFitFrame, TypeOK
<1>c. \A r \in reads : Words(r) \subseteq Covered
  BY DEF Covered
<1>0. PICK chunk : chunk = Chunk
  OBVIOUS
<1>1. /\ pc = "chop" /\ pc' = "chop" /\ offset < Width
      /\ reads' = reads \cup {chunk}
      /\ offset' = offset + MaximumLength
      /\ UNCHANGED <<wanted, todo, runStart, runEnd>>
  BY <1>0 DEF Chop
<1>2. /\ chunk.start = Frontier
      /\ chunk.length \in 1..MaximumLength
      /\ Words(chunk) = {a \in Nat : /\ Frontier <= a
                                     /\ a <= runEnd
                                     /\ a < Frontier + MaximumLength}
  BY <1>0, <1>1, ChunkFits DEF Frontier
<1>3. /\ Frontier \in Nat /\ Frontier <= runEnd /\ runStart <= Frontier
      /\ Frontier' = Frontier + MaximumLength
  BY <1>1, <1>a DEF Frontier, Width
<1>4. /\ runStart .. runEnd \subseteq wanted /\ runStart <= runEnd
      /\ Covered \subseteq wanted
      /\ \A a \in Nat : a \in Covered <=> a \in wanted /\ a <= runEnd /\ a < Frontier
      /\ \A r \in reads : Apart(r, Read(Frontier, 1))
  BY <1>1, Behind
<1>5. Covered' = Covered \cup Words(chunk)
  BY <1>1, CoveredGrows
<1>6. Covered' = {a \in wanted' : a <= runEnd' /\ a < Frontier'}
  <2>1. \A a \in Words(chunk) : a \in wanted /\ a <= runEnd /\ a < Frontier + MaximumLength
    BY <1>2, <1>3, <1>4, <1>a
  <2>2. \A a \in Covered : a \in wanted /\ a <= runEnd /\ a < Frontier + MaximumLength
    BY <1>3, <1>4, <1>a
  <2>3. \A a \in wanted : a <= runEnd /\ a < Frontier + MaximumLength
                            => a \in Covered \cup Words(chunk)
    BY <1>2, <1>3, <1>4, <1>a
  <2> QED
    BY <2>1, <2>2, <2>3, <1>1, <1>3, <1>5
<1>7. \A r \in reads : r.start < Frontier
  <2>1. \A r \in reads : r.start \in Words(r)
    BY <1>b DEF Words
  <2> QED
    BY <2>1, <1>b, <1>c, <1>4
<1>8. \A r \in reads' : Apart(r, Read(Frontier, 1))'
  <2>1. ASSUME NEW r \in reads
        PROVE  \/ r.start + MaximumLength <= Frontier
               \/ \E gap \in r.start .. Frontier : gap \notin wanted
    BY <2>1, <1>4, <1>7 DEF Apart, Read
  <2>2. ASSUME NEW r \in reads
        PROVE  \/ r.start + MaximumLength <= Frontier + MaximumLength
               \/ \E gap \in r.start .. Frontier + MaximumLength : gap \notin wanted
    BY <2>1, <1>3, <1>a, <1>b
  <2>3. ASSUME NEW r \in reads
        PROVE  Apart(r, Read(Frontier, 1))'
    BY <2>2, <1>1, <1>3 DEF Apart, Read
  <2>4. Apart(chunk, Read(Frontier, 1))'
    BY <1>1, <1>2, <1>3, <1>a DEF Apart, Read
  <2> QED
    BY <2>3, <2>4, <1>1
<1>9. RequestsFitFrame'
  BY <1>1, <1>2 DEF LoopInv, RequestsFitFrame
<1>10. RequestsAreFewest'
  <2>1. \A r, s \in reads : Apart(r, s)
    BY DEF LoopInv, RequestsAreFewest
  <2>2. \A r \in reads : Apart(r, chunk) /\ Apart(chunk, r)
    BY <1>2, <1>3, <1>4, <1>7, <1>b DEF Apart, Read
  <2>3. Apart(chunk, chunk)
    BY <1>2, <1>3 DEF Apart
  <2>4. \A r, s \in reads' : Apart(r, s)
    BY <2>1, <2>2, <2>3, <1>1
  <2> QED
    BY <2>4, <1>1 DEF RequestsAreFewest, Apart
<1>11. RequestsAreDisjoint'
  <2>1. \A r \in reads : \A a \in Words(r) : a \in Nat /\ a < Frontier
    BY <1>c, <1>4, <1>a
  <2>2. \A a \in Words(chunk) : a >= Frontier
    BY <1>2, <1>3
  <2>3. \A r \in reads : Words(r) \cap Words(chunk) = {}
    BY <2>1, <2>2, <1>3
  <2>4. \A r, s \in reads : r # s => Words(r) \cap Words(s) = {}
    BY DEF LoopInv, RequestsAreDisjoint
  <2> QED
    BY <2>3, <2>4, <1>1 DEF RequestsAreDisjoint
<1>12. /\ ReadsExactlyWanted'
       /\ (runStart .. runEnd \subseteq wanted /\ runStart <= runEnd)'
       /\ (todo = {a \in wanted : a > runEnd})'
       /\ runEnd' + 1 \notin wanted'
  BY <1>1, <1>4 DEF LoopInv, ReadsExactlyWanted
<1> QED
  BY <1>1, <1>6, <1>8, <1>9, <1>10, <1>11, <1>12 DEF LoopInv

\* At the end of the function everything wanted lies behind the frontier.
LEMMA EndStep ==
    ASSUME TypeOK, LoopInv, Empty \/ Finish
    PROVE  LoopInv'
<1>a. wanted \subseteq Nat /\ runEnd \in Nat /\ runStart \in Nat /\ offset \in Nat
  BY SplitAssumption DEF TypeOK
<1>1. pc' = "done" /\ UNCHANGED <<wanted, reads>> /\ Covered' = Covered
  BY DEF Empty, Finish, Covered
<1>2. Covered = wanted
  <2>1. CASE Empty
    BY <2>1 DEF Empty, LoopInv, Covered
  <2>2. CASE Finish
    <3>1. pc = "chop" /\ todo = {} /\ runEnd < Frontier /\ Frontier \in Nat
      BY <2>2, <1>a DEF Finish, Frontier, Width
    <3>2. /\ Covered \subseteq wanted
          /\ \A a \in Nat : a \in todo <=> a \in wanted /\ a > runEnd
          /\ \A a \in Nat : a \in Covered <=> a \in wanted /\ a <= runEnd /\ a < Frontier
      BY <3>1, Behind
    <3>3. \A a \in wanted : a \in Covered
      BY <3>1, <3>2, <1>a
    <3> QED
      BY <3>2, <3>3
  <2> QED
    BY <2>1, <2>2
<1>3. RequestsFitFrame' /\ RequestsAreFewest' /\ RequestsAreDisjoint'
  BY <1>1 DEF LoopInv, RequestsFitFrame, RequestsAreFewest, RequestsAreDisjoint, Apart
<1> QED
  BY <1>1, <1>2, <1>3 DEF LoopInv, ReadsExactlyWanted

\* The loops keep types and invariant, for every input and limit.
THEOREM PlannerInvariant == Spec => [](TypeOK /\ LoopInv)
<1>1. Init => TypeOK /\ LoopInv
  BY SplitAssumption
  DEF Init, TypeOK, LoopInv, ReadsExactlyWanted, RequestsFitFrame,
      RequestsAreFewest, RequestsAreDisjoint
<1>2. TypeOK /\ LoopInv /\ [Next]_vars => (TypeOK /\ LoopInv)'
  <2>1. ASSUME TypeOK, LoopInv, UNCHANGED vars
        PROVE  LoopInv'
    BY <2>1
    DEF vars, LoopInv, Frontier, Covered, ReadsExactlyWanted, RequestsFitFrame,
        RequestsAreFewest, RequestsAreDisjoint, Apart
  <2> QED
    BY <2>1, TypeStep, StartRunStep, ExtendRunStep, EndRunStep, ChopStep, EndStep
    DEF Next
<1> QED
  BY <1>1, <1>2, PTL DEF Spec

\* What split_addresses returns covers its argument and nothing else: no word
\* is forgotten and no hole is read across (batch.py:25-51).
THEOREM PlanIsExact == Spec => []ReadsExactlyWanted
<1>1. LoopInv => ReadsExactlyWanted
  BY DEF LoopInv
<1> QED
  BY <1>1, PlannerInvariant, PTL

\* Every request is legal on the wire (batch.py:54-60).
THEOREM PlanFitsFrame == Spec => []RequestsFitFrame
<1>1. LoopInv => RequestsFitFrame
  BY DEF LoopInv
<1> QED
  BY <1>1, PlannerInvariant, PTL

\* The starts of the requests are words of which no two fit in one request:
\* fewer requests would not do (batch.py:4-6).
THEOREM PlanIsFewest == Spec => []RequestsAreFewest
<1>1. LoopInv => RequestsAreFewest
  BY DEF LoopInv
<1> QED
  BY <1>1, PlannerInvariant, PTL

\* No word is read twice in one poll (batch.py:54-60).
THEOREM PlanIsDisjoint == Spec => []RequestsAreDisjoint
<1>1. LoopInv => RequestsAreDisjoint
  BY DEF LoopInv
<1> QED
  BY <1>1, PlannerInvariant, PTL
-----------------------------------------------------------------------------
(* No plan is smaller.                                                     *)

\* A legal request holds the start of one request of the planner at most: two
\* starts are too far apart for it, or have a hole between them.
LEMMA OneStartEach ==
    ASSUME TypeOK, LoopInv, NEW plan \in LegalPlans, NEW p \in plan,
           NEW r \in reads, NEW s \in reads,
           r.start \in Words(p), s.start \in Words(p)
    PROVE  ~(r.start < s.start)
<1> SUFFICES ASSUME r.start < s.start PROVE FALSE
  OBVIOUS
<1>1. wanted \subseteq Nat /\ MaximumLength \in Nat
  BY SplitAssumption DEF TypeOK
<1>2. p.start \in Nat /\ p.length \in 1 .. MaximumLength /\ Words(p) \subseteq wanted
  BY <1>1 DEF LegalPlans
<1>3. \/ r.start + MaximumLength <= s.start
      \/ \E gap \in r.start .. s.start : gap \notin wanted
  BY DEF LoopInv, RequestsAreFewest, Apart
<1>4. /\ r.start \in Nat /\ s.start \in Nat
      /\ p.start <= r.start /\ s.start <= p.start + p.length - 1
  BY <1>2 DEF Words, TypeOK
<1>5. ~(r.start + MaximumLength <= s.start)
  BY <1>1, <1>2, <1>4
<1>6. \A gap \in r.start .. s.start : gap \in wanted
  BY <1>2, <1>4 DEF Words
<1> QED
  BY <1>3, <1>5, <1>6

\* split_addresses returns as few requests as can be: any other legal plan has
\* a request of its own for the start of each of them (batch.py:4-6, 25-60).
THEOREM NoPlanIsSmaller == Spec => []PlanIsSmallest
<1>1. TypeOK /\ LoopInv => PlanIsSmallest
  <2> SUFFICES ASSUME TypeOK, LoopInv, pc = "done" PROVE PlanIsSmallest
    BY DEF PlanIsSmallest
  <2>1. Covered = wanted
    BY DEF LoopInv, ReadsExactlyWanted
  <2>2. \A r \in reads : /\ r.start \in Nat /\ r.length \in 1 .. MaximumLength
                         /\ r.start \in Words(r) /\ r.start \in wanted
    <3> SUFFICES ASSUME NEW r \in reads
                 PROVE  /\ r.start \in Nat /\ r.length \in 1 .. MaximumLength
                        /\ r.start \in Words(r) /\ r.start \in wanted
      OBVIOUS
    <3>1. r.start \in Nat /\ r.length \in 1 .. MaximumLength
      BY DEF TypeOK, LoopInv, RequestsFitFrame
    <3>2. r.start \in Words(r)
      BY <3>1, SplitAssumption DEF Words
    <3> QED
      BY <2>1, <3>1, <3>2 DEF Covered
  <2>3. reads \in LegalPlans
    <3>1. reads \subseteq [start : wanted, length : 1 .. MaximumLength]
      BY <2>2 DEF TypeOK
    <3> QED
      BY <2>1, <3>1 DEF LegalPlans, Covered
  <2>4. ASSUME NEW plan \in LegalPlans, IsFiniteSet(plan)
        PROVE  Cardinality(reads) <= Cardinality(plan)
    <3> DEFINE f == [r \in reads |-> CHOOSE p \in plan : r.start \in Words(p)]
    <3>1. \A r \in reads : \E p \in plan : r.start \in Words(p)
      BY <2>2 DEF LegalPlans
    <3>2. f \in [reads -> plan] /\ \A r \in reads : r.start \in Words(f[r])
      BY <3>1
    <3> HIDE DEF f
    <3>3. ASSUME NEW r \in reads, NEW s \in reads, f[r] = f[s]
          PROVE  r = s
      <4>1. ~(r.start < s.start) /\ ~(s.start < r.start)
        BY <3>2, <3>3, OneStartEach
      <4>2. r.start = s.start
        BY <2>2, <4>1
      <4> QED
        BY <2>2, <4>2 DEF LoopInv, RequestsAreDisjoint
    <3>4. f \in Injection(reads, plan)
      BY <3>2, <3>3 DEF Injection, IsInjective
    <3> QED
      BY <2>4, <3>4, FS_Injection
  <2> QED
    BY <2>3, <2>4 DEF PlanIsSmallest
<1> QED
  BY <1>1, PlannerInvariant, PTL

-----------------------------------------------------------------------------
(* Pairs of words.                                                         *)

\* Where a run starts, nothing is wanted just before (batch.py:43-48).
LEMMA NothingBefore ==
    ASSUME TypeOK, LoopInv, StartRun
    PROVE  runStart' \in wanted /\ runStart' \in Nat /\ runStart' - 1 \notin wanted
<1>a. wanted \subseteq Nat /\ runEnd \in Nat
  BY SplitAssumption DEF TypeOK
<1>1. PICK address \in todo : IsNext(address) /\ runStart' = address
  BY DEF StartRun
<1>2. address \in wanted /\ address \in Nat
  BY <1>1, <1>a DEF TypeOK
<1>3. CASE pc = "start"
  BY <1>1, <1>2, <1>3, <1>a DEF LoopInv, IsNext
<1>4. CASE pc = "chop"
  <2>1. runEnd + 1 \notin wanted /\ \A a \in Nat : a \in todo <=> a \in wanted /\ a > runEnd
    BY <1>4, Behind DEF LoopInv
  <2>2. ASSUME address - 1 \in wanted PROVE FALSE
    BY <2>1, <2>2, <1>1, <1>2, <1>a DEF IsNext
  <2> QED
    BY <2>2, <1>1, <1>2
<1> QED
  BY <1>3, <1>4 DEF StartRun

\* The iterations keep requests aligned, as long as runs start at even
\* addresses and the limit is even.
LEMMA EvenStep ==
    ASSUME TypeOK, LoopInv, EvenInv, [Next]_vars,
           RunsStartEven(wanted), MaximumLength % 2 = 0
    PROVE  EvenInv'
<1>a. /\ wanted \subseteq Nat /\ runEnd \in Nat /\ runStart \in Nat
      /\ offset \in Nat /\ MaximumLength \in Nat \ {0}
  BY SplitAssumption DEF TypeOK
<1>1. CASE StartRun
  <2>1. runStart' % 2 = 0
    BY <1>1, <1>a, NothingBefore DEF RunsStartEven
  <2>2. Frontier' = runStart'
    BY <1>1, NothingBefore DEF StartRun, Frontier
  <2> QED
    BY <1>1, <2>1, <2>2 DEF EvenInv, StartRun
<1>2. CASE ExtendRun
  BY <1>2 DEF ExtendRun, EvenInv, Frontier
<1>3. CASE EndRun
  BY <1>3 DEF EndRun, EvenInv, Frontier
<1>4. CASE Chop
  <2>0. PICK chunk : chunk = Chunk
    OBVIOUS
  <2>1. /\ pc = "chop" /\ offset < Width /\ reads' = reads \cup {chunk}
        /\ Frontier' = Frontier + MaximumLength /\ Frontier \in Nat
        /\ UNCHANGED wanted
    BY <1>4, <1>a, <2>0 DEF Chop, Frontier
  <2>2. Frontier % 2 = 0 /\ runEnd + 1 \notin wanted
    BY <2>1 DEF EvenInv, LoopInv
  <2>3. chunk.start = Frontier
    BY <2>0, <2>1, ChunkFits DEF Frontier
  <2>4. chunk.length = MaximumLength \/ chunk.start + chunk.length = runEnd + 1
    BY <2>0, <1>a DEF Chunk, Read, Rest, Width
  <2>5. Frontier' % 2 = 0
    BY <2>1, <2>2, <1>a
  <2>6. chunk.length % 2 = 0 \/ chunk.start + chunk.length \notin wanted
    BY <2>2, <2>4
  <2> QED
    BY <2>1, <2>2, <2>3, <2>5, <2>6 DEF EvenInv
<1>5. CASE Empty \/ Finish
  BY <1>5 DEF Empty, Finish, EvenInv
<1>6. CASE UNCHANGED vars
  BY <1>6 DEF vars, EvenInv, Frontier
<1> QED
  BY <1>1, <1>2, <1>3, <1>4, <1>5, <1>6 DEF Next

\* Of a word at an even address and the one after it, both or none are read by
\* a request: the cap at batch.py:57-60 never falls between them.
LEMMA PairsStayTogether ==
    ASSUME TypeOK, LoopInv, EvenInv, NEW r \in reads, NEW a \in Words(r),
           a % 2 = 0, a + 1 \in wanted
    PROVE  a + 1 \in Words(r)
<1>1. r.start \in Nat /\ r.length \in Nat /\ a \in r.start .. (r.start + r.length - 1)
  BY DEF TypeOK, Words
<1>2. r.start % 2 = 0 /\ (r.length % 2 = 0 \/ r.start + r.length \notin wanted)
  BY DEF EvenInv
<1>3. ASSUME a + 1 = r.start + r.length PROVE FALSE
  BY <1>1, <1>2, <1>3
<1> QED
  BY <1>1, <1>3 DEF Words
-----------------------------------------------------------------------------
(* The end of the loops.                                                   *)

\* Among addresses there is a least one: sorted(addresses) has a first element.
LEMMA NextExists ==
    ASSUME TypeOK, todo # {}
    PROVE  \E address \in todo : IsNext(address)
<1> DEFINE Less == OpToRel(<, Nat)
<1>1. todo \subseteq Nat
  BY SplitAssumption DEF TypeOK
<1>2. PICK address \in todo : \A other \in todo : ~(<<other, address>> \in Less)
  <2>1. IsWellFoundedOn(Less, Nat)
    BY NatLessThanWellFounded
  <2> HIDE DEF Less
  <2> QED
    BY <1>1, <2>1, WFMin
<1>3. \A other \in todo : ~(other < address)
  <2> SUFFICES ASSUME NEW other \in todo, other < address
               PROVE  FALSE
    OBVIOUS
  <2>1. <<other, address>> \in Less
    BY <1>1 DEF OpToRel
  <2> QED
    BY <1>2, <2>1
<1> HIDE DEF Less
<1> QED
  BY <1>1, <1>2, <1>3 DEF IsNext

\* Until the function returns, one of its loops can go on (batch.py:40-60).
LEMMA StepExists ==
    ASSUME TypeOK, pc # "done"
    PROVE  HasStep
<1>1. offset < Width \/ offset >= Width
  BY DEF TypeOK, Width
<1> QED
  BY <1>1, NextExists DEF TypeOK, HasStep

\* The sets that Left counts are finite when the argument is.
LEMMA CountedSets ==
    ASSUME TypeOK, \A input \in Inputs : IsFiniteSet(input)
    PROVE  /\ IsFiniteSet(todo) /\ IsFiniteSet(wanted \ Covered)
           /\ Cardinality(wanted) \in Nat
           /\ Cardinality(todo) \in 0 .. Cardinality(wanted)
           /\ Cardinality(wanted \ Covered) \in 0 .. Cardinality(wanted)
<1>1. IsFiniteSet(wanted)
  BY DEF TypeOK
<1>2. todo \in SUBSET wanted /\ wanted \ Covered \in SUBSET wanted
  BY DEF TypeOK
<1>3. /\ IsFiniteSet(todo) /\ Cardinality(todo) <= Cardinality(wanted)
      /\ IsFiniteSet(wanted \ Covered)
      /\ Cardinality(wanted \ Covered) <= Cardinality(wanted)
  BY <1>1, <1>2, FS_Subset
<1> QED
  BY <1>1, <1>3, FS_CardinalityType

LEMMA LeftType ==
    ASSUME TypeOK, \A input \in Inputs : IsFiniteSet(input)
    PROVE  Left \in Nat
  BY CountedSets DEF Left, TypeOK

\* Visiting an address leaves one less.
LEMMA VisitCounts ==
    ASSUME TypeOK, \A input \in Inputs : IsFiniteSet(input),
           NEW address \in todo, todo' = todo \ {address}, UNCHANGED <<wanted, reads>>
    PROVE  /\ Cardinality(todo') = Cardinality(todo) - 1
           /\ Cardinality((wanted \ Covered)') = Cardinality(wanted \ Covered)
<1>1. Cardinality(todo') = Cardinality(todo) - 1
  BY CountedSets, FS_RemoveElement
<1>2. (wanted \ Covered)' = wanted \ Covered
  BY DEF Covered
<1> QED
  BY <1>1, <1>2

\* A request asks for a word that none did before: range steps by as much as a
\* request takes (batch.py:57-60).
LEMMA ChopCounts ==
    ASSUME TypeOK, LoopInv, \A input \in Inputs : IsFiniteSet(input), Chop
    PROVE  Cardinality((wanted \ Covered)') < Cardinality(wanted \ Covered)
<1>1. pc = "chop" /\ offset < Width /\ wanted' = wanted /\ reads' = reads \cup {Chunk}
  BY DEF Chop
<1>2. Covered' = Covered \cup Words(Chunk)
  BY <1>1, CoveredGrows
<1>3. Frontier \in runStart .. runEnd /\ Frontier \in Nat
  BY <1>1 DEF TypeOK, Frontier, Width
<1>4. Frontier \in wanted /\ Frontier \notin Covered
  BY <1>1, <1>3, Behind
<1>5. Frontier \in Words(Chunk)
  BY <1>1, <1>3, ChunkFits, SplitAssumption DEF Frontier, TypeOK
<1>6. /\ (wanted \ Covered)' \in SUBSET (wanted \ Covered)
      /\ (wanted \ Covered)' # wanted \ Covered
  BY <1>1, <1>2, <1>4, <1>5
<1>7. /\ IsFiniteSet((wanted \ Covered)')
      /\ Cardinality((wanted \ Covered)') <= Cardinality(wanted \ Covered)
      /\ Cardinality((wanted \ Covered)') # Cardinality(wanted \ Covered)
  BY <1>6, CountedSets, FS_Subset
<1>8. Cardinality((wanted \ Covered)') \in Nat /\ Cardinality(wanted \ Covered) \in Nat
  BY <1>7, CountedSets, FS_CardinalityType
<1> QED
  BY <1>7, <1>8

\* Every iteration leaves less to do.
LEMMA LeftDescends ==
    ASSUME TypeOK, LoopInv, \A input \in Inputs : IsFiniteSet(input), Next
    PROVE  /\ Left' \in Nat /\ Left' < Left
           /\ wanted' = wanted
<1>a. /\ Cardinality(todo) \in Nat /\ Cardinality(wanted \ Covered) \in Nat
      /\ TypeOK'
  BY CountedSets, TypeStep
<1>b. /\ Cardinality((wanted \ Covered)') \in Nat /\ Cardinality(todo') \in Nat
      /\ pc' \in {"start", "scan", "chop", "done"}
  <2>1. /\ IsFiniteSet(wanted') /\ todo' \in SUBSET wanted'
        /\ (wanted \ Covered)' \in SUBSET wanted'
    BY <1>a DEF TypeOK
  <2>2. IsFiniteSet((wanted \ Covered)') /\ IsFiniteSet(todo')
    BY <2>1, FS_Subset
  <2> QED
    BY <1>a, <2>2, FS_CardinalityType DEF TypeOK
<1>c. Left' \in Nat /\ Left \in Nat
  <2>1. Left \in Nat
    BY LeftType
  <2>2. Left' \in Nat
    BY <1>b DEF Left
  <2> QED
    BY <2>1, <2>2
<1>1. ASSUME UNCHANGED <<wanted, todo, reads>>
      PROVE  /\ Cardinality(todo') = Cardinality(todo)
             /\ Cardinality((wanted \ Covered)') = Cardinality(wanted \ Covered)
  BY <1>1 DEF Covered
<1>2. CASE Empty
  BY <1>c, <1>a, <1>1, <1>2 DEF Empty, Left
<1>3. CASE StartRun
  <2>1. PICK address \in todo : todo' = todo \ {address}
    BY <1>3 DEF StartRun
  <2>2. pc \in {"start", "chop"} /\ pc' = "scan" /\ UNCHANGED <<wanted, reads>>
    BY <1>3 DEF StartRun
  <2>3. /\ Cardinality(todo') = Cardinality(todo) - 1
        /\ Cardinality((wanted \ Covered)') = Cardinality(wanted \ Covered)
    BY <2>1, <2>2, VisitCounts
  <2> QED
    BY <1>c, <1>a, <2>2, <2>3 DEF Left
<1>4. CASE ExtendRun
  <2>1. PICK address \in todo : todo' = todo \ {address}
    BY <1>4 DEF ExtendRun
  <2>2. pc = "scan" /\ pc' = pc /\ UNCHANGED <<wanted, reads>>
    BY <1>4 DEF ExtendRun
  <2>3. /\ Cardinality(todo') = Cardinality(todo) - 1
        /\ Cardinality((wanted \ Covered)') = Cardinality(wanted \ Covered)
    BY <2>1, <2>2, VisitCounts
  <2> QED
    BY <1>c, <1>a, <2>2, <2>3 DEF Left
<1>5. CASE EndRun
  BY <1>c, <1>a, <1>1, <1>5 DEF EndRun, Left
<1>6. CASE Chop
  <2>1. pc = "chop" /\ pc' = pc /\ todo' = todo /\ wanted' = wanted
    BY <1>6 DEF Chop
  <2>2. Cardinality((wanted \ Covered)') < Cardinality(wanted \ Covered)
    BY <1>6, ChopCounts
  <2> QED
    BY <1>c, <1>a, <1>b, <2>1, <2>2 DEF Left
<1>7. CASE Finish
  BY <1>c, <1>a, <1>1, <1>7 DEF Finish, Left
<1> QED
  BY <1>2, <1>3, <1>4, <1>5, <1>6, <1>7 DEF Next

\* split_addresses returns after at most three iterations for each address and
\* one: its loops never wait for anything, and each iteration visits an
\* address, asks for a word or closes a run (batch.py:40-60).
THEOREM PlannerEndsInTime ==
    ASSUME \A input \in Inputs : IsFiniteSet(input)
    PROVE  Spec => EndsInTime
<1> DEFINE Bounded == Left \in 0 .. 3 * Cardinality(wanted) + 1
           Stepping == pc # "done" => HasStep
<1>1. Init => Bounded
  <2> SUFFICES ASSUME Init PROVE Bounded
    OBVIOUS
  <2>1. TypeOK /\ todo = wanted /\ pc = "start"
    BY SplitAssumption DEF Init, TypeOK
  <2> QED
    BY <2>1, CountedSets DEF Left
<1>2. TypeOK /\ Bounded /\ LoopInv /\ TypeOK' /\ [Next]_vars => Bounded' /\ [Left' < Left]_vars
  <2> SUFFICES ASSUME TypeOK, Bounded, LoopInv, TypeOK', [Next]_vars
               PROVE  Bounded' /\ [Left' < Left]_vars
    OBVIOUS
  <2>1. CASE UNCHANGED vars
    BY <2>1 DEF vars, Left, Covered
  <2>2. CASE Next
    <3>1. Left' \in Nat /\ Left' < Left /\ wanted' = wanted
      BY <2>2, LeftDescends
    <3>2. Cardinality(wanted) \in Nat
      BY CountedSets
    <3> QED
      BY <3>1, <3>2
  <2> QED
    BY <2>1, <2>2
<1>3. TypeOK => Stepping
  BY StepExists
<1> QED
  <2> HIDE DEF Bounded, Stepping
  <2>1. EndsInTime <=> []Stepping /\ []Bounded /\ [][Left' < Left]_vars
    BY PTL DEF EndsInTime, Bounded, Stepping
  <2> QED
    BY <1>1, <1>2, <1>3, <2>1, PlannerInvariant, PTL DEF Spec
=============================================================================
