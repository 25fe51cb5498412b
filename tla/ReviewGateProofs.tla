--------------------------- MODULE ReviewGateProofs ---------------------------
(* Proofs about ReviewLoop as long as no two ticks interleave: the gate that holds  *)
(* the final task, and the reasons for which a run fails or blocks.                 *)
(*                                                                                  *)
(* A tick can still die between any two of its writes, so the next one finds a      *)
(* board that is ahead of the event log.  The invariant says by how much: at most   *)
(* the round after the last recorded review is on the board and not in the mapping  *)
(* (UnrecordedOK), or recorded without the event that asked for it (OrphanOK), and  *)
(* such a round is replayed before anything of it is dispatched.  So the review a   *)
(* tick looks at is the last, and a gate that is not blocked has been accepted, or  *)
(* is about to be blocked, or waits for a task that is never dispatched (GateOK).   *)
EXTENDS ReviewLoopProofs

--------------------------------------------------------------------------------
(* One tick at a time.                                                             *)

\* Ticks do not overlap, or there is only one who ticks.
Alone == ~Overlap \/ ~disturbed

\* The steps of a tick that work on the mapping it has read, and those that come after.
Before == {"advance", "accepted", "hold", "held", "review", "link", "root"}
After  == {"round", "quarantine", "wave", "close", "judge"}

LastOf(S) == Review(ReviewCount(S))

\* The mapping that a tick has read is the one recorded, until it records another; from
\* then on it has every task of the board.
WatchOK(a) ==
    /\ pc[a] \in Before => seen[a] = children
    /\ pc[a] \in After => seen[a] = Created /\ (~full => children = Created)
    /\ pc[a] \in Handling => outcome = "open" /\ about[a] \notin handled

\* A task the mapping lacks is of the round after its last review, which is to be replayed.
UnrecordedOK ==
    \A t \in Created \ children : children # {} =>
          /\ t \in {ReworkOf(LastOf(children)), ReviewOf(LastOf(children))}
          /\ outcome = "open" /\ LastOf(children) \notin handled
          /\ ~full => status[t] \in Waiting
          /\ \A a \in Actors : /\ pc[a] \notin {"accepted", "hold", "held"}
                               /\ pc[a] \in Asks \ {"round"} => about[a] = LastOf(children)

\* The mapping has a review, but no event names the one that asked for it: the tick that
\* records it is cut off, and no other has come as far as dispatching it.
Orphan(k) == Review(k) \in children /\ Review(k - 1) \notin handled

OrphanOK(k) ==
    Orphan(k) =>
          /\ status[Review(k)] \in Waiting /\ outcome = "open" /\ ~full
          /\ \A a \in Actors :
                /\ pc[a] \notin {"accepted", "quarantine", "wave", "close", "judge", "commit"}
                /\ pc[a] \in Handling => about[a] = Review(k - 1)

\* One tick at a time, and what it and the board know of each other.
TickOK ==
    /\ ~disturbed => pc[Observer] = "idle" /\ ~full
    /\ \A a, b \in Actors : a # b => pc[a] \notin InTick \/ pc[b] \notin InTick
    /\ \A a \in Actors : WatchOK(a)
    /\ Reviewing => UnrecordedOK /\ \A k \in Later : OrphanOK(k)

\* The latest review leaves the run no other round.
Halting(r) ==
    /\ verdict[r] # "accept"
    /\ verdict[r] # "reject" \/ ReviewCount(children) >= request.cycles \/ SelfReview

\* Ticks only hold the gate, until one has recorded that the run is blocked ...
Holding ==
    /\ outcome = "open" /\ DoneReviews(children) # {}
    /\ Latest(children) \notin handled /\ Halting(Latest(children))
    /\ \A a \in Actors : pc[a] \in InTick => pc[a] \in {"advance", "hold", "held"}

\* ... and then nothing is dispatched any more that the gate waits for.
Stuck ==
    outcome = "blocked" /\ status[Gate] = "todo" /\ \E u \in parents[Gate] : status[u] \in Waiting

\* A tick that holds the gate is at the latest review, and leaves the gate waiting only for a
\* review that is staged.
HoldOK(a) ==
    /\ pc[a] \in {"hold", "held"} =>
          /\ about[a] = Latest(children) /\ Halting(about[a])
          /\ status[Gate] = "todo" => \E k \in Later : Orphan(k) /\ Review(k) \in parents[Gate]
    /\ pc[a] = "held" => status[Gate] # "ready"

\* The gate is open only for an acceptance.
GateOK ==
    /\ status[Gate] \in {"running", "done"} => LastAccepted
    /\ status[Gate] \in Waiting => LastAccepted \/ Stuck \/ Holding
    /\ \A a \in Actors : HoldOK(a)

\* A run fails over what some worker left.
HonestOK ==
    /\ \A a \in Actors : pc[a] = "commit" /\ judged[a] = "failed" => sloppy
    /\ state = "failed" => sloppy

\* Why a run may be blocked that nobody else had a hand in.
Cause == outcome = "blocked" \/ sloppy \/ (Reviewing /\ ~Independent)

CauseOK ==
    Foreground /\ ~disturbed =>
        /\ pc[Driver] = "head" => children # {}
        /\ pc[Driver] \in {"close", "judge"} => outcome = "blocked" \/ AllDone(seen[Driver])
        /\ pc[Driver] = "commit" /\ judged[Driver] = "blocked" => Cause
        /\ state = "blocked" => Cause \/ Unplannable

\* All of it, as long as ticks are alone.
LoopOK ==
    Alone => /\ TickOK /\ HonestOK /\ CauseOK
             /\ Reviewing /\ Created # {} => GateOK

--------------------------------------------------------------------------------
(* The review a tick is at.                                                        *)

\* What is needed of the layer below.
Rests == TypesOK /\ GraphOK /\ StagingOK /\ FreshOK /\ ParentsOK

\* An accepted run gets no more rounds.
LEMMA AcceptedStays ==
  ASSUME Rests, Reviewing, Created # {}, LastAccepted, Next
  PROVE  LastAccepted' /\ Created' = Created
<1> USE DEF TypesOK, Rests
<1>1. ~Release BY DEF Release, FreshOK
<1>2. ASSUME NEW a \in Actors, NEW k \in Later, Adds(a, k) PROVE Created' = Created
  <2>1. Review(k - 1) \in DOMAIN verdict /\ verdict[Review(k - 1)] = "reject" BY <1>2 DEF Adds
  <2>2. k \in Nat \ {0, 1} /\ Review(k - 1) \in Created BY <2>1, ReviewedNames DEF VerdictsOK, DoneAt
  <2>3. PICK n \in Nat : /\ n = ReviewCount(Created) /\ LastReview = Review(n)
                         /\ \A j \in Nat : Review(j) \in Created <=> j \in 1 .. n
    BY LastReviewIs
  <2>4. k - 1 \in 1 .. n /\ k - 1 # n BY <2>1, <2>2, <2>3 DEF LastAccepted
  <2>5. Review(k) \in Created BY <2>2, <2>3, <2>4
  <2>6. Rework(k) \in Created BY <2>5 DEF StagingOK
  <2> QED BY <1>2, <2>5, <2>6 DEF Adds
<1>3. Created' = Created BY <1>1, <1>2, CreatedIs
<1>4. LastReview' = LastReview BY <1>3 DEF LastReview
<1> QED BY <1>3, <1>4, VerdictsSteps DEF LastAccepted

\* Once a rework is there, the review that asked for it is the latest until the next is done.
LEMMA LatestAsked ==
  ASSUME Rests, Reviewing, NEW k \in Later, Rework(k) \in Created,
         NEW S, Mapping(S), Review(k - 1) \in S, Review(k) \notin DoneReviews(S)
  PROVE  DoneReviews(S) # {} /\ Latest(S) = Review(k - 1)
<1> USE DEF TypesOK, Rests
<1>1. k \in Nat \ {0, 1} BY ReviewedNames
<1>2. \A j : Kind(Review(j)) = "review" BY DEF Kind, Review
<1>3. Review(k - 1) \in DOMAIN verdict BY DEF StagingOK
<1>4. Review(k - 1) \in DoneReviews(S) BY <1>2, <1>3 DEF DoneReviews, DoneAt, VerdictsOK, ReviewKinds
<1>5. PICK l \in 1 .. ReviewCount(S) :
               /\ Latest(S) = Review(l) /\ Latest(S) \in DoneReviews(S)
               /\ \A j \in Nat : Review(j) \in DoneReviews(S) => j <= l
  BY <1>4, LatestIs
<1>6. ReviewCount(S) \in Nat /\ S # {} BY <1>4, LatestIs
<1>7. l >= k - 1 BY <1>1, <1>4, <1>5
<1>8. l # k BY <1>5
<1>9. ASSUME l > k PROVE FALSE
  <2>1. Review(l) \in S /\ Review(l) \in Created BY <1>5 DEF DoneReviews, DoneAt, Mapping
  <2>2. l \in Later
    <3>1. Review(l) \in Names BY <2>1, ReviewedNames
    <3>2. Review(l) \notin Works(request) BY <1>2, ReviewedGraph DEF GraphOK
    <3>3. l # 1 BY <1>1, <1>6, <1>9
    <3> QED BY <3>1, <3>2, <3>3 DEF Names, Review, Rework, Gate, Final
  <2>3. Behind(l) BY <2>1, <2>2, EarlierDone DEF StagingOK
  <2>4. k \in 1 .. l - 1 BY <1>1, <1>6, <1>9
  <2>5. status[Review(k)] = "done" BY <2>3, <2>4 DEF Behind
  <2>6. Review(k) \in S
    <3>1. Numbered(S) BY <1>6 DEF Mapping, Whole
    <3>2. k \in 1 .. ReviewCount(S) BY <1>1, <1>6, <1>9
    <3> QED BY <3>1, <3>2 DEF Numbered
  <2> QED BY <1>2, <1>8, <2>5, <2>6 DEF DoneReviews, DoneAt, ReviewKinds
<1> QED BY <1>1, <1>4, <1>5, <1>6, <1>7, <1>8, <1>9

LEMMA UnrecordedIs ==
  ASSUME Rests, Reviewing, children # {}, UnrecordedOK, NEW t \in Created \ children
  PROVE  /\ outcome = "open" /\ DoneReviews(children) # {} /\ Latest(children) = LastOf(children)
         /\ LastOf(children) \notin handled /\ verdict[LastOf(children)] = "reject" /\ ~SelfReview
         /\ ReviewCount(children) \in Nat /\ ReviewCount(children) < request.cycles
<1> USE DEF TypesOK, Rests
<1>1. Mapping(children) /\ Numbered(children) /\ Ids(nodes) \subseteq children BY DEF StagingOK, Mapping, Whole
<1>2. PICK n \in Nat : n = ReviewCount(children) /\ {u \in children : Kind(u) = "review"} = {Review(k) : k \in 1 .. n}
  BY <1>1 DEF Numbered
<1>3. \A j : Kind(Review(j)) = "review" /\ Kind(Rework(j)) = "rework" BY DEF Kind, Review, Rework
<1>4. Review(1) \in children BY <1>1, ReviewedGraph DEF GraphOK
<1>5. PICK i \in 1 .. n : Review(1) = Review(i) BY <1>2, <1>3, <1>4
<1>6. n \in 1 .. n /\ n # 0 BY <1>5
<1>7. Review(n) \in children /\ LastOf(children) = Review(n) BY <1>2, <1>6 DEF LastOf
<1>8. ReworkOf(Review(n)) = Rework(n + 1) /\ ReviewOf(Review(n)) = Review(n + 1)
  BY DEF ReworkOf, ReviewOf, Review, Rework
<1>9. t \in {Rework(n + 1), Review(n + 1)} /\ t \in Names BY <1>7, <1>8, ReviewedNames DEF UnrecordedOK
<1>10. n + 1 \in Later
  <2>1. t \notin Works(request) BY <1>3, <1>9, ReviewedGraph DEF GraphOK
  <2>2. n + 1 # 1 BY <1>6
  <2> QED BY <1>9, <2>1, <2>2 DEF Names, Review, Rework, Gate, Final
<1>11. Rework(n + 1) \in Created BY <1>9, <1>10 DEF StagingOK
<1>12. (n + 1) - 1 = n OBVIOUS
<1>13. verdict[Review(n)] = "reject" /\ ~SelfReview BY <1>10, <1>11, <1>12 DEF StagingOK
<1>14. Review(n + 1) \notin children
  <2> SUFFICES ASSUME Review(n + 1) \in children PROVE FALSE OBVIOUS
  <2>1. PICK j \in 1 .. n : Review(n + 1) = Review(j) BY <1>2, <1>3
  <2> QED BY <2>1 DEF Review
<1>15. Review(n + 1) \notin DoneReviews(children) BY <1>14 DEF DoneReviews, DoneAt
<1>16. DoneReviews(children) # {} /\ Latest(children) = Review(n)
  <2>1. PICK k \in Later : k = n + 1 BY <1>10
  <2>2. Review(k) \notin DoneReviews(children) /\ Rework(k) \in Created /\ Review(k - 1) \in children /\ k - 1 = n
    BY <1>7, <1>11, <1>12, <1>15, <2>1
  <2> QED BY <1>1, <2>2, LatestAsked
<1>17. n < request.cycles
  <2>1. request.cycles \in Nat BY ReviewAssumption DEF GraphOK
  <2> QED BY <1>10, <2>1 DEF Later
<1> QED BY <1>2, <1>7, <1>13, <1>16, <1>17 DEF UnrecordedOK

LEMMA OrphanIs ==
  ASSUME Rests, Reviewing, NEW k \in Later, Orphan(k), OrphanOK(k)
  PROVE  /\ outcome = "open" /\ DoneReviews(children) # {} /\ Latest(children) = Review(k - 1)
         /\ Latest(children) \notin handled /\ verdict[Review(k - 1)] = "reject" /\ ~SelfReview
         /\ Rework(k) \in children /\ Review(k) \in children
<1> USE DEF TypesOK, Rests
<1>1. Mapping(children) /\ children # {} BY DEF StagingOK, Orphan
<1>2. Rework(k) \in children /\ Review(k) \in children BY <1>1 DEF Mapping, Whole, Orphan
<1>3. Rework(k) \in Created BY <1>1, <1>2 DEF Mapping
<1>4. Review(k) \notin DoneReviews(children) BY DEF OrphanOK, Waiting, DoneReviews, DoneAt
<1>5. Review(k - 1) \in children
  <2>1. PICK n \in Nat : {u \in children : Kind(u) = "review"} = {Review(j) : j \in 1 .. n}
    BY <1>1 DEF Mapping, Whole, Numbered
  <2>2. k \in Nat \ {0, 1} BY ReviewedNames
  <2>3. PICK j \in 1 .. n : Review(k) = Review(j) BY <1>2, <2>1 DEF Kind, Review
  <2>4. k - 1 \in 1 .. n BY <2>2, <2>3 DEF Review
  <2> QED BY <2>1, <2>4
<1> QED BY <1>1, <1>2, <1>3, <1>4, <1>5, LatestAsked DEF StagingOK, OrphanOK, Orphan

\* A tick that has nothing to do has nothing to replay.
LEMMA NothingLeft ==
  ASSUME Rests, TickOK, Reviewing, NEW a \in Actors, pc[a] = "advance", Settled(a)
  PROVE  children = Created /\ \A k \in Later : ~Orphan(k)
<1>1. seen[a] = children /\ children # {} /\ children \subseteq Created
  BY DEF Rests, TickOK, WatchOK, Before, StagingOK, HandlingOK, InTick, Mapping
<1>2. outcome = "open" /\ DoneReviews(children) # {} => Latest(children) \in handled
  BY <1>1 DEF Settled, Reviewing
<1>3. ASSUME NEW t \in Created \ children PROVE FALSE
  BY <1>1, <1>2, <1>3, UnrecordedIs DEF TickOK
<1>4. ASSUME NEW k \in Later, Orphan(k) PROVE FALSE
  BY <1>2, <1>4, OrphanIs DEF TickOK
<1> QED BY <1>1, <1>3, <1>4

--------------------------------------------------------------------------------
(* Whose turn it is.                                                               *)

\* The steps of an actor, and where they take it.
Moves(a) ==
    \/ Begin(a) /\ pc[a] \notin InTick /\ pc'[a] = IF children = {} THEN "commit" ELSE "advance"
    \/ NothingToDo(a) /\ pc[a] = "advance" /\ pc'[a] = "quarantine"
    \/ OpenGate(a) /\ pc[a] = "advance" /\ pc'[a] = "accepted"
    \/ UnblockGate(a) /\ pc[a] = "advance" /\ pc'[a] = "hold"
    \/ ReblockGate(a) /\ pc[a] = "hold" /\ pc'[a] = "held"
    \/ RecordOutcome(a) /\ pc[a] \in {"accepted", "held"} /\ pc'[a] = "quarantine"
    \/ CreateRework(a) /\ pc[a] = "advance" /\ pc'[a] = "review"
    \/ CreateReview(a) /\ pc[a] = "review" /\ pc'[a] = "link"
    \/ LinkReview(a) /\ pc[a] = "link" /\ pc'[a] = "root"
    \/ RecordRoot(a) /\ pc[a] = "root" /\ pc'[a] = "round"
    \/ RecordRound(a) /\ pc[a] = "round" /\ pc'[a] = "quarantine"
    \/ Quarantine(a) /\ pc[a] = "quarantine" /\ pc'[a] = IF a = Driver THEN "wave" ELSE "close"
    \/ Close(a) /\ pc[a] = "close" /\ pc'[a] = "judge"
    \/ Judge(a) /\ pc[a] = "judge" /\ pc'[a] = "commit"
    \/ Commit(a) /\ pc[a] = "commit" /\ pc'[a] = IF a = Observer THEN "idle" ELSE IF Foreground THEN "end" ELSE "head"
    \/ /\ a = Driver
       /\ \/ Reject /\ pc[a] = "plan" /\ pc'[a] = "end"
          \/ Release /\ pc[a] = "plan" /\ pc'[a] = "record"
          \/ RecordPlan /\ pc[a] = "record" /\ pc'[a] = IF Foreground THEN "head" ELSE "start"
          \/ Leave /\ pc[a] = "head" /\ pc'[a] = "end"
          \/ Crash /\ ~Foreground /\ pc'[a] = "end"
          \/ Relaunch /\ ~Foreground /\ pc[a] = "end" /\ pc'[a] = "head"
          \/ WaveOver /\ pc[a] = "wave" /\ pc'[a] = "close"
          \/ /\ Dispatching /\ AtWave
             /\ pc'[a] = IF pc[a] = "wave" /\ ~Foreground THEN "close" ELSE "head"

LEMMA TurnMoves ==
  ASSUME LocalsOK, NEW a \in Actors, Acts(a)
  PROVE  Moves(a)
<1> USE DEF Goto, LocalsOK
<1>1. ASSUME a = Driver, Drives PROVE Moves(a)
  <2>1. CASE Plan BY <1>1, <2>1 DEF Plan, Reject, Release, RecordPlan, Moves
  <2>2. CASE Dispatching BY <1>1, <2>2 DEF Dispatching, DispatchNone, DispatchSome, Dispatched, Moves
  <2>3. CASE Leave \/ WaveOver \/ Relaunch \/ Crash BY <1>1, <2>3 DEF Leave, WaveOver, Relaunch, Crash, Moves
  <2> QED BY <1>1, <2>1, <2>2, <2>3 DEF Drives
<1>2. CASE Begin(a)
  <2>1. pc[a] \notin InTick BY <1>2 DEF Begin, InTick
  <2>2. pc'[a] = IF children = {} THEN "commit" ELSE "advance" BY <1>2 DEF Begin
  <2> QED BY <1>2, <2>1, <2>2 DEF Moves
<1>3. CASE Quarantine(a) \/ Close(a) \/ Judge(a)
  BY <1>3 DEF Quarantine, Close, Judge, Moves
<1>4. CASE Commit(a)
  <2>1. pc' = [pc EXCEPT ![a] = IF a = Observer THEN "idle" ELSE IF Foreground THEN "end" ELSE "head"]
    <3>1. CASE a = Observer BY <1>4, <3>1, ReviewAssumption DEF Commit
    <3>2. CASE a = Driver BY <1>4, <3>2, ReviewAssumption DEF Commit
    <3> QED BY <3>1, <3>2 DEF Actors
  <2>2. pc[a] = "commit" BY <1>4 DEF Commit
  <2> QED BY <1>4, <2>1, <2>2 DEF Moves
<1>5. CASE Advance(a)
  <2>1. CASE NothingToDo(a) \/ OpenGate(a) \/ UnblockGate(a) \/ ReblockGate(a) \/ RecordOutcome(a)
    BY <2>1 DEF NothingToDo, OpenGate, UnblockGate, ReblockGate, RecordOutcome, Moves
  <2>2. CASE CreateRework(a) \/ CreateReview(a) \/ LinkReview(a) \/ RecordRoot(a) \/ RecordRound(a)
    BY <2>2 DEF CreateRework, CreateReview, LinkReview, RecordRoot, RecordRound, Moves
  <2> QED BY <1>5, <2>1, <2>2 DEF Advance
<1> QED BY <1>1, <1>2, <1>3, <1>4, <1>5 DEF Acts, Tick

\* Who is in a tick, or begins one, is the only one.
LEMMA MyTurn ==
  ASSUME LocalsOK, TickOK, Alone', NEW a \in Actors, Acts(a), pc[a] \in InTick \/ pc'[a] \in InTick
  PROVE  \A b \in Actors \ {a} : /\ pc[b] \notin InTick /\ pc'[b] = pc[b] /\ seen'[b] = seen[b]
                                 /\ about'[b] = about[b] /\ judged'[b] = judged[b]
<1>1. ASSUME NEW b \in Actors \ {a} PROVE pc[b] \notin InTick
  <2>1. CASE pc[a] \in InTick BY <1>1, <2>1 DEF TickOK
  <2>2. CASE pc[a] \notin InTick
    <3>1. Begin(a)
      <4>1. "end" \notin InTick /\ "record" \notin InTick /\ "head" \notin InTick /\ "start" \notin InTick
            /\ {"advance", "hold", "accepted", "held", "review", "link", "root", "round", "quarantine", "close",
                "judge", "commit", "wave"} \subseteq InTick
        BY DEF InTick
      <4> QED BY <2>2, <4>1, TurnMoves DEF Moves
    <3>2. MayBegin(a) /\ disturbed' = (disturbed \/ a = Observer) BY <3>1 DEF Begin
    <3>3. CASE ~Overlap BY <1>1, <3>2, <3>3 DEF MayBegin
    <3>4. CASE Overlap
      <4>1. ~disturbed' BY <3>4 DEF Alone
      <4>2. a # Observer /\ ~disturbed BY <3>2, <4>1 DEF LocalsOK
      <4> QED BY <1>1, <4>2 DEF Actors, TickOK, InTick
    <3> QED BY <3>3, <3>4
  <2> QED BY <2>1, <2>2
<1> QED BY <1>1, OthersStay

\* What happens during a tick that is not of the tick.
LEMMA Undisturbed ==
  ASSUME Rests, TickOK, Alone', Next, NEW a \in Actors, pc[a] \in InTick \ {"commit"}, ~Acts(a)
  PROVE  /\ UNCHANGED <<children, handled, outcome, full, parents, Created>>
         /\ pc'[a] = pc[a] /\ seen'[a] = seen[a] /\ about'[a] = about[a] /\ judged'[a] = judged[a]
         /\ \A b \in Actors \ {a} : pc'[b] \notin InTick
         /\ \/ Dispatching /\ pc[Driver] = "start"
            \/ UNCHANGED status
            \/ \E t \in live : Toils(t)
<1> USE DEF Rests, TypesOK
<1>1. children # {} BY DEF StagingOK, HandlingOK, FreshOK
<1>2. \A b \in Actors \ {a} : pc[b] \notin InTick BY DEF TickOK
<1>3. CASE UNCHANGED vars
  <2>1. UNCHANGED <<children, handled, outcome, full, parents, status, pc, seen, about, judged>>
    BY <1>3 DEF vars, events, board, locals
  <2>2. Created' = Created BY <2>1 DEF Created
  <2> QED BY <1>2, <2>1, <2>2
<1>4. ASSUME NEW t \in live, Toils(t)
      PROVE  /\ UNCHANGED <<children, handled, outcome, full, parents, Created>>
             /\ UNCHANGED <<pc, seen, about, judged>>
  <2>1. UNCHANGED <<pc, seen, about, judged, children, handled, outcome, full, state, parents>> BY <1>4, ToilsStay
  <2>2. ~Release BY <1>1 DEF Release, FreshOK
  <2>3. \A b \in Actors, k \in Later : ~Adds(b, k)
    BY <2>1 DEF Adds, CreateRework, CreateReview, Goto, LocalsOK
  <2>4. Created' = Created BY <2>2, <2>3, CreatedIs
  <2> QED BY <2>1, <2>4
<1>5. ASSUME NEW b \in Actors, Acts(b)
      PROVE  /\ UNCHANGED <<children, handled, outcome, full, parents, Created>>
             /\ pc'[a] = pc[a] /\ seen'[a] = seen[a] /\ about'[a] = about[a] /\ judged'[a] = judged[a]
             /\ \A c \in Actors \ {a} : pc'[c] \notin InTick
             /\ UNCHANGED status \/ (Dispatching /\ pc[Driver] = "start")
  <2>1. b # a BY <1>5
  <2>2. pc'[b] \notin InTick /\ pc[b] \notin InTick BY <1>2, <1>5, <2>1, MyTurn
  <2>3. \A c \in Actors \ {b} : pc'[c] = pc[c] /\ seen'[c] = seen[c] /\ about'[c] = about[c] /\ judged'[c] = judged[c]
    BY <1>5, OthersStay
  <2>4. \/ b = Driver /\ (Reject \/ Release \/ RecordPlan \/ Leave \/ Crash \/ Relaunch)
        \/ b = Driver /\ Dispatching /\ AtWave
    <3>1. {"advance", "hold", "accepted", "held", "review", "link", "root", "round", "quarantine", "close",
                "judge", "commit", "wave"} \subseteq InTick
      BY DEF InTick
    <3> QED BY <1>5, <2>2, <3>1, TurnMoves DEF Moves
  <2>5. ~Reject /\ ~Release /\ ~RecordPlan BY <1>1 DEF FreshOK, Reject, Release, RecordPlan
  <2>6. \A c \in Actors \ {a} : pc'[c] \notin InTick BY <1>2, <2>2, <2>3
  <2>7. CASE Leave \/ Crash \/ Relaunch
    <3>1. UNCHANGED <<children, handled, outcome, full, status, parents>>
      BY <2>7 DEF Leave, Crash, Relaunch, board, events
    <3> QED BY <2>1, <2>3, <2>6, <3>1 DEF Created
  <2>8. CASE b = Driver /\ Dispatching /\ AtWave
    <3>1. pc[Driver] = "start" BY <2>2, <2>8 DEF AtWave, InTick
    <3>2. UNCHANGED <<children, handled, outcome, full, parents>>
      BY <2>8 DEF Dispatching, DispatchNone, DispatchSome, events
    <3>3. seen[Driver] \subseteq Created BY DEF LocalsOK, Actors
    <3>4. Created' = Created BY <2>8, <3>3, DispatchMoves
    <3> QED BY <2>1, <2>3, <2>6, <2>8, <3>1, <3>2, <3>4
  <2> QED BY <2>4, <2>5, <2>7, <2>8
<1>6. (\E b \in Actors : Acts(b)) \/ (\E t \in live : Toils(t)) \/ UNCHANGED vars BY WhoActs
<1> QED BY <1>2, <1>3, <1>4, <1>5, <1>6

\* What starts is dispatched; and what becomes of the gate otherwise.
LEMMA QuietMoves ==
  ASSUME Rests, Reviewing, Created # {}, Next, ~Dispatching
  PROVE  /\ Gate \in Created /\ Gate \in Created'
         /\ \A t \in Created \ {Gate} : status[t] \in Waiting => status'[t] \in Waiting
         /\ parents[Gate] \subseteq parents'[Gate]
         /\ \/ status'[Gate] = status[Gate]
            \/ status[Gate] = "running" /\ status'[Gate] = "done"
            \/ status[Gate] = "todo" /\ status'[Gate] = "ready" /\ \A u \in parents[Gate] : status[u] = "done"
            \/ \E a \in Actors : OpenGate(a) \/ UnblockGate(a)
            \/ \E a \in Actors : ReblockGate(a) /\ status'[Gate] = "blocked"
<1> USE DEF Rests, TypesOK
<1>1. Gate \in Created BY ReviewedNames
<1>2. Gate \in Created' BY <1>1, BoardSteps DEF BoardMoves
<1> DEFINE Quiet == \A t \in Created \ {Gate} : status[t] \in Waiting => status'[t] \in Waiting
           Same == \/ status'[Gate] = status[Gate]
                   \/ status[Gate] = "todo" /\ status'[Gate] = "ready" /\ \A u \in parents[Gate] : status[u] = "done"
<1>3. CASE UNCHANGED <<status, parents>> BY <1>1, <1>2, <1>3
<1>4. ~Release BY DEF Release, FreshOK
<1>5. ASSUME NEW a \in Actors, OpenGate(a) \/ UnblockGate(a)
      PROVE  Quiet /\ parents[Gate] \subseteq parents'[Gate]
  <2>1. Open(Gate) /\ UNCHANGED parents BY <1>5 DEF OpenGate, UnblockGate
  <2> QED BY <1>1, <2>1, OpenMoves DEF Waiting
<1>6. ASSUME NEW a \in Actors, ReblockGate(a)
      PROVE  /\ Quiet /\ parents[Gate] \subseteq parents'[Gate]
             /\ status'[Gate] = status[Gate] \/ status'[Gate] = "blocked"
  BY <1>1, <1>6 DEF ReblockGate, BoardOK
<1>7. ASSUME NEW a \in Actors, CreateRework(a) \/ CreateReview(a)
      PROVE  Quiet /\ parents[Gate] \subseteq parents'[Gate] /\ Same
  <2>1. PICK k \in Later : Adds(a, k) BY <1>7, Additions
  <2>2. ASSUME NEW t, NEW r \in Created, Create(t, {r}), t # r
        PROVE  Quiet /\ parents[Gate] \subseteq parents'[Gate] /\ Same
    <3>1. {r} \in SUBSET (Created \ {t}) BY <2>2
    <3>2. \A u \in Created :
               /\ parents'[u] = parents[u]
               /\ \/ status'[u] = status[u]
                  \/ status[u] = "todo" /\ status'[u] = "ready" /\ \A v \in parents[u] : status[v] = "done"
      BY <2>2, <3>1, CreateMoves
    <3> QED BY <1>1, <3>2 DEF Waiting
  <2>3. Review(k - 1) \in Created BY <2>1 DEF Adds, VerdictsOK, DoneAt
  <2>4. Rework(k) # Review(k - 1) /\ Rework(k) # Review(k) BY DEF Rework, Review
  <2>5. CASE Create(Rework(k), {Review(k - 1)}) BY <2>2, <2>3, <2>4, <2>5
  <2>6. CASE Rework(k) \in Created /\ Create(Review(k), {Rework(k)})
    <3>1. Review(k) # Rework(k) BY <2>4
    <3> QED BY <2>2, <2>6, <3>1
  <2> QED BY <2>1, <2>5, <2>6 DEF Adds
<1>8. ASSUME NEW a \in Actors, LinkReview(a)
      PROVE  Quiet /\ parents[Gate] \subseteq parents'[Gate] /\ Same
  <2>1. /\ \A t \in Created : status'[t] = IF status[t] = "todo" /\ \A u \in parents'[t] : status[u] = "done"
                                            THEN "ready" ELSE status[t]
        /\ parents[Gate] \subseteq parents'[Gate]
    BY <1>1, <1>8, LinkMoves
  <2> QED BY <1>1, <2>1 DEF Waiting
<1>9. ASSUME NEW t \in live, Finishes(t)
      PROVE  /\ Quiet /\ parents[Gate] \subseteq parents'[Gate]
             /\ status'[Gate] = status[Gate] \/ (status[Gate] = "running" /\ status'[Gate] = "done")
  <2>1. Done(t) BY <1>9 DEF Finishes, WorkerDone, Reports, WorkerReports
  <2>2. status[t] = "running" /\ status' = [status EXCEPT ![t] = "done"] /\ UNCHANGED parents BY <2>1 DEF Done
  <2>3. \A u \in Created : status'[u] = IF u = t THEN "done" ELSE status[u] BY <2>2 DEF BoardOK
  <2> QED BY <1>1, <2>2, <2>3 DEF Waiting
<1> HIDE DEF Quiet, Same
<1>10. (Quiet => \A t \in Created \ {Gate} : status[t] \in Waiting => status'[t] \in Waiting)
       /\ (Same => \/ status'[Gate] = status[Gate]
                   \/ status[Gate] = "todo" /\ status'[Gate] = "ready" /\ \A u \in parents[Gate] : status[u] = "done")
  BY DEF Quiet, Same
<1>11. \/ UNCHANGED <<status, parents>> \/ \E t \in live : Finishes(t)
       \/ \E a \in Actors : \/ OpenGate(a) \/ UnblockGate(a) \/ ReblockGate(a)
                            \/ CreateRework(a) \/ CreateReview(a) \/ LinkReview(a)
  BY <1>4, StepFrames DEF Frames, BoardStep
<1>12. CASE \E a \in Actors : CreateRework(a) \/ CreateReview(a) \/ LinkReview(a)
  BY <1>1, <1>2, <1>7, <1>8, <1>10, <1>12
<1>13. CASE \E a \in Actors : OpenGate(a) \/ UnblockGate(a)
  BY <1>1, <1>2, <1>5, <1>10, <1>13
<1>14. CASE \E a \in Actors : ReblockGate(a)
  BY <1>1, <1>2, <1>6, <1>10, <1>14
<1>15. CASE \E t \in live : Finishes(t)
  BY <1>1, <1>2, <1>9, <1>10, <1>15
<1> QED BY <1>3, <1>11, <1>12, <1>13, <1>14, <1>15

\* At the first wave there is nothing of a later round.
LEMMA FirstWave ==
  ASSUME Rests, Dispatching, pc[Driver] = "start"
  PROVE  /\ Created \subseteq Ids(nodes) /\ children # {} /\ Created = children
         /\ outcome = "open" /\ DOMAIN verdict = {} /\ \A S : DoneReviews(S) \cap Created = {}
<1> USE DEF Rests, TypesOK
<1>1. Created \subseteq Ids(nodes) /\ children # {} /\ outcome = "open"
      /\ \A t \in Created : status[t] \in Waiting \cup {"blocked"}
  BY DEF FreshOK
<1>2. Created = children BY <1>1 DEF StagingOK, Mapping, Whole
<1>3. \A t \in Created : status[t] # "done" BY <1>1 DEF Waiting
<1>4. DOMAIN verdict = {}
  <2>1. DOMAIN verdict \subseteq Created /\ \A t \in DOMAIN verdict : status[t] = "done" BY DEF VerdictsOK, DoneAt
  <2> QED BY <1>3, <2>1
<1>5. \A S : DoneReviews(S) \cap Created = {} BY <1>3 DEF DoneReviews, DoneAt
<1> QED BY <1>1, <1>2, <1>4, <1>5

\* What is dispatched at a wave is so by the one tick there is, and it has all of the board.
LEMMA WaveHasAll ==
  ASSUME Rests, TickOK, Alone', Next, Dispatching, pc[Driver] # "start"
  PROVE  /\ pc[Driver] = "wave" /\ ~NoMoreWork /\ seen[Driver] = Created /\ (~full => children = Created)
         /\ pc[Observer] \notin InTick
         /\ UNCHANGED <<children, handled, outcome, full, Created>>
<1> USE DEF Rests, TypesOK
<1>1. AtWave BY DEF Dispatching, DispatchNone, DispatchSome
<1>2. pc[Driver] = "wave" /\ ~NoMoreWork BY <1>1 DEF AtWave
<1>3. Driver \in Actors /\ Observer \in Actors /\ Driver # Observer BY ReviewAssumption DEF Actors
<1>4. seen[Driver] = Created /\ (~full => children = Created) BY <1>2, <1>3 DEF TickOK, WatchOK, After
<1>5. pc[Observer] \notin InTick BY <1>2, <1>3 DEF TickOK, InTick
<1>6. UNCHANGED <<children, handled, outcome, full>> BY DEF Dispatching, DispatchNone, DispatchSome, events
<1>7. Created' = Created BY <1>4, DispatchMoves
<1> QED BY <1>2, <1>4, <1>5, <1>6, <1>7

LEMMA MineStays ==
  ASSUME LocalsOK, Next, NEW a \in Actors, ~Acts(a)
  PROVE  pc'[a] = pc[a] /\ seen'[a] = seen[a] /\ about'[a] = about[a] /\ judged'[a] = judged[a]
<1>1. ASSUME NEW b \in Actors, Acts(b)
      PROVE  pc'[a] = pc[a] /\ seen'[a] = seen[a] /\ about'[a] = about[a] /\ judged'[a] = judged[a]
  BY <1>1, OthersStay
<1>2. ASSUME NEW t \in live, Toils(t)
      PROVE  pc'[a] = pc[a] /\ seen'[a] = seen[a] /\ about'[a] = about[a] /\ judged'[a] = judged[a]
  BY <1>2, ToilsStay
<1> QED BY <1>1, <1>2, WhoActs DEF vars, locals

LEMMA WatchSteps ==
  ASSUME Rests, TickOK, Alone', Next, NEW a \in Actors
  PROVE  WatchOK(a)'
<1> USE DEF Rests, TypesOK
<1>1. CASE ~Acts(a)
  <2>1. pc'[a] = pc[a] /\ seen'[a] = seen[a] /\ about'[a] = about[a] BY <1>1, MineStays
  <2>2. CASE pc[a] \in InTick \ {"commit"}
    <3>1. UNCHANGED <<children, handled, outcome, full, Created>> BY <1>1, <2>2, Undisturbed
    <3>2. WatchOK(a) BY DEF TickOK
    <3> QED BY <2>1, <3>1, <3>2 DEF WatchOK
  <2>3. CASE pc[a] \notin InTick \ {"commit"}
    <3>1. pc'[a] \notin Before /\ pc'[a] \notin After /\ pc'[a] \notin Handling
      BY <2>1, <2>3 DEF Before, After, Handling, Asks, InTick
    <3> QED BY <3>1 DEF WatchOK
  <2> QED BY <2>2, <2>3
<1>2. ASSUME Acts(a) PROVE Moves(a) BY <1>2, TurnMoves
<1>3. WatchOK(a) BY DEF TickOK
<1>4. ASSUME pc'[a] \notin Before, pc'[a] \notin After, pc'[a] \notin Handling PROVE WatchOK(a)'
  BY <1>4 DEF WatchOK
<1>5. CASE pc'[a] \in {"commit", "idle", "end", "head", "record", "start"}
  BY <1>4, <1>5 DEF Before, After, Handling, Asks
<1>6. CASE Begin(a) /\ pc'[a] = "advance"
  <2>1. seen'[a] = children /\ UNCHANGED children BY <1>6 DEF Begin, LocalsOK, events
  <2> QED BY <1>6, <2>1 DEF WatchOK, Before, After, Handling, Asks
<1>7. CASE NothingToDo(a) /\ pc[a] = "advance" /\ pc'[a] = "quarantine"
  <2>1. Settled(a) /\ UNCHANGED <<children, full, Created>> /\ seen'[a] = seen[a]
    BY <1>7 DEF NothingToDo, events, board, Created
  <2>2. seen[a] = children /\ children # {}
    BY <1>3, <1>7 DEF WatchOK, Before, StagingOK, HandlingOK, InTick
  <2>3. children = Created
    <3>1. CASE Reviewing BY <1>7, <2>1, <3>1, NothingLeft
    <3>2. CASE ~Reviewing
      <4>1. Created \subseteq Ids(nodes) BY <3>2 DEF GraphOK
      <4> QED BY <2>2, <4>1 DEF StagingOK, Mapping, Whole
    <3> QED BY <3>1, <3>2
  <2> QED BY <1>7, <2>1, <2>2, <2>3 DEF WatchOK, Before, After, Handling, Asks
<1>8. CASE OpenGate(a) \/ UnblockGate(a) \/ CreateRework(a)
  <2>1. pc[a] = "advance" /\ ~Settled(a) BY <1>8 DEF OpenGate, UnblockGate, CreateRework
  <2>2. UNCHANGED <<children, full, handled, outcome>> /\ seen'[a] = seen[a] /\ about'[a] = Latest(seen[a])
    BY <1>8 DEF OpenGate, UnblockGate, CreateRework, LocalsOK, events
  <2>3. pc'[a] \in {"accepted", "hold", "review"}
    BY <1>8 DEF OpenGate, UnblockGate, CreateRework, LocalsOK, Goto
  <2>4. outcome = "open" /\ Latest(seen[a]) \notin handled BY <2>1, Unsettled
  <2>5. seen[a] = children BY <1>3, <2>1 DEF WatchOK, Before
  <2> QED BY <2>2, <2>3, <2>4, <2>5 DEF WatchOK, Before, After
<1>9. CASE ReblockGate(a) \/ CreateReview(a) \/ LinkReview(a)
  <2>1. pc[a] \in Before \cap Handling /\ pc'[a] \in Before \cap Handling
    BY <1>9 DEF ReblockGate, CreateReview, LinkReview, LocalsOK, Goto, Before, Handling, Asks
  <2>2. UNCHANGED <<children, full, handled, outcome>> /\ seen'[a] = seen[a] /\ about'[a] = about[a]
    BY <1>9 DEF ReblockGate, CreateReview, LinkReview, LocalsOK, events
  <2> QED BY <1>3, <2>1, <2>2 DEF WatchOK, Before, After
<1>10. CASE RecordOutcome(a) /\ pc[a] \in {"accepted", "held"} /\ pc'[a] = "quarantine"
  <2>1. UNCHANGED <<children, full, Created>> /\ seen'[a] = seen[a]
    BY <1>10 DEF RecordOutcome, board, Created
  <2>2. seen[a] = children /\ children # {} /\ Reviewing /\ children \subseteq Created
    BY <1>3, <1>10 DEF WatchOK, Before, StagingOK, HandlingOK, InTick, Handling, Mapping
  <2>3. children = Created BY <1>10, <2>2 DEF TickOK, UnrecordedOK
  <2> QED BY <1>10, <2>1, <2>2, <2>3 DEF WatchOK, Before, After, Handling, Asks
<1>11. CASE RecordRoot(a) /\ pc[a] = "root" /\ pc'[a] = "round"
  <2>1. /\ seen'[a] = seen[a] \cup {ReworkOf(about[a]), ReviewOf(about[a])}
        /\ children' = IF full THEN children ELSE seen'[a]
        /\ UNCHANGED <<handled, outcome, full, Created>> /\ about'[a] = about[a]
    BY <1>11 DEF RecordRoot, LocalsOK, board, Created
  <2>2. seen[a] = children /\ children # {} /\ Reviewing
    BY <1>3, <1>11 DEF WatchOK, Before, StagingOK, HandlingOK, InTick, Handling, Asks
  <2>3. ASSUME NEW t \in Created PROVE t \in seen'[a]
    <3>1. CASE t \in children BY <2>1, <2>2, <3>1
    <3>2. CASE t \notin children
      <4>1. t \in {ReworkOf(LastOf(children)), ReviewOf(LastOf(children))} /\ about[a] = LastOf(children)
        BY <1>11, <2>2, <3>2 DEF TickOK, UnrecordedOK, Asks
      <4> QED BY <2>1, <4>1
    <3> QED BY <3>1, <3>2
  <2>4. seen'[a] \subseteq Created
    <3>1. seen[a] \subseteq Created BY DEF LocalsOK
    <3>2. ReworkOf(about[a]) \in Created /\ ReviewOf(about[a]) \in Created
      BY <1>11 DEF StagingOK, HandlingOK, Asks
    <3> QED BY <2>1, <3>1, <3>2
  <2>5. seen'[a] = Created BY <2>3, <2>4
  <2>6. outcome = "open" /\ about[a] \notin handled BY <1>3, <1>11 DEF WatchOK, Handling, Asks
  <2> QED BY <1>11, <2>1, <2>5, <2>6 DEF WatchOK, Before, After, Handling, Asks
<1>12. CASE RecordRound(a) \/ Quarantine(a) \/ Close(a) \/ (a = Driver /\ WaveOver)
            \/ (a = Driver /\ Dispatching /\ pc[a] = "wave" /\ pc'[a] = "close")
  <2>1. pc[a] \in After /\ pc'[a] \in {"quarantine", "wave", "close", "judge"}
    BY <1>12 DEF RecordRound, Quarantine, Close, WaveOver, After, LocalsOK, Goto
  <2>2. UNCHANGED <<children, full>> /\ seen'[a] = seen[a]
    BY <1>12 DEF RecordRound, Quarantine, Close, WaveOver, Dispatching, DispatchNone, DispatchSome, events
  <2>3. Created' = Created
    <3>1. CASE RecordRound(a) \/ Quarantine(a) \/ Close(a) \/ WaveOver
      BY <3>1 DEF RecordRound, Quarantine, Close, WaveOver, board, Created
    <3>2. CASE Dispatching
      <4>1. seen[Driver] \subseteq Created BY DEF LocalsOK, Actors
      <4> QED BY <3>2, <4>1, DispatchMoves
    <3> QED BY <1>12, <3>1, <3>2
  <2> QED BY <1>3, <2>1, <2>2, <2>3 DEF WatchOK, Before, After, Handling, Asks
<1>13. CASE Acts(a)
  BY <1>2, <1>5, <1>6, <1>7, <1>8, <1>9, <1>10, <1>11, <1>12, <1>13 DEF Moves
<1> QED BY <1>1, <1>13

\* The review that a new task is for is the last of the mapping.
LEMMA AddsToLast ==
  ASSUME Rests, TickOK, NEW a \in Actors, NEW k \in Later, Adds(a, k), children # {}, Created' # Created
  PROVE  LastOf(children) = Review(k - 1) /\ seen[a] = children
<1> USE DEF Rests, TypesOK
<1>1. pc[a] \in {"advance", "review"} BY DEF Adds, CreateRework, CreateReview
<1>2. seen[a] = children BY <1>1 DEF TickOK, WatchOK, Before
<1>3. Review(k - 1) \in children BY <1>2 DEF Adds
<1>4. Review(k) \notin Created
  <2>1. CASE Created' = Created \cup {Rework(k)}
    <3>1. Rework(k) \notin Created BY <2>1
    <3> QED BY <3>1 DEF Adds, StagingOK
  <2>2. CASE Created' = Created \cup {Review(k)} BY <2>2
  <2> QED BY <2>1, <2>2 DEF Adds
<1>5. Review(k) \notin children BY <1>4 DEF StagingOK, Mapping
<1>6. PICK n \in Nat : n = ReviewCount(children) /\ {t \in children : Kind(t) = "review"} = {Review(j) : j \in 1 .. n}
  BY DEF StagingOK, Mapping, Whole, Numbered, Adds
<1>7. \A j : Kind(Review(j)) = "review" BY DEF Kind, Review
<1>8. k \in Nat \ {0, 1} BY ReviewedNames DEF Adds
<1>9. PICK j \in 1 .. n : Review(k - 1) = Review(j) BY <1>3, <1>6, <1>7
<1>10. j = k - 1 BY <1>9 DEF Review
<1>11. ASSUME k <= n PROVE FALSE
  <2>1. k \in 1 .. n BY <1>8, <1>11
  <2>2. Review(k) \in children BY <1>6, <2>1
  <2> QED BY <1>5, <2>2
<1>12. n = k - 1 BY <1>8, <1>9, <1>10, <1>11
<1> QED BY <1>2, <1>6, <1>12 DEF LastOf

LEMMA UnrecordedSteps ==
  ASSUME Rests, TickOK, Alone', Next, Reviewing
  PROVE  UnrecordedOK'
<1> USE DEF Rests, TypesOK
<1> SUFFICES ASSUME NEW t \in Created' \ children', children' # {}
             PROVE  /\ t \in {ReworkOf(LastOf(children')), ReviewOf(LastOf(children'))}
                    /\ outcome' = "open" /\ LastOf(children') \notin handled'
                    /\ ~full' => status'[t] \in Waiting
                    /\ \A a \in Actors : /\ pc'[a] \notin {"accepted", "hold", "held"}
                                         /\ pc'[a] \in Asks \ {"round"} => about'[a] = LastOf(children')
  BY DEF UnrecordedOK, LastOf
<1>1. children # {}
  <2> SUFFICES ASSUME children = {} PROVE FALSE OBVIOUS
  <2>1. ~\E a \in Actors : RecordRoot(a)
    BY DEF RecordRoot, StagingOK, HandlingOK, InTick, FreshOK
  <2>2. RecordPlan BY <2>1, StepFrames DEF Frames
  <2>3. children' = Ids(nodes) /\ Created' = Created BY <2>2 DEF RecordPlan, board, Created
  <2>4. Created \subseteq Ids(nodes) BY DEF FreshOK
  <2> QED BY <2>3, <2>4
<1>2. ~RecordPlan /\ ~Release BY <1>1 DEF RecordPlan, Release, FreshOK
<1>3. ASSUME t \in Created
      PROVE  t \notin children /\ children' = children
  <2>1. CASE children' = children BY <1>3, <2>1
  <2>2. ASSUME NEW a \in Actors, RecordRoot(a), children' # children PROVE FALSE
    <3>1. pc'[a] = "round" /\ full' = full /\ Created' = Created
      BY <2>2 DEF RecordRoot, Goto, LocalsOK, board, Created
    <3>2. ~full BY <2>2 DEF RecordRoot
    <3>3. WatchOK(a)' BY WatchSteps
    <3>4. children' = Created' BY <3>1, <3>2, <3>3 DEF WatchOK, After
    <3> QED BY <3>4
  <2> QED BY <1>2, <1>3, <2>1, <2>2, StepFrames DEF Frames
<1>4. CASE t \in Created
  <2>1. t \notin children /\ children' = children BY <1>3, <1>4
  <2>2. /\ t \in {ReworkOf(LastOf(children)), ReviewOf(LastOf(children))}
        /\ outcome = "open" /\ LastOf(children) \notin handled
        /\ ~full => status[t] \in Waiting
        /\ \A a \in Actors : /\ pc[a] \notin {"accepted", "hold", "held"}
                             /\ pc[a] \in Asks \ {"round"} => about[a] = LastOf(children)
    BY <1>1, <1>4, <2>1 DEF TickOK, UnrecordedOK
  <2>3. /\ DoneReviews(children) # {} /\ Latest(children) = LastOf(children)
        /\ verdict[LastOf(children)] = "reject" /\ ~SelfReview
        /\ ReviewCount(children) \in Nat /\ ReviewCount(children) < request.cycles
    BY <1>1, <1>4, <2>1, UnrecordedIs DEF TickOK
  <2>4. outcome' = outcome /\ handled' = handled
    <3>1. ASSUME NEW a \in Actors, RecordOutcome(a) PROVE FALSE BY <2>2, <3>1 DEF RecordOutcome
    <3>2. ASSUME NEW a \in Actors, RecordRound(a) PROVE handled' = handled /\ outcome' = outcome
      <4>1. pc[a] = "round" BY <3>2 DEF RecordRound
      <4>2. full BY <1>4, <2>1, <4>1 DEF TickOK, WatchOK, After
      <4> QED BY <3>2, <4>2 DEF RecordRound
    <3> QED BY <3>1, <3>2, StepFrames DEF Frames
  <2>5. ASSUME ~full' PROVE status'[t] \in Waiting
    <3>1. ~full
      <4>1. ASSUME NEW a \in Actors, Commit(a) PROVE full' \in {full, TRUE} BY <4>1 DEF Commit
      <4> QED BY <2>5, <4>1, StepFrames DEF Frames, EventsOK
    <3>2. status[t] \in Waiting BY <2>2, <3>1
    <3>3. ~Dispatching
      <4>1. CASE pc[Driver] = "start" /\ Dispatching BY <1>4, <2>1, <4>1, FirstWave
      <4>2. CASE pc[Driver] # "start" /\ Dispatching BY <1>4, <2>1, <3>1, <4>2, WaveHasAll
      <4> QED BY <4>1, <4>2
    <3>4. t # Gate BY <2>2 DEF ReworkOf, ReviewOf, Gate
    <3> QED BY <1>4, <3>2, <3>3, <3>4, QuietMoves
  <2>6. ASSUME NEW a \in Actors, ~Acts(a)
        PROVE  /\ pc'[a] \notin {"accepted", "hold", "held"}
               /\ pc'[a] \in Asks \ {"round"} => about'[a] = LastOf(children)
    BY <2>2, <2>6, MineStays
  <2>7. ASSUME NEW a \in Actors, Acts(a)
        PROVE  /\ pc'[a] \notin {"accepted", "hold", "held"}
               /\ pc'[a] \in Asks \ {"round"} => about'[a] = LastOf(children)
    <3>1. Moves(a) BY <2>7, TurnMoves
    <3>2. pc[a] = "advance" => seen[a] = children BY DEF TickOK, WatchOK, Before
    <3>3. ~OpenGate(a) BY <2>3, <3>2 DEF OpenGate, Accepting
    <3>4. ~UnblockGate(a)
      <4>1. request.cycles \in Nat BY ReviewAssumption DEF GraphOK
      <4> QED BY <2>3, <3>2, <4>1 DEF UnblockGate, Exhausted
    <3>5. ~ReblockGate(a) BY <2>2 DEF ReblockGate
    <3>6. CASE CreateRework(a)
      <4>1. pc'[a] = "review" /\ about'[a] = Latest(seen[a]) /\ pc[a] = "advance"
        BY <3>6 DEF CreateRework, Goto, LocalsOK
      <4> QED BY <2>3, <3>2, <4>1
    <3>7. CASE CreateReview(a) \/ LinkReview(a)
      <4>1. pc[a] \in Asks \ {"round"} /\ about'[a] = about[a] /\ pc'[a] \in {"link", "root"}
        BY <3>7 DEF CreateReview, LinkReview, Asks, Goto, LocalsOK
      <4> QED BY <2>2, <4>1
    <3>8. CASE pc'[a] \notin {"accepted", "hold", "held"} \cup (Asks \ {"round"}) BY <3>8
    <3> QED BY <3>1, <3>3, <3>4, <3>5, <3>6, <3>7, <3>8 DEF Moves, Asks
  <2> QED BY <2>1, <2>2, <2>4, <2>5, <2>6, <2>7
<1>5. CASE t \notin Created
  <2>1. PICK b \in Actors, k \in Later : Adds(b, k) BY <1>2, <1>5, CreatedIs
  <2>2. LastOf(children) = Review(k - 1) /\ seen[b] = children BY <1>1, <1>5, <2>1, AddsToLast
  <2>3. UNCHANGED <<children, handled, outcome, full>>
    BY <2>1 DEF Adds, CreateRework, CreateReview, events
  <2>4. k \in Nat \ {0, 1} BY ReviewedNames
  <2>5. t \in {Rework(k), Review(k)} BY <1>5, <2>1 DEF Adds
  <2>6. ReworkOf(Review(k - 1)) = Rework(k) /\ ReviewOf(Review(k - 1)) = Review(k)
    BY <2>4 DEF ReworkOf, ReviewOf, Rework, Review
  <2>7. outcome = "open" /\ Review(k - 1) \notin handled
    <3>1. CASE CreateRework(b) /\ Latest(seen[b]) = Review(k - 1)
      <4>1. pc[b] = "advance" /\ ~Settled(b) BY <3>1 DEF CreateRework
      <4> QED BY <3>1, <4>1, Unsettled
    <3>2. CASE CreateReview(b) /\ about[b] = Review(k - 1)
      <4>1. pc[b] = "review" BY <3>2 DEF CreateReview
      <4> QED BY <3>2, <4>1 DEF TickOK, WatchOK, Handling, Asks
    <3> QED BY <2>1, <3>1, <3>2 DEF Adds
  <2>8. status'[t] \in Waiting
    <3>1. t \in Created' \ Created /\ t # Gate BY <1>5, <2>5 DEF Rework, Review, Gate
    <3>2. PICK r : r \in Created /\ r # t /\ Create(t, {r})
      <4>1. CASE Create(Rework(k), {Review(k - 1)}) /\ Created' = Created \cup {Rework(k)}
        <5>1. Review(k - 1) \in Created BY <2>1 DEF Adds, VerdictsOK, DoneAt
        <5> QED BY <1>5, <4>1, <5>1
      <4>2. CASE Rework(k) \in Created /\ Create(Review(k), {Rework(k)}) /\ Created' = Created \cup {Review(k)}
        BY <1>5, <4>2
      <4> QED BY <2>1, <4>1, <4>2 DEF Adds
    <3>3. {r} \in SUBSET (Created \ {t}) BY <3>2
    <3> QED BY <1>5, <3>2, <3>3, CreateMoves DEF Waiting
  <2>9. Acts(b) /\ pc'[b] \in {"review", "link"} /\ about'[b] = Review(k - 1)
    <3>1. Acts(b) BY <2>1 DEF Adds, Acts, Tick, Advance
    <3>2. pc'[b] \in {"review", "link"} BY <2>1 DEF Adds, CreateRework, CreateReview, Goto, LocalsOK
    <3> QED BY <2>1, <3>1, <3>2 DEF Adds
  <2>10. \A a \in Actors \ {b} : pc'[a] \notin InTick
    <3>1. pc'[b] \in InTick BY <2>9 DEF InTick
    <3> QED BY <2>9, <3>1, MyTurn
  <2>11. \A a \in Actors : /\ pc'[a] \notin {"accepted", "hold", "held"}
                           /\ pc'[a] \in Asks \ {"round"} => about'[a] = Review(k - 1)
    BY <2>9, <2>10 DEF InTick, Asks
  <2> QED BY <2>2, <2>3, <2>5, <2>6, <2>7, <2>8, <2>11
<1> QED BY <1>4, <1>5

LEMMA OrphanSteps ==
  ASSUME Rests, TickOK, Alone', Next, Reviewing, NEW k \in Later
  PROVE  OrphanOK(k)'
<1> USE DEF Rests, TypesOK
<1> SUFFICES ASSUME Review(k) \in children', Review(k - 1) \notin handled'
             PROVE  /\ status'[Review(k)] \in Waiting /\ outcome' = "open" /\ ~full'
                    /\ \A a \in Actors :
                          /\ pc'[a] \notin {"accepted", "quarantine", "wave", "close", "judge", "commit"}
                          /\ pc'[a] \in Handling => about'[a] = Review(k - 1)
  BY DEF OrphanOK, Orphan
<1>1. k \in Nat \ {0, 1} /\ Review(k) \notin Ids(nodes) /\ Review(k) # Gate
  BY ReviewedNames DEF Review, Gate
<1>2. Review(k - 1) \notin handled
  <2>1. ASSUME NEW a \in Actors, RecordOutcome(a) \/ RecordRound(a) PROVE handled \subseteq handled'
    BY <2>1 DEF RecordOutcome, RecordRound
  <2> QED BY <2>1, StepFrames DEF Frames
<1>3. ~RecordPlan BY <1>1 DEF RecordPlan
<1>4. CASE Review(k) \notin children
  <2>1. PICK a \in Actors : RecordRoot(a) BY <1>3, <1>4, StepFrames DEF Frames
  <2>2. /\ pc[a] = "root" /\ pc'[a] = "round" /\ ~full /\ about'[a] = about[a]
        /\ children' = seen'[a] /\ seen'[a] = seen[a] \cup {ReworkOf(about[a]), ReviewOf(about[a])}
        /\ UNCHANGED <<status, outcome, full>> /\ Acts(a)
    BY <1>4, <2>1 DEF RecordRoot, Goto, LocalsOK, board, Acts, Tick, Advance
  <2>3. seen[a] = children /\ children # {}
    BY <2>2 DEF TickOK, WatchOK, Before, StagingOK, HandlingOK, InTick
  <2>4. Review(k) = ReviewOf(about[a]) BY <1>4, <2>2, <2>3 DEF ReworkOf, ReviewOf, Review
  <2>5. about[a] = Review(k - 1)
    <3>1. PICK i \in Nat : about[a] = Review(i) BY <2>2 DEF StagingOK, HandlingOK, Handling, Asks
    <3> QED BY <1>1, <2>4, <3>1 DEF ReviewOf, Review
  <2>6. ReviewOf(about[a]) \in Created BY <2>2 DEF StagingOK, HandlingOK, Asks
  <2>7. status[Review(k)] \in Waiting /\ outcome = "open"
    BY <1>4, <2>2, <2>3, <2>4, <2>6 DEF TickOK, UnrecordedOK
  <2>8. pc'[a] \in InTick BY <2>2 DEF InTick
  <2>9. \A b \in Actors \ {a} : pc'[b] \notin InTick BY <2>2, <2>8, MyTurn
  <2> QED BY <2>2, <2>5, <2>7, <2>9 DEF InTick, Handling, Asks
<1>5. CASE Review(k) \in children
  <2>1. /\ status[Review(k)] \in Waiting /\ outcome = "open" /\ ~full
        /\ \A a \in Actors :
              /\ pc[a] \notin {"accepted", "quarantine", "wave", "close", "judge", "commit"}
              /\ pc[a] \in Handling => about[a] = Review(k - 1)
    BY <1>2, <1>5 DEF TickOK, OrphanOK, Orphan
  <2>2. Latest(children) = Review(k - 1) /\ verdict[Review(k - 1)] = "reject"
    BY <1>2, <1>5, OrphanIs DEF TickOK, Orphan
  <2>3. ~Dispatching
    <3>1. CASE Dispatching /\ pc[Driver] = "start" BY <1>1, <1>5, <3>1, FirstWave
    <3>2. CASE Dispatching /\ pc[Driver] # "start" BY <2>1, <3>2, WaveHasAll DEF Actors
    <3> QED BY <3>1, <3>2
  <2>4. Review(k) \in Created /\ Created # {} BY <1>5 DEF StagingOK, Mapping
  <2>5. status'[Review(k)] \in Waiting BY <1>1, <2>1, <2>3, <2>4, QuietMoves
  <2>6. ASSUME NEW a \in Actors PROVE ~RecordOutcome(a) /\ ~RecordRound(a)
    <3>1. ASSUME RecordOutcome(a) \/ RecordRound(a) PROVE about[a] = Review(k - 1)
      BY <2>1, <3>1 DEF RecordOutcome, RecordRound, Handling, Asks
    <3>2. ASSUME RecordOutcome(a) \/ RecordRound(a) PROVE about[a] \in handled'
      BY <2>1, <3>2 DEF RecordOutcome, RecordRound
    <3> QED BY <3>1, <3>2
  <2>7. outcome' = "open" BY <2>1, <2>6, StepFrames DEF Frames
  <2>8. ASSUME NEW a \in Actors PROVE ~Commit(a) BY <2>1 DEF Commit
  <2>9. ~full' BY <2>1, <2>8, StepFrames DEF Frames
  <2>10. ASSUME NEW a \in Actors, ~Acts(a)
         PROVE  /\ pc'[a] \notin {"accepted", "quarantine", "wave", "close", "judge", "commit"}
                /\ pc'[a] \in Handling => about'[a] = Review(k - 1)
    BY <2>1, <2>10, MineStays
  <2>11. ASSUME NEW a \in Actors, Acts(a)
         PROVE  /\ pc'[a] \notin {"accepted", "quarantine", "wave", "close", "judge", "commit"}
                /\ pc'[a] \in Handling => about'[a] = Review(k - 1)
    <3>1. Moves(a) BY <2>11, TurnMoves
    <3>2. pc[a] = "advance" => seen[a] = children BY DEF TickOK, WatchOK, Before
    <3>3. ~OpenGate(a) BY <2>2, <3>2 DEF OpenGate, Accepting
    <3>4. ~NothingToDo(a)
      <4>1. pc[a] = "advance" /\ Settled(a) => ~Orphan(k) BY NothingLeft
      <4> QED BY <1>2, <1>5, <4>1 DEF NothingToDo, Orphan
    <3>5. CASE UnblockGate(a) \/ CreateRework(a)
      <4>1. pc[a] = "advance" /\ about'[a] = Latest(seen[a]) /\ pc'[a] \in {"hold", "review"}
        BY <3>5 DEF UnblockGate, CreateRework, Goto, LocalsOK
      <4> QED BY <2>2, <3>2, <4>1
    <3>6. CASE ReblockGate(a) \/ CreateReview(a) \/ LinkReview(a) \/ RecordRoot(a)
      <4>1. pc[a] \in Handling /\ about'[a] = about[a] /\ pc'[a] \in {"held", "link", "root", "round"}
        BY <3>6 DEF ReblockGate, CreateReview, LinkReview, RecordRoot, Handling, Asks, Goto, LocalsOK
      <4> QED BY <2>1, <4>1
    <3>7. CASE Begin(a) /\ pc'[a] = IF children = {} THEN "commit" ELSE "advance"
      <4>1. pc'[a] = "advance" BY <1>5, <3>7
      <4> QED BY <4>1 DEF Handling, Asks
    <3>8. ~Quarantine(a) /\ ~Close(a) /\ ~Judge(a) BY <2>1 DEF Quarantine, Close, Judge
    <3>9. a = Driver => ~WaveOver /\ ~Dispatching BY <2>1, <2>3 DEF WaveOver
    <3>10. CASE pc'[a] \in {"end", "record", "head", "start"} BY <3>10 DEF Handling, Asks
    <3> QED BY <2>6, <2>8, <3>1, <3>3, <3>4, <3>5, <3>6, <3>7, <3>8, <3>9, <3>10 DEF Moves
  <2> QED BY <2>5, <2>7, <2>9, <2>10, <2>11
<1> QED BY <1>4, <1>5

LEMMA TickSteps ==
  ASSUME Rests, TickOK, Alone', Next
  PROVE  TickOK'
<1> USE DEF Rests, TypesOK
<1>1. Driver \in Actors /\ Observer \in Actors /\ Driver # Observer BY ReviewAssumption DEF Actors
<1>2. ASSUME ~disturbed' PROVE pc'[Observer] = "idle" /\ ~full'
  <2>1. ~disturbed BY <1>2, TypesSteps
  <2>2. pc[Observer] = "idle" /\ ~full BY <2>1 DEF TickOK
  <2>3. ~Acts(Observer)
    <3> SUFFICES ASSUME Acts(Observer) PROVE FALSE OBVIOUS
    <3>1. Moves(Observer) BY <1>1, TurnMoves
    <3>2. Begin(Observer) BY <1>1, <2>2, <3>1 DEF Moves
    <3> QED BY <1>2, <3>2 DEF Begin
  <2>4. pc'[Observer] = "idle" BY <1>1, <2>2, <2>3, MineStays
  <2>5. ASSUME NEW a \in Actors, Commit(a) PROVE ~full'
    <3>1. disturbed' = (disturbed \/ full') /\ full' \in {full, TRUE} BY <2>5 DEF Commit
    <3> QED BY <1>2, <2>2, <3>1
  <2> QED BY <2>2, <2>4, <2>5, StepFrames DEF Frames
<1>3. ASSUME NEW a \in Actors, NEW b \in Actors, a # b, pc'[a] \in InTick, pc'[b] \in InTick PROVE FALSE
  <2>1. ASSUME NEW c \in Actors, NEW d \in Actors, c # d, Acts(c), pc'[c] \in InTick PROVE pc'[d] \notin InTick
    BY <2>1, MyTurn
  <2>2. ~Acts(a) /\ ~Acts(b) BY <1>3, <2>1
  <2>3. pc[a] \in InTick /\ pc[b] \in InTick BY <1>3, <2>2, MineStays
  <2> QED BY <1>3, <2>3 DEF TickOK
<1>4. UNCHANGED asked BY AskedFrame
<1>5. PICK L : L = Later BY Zenon
<1>6. request' = request /\ Later' = L /\ (Reviewing' <=> Reviewing) BY <1>4, <1>5 DEF asked, Later, Reviewing
<1>7. \A a \in Actors : WatchOK(a)' BY WatchSteps
<1>8. Reviewing => UnrecordedOK' BY UnrecordedSteps
<1>9. Reviewing => \A k \in L : OrphanOK(k)' BY <1>5, OrphanSteps
<1> QED BY <1>2, <1>3, <1>6, <1>7, <1>8, <1>9 DEF TickOK

--------------------------------------------------------------------------------
(* The gate.                                                                       *)

LEMMA ToilsMove ==
  ASSUME BoardOK, NEW t \in live, Toils(t)
  PROVE  \A u \in Created : status'[u] = status[u] \/ (status[u] = "running" /\ status'[u] = "done")
<1>1. CASE Done(t)
  <2>1. status[t] = "running" /\ status' = [status EXCEPT ![t] = "done"] BY <1>1 DEF Done
  <2> QED BY <2>1 DEF BoardOK
<1>2. CASE UNCHANGED status BY <1>2
<1>3. Done(t) \/ UNCHANGED status
  BY DEF Toils, WorkerDone, Reports, WorkerReports, WorkerExits, WorkerExpands, WorkerDies
<1> QED BY <1>1, <1>2, <1>3

\* Of the reviews after the latest that is done there is at most the next, and it waits.
LEMMA NothingLater ==
  ASSUME Rests, TickOK, Reviewing, DoneReviews(children) # {}, Latest(children) \notin handled
  PROVE  \E l \in Nat : /\ Latest(children) = Review(l) /\ Review(l) \in DoneReviews(children)
                        /\ \A j \in Nat : Review(j) \in children /\ j > l =>
                              /\ j = l + 1 /\ j \in Later /\ Orphan(j)
                              /\ status[Review(j)] \in Waiting
<1> USE DEF Rests, TypesOK
<1>1. children # {} /\ children \subseteq Created /\ Mapping(children)
  BY DEF StagingOK, Mapping, DoneReviews, DoneAt
<1>2. PICK l \in 1 .. ReviewCount(children) :
               /\ Latest(children) = Review(l) /\ Latest(children) \in DoneReviews(children)
               /\ \A j \in Nat : Review(j) \in DoneReviews(children) => j <= l
  BY <1>1, LatestIs
<1>3. ReviewCount(children) \in Nat /\ l \in Nat \ {0} BY <1>1, LatestIs
<1>4. \A j : Kind(Review(j)) = "review" BY DEF Kind, Review
<1>5. ASSUME NEW j \in Nat, Review(j) \in children, j > l
      PROVE  /\ j = l + 1 /\ j \in Later /\ Orphan(j)
             /\ status[Review(j)] \in Waiting
  <2>1. Review(j) \in Created BY <1>1, <1>5
  <2>2. j \in Later
    <3>1. Review(j) \in Names BY <2>1, ReviewedNames
    <3>2. Review(j) \notin Works(request) BY <1>4, ReviewedGraph DEF GraphOK
    <3>3. j # 1 BY <1>3, <1>5
    <3> QED BY <3>1, <3>2, <3>3 DEF Names, Review, Rework, Gate, Final
  <2>3. Behind(j) BY <2>1, <2>2, EarlierDone DEF StagingOK
  <2>4. ASSUME j # l + 1 PROVE FALSE
    <3>1. l + 1 \in 1 .. j - 1 BY <1>3, <1>5, <2>4
    <3>2. status[Review(l + 1)] = "done" BY <2>3, <3>1 DEF Behind
    <3>3. PICK n \in Nat : {u \in children : Kind(u) = "review"} = {Review(i) : i \in 1 .. n}
      BY <1>1 DEF Mapping, Whole, Numbered
    <3>4. j \in 1 .. n
      <4>1. PICK i \in 1 .. n : Review(j) = Review(i) BY <1>4, <1>5, <3>3
      <4> QED BY <4>1 DEF Review
    <3>5. l + 1 \in 1 .. n BY <1>3, <3>1, <3>4
    <3>6. Review(l + 1) \in children BY <3>3, <3>5
    <3>7. Review(l + 1) \in DoneReviews(children) BY <1>4, <3>2, <3>6 DEF DoneReviews, DoneAt, ReviewKinds
    <3> QED BY <1>2, <1>3, <3>7
  <2>5. Orphan(j)
    <3>1. j - 1 = l BY <1>3, <2>4
    <3> QED BY <1>2, <1>5, <3>1 DEF Orphan
  <2>6. status[Review(j)] \in Waiting BY <2>2, <2>5 DEF TickOK, OrphanOK
  <2> QED BY <2>2, <2>4, <2>5, <2>6
<1> QED BY <1>2, <1>3, <1>5

\* So it stays the latest until an event names it.
LEMMA LatestStays ==
  ASSUME Rests, TickOK, Next, Reviewing, DoneReviews(children) # {}, Latest(children) \notin handled,
         UNCHANGED children
  PROVE  /\ DoneReviews(children)' # {} /\ Latest(children)' = Latest(children)
         /\ verdict'[Latest(children)] = verdict[Latest(children)]
<1> USE DEF Rests, TypesOK
<1>1. PICK l \in Nat : /\ Latest(children) = Review(l) /\ Review(l) \in DoneReviews(children)
                       /\ \A j \in Nat : Review(j) \in children /\ j > l => status[Review(j)] \in Waiting
  BY NothingLater
<1>2. children \subseteq Created BY DEF StagingOK, Mapping
<1>3. BoardMoves BY BoardSteps
<1>4. ASSUME NEW u \in children, status'[u] = "done", Kind(u) \in ReviewKinds
      PROVE  \E j \in Nat : u = Review(j) /\ j <= l
  <2>1. PICK j \in Nat : u = Review(j) BY <1>2, <1>4, ReviewedNames
  <2>2. status[u] = "done" \/ status[u] = "running" BY <1>2, <1>3, <1>4 DEF BoardMoves
  <2>3. j <= l BY <1>1, <1>4, <2>1, <2>2 DEF Waiting
  <2> QED BY <2>1, <2>3
<1>5. Review(l) \in children /\ status[Review(l)] = "done" /\ Kind(Review(l)) \in ReviewKinds
  BY <1>1 DEF DoneReviews, DoneAt
<1>6. status'[Review(l)] = "done" BY <1>2, <1>3, <1>5 DEF BoardMoves
<1> DEFINE D == DoneReviews(children)'
<1>7. D = {u \in children : status'[u] = "done" /\ Kind(u) \in ReviewKinds} BY DEF DoneReviews, DoneAt
<1>8. Review(l) \in D BY <1>5, <1>6, <1>7
<1>9. Latest(children)' = CHOOSE t \in D : \A u \in D : u[2] <= t[2] BY DEF Latest
<1>10. \A u \in D : \E j \in Nat : u = Review(j) /\ j <= l BY <1>4, <1>7
<1> HIDE DEF D
<1>11. \A u \in D : u[2] \in Nat /\ u[2] <= l /\ (u[2] = l => u = Review(l)) BY <1>10 DEF Review
<1>12. Review(l)[2] = l BY DEF Review
<1>13. Latest(children)' = Review(l) BY <1>8, <1>9, <1>11, <1>12
<1>14. Review(l) \in DOMAIN verdict BY <1>2, <1>5 DEF VerdictsOK, DoneAt
<1>15. verdict'[Review(l)] = verdict[Review(l)] BY <1>14, VerdictsSteps
<1> QED BY <1>1, <1>8, <1>13, <1>15 DEF D

LEMMA HaltingStays ==
  ASSUME Next, NEW r, UNCHANGED children, verdict'[r] = verdict[r], Halting(r)
  PROVE  Halting(r)'
<1>1. request' = request /\ nodes' = nodes BY AskedFrame DEF asked
<1>2. SelfReview' <=> SelfReview BY <1>1 DEF SelfReview
<1>3. ReviewCount(children)' = ReviewCount(children) BY DEF ReviewCount
<1> QED BY <1>1, <1>2, <1>3 DEF Halting

\* An outcome other than acceptance makes the gate wait at most for a staged review.
LEMMA UnblockHolds ==
  ASSUME Rests, TickOK, Next, Reviewing, NEW a \in Actors, UnblockGate(a)
  PROVE  /\ outcome = "open" /\ DoneReviews(children) # {} /\ Latest(children) \notin handled
         /\ Halting(Latest(children)) /\ about'[a] = Latest(children)
         /\ UNCHANGED <<children, handled, outcome, parents>>
         /\ status'[Gate] = "todo" => \E k \in Later : Orphan(k) /\ Review(k) \in parents[Gate]
<1> USE DEF Rests, TypesOK
<1>1. pc[a] = "advance" /\ ~Settled(a) BY DEF UnblockGate
<1>2. seen[a] = children BY <1>1 DEF TickOK, WatchOK, Before
<1>3. /\ outcome = "open" /\ Latest(children) \notin handled
      /\ Latest(children) \in DoneReviews(children) /\ Latest(children) \in Created
  BY <1>1, <1>2, Unsettled
<1>4. about'[a] = Latest(children) /\ UNCHANGED <<children, handled, outcome, parents>>
  BY <1>2 DEF UnblockGate, LocalsOK, events
<1>5. Halting(Latest(children)) BY <1>2 DEF UnblockGate, Halting, Exhausted, Accepting
<1>6. ASSUME status'[Gate] = "todo" PROVE \E k \in Later : Orphan(k) /\ Review(k) \in parents[Gate]
  <2>1. Gate \in Created BY <1>3, ReviewedNames
  <2>2. Open(Gate) BY DEF UnblockGate
  <2>3. PICK u \in parents[Gate] : status[u] # "done" BY <1>4, <1>6, <2>1, <2>2, OpenMoves
  <2>4. u \in Created /\ Kind(u) = "review" BY <2>1, <2>3 DEF BoardOK, ParentsOK
  <2>5. PICK j \in Nat : u = Review(j) BY <2>4, ReviewedNames DEF ReviewKinds
  <2>6. PICK l \in Nat : /\ Latest(children) = Review(l) /\ Review(l) \in DoneReviews(children)
                         /\ \A i \in Nat : Review(i) \in children /\ i > l => i \in Later /\ Orphan(i)
    BY <1>3, NothingLater
  <2>7. u \in children
    <3> SUFFICES ASSUME u \notin children PROVE FALSE OBVIOUS
    <3>1. children # {} BY <1>3 DEF DoneReviews, DoneAt
    <3>2. /\ verdict[Latest(children)] = "reject" /\ ~SelfReview
          /\ ReviewCount(children) \in Nat /\ ReviewCount(children) < request.cycles
      BY <2>4, <3>1, UnrecordedIs DEF TickOK
    <3>3. request.cycles \in Nat BY ReviewAssumption DEF GraphOK
    <3> QED BY <1>5, <3>2, <3>3 DEF Halting
  <2>8. j > l
    <3> SUFFICES ASSUME ~(j > l) PROVE FALSE OBVIOUS
    <3>1. j # l BY <2>3, <2>5, <2>6 DEF DoneReviews, DoneAt
    <3>2. j < l BY <3>1
    <3>3. Review(l) \in Created BY <1>3, <2>6
    <3>4. \A i : Kind(Review(i)) = "review" BY DEF Kind, Review
    <3>5. j # 0
      <4>1. Review(j) \in Names BY <2>4, <2>5, ReviewedNames
      <4>2. Review(j) \notin Works(request) BY <3>4, ReviewedGraph DEF GraphOK
      <4>3. 0 \notin Later BY ReviewedNames
      <4> QED BY <4>1, <4>2, <4>3 DEF Names, Review, Rework, Gate, Final
    <3>6. l \in Later
      <4>1. Review(l) \in Names BY <3>3, ReviewedNames
      <4>2. Review(l) \notin Works(request) BY <3>4, ReviewedGraph DEF GraphOK
      <4>3. l # 1 BY <3>2, <3>5
      <4> QED BY <4>1, <4>2, <4>3 DEF Names, Review, Rework, Gate, Final
    <3>7. Behind(l) BY <3>3, <3>6, EarlierDone DEF StagingOK
    <3>8. j \in 1 .. l - 1 BY <3>2, <3>5
    <3> QED BY <2>3, <2>5, <3>7, <3>8 DEF Behind
  <2> QED BY <2>3, <2>5, <2>6, <2>7, <2>8
<1> QED BY <1>3, <1>4, <1>5, <1>6

LEMMA HoldSteps ==
  ASSUME Rests, TickOK, Alone', Next, Reviewing, NEW a \in Actors, HoldOK(a)
  PROVE  HoldOK(a)'
<1> USE DEF Rests, TypesOK
<1>1. PICK L : L = Later BY Zenon
<1>2. Later' = L BY <1>1, AskedFrame DEF Later, asked
<1>3. CASE pc'[a] \notin {"hold", "held"} BY <1>3 DEF HoldOK
<1>4. CASE pc[a] \in {"hold", "held"} /\ ~Acts(a)
  <2>1. pc[a] \in InTick \ {"commit"} BY <1>4 DEF InTick
  <2>2. /\ UNCHANGED <<children, handled, outcome, full, parents, Created>>
        /\ pc'[a] = pc[a] /\ about'[a] = about[a]
        /\ \/ Dispatching /\ pc[Driver] = "start"
           \/ UNCHANGED status
           \/ \E t \in live : Toils(t)
    BY <1>4, <2>1, Undisturbed
  <2>3. /\ about[a] = Latest(children) /\ Halting(about[a])
        /\ status[Gate] = "todo" => \E k \in Later : Orphan(k) /\ Review(k) \in parents[Gate]
        /\ pc[a] = "held" => status[Gate] # "ready"
    BY <1>4 DEF HoldOK
  <2>4. about[a] \in DOMAIN verdict /\ about[a] \in seen[a] /\ about[a] \notin handled /\ seen[a] = children
    BY <1>4 DEF StagingOK, HandlingOK, Handling, TickOK, WatchOK, Before
  <2>5. about[a] \in DoneReviews(children) BY <2>4 DEF DoneReviews, DoneAt, VerdictsOK
  <2>6. Latest(children)' = Latest(children) /\ verdict'[Latest(children)] = verdict[Latest(children)]
    BY <2>2, <2>3, <2>4, <2>5, LatestStays
  <2>7. PICK r : r = about[a] BY Zenon
  <2>8. Halting(r)' BY <2>2, <2>3, <2>6, <2>7, HaltingStays
  <2>9. ~(Dispatching /\ pc[Driver] = "start") BY <2>4, FirstWave
  <2>10. Gate \in Created BY <2>5, ReviewedNames DEF DoneReviews, DoneAt, VerdictsOK, StagingOK, Mapping
  <2>11. status'[Gate] \in {"todo", "ready"} => status'[Gate] = status[Gate]
    BY <2>2, <2>9, <2>10, ToilsMove
  <2>12. \A k \in L : Orphan(k) => Orphan(k)' BY <2>2 DEF Orphan
  <2>13. status'[Gate] = "todo" => \E k \in L : Orphan(k)' /\ Review(k) \in parents'[Gate]
    BY <1>1, <2>2, <2>3, <2>11, <2>12
  <2>14. about'[a] = r /\ Latest(children)' = r BY <2>2, <2>3, <2>6, <2>7
  <2>15. Halting(about[a])' BY <2>8, <2>14 DEF Halting
  <2>16. pc'[a] = "held" => status'[Gate] # "ready" BY <2>2, <2>3, <2>11
  <2> QED BY <1>2, <2>13, <2>14, <2>15, <2>16 DEF HoldOK
<1>5. CASE UnblockGate(a)
  <2>1. /\ DoneReviews(children) # {} /\ Latest(children) \notin handled
        /\ Halting(Latest(children)) /\ about'[a] = Latest(children)
        /\ UNCHANGED <<children, handled, outcome, parents>>
        /\ status'[Gate] = "todo" => \E k \in Later : Orphan(k) /\ Review(k) \in parents[Gate]
    BY <1>5, UnblockHolds
  <2>2. Latest(children)' = Latest(children) /\ verdict'[Latest(children)] = verdict[Latest(children)]
    BY <2>1, LatestStays
  <2>3. PICK r : r = Latest(children) BY Zenon
  <2>4. Halting(r)' BY <2>1, <2>2, <2>3, HaltingStays
  <2>5. about'[a] = r /\ Latest(children)' = r BY <2>1, <2>2, <2>3
  <2>6. Halting(about[a])' BY <2>4, <2>5 DEF Halting
  <2>7. \A k \in L : Orphan(k) => Orphan(k)' BY <2>1 DEF Orphan
  <2>8. status'[Gate] = "todo" => \E k \in L : Orphan(k)' /\ Review(k) \in parents'[Gate]
    BY <1>1, <2>1, <2>7
  <2>9. pc'[a] # "held" BY <1>5 DEF UnblockGate, Goto, LocalsOK
  <2> QED BY <1>2, <2>5, <2>6, <2>8, <2>9 DEF HoldOK
<1>6. CASE ReblockGate(a)
  <2>1. pc[a] = "hold" /\ UNCHANGED <<children, handled, outcome, parents>> /\ about'[a] = about[a]
        /\ status' = IF status[Gate] \in {"ready", "running"} THEN [status EXCEPT ![Gate] = "blocked"] ELSE status
    BY <1>6 DEF ReblockGate, events
  <2>2. /\ about[a] = Latest(children) /\ Halting(about[a])
        /\ status[Gate] = "todo" => \E k \in Later : Orphan(k) /\ Review(k) \in parents[Gate]
    BY <2>1 DEF HoldOK
  <2>3. about[a] \in DOMAIN verdict /\ about[a] \in seen[a] /\ about[a] \notin handled /\ seen[a] = children
    BY <2>1 DEF StagingOK, HandlingOK, Handling, TickOK, WatchOK, Before
  <2>4. about[a] \in DoneReviews(children) BY <2>3 DEF DoneReviews, DoneAt, VerdictsOK
  <2>5. Latest(children)' = Latest(children) /\ verdict'[Latest(children)] = verdict[Latest(children)]
    BY <2>1, <2>2, <2>3, <2>4, LatestStays
  <2>6. PICK r : r = about[a] BY Zenon
  <2>7. Halting(r)' BY <2>1, <2>2, <2>5, <2>6, HaltingStays
  <2>8. about'[a] = r /\ Latest(children)' = r BY <2>1, <2>2, <2>5, <2>6
  <2>9. Halting(about[a])' BY <2>7, <2>8 DEF Halting
  <2>10. Gate \in Created BY <2>4, ReviewedNames DEF DoneReviews, DoneAt, StagingOK, Mapping
  <2>11. status'[Gate] # "ready" /\ (status'[Gate] = "todo" => status[Gate] = "todo")
    BY <2>1, <2>10 DEF BoardOK
  <2>12. \A k \in L : Orphan(k) => Orphan(k)' BY <2>1 DEF Orphan
  <2>13. status'[Gate] = "todo" => \E k \in L : Orphan(k)' /\ Review(k) \in parents'[Gate]
    BY <1>1, <2>1, <2>2, <2>11, <2>12
  <2> QED BY <1>2, <2>8, <2>9, <2>11, <2>13 DEF HoldOK
<1>7. ASSUME Acts(a), pc'[a] \in {"hold", "held"} PROVE UnblockGate(a) \/ ReblockGate(a)
  <2>1. Moves(a) BY <1>7, TurnMoves
  <2> QED BY <1>7, <2>1 DEF Moves
<1>8. ASSUME ~Acts(a), pc'[a] \in {"hold", "held"} PROVE pc[a] \in {"hold", "held"}
  BY <1>8, MineStays
<1> QED BY <1>3, <1>4, <1>5, <1>6, <1>7, <1>8

\* The gate opens for the review that was asked for last.
LEMMA OpensForLast ==
  ASSUME Rests, TickOK, Reviewing, NEW a \in Actors, OpenGate(a)
  PROVE  LastAccepted
<1> USE DEF Rests, TypesOK
<1>1. pc[a] = "advance" /\ ~Settled(a) /\ verdict[Latest(seen[a])] = "accept" BY DEF OpenGate, Accepting
<1>2. PICK l \in Nat : Latest(seen[a]) = Review(l) /\ Review(l) \in Created /\ Review(l) \in DOMAIN verdict
  BY <1>1, Unsettled
<1>3. PICK n \in Nat : /\ LastReview = Review(n)
                       /\ \A k \in Nat : Review(k) \in Created <=> k \in 1 .. n
  <2>1. ReviewCount(Created) \in Nat BY <1>2, LastReviewIs
  <2> QED BY <1>2, <2>1, LastReviewIs
<1>4. l \in 1 .. n BY <1>2, <1>3
<1>5. ASSUME l # n PROVE FALSE
  <2>1. PICK k \in Nat : k = l + 1 OBVIOUS
  <2>2. Review(k) \in Created /\ k - 1 = l /\ k # 1 BY <1>3, <1>4, <1>5, <2>1
  <2>3. k \in Later
    <3>1. Review(k) \in Names BY <2>2, ReviewedNames
    <3>2. Kind(Review(k)) = "review" BY DEF Kind, Review
    <3>3. Review(k) \notin Works(request) BY <3>2, ReviewedGraph DEF GraphOK
    <3> QED BY <2>2, <3>1, <3>3 DEF Names, Review, Rework, Gate, Final
  <2>4. verdict[Review(k - 1)] = "reject" BY <2>2, <2>3 DEF StagingOK
  <2> QED BY <1>1, <1>2, <2>2, <2>4
<1> QED BY <1>1, <1>2, <1>3, <1>5 DEF LastAccepted

\* While ticks only hold the gate, nothing else is under way, until they have recorded it.
LEMMA HoldingSteps ==
  ASSUME Rests, TickOK, Alone', Next, Reviewing, \A a \in Actors : HoldOK(a), Holding, status[Gate] \in Waiting
  PROVE  Holding' \/ Stuck'
<1> USE DEF Rests, TypesOK
<1>1. /\ outcome = "open" /\ DoneReviews(children) # {}
      /\ Latest(children) \notin handled /\ Halting(Latest(children))
      /\ \A a \in Actors : pc[a] \in InTick => pc[a] \in {"advance", "hold", "held"}
  BY DEF Holding
<1>2. children # {} /\ children \subseteq Created /\ Gate \in Created
  BY <1>1, ReviewedNames DEF DoneReviews, DoneAt, StagingOK, Mapping
<1>3. ~Dispatching
  <2>1. CASE Dispatching /\ pc[Driver] = "start"
    <3>1. DoneReviews(children) \subseteq Created BY <1>2 DEF DoneReviews, DoneAt
    <3> QED BY <1>1, <2>1, <3>1, FirstWave
  <2>2. CASE Dispatching /\ pc[Driver] # "start"
    <3>1. pc[Driver] = "wave" BY <2>2, WaveHasAll
    <3> QED BY <1>1, <3>1 DEF Actors, InTick
  <2> QED BY <2>1, <2>2
<1>4. UNCHANGED children
  <2>1. ~RecordPlan BY <1>2 DEF RecordPlan, FreshOK
  <2>2. \A a \in Actors : ~RecordRoot(a) BY <1>1 DEF RecordRoot, InTick
  <2> QED BY <2>1, <2>2, StepFrames DEF Frames
<1>5. PICK r : r = Latest(children) BY Zenon
<1>6. DoneReviews(children)' # {} /\ Latest(children)' = r /\ verdict'[r] = verdict[r]
  BY <1>1, <1>4, <1>5, LatestStays
<1>7. Halting(r)' BY <1>1, <1>4, <1>5, <1>6, HaltingStays
<1>8. Halting(Latest(children))' BY <1>6, <1>7 DEF Halting
<1>9. ASSUME NEW a \in Actors, ~Acts(a) PROVE pc'[a] \in InTick => pc'[a] \in {"advance", "hold", "held"}
  BY <1>1, <1>9, MineStays
<1>10. ASSUME NEW a \in Actors, Acts(a), ~RecordOutcome(a)
       PROVE  pc'[a] \in InTick => pc'[a] \in {"advance", "hold", "held"}
  <2>1. Moves(a) BY <1>10, TurnMoves
  <2>2. pc[a] = "advance" => seen[a] = children BY DEF TickOK, WatchOK, Before
  <2>3. ~NothingToDo(a) BY <1>1, <2>2 DEF NothingToDo, Settled, Reviewing
  <2>4. ~OpenGate(a) BY <1>1, <2>2 DEF OpenGate, Accepting, Halting
  <2>5. ~CreateRework(a) BY <1>1, <2>2 DEF CreateRework, Halting, Exhausted, Accepting
  <2>6. /\ ~CreateReview(a) /\ ~LinkReview(a) /\ ~RecordRoot(a) /\ ~RecordRound(a) /\ ~Quarantine(a) /\ ~Close(a)
        /\ ~Judge(a) /\ ~Commit(a) /\ (a = Driver => ~WaveOver)
    BY <1>1 DEF CreateReview, LinkReview, RecordRoot, RecordRound, Quarantine, Close, Judge, Commit, WaveOver,
                InTick
  <2>7. CASE Begin(a) /\ pc'[a] = IF children = {} THEN "commit" ELSE "advance" BY <1>2, <2>7
  <2>8. CASE UnblockGate(a) /\ pc'[a] = "hold" BY <2>8
  <2>9. CASE ReblockGate(a) /\ pc'[a] = "held" BY <2>9
  <2>10. CASE pc'[a] \in {"end", "record", "head", "start"} BY <2>10 DEF InTick
  <2> QED BY <1>3, <1>10, <2>1, <2>3, <2>4, <2>5, <2>6, <2>7, <2>8, <2>9, <2>10 DEF Moves
<1>11. ASSUME NEW a \in Actors, RecordOutcome(a) PROVE Stuck'
  <2>1. pc[a] = "held" /\ UNCHANGED <<status, parents>>
    BY <1>1, <1>11 DEF RecordOutcome, InTick, board
  <2>2. status[Gate] = "todo" BY <2>1 DEF HoldOK, Waiting
  <2>3. PICK k \in Later : Orphan(k) /\ Review(k) \in parents[Gate] BY <2>1, <2>2 DEF HoldOK
  <2>4. ~full /\ status[Review(k)] \in Waiting BY <2>3 DEF TickOK, OrphanOK
  <2>5. outcome' = "blocked" BY <1>11, <2>1, <2>4 DEF RecordOutcome
  <2> QED BY <2>1, <2>2, <2>3, <2>4, <2>5 DEF Stuck
<1>12. CASE \A a \in Actors : ~RecordOutcome(a)
  <2>1. \A a \in Actors : ~RecordRound(a) BY <1>1 DEF RecordRound, InTick
  <2>2. UNCHANGED <<handled, outcome>> BY <1>12, <2>1, StepFrames DEF Frames
  <2>3. Latest(children)' \notin handled' BY <1>1, <1>5, <1>6, <2>2
  <2>4. \A a \in Actors : pc'[a] \in InTick => pc'[a] \in {"advance", "hold", "held"}
    BY <1>9, <1>10, <1>12
  <2> QED BY <1>1, <1>6, <1>8, <2>2, <2>3, <2>4 DEF Holding
<1> QED BY <1>11, <1>12

LEMMA StuckSteps ==
  ASSUME Rests, TickOK, Alone', Next, Reviewing, Created # {}, Stuck
  PROVE  Stuck' /\ ~Dispatching
<1> USE DEF Rests, TypesOK
<1>1. PICK u \in parents[Gate] : status[u] \in Waiting BY DEF Stuck
<1>2. outcome = "blocked" /\ status[Gate] = "todo" BY DEF Stuck
<1>3. ~Dispatching
  <2>1. CASE Dispatching /\ pc[Driver] = "start" BY <1>2, <2>1, FirstWave
  <2>2. CASE Dispatching /\ pc[Driver] # "start" BY <1>2, <2>2, WaveHasAll DEF NoMoreWork
  <2> QED BY <2>1, <2>2
<1>4. Gate \in Created /\ u \in Created \ {Gate} BY <1>1, ReviewedNames DEF BoardOK
<1>5. status'[u] \in Waiting /\ u \in parents'[Gate] BY <1>1, <1>3, <1>4, QuietMoves
<1>6. outcome' = "blocked"
  <2>1. ASSUME NEW a \in Actors PROVE ~RecordOutcome(a)
    BY <1>2 DEF TickOK, WatchOK, RecordOutcome, Handling
  <2>2. ASSUME NEW a \in Actors, RecordRound(a) PROVE outcome' = outcome BY <2>2 DEF RecordRound
  <2> QED BY <1>2, <2>1, <2>2, StepFrames DEF Frames
<1>7. status'[Gate] = "todo"
  <2>1. \A a \in Actors : ~OpenGate(a) /\ ~UnblockGate(a)
    BY <1>2 DEF OpenGate, UnblockGate, Settled
  <2>2. ~\E a \in Actors : ReblockGate(a) BY <1>2 DEF TickOK, WatchOK, ReblockGate, Handling
  <2>3. status[u] # "done" BY <1>1 DEF Waiting
  <2> QED BY <1>1, <1>2, <1>3, <2>1, <2>2, <2>3, QuietMoves
<1> QED BY <1>3, <1>5, <1>6, <1>7 DEF Stuck

\* The gate is dispatched only after the last review has accepted.
LEMMA GateIsDispatched ==
  ASSUME Rests, TickOK, Alone', Next, Reviewing, Created # {}, GateOK, Dispatching
  PROVE  status'[Gate] \in {"running", "done"} \cup Waiting => LastAccepted \/ Holding' \/ Stuck'
<1> USE DEF Rests, TypesOK
<1>1. Gate \in Created BY ReviewedNames
<1>2. seen[Driver] \subseteq Created BY DEF LocalsOK, Actors
<1>3. CASE status[Gate] \in {"running", "done"} BY <1>3 DEF GateOK
<1>4. CASE status[Gate] \in Waiting
  <2>1. LastAccepted \/ Stuck \/ Holding BY <1>4 DEF GateOK
  <2>2. ~Stuck BY StuckSteps
  <2>3. Holding => Holding' \/ Stuck' BY <1>4, HoldingSteps DEF GateOK
  <2> QED BY <2>1, <2>2, <2>3
<1>5. CASE status[Gate] = "blocked"
  <2>1. status'[Gate] = "blocked" BY <1>1, <1>2, <1>5, DispatchMoves
  <2> QED BY <2>1 DEF Waiting
<1> QED BY <1>1, <1>3, <1>4, <1>5 DEF BoardOK, Status, Waiting

LEMMA GateSteps ==
  ASSUME Rests, TickOK, Alone', Next, Reviewing, Created # {} => GateOK, Created' # {}
  PROVE  GateOK'
<1> USE DEF Rests, TypesOK
<1>1. CASE Created = {}
  <2>1. Release
    <3>1. \A a \in Actors, k \in Later : ~Adds(a, k)
      BY <1>1 DEF Adds, StagingOK, Mapping
    <3> QED BY <1>1, <3>1, CreatedIs
  <2>2. Gate \in Ids(nodes) BY ReviewedGraph DEF GraphOK
  <2>3. status'[Gate] = "blocked" BY <2>1, <2>2, ReleaseMoves
  <2>4. \A a \in Actors : HoldOK(a)
    BY <1>1 DEF HoldOK, StagingOK, HandlingOK, Handling, Mapping
  <2>5. \A a \in Actors : HoldOK(a)' BY <2>4, HoldSteps
  <2> QED BY <2>3, <2>5 DEF GateOK, Waiting
<1>2. CASE Created # {}
  <2>1. GateOK /\ \A a \in Actors : HoldOK(a) BY <1>2 DEF GateOK
  <2>2. \A a \in Actors : HoldOK(a)' BY <2>1, HoldSteps
  <2>3. Gate \in Created BY <1>2, ReviewedNames
  <2>4. LastAccepted => LastAccepted' BY <1>2, AcceptedStays
  <2>5. CASE Dispatching
    <3>1. status'[Gate] \in {"running", "done"} \cup Waiting => LastAccepted \/ Holding' \/ Stuck'
      BY <1>2, <2>1, <2>5, GateIsDispatched
    <3>2. status'[Gate] \in {"running", "done"} => LastAccepted'
      <4>1. ASSUME Stuck' PROVE status'[Gate] = "todo" BY <4>1 DEF Stuck
      <4>2. CASE Holding' /\ ~LastAccepted /\ status'[Gate] \in {"running", "done"}
        <5>1. status[Gate] \in Waiting
          <6>1. status[Gate] \notin {"running", "done"} BY <2>1, <4>2 DEF GateOK
          <6>2. status[Gate] # "blocked"
            <7>1. seen[Driver] \subseteq Created BY DEF LocalsOK, Actors
            <7> QED BY <2>3, <2>5, <4>2, <7>1, DispatchMoves
          <6> QED BY <2>3, <6>1, <6>2 DEF BoardOK, Status, Waiting
        <5>2. Holding
          <6>1. ~Stuck BY <1>2, <2>5, StuckSteps
          <6> QED BY <2>1, <4>2, <5>1, <6>1 DEF GateOK
        <5>3. CASE pc[Driver] = "start"
          <6>1. DoneReviews(children) # {} /\ DoneReviews(children) \subseteq Created
            BY <5>2 DEF Holding, StagingOK, Mapping, DoneReviews, DoneAt
          <6> QED BY <2>5, <5>3, <6>1, FirstWave
        <5>4. CASE pc[Driver] # "start"
          <6>1. pc[Driver] = "wave" BY <2>5, <5>4, WaveHasAll
          <6> QED BY <5>2, <6>1 DEF Holding, Actors, InTick
        <5> QED BY <5>3, <5>4
      <4> QED BY <2>4, <3>1, <4>1, <4>2
    <3> QED BY <2>2, <2>4, <3>1, <3>2 DEF GateOK
  <2>6. CASE ~Dispatching
    <3>1. \/ status'[Gate] = status[Gate]
          \/ status[Gate] = "running" /\ status'[Gate] = "done"
          \/ status[Gate] = "todo" /\ status'[Gate] = "ready" /\ \A u \in parents[Gate] : status[u] = "done"
          \/ \E a \in Actors : OpenGate(a) \/ UnblockGate(a)
          \/ \E a \in Actors : ReblockGate(a) /\ status'[Gate] = "blocked"
      BY <1>2, <2>6, QuietMoves
    <3>2. ASSUME NEW a \in Actors, OpenGate(a) PROVE LastAccepted BY <3>2, OpensForLast
    <3>3. ASSUME NEW a \in Actors, UnblockGate(a), ~LastAccepted
          PROVE  /\ Holding'
                 /\ status'[Gate] \notin {"running", "done"}
      <4>1. /\ outcome = "open" /\ DoneReviews(children) # {} /\ Latest(children) \notin handled
            /\ Halting(Latest(children)) /\ UNCHANGED <<children, handled, outcome, parents>>
        BY <3>3, UnblockHolds
      <4>2. PICK r : r = Latest(children) BY Zenon
      <4>3. DoneReviews(children)' # {} /\ Latest(children)' = r /\ verdict'[r] = verdict[r]
        BY <4>1, <4>2, LatestStays
      <4>4. Halting(r)' BY <4>1, <4>2, <4>3, HaltingStays
      <4>5. Halting(Latest(children))' BY <4>3, <4>4 DEF Halting
      <4>6. Acts(a) /\ pc[a] = "advance" /\ pc'[a] = "hold"
        BY <3>3 DEF Acts, Tick, Advance, UnblockGate, Goto, LocalsOK
      <4>7. \A b \in Actors \ {a} : pc'[b] \notin InTick BY <4>6, MyTurn DEF InTick
      <4>8. Holding' BY <4>1, <4>2, <4>3, <4>5, <4>6, <4>7 DEF Holding
      <4>9. Open(Gate) /\ UNCHANGED parents BY <3>3 DEF UnblockGate
      <4>10. status[Gate] \notin {"running", "done"} BY <2>1, <3>3 DEF GateOK
      <4>11. status'[Gate] \notin {"running", "done"} BY <2>3, <4>9, <4>10, OpenMoves
      <4> QED BY <4>8, <4>11
    <3>4. status'[Gate] \in {"running", "done"} => LastAccepted'
      BY <2>1, <2>4, <3>1, <3>2, <3>3 DEF GateOK
    <3>5. ASSUME status'[Gate] \in Waiting PROVE LastAccepted' \/ Stuck' \/ Holding'
      <4>1. CASE \E a \in Actors : OpenGate(a) \/ UnblockGate(a) BY <2>4, <3>2, <3>3, <4>1
      <4>2. CASE ~\E a \in Actors : OpenGate(a) \/ UnblockGate(a)
        <5>1. status[Gate] \in Waiting BY <3>1, <3>5, <4>2 DEF Waiting
        <5>2. LastAccepted \/ Stuck \/ Holding BY <2>1, <5>1 DEF GateOK
        <5>3. Stuck => Stuck' BY <1>2, StuckSteps
        <5>4. Holding => Holding' \/ Stuck' BY <2>1, <5>1, HoldingSteps
        <5> QED BY <2>4, <5>2, <5>3, <5>4
      <4> QED BY <4>1, <4>2
    <3> QED BY <2>2, <3>4, <3>5 DEF GateOK
  <2> QED BY <2>5, <2>6
<1> QED BY <1>1, <1>2

--------------------------------------------------------------------------------
(* How a run ends.                                                                 *)

LEMMA CommitSets ==
  ASSUME NEW a \in Actors, Commit(a)
  PROVE  state' \in {state, "running", "review", judged[a]}
<1> DEFINE executing == IF state = "planning" THEN "running" ELSE state
           verified  == IF judged[a] = "completed" /\ \E t \in seen[a] : Kind(t) \in ReviewKinds
                        THEN SafeSet(executing, "review") ELSE executing
<1>1. state' = SafeSet(verified, judged[a]) BY DEF Commit
<1>2. SafeSet(executing, "review") \in {executing, "review"} BY SafeSetStays
<1>3. verified \in {state, "running", "review"} BY <1>2
<1> HIDE DEF verified
<1>4. state' \in {verified, judged[a]} BY <1>1, SafeSetStays
<1> QED BY <1>3, <1>4

\* A mess is not forgotten, nor that a review has ended the run.
LEMMA SloppyStays ==
  ASSUME Rests, TickOK, Next
  PROVE  (sloppy => sloppy') /\ (outcome = "blocked" => outcome' = "blocked")
<1> USE DEF Rests, TypesOK
<1>1. ASSUME NEW t \in live, Reports(t) PROVE sloppy => sloppy' BY <1>1 DEF Reports, WorkerReports
<1>2. ASSUME NEW t \in live, WorkerDies(t) PROVE sloppy => sloppy' BY <1>2 DEF WorkerDies
<1>3. sloppy => sloppy' BY <1>1, <1>2, StepFrames DEF Frames, git
<1>4. ASSUME NEW a \in Actors, outcome = "blocked" PROVE ~RecordOutcome(a)
  BY <1>4 DEF TickOK, WatchOK, RecordOutcome, Handling
<1>5. ASSUME NEW a \in Actors, RecordRound(a) PROVE outcome' = outcome BY <1>5 DEF RecordRound
<1>6. outcome = "blocked" => outcome' = "blocked" BY <1>4, <1>5, StepFrames DEF Frames
<1> QED BY <1>3, <1>6

LEMMA JudgedHonest ==
  ASSUME Rests, TickOK, CommitsOK, NEW a \in Actors, pc[a] = "judge", Failed(seen[a]) # {}
  PROVE  sloppy
<1> USE DEF Rests, TypesOK
<1> SUFFICES ASSUME ~sloppy PROVE FALSE OBVIOUS
<1>1. seen[a] = Created BY DEF TickOK, WatchOK, After
<1>2. PICK t \in Created : t \in DOMAIN claimed /\ ~Committed(Created, t) BY <1>1 DEF Failed
<1>3. dirty = {} /\ claimed[t] # 0 /\ (claimed[t] = head[Workspace(t)] \/ Superseded(t)) BY <1>2 DEF CommitsOK
<1>4. DOMAIN claimed \subseteq Created BY DEF VerdictsOK, DoneAt
<1>5. Superseded(t) => WorkedOn(Created, t) BY <1>4 DEF Superseded, WorkedOn
<1> QED BY <1>2, <1>3, <1>5 DEF Committed

LEMMA HonestSteps ==
  ASSUME Rests, TickOK, Next, CommitsOK, HonestOK
  PROVE  HonestOK'
<1> USE DEF Rests, TypesOK
<1>1. sloppy => sloppy' BY SloppyStays
<1>2. ASSUME NEW a \in Actors, pc'[a] = "commit", judged'[a] = "failed" PROVE sloppy'
  <2>1. CASE ~Acts(a) BY <1>1, <1>2, <2>1, MineStays DEF HonestOK
  <2>2. CASE Acts(a)
    <3>1. Moves(a) BY <2>2, TurnMoves
    <3>2. Begin(a) \/ Judge(a) BY <1>2, <3>1 DEF Moves
    <3>3. CASE Begin(a)
      <4>1. children = {} BY <1>2, <3>3 DEF Begin, Goto, LocalsOK
      <4>2. judged'[a] = "blocked" BY <3>3, <4>1 DEF Begin, LocalsOK
      <4> QED BY <1>2, <4>2
    <3>4. CASE Judge(a)
      <4>1. pc[a] = "judge" /\ judged'[a] = Derived(a) BY <3>4 DEF Judge, LocalsOK
      <4>2. Failed(seen[a]) # {} BY <1>2, <4>1 DEF Derived
      <4> QED BY <1>1, <4>1, <4>2, JudgedHonest
    <3> QED BY <3>2, <3>3, <3>4
  <2> QED BY <2>1, <2>2
<1>3. ASSUME state' = "failed" PROVE sloppy'
  <2>1. CASE state = "failed" BY <1>1, <2>1 DEF HonestOK
  <2>2. CASE state # "failed"
    <3>1. ~Reject
      <4>1. SafeSet(state, "blocked") \in {state, "blocked"} BY SafeSetStays
      <4> QED BY <1>3, <2>2, <4>1 DEF Reject
    <3>2. ~RecordPlan
      <4>1. SafeSet(state, "running") \in {state, "running"} BY SafeSetStays
      <4> QED BY <1>3, <2>2, <4>1 DEF RecordPlan
    <3>3. PICK a \in Actors : Commit(a) BY <1>3, <2>2, <3>1, <3>2, StepFrames DEF Frames
    <3>4. pc[a] = "commit" /\ judged[a] = "failed" BY <1>3, <2>2, <3>3, CommitSets DEF Commit
    <3> QED BY <1>1, <3>4 DEF HonestOK
  <2> QED BY <2>1, <2>2
<1> QED BY <1>2, <1>3 DEF HonestOK

\* A run that ends with every task finished, and is not completed, has a cause.
LEMMA JudgedForCause ==
  ASSUME Rests, TickOK, CommitsOK, Reviewing /\ Created # {} => GateOK,
         pc[Driver] = "judge", Foreground, outcome = "blocked" \/ AllDone(seen[Driver]),
         Derived(Driver) = "blocked"
  PROVE  Cause
<1> USE DEF Rests, TypesOK
<1>1. Driver \in Actors BY DEF Actors
<1>2. seen[Driver] = Created /\ Created # {}
  BY <1>1 DEF TickOK, WatchOK, After, StagingOK, HandlingOK, InTick
<1> SUFFICES ASSUME outcome # "blocked", ~sloppy, Reviewing => Independent PROVE FALSE BY DEF Cause
<1>3. AllTerminal(Created) /\ Created \cap live = {} BY <1>2 DEF AllDone
<1>4. Ids(nodes) \subseteq Created BY <1>2 DEF GraphOK
<1>5. Reviewing => Final \in Created /\ Gate \in Created BY <1>2, ReviewedNames
<1>6. ASSUME Reviewing PROVE status[Gate] = "done"
  <2>1. Final \in Created \cap Ids(nodes) /\ Final # Gate /\ Deps(nodes, Final) = {Gate}
    BY <1>5, <1>6, ReviewedGraph DEF GraphOK, Final, Gate
  <2>2. parents[Final] = {Gate} BY <2>1 DEF ParentsOK
  <2>3. status[Final] # "todo" BY <1>3, <2>1 DEF AllTerminal
  <2> QED BY <2>1, <2>2, <2>3 DEF ParentsOK
<1>7. \A t \in Created : status[t] # "blocked"
  <2> SUFFICES ASSUME NEW t \in Created, status[t] = "blocked" PROVE FALSE OBVIOUS
  <2>1. t = Gate BY DEF ParentsOK
  <2>2. Kind(t) = "gate" BY <2>1 DEF Kind, Gate
  <2>3. Reviewing BY <2>2 DEF GraphOK
  <2> QED BY <1>6, <2>1, <2>3
<1>8. Blocked(Created) = {} BY <1>7 DEF Blocked
<1>9. Empty(Created) = {} BY DEF Empty, CommitsOK
<1>10. ~Accepted(Created) BY <1>2, <1>3, <1>8, <1>9 DEF Derived
<1>11. Reviewing BY <1>10 DEF Accepted, Reviewing
<1>12. LastAccepted BY <1>2, <1>6, <1>11 DEF GateOK
<1>13. PICK n \in Nat : /\ LastReview = Review(n) /\ Review(n) \in Created
                        /\ \A k \in Nat : Review(k) \in Created <=> k \in 1 .. n
  BY <1>2, <1>11, LastReviewIs
<1>14. Kind(Review(n)) = "review" BY DEF Kind, Review
<1>15. Review(n) \in DoneReviews(Created) BY <1>12, <1>13, <1>14 DEF LastAccepted, VerdictsOK, DoneAt, DoneReviews, ReviewKinds
<1>16. Mapping(Created) BY <1>2, <1>1 DEF StagingOK
<1>17. PICK l \in Nat : /\ Latest(Created) = Review(l) /\ Latest(Created) \in DoneReviews(Created)
                        /\ \A j \in Nat : Review(j) \in DoneReviews(Created) => j <= l
  BY <1>11, <1>15, <1>16, LatestIs
<1>18. n <= l BY <1>15, <1>17
<1>19. l \in 1 .. n BY <1>13, <1>17 DEF DoneReviews, DoneAt
<1>20. l = n BY <1>18, <1>19
<1> QED BY <1>10, <1>11, <1>12, <1>13, <1>15, <1>17, <1>20 DEF Accepted, LastAccepted

LEMMA Calm ==
  ASSUME LocalsOK, TickOK, Next, ~disturbed', disturbed => disturbed'
  PROVE  ~disturbed /\ \A a \in Actors : Acts(a) => a = Driver
<1>1. ~disturbed BY DEF LocalsOK
<1>2. pc[Observer] = "idle" BY <1>1 DEF TickOK
<1>3. Driver \in Actors /\ Observer \in Actors /\ Driver # Observer BY ReviewAssumption DEF Actors
<1>4. ASSUME Acts(Observer) PROVE FALSE
  <2>1. Moves(Observer) BY <1>3, <1>4, TurnMoves
  <2>2. Begin(Observer) BY <1>2, <1>3, <2>1 DEF Moves
  <2> QED BY <2>2 DEF Begin
<1> QED BY <1>1, <1>4 DEF Actors

LEMMA ReleasedHasTasks ==
  ASSUME GraphOK, Created # {}
  PROVE  Ids(nodes) # {}
<1>1. nodes # <<>> /\ nodes \in Graph BY DEF GraphOK, Valid
<1>2. 1 \in DOMAIN nodes BY <1>1 DEF Graph
<1> QED BY <1>2 DEF Ids

LEMMA CauseSteps ==
  ASSUME Rests, TickOK, Alone', Next, CommitsOK, CauseOK, Reviewing /\ Created # {} => GateOK
  PROVE  CauseOK'
<1> USE DEF Rests, TypesOK
<1> SUFFICES ASSUME Foreground', ~disturbed'
             PROVE  /\ pc'[Driver] = "head" => children' # {}
                    /\ pc'[Driver] \in {"close", "judge"} => outcome' = "blocked" \/ AllDone(seen[Driver])'
                    /\ pc'[Driver] = "commit" /\ judged'[Driver] = "blocked" => Cause'
                    /\ state' = "blocked" => Cause' \/ Unplannable'
  BY DEF CauseOK
<1>1. request' = request /\ nodes' = nodes BY AskedFrame DEF asked
<1>2. Foreground BY <1>1 DEF Foreground
<1>3. ~disturbed /\ \A a \in Actors : Acts(a) => a = Driver BY Calm, TypesSteps
<1>4. Driver \in Actors BY DEF Actors
<1>5. /\ pc[Driver] = "head" => children # {}
      /\ pc[Driver] \in {"close", "judge"} => outcome = "blocked" \/ AllDone(seen[Driver])
      /\ pc[Driver] = "commit" /\ judged[Driver] = "blocked" => Cause
      /\ state = "blocked" => Cause \/ Unplannable
  BY <1>2, <1>3 DEF CauseOK
<1>6. children # {} => children' # {} BY FreshSteps
<1>7. Cause => Cause'
  <2>1. (sloppy => sloppy') /\ (outcome = "blocked" => outcome' = "blocked") BY SloppyStays
  <2>2. (Reviewing' <=> Reviewing) /\ (Independent' <=> Independent) BY <1>1 DEF Reviewing, Independent
  <2> QED BY <2>1, <2>2 DEF Cause
<1>8. Unplannable' <=> Unplannable BY <1>1 DEF Unplannable, Conflict, Isolated
<1>9. Acts(Driver) => Moves(Driver) BY <1>4, TurnMoves
<1>10. ~Acts(Driver) => pc'[Driver] = pc[Driver] /\ seen'[Driver] = seen[Driver] /\ judged'[Driver] = judged[Driver]
  BY <1>4, MineStays
<1>11. ASSUME pc'[Driver] = "head" PROVE children' # {}
  <2>1. CASE ~Acts(Driver) BY <1>5, <1>6, <1>10, <1>11, <2>1
  <2>2. CASE RecordPlan
    <3>1. children' = Ids(nodes) /\ pc[Driver] = "record" BY <2>2 DEF RecordPlan
    <3>2. Created # {} BY <3>1 DEF FreshOK
    <3>3. Ids(nodes) # {} BY <3>2, ReleasedHasTasks
    <3> QED BY <3>1, <3>3
  <2>3. CASE Dispatching
    <3>1. pc[Driver] \in {"start", "wave"} BY <2>3 DEF Dispatching, DispatchNone, DispatchSome, AtWave
    <3>2. children # {} BY <1>4, <3>1 DEF FreshOK, StagingOK, HandlingOK, InTick
    <3> QED BY <1>6, <3>2
  <2>4. CASE Acts(Driver) /\ ~RecordPlan /\ ~Dispatching
    <3>1. pc'[Driver] # "head" BY <1>2, <1>9, <2>4, ReviewAssumption DEF Moves
    <3> QED BY <1>11, <3>1
  <2> QED BY <2>1, <2>2, <2>3, <2>4
<1>12. ASSUME pc'[Driver] \in {"close", "judge"} PROVE outcome' = "blocked" \/ AllDone(seen[Driver])'
  <2>1. outcome = "blocked" => outcome' = "blocked" BY SloppyStays
  <2>2. CASE ~Acts(Driver)
    <3>1. pc[Driver] \in {"close", "judge"} /\ seen'[Driver] = seen[Driver] BY <1>10, <1>12, <2>2
    <3>2. seen[Driver] = Created BY <1>4, <3>1 DEF TickOK, WatchOK, After
    <3>3. outcome # "blocked" => AllDone(seen[Driver]) BY <1>5, <3>1
    <3>4. CASE outcome = "blocked" BY <2>1, <3>4
    <3>5. CASE AllDone(seen[Driver])
      <4>1. live = {} BY <3>2, <3>5 DEF AllDone, BoardOK
      <4>2. ~Dispatching BY <3>1 DEF Dispatching, DispatchNone, DispatchSome, AtWave
      <4>3. pc[Driver] \in InTick \ {"commit"} BY <3>1 DEF InTick
      <4>4. UNCHANGED status BY <1>4, <2>2, <4>1, <4>2, <4>3, Undisturbed
      <4>5. live' = {} BY <4>1, <4>2, StepFrames DEF Frames, Dispatching
      <4> QED BY <3>1, <3>5, <4>4, <4>5 DEF AllDone, AllTerminal
    <3> QED BY <3>3, <3>4, <3>5
  <2>3. CASE Acts(Driver)
    <3>1. WaveOver \/ Close(Driver)
      <4>1. Driver # Observer BY ReviewAssumption
      <4> QED BY <1>2, <1>9, <1>12, <2>3, <4>1 DEF Moves
    <3>2. outcome = "blocked" \/ AllDone(seen[Driver])
      BY <1>2, <1>5, <3>1 DEF WaveOver, NoMoreWork, Close
    <3>3. UNCHANGED <<status, live, seen>> BY <3>1 DEF WaveOver, Close, board
    <3> QED BY <2>1, <3>2, <3>3 DEF AllDone, AllTerminal
  <2> QED BY <2>2, <2>3
<1>13. ASSUME pc'[Driver] = "commit", judged'[Driver] = "blocked" PROVE Cause'
  <2>1. CASE ~Acts(Driver) BY <1>5, <1>7, <1>10, <1>13, <2>1
  <2>2. CASE Acts(Driver)
    <3>1. \/ Judge(Driver) /\ pc[Driver] = "judge"
          \/ Begin(Driver) /\ children = {}
      BY <1>9, <1>13, <2>2 DEF Moves
    <3>2. CASE Begin(Driver) /\ children = {}
      <4>1. pc[Driver] = "head" BY <3>2 DEF Begin
      <4> QED BY <1>5, <3>2, <4>1
    <3>3. CASE Judge(Driver)
      <4>1. pc[Driver] = "judge" /\ Derived(Driver) = "blocked" BY <1>4, <1>13, <3>3 DEF Judge, LocalsOK
      <4>2. Cause BY <1>2, <1>5, <4>1, JudgedForCause
      <4> QED BY <1>7, <4>2
    <3> QED BY <3>1, <3>2, <3>3
  <2> QED BY <2>1, <2>2
<1>14. ASSUME state' = "blocked" PROVE Cause' \/ Unplannable'
  <2>1. CASE state = "blocked" BY <1>5, <1>7, <1>8, <2>1
  <2>2. CASE state # "blocked"
    <3>1. CASE Reject
      <4>1. ~Plannable BY <3>1 DEF Reject
      <4>2. PlanRequest(request) BY ReviewAssumption DEF GraphOK
      <4>3. Unplannable
        <5>1. CASE nodes = DefaultPlan(request) BY <4>1, <4>2, <5>1, PlannerPassesBarrier DEF Plannable, Unplannable, PlanRequest
        <5>2. CASE nodes # DefaultPlan(request) BY <4>1, <5>2 DEF Plannable, Unplannable
        <5> QED BY <5>1, <5>2
      <4> QED BY <1>8, <4>3
    <3>2. ~RecordPlan
      <4>1. SafeSet(state, "running") \in {state, "running"} BY SafeSetStays
      <4> QED BY <1>14, <2>2, <4>1 DEF RecordPlan
    <3>3. CASE ~Reject
      <4>1. PICK a \in Actors : Commit(a) BY <1>14, <2>2, <3>2, <3>3, StepFrames DEF Frames
      <4>2. a = Driver BY <1>3, <4>1 DEF Acts, Tick
      <4>3. pc[Driver] = "commit" /\ judged[Driver] = "blocked"
        BY <1>14, <2>2, <4>1, <4>2, CommitSets DEF Commit
      <4> QED BY <1>5, <1>7, <4>3
    <3> QED BY <3>1, <3>3
  <2> QED BY <2>1, <2>2
<1> QED BY <1>11, <1>12, <1>13, <1>14
--------------------------------------------------------------------------------
(* What holds as long as no two ticks interleave.                                  *)

Looped == Base /\ LoopOK

LEMMA InitLooped == Init => Looped
<1> SUFFICES ASSUME Init PROVE LoopOK BY InitBase DEF Looped
<1>1. /\ pc = [a \in Actors |-> IF a = Driver THEN "plan" ELSE "idle"] /\ status = NoTask
      /\ children = {} /\ sloppy = FALSE /\ state = "planning" /\ full = FALSE
  BY DEF Init
<1>2. Created = {} BY <1>1 DEF Created, NoTask
<1>3. pc[Observer] = "idle" /\ \A a \in Actors : pc[a] \in {"plan", "idle"}
  BY <1>1, ReviewAssumption DEF Actors
<1>4. \A a \in Actors : pc[a] \notin InTick BY <1>3 DEF InTick
<1>5. TickOK
  <2>1. \A a \in Actors : WatchOK(a) BY <1>3 DEF WatchOK, Before, After, Handling, Asks
  <2>2. UnrecordedOK BY <1>2 DEF UnrecordedOK
  <2>3. \A k \in Later : OrphanOK(k) BY <1>1 DEF OrphanOK, Orphan
  <2> QED BY <1>1, <1>3, <1>4, <2>1, <2>2, <2>3 DEF TickOK
<1>6. HonestOK BY <1>1, <1>3 DEF HonestOK
<1>7. CauseOK BY <1>1, <1>3 DEF CauseOK, Actors
<1> QED BY <1>2, <1>5, <1>6, <1>7 DEF LoopOK

LEMMA LoopedStays == Looped /\ [Next]_vars => Looped'
<1> SUFFICES ASSUME Looped, [Next]_vars PROVE LoopOK' BY BaseStays DEF Looped
<1>1. CASE UNCHANGED vars
  <2>1. UNCHANGED <<request, nodes, status, parents, verdict, live, children, handled, outcome, full, state, pc, seen,
                    about, judged, sloppy, disturbed>>
    BY <1>1 DEF vars, asked, board, events, locals, git, faults
  <2>2. LoopOK BY DEF Looped
  <2>3. LastAccepted' <=> LastAccepted BY <2>1 DEF LastAccepted, LastReview, Created
  <2>4. TickOK' <=> TickOK
    BY <2>1 DEF TickOK, WatchOK, UnrecordedOK, OrphanOK, Orphan, LastOf, ReviewCount, Created, Reviewing, Later
  <2>5. \A r : Halting(r)' <=> Halting(r) BY <2>1 DEF Halting, SelfReview, ReviewCount
  <2>6. \A S : DoneReviews(S)' = DoneReviews(S) BY <2>1 DEF DoneReviews, DoneAt
  <2>7. \A S : Latest(S)' = Latest(S) BY <2>6 DEF Latest
  <2>8. (Holding' <=> Holding) /\ (Stuck' <=> Stuck) BY <2>1, <2>5, <2>6, <2>7 DEF Holding, Stuck, Halting, DoneReviews, DoneAt, Latest, SelfReview, ReviewCount
  <2>9. \A a : HoldOK(a)' <=> HoldOK(a)
    BY <2>1 DEF HoldOK, Halting, SelfReview, ReviewCount, DoneReviews, DoneAt, Latest, Orphan, Later
  <2>10. GateOK' <=> GateOK BY <2>1, <2>3, <2>8, <2>9 DEF GateOK
  <2>11. HonestOK' <=> HonestOK BY <2>1 DEF HonestOK
  <2>12. CauseOK' <=> CauseOK
    BY <2>1 DEF CauseOK, Cause, Foreground, Independent, Reviewing, AllDone, AllTerminal, Unplannable, Conflict, Isolated
  <2>13. (Alone' <=> Alone) /\ (Reviewing' <=> Reviewing) /\ Created' = Created BY <2>1 DEF Alone, Reviewing, Created
  <2> QED BY <2>2, <2>4, <2>10, <2>11, <2>12, <2>13 DEF LoopOK
<1>2. CASE Next
  <2> SUFFICES ASSUME Alone' PROVE LoopOK' BY DEF LoopOK
  <2>1. Rests /\ CommitsOK BY DEF Looped, Base, Rests
  <2>2. disturbed => disturbed' BY <1>2, <2>1, TypesSteps DEF Rests
  <2>3. Alone
    <3>1. Overlap' <=> Overlap OBVIOUS
    <3> QED BY <2>2, <3>1 DEF Alone
  <2>4. TickOK /\ HonestOK /\ CauseOK /\ (Reviewing /\ Created # {} => GateOK) BY <2>3 DEF Looped, LoopOK
  <2>5. TickOK' BY <1>2, <2>1, <2>4, TickSteps
  <2>6. HonestOK' BY <1>2, <2>1, <2>4, HonestSteps
  <2>7. CauseOK' BY <1>2, <2>1, <2>4, CauseSteps
  <2>8. Reviewing' <=> Reviewing BY <1>2, AskedFrame DEF Reviewing, asked
  <2>9. Reviewing' /\ Created' # {} => GateOK' BY <1>2, <2>1, <2>4, <2>8, GateSteps
  <2> QED BY <2>5, <2>6, <2>7, <2>9 DEF LoopOK
<1> QED BY <1>1, <1>2

LEMMA AlwaysLooped == Spec => []Looped
BY InitLooped, LoopedStays, PTL DEF Spec

\* As long as a status does not tick while the driver does, the final task waits for the
\* review that advance asked for last, whatever was cut short and staged again: the gate is
\* blocked, or waits for that review, in every state between (advance, _block_review_gate).
THEOREM FinalTaskWaits ==
  ASSUME ~Overlap
  PROVE  Spec => []FinalWaitsForAcceptance
<1>1. Looped => FinalWaitsForAcceptance
  <2> SUFFICES ASSUME Looped, Reviewed, status[Final] \in {"ready", "running", "done"}
               PROVE  LastAccepted
    BY DEF FinalWaitsForAcceptance, Final
  <2>1. Reviewing /\ Created # {} BY DEF Reviewed, Reviewing
  <2>2. GateOK BY <2>1 DEF Looped, LoopOK, Alone
  <2>3. Final \in Created \cap Ids(nodes) /\ Final # Gate /\ Deps(nodes, Final) = {Gate}
    BY <2>1, ReviewedNames, ReviewedGraph DEF Looped, Base, GraphOK, Final, Gate
  <2>4. parents[Final] = {Gate} BY <2>3 DEF Looped, Base, ParentsOK
  <2>5. status[Gate] = "done" BY <2>3, <2>4 DEF Looped, Base, ParentsOK
  <2> QED BY <2>2, <2>5 DEF GateOK
<1> QED BY <1>1, AlwaysLooped, PTL

\* derive_final_state fails a run only over a mess or a misreport: what an honest worker
\* committed is the head of its worktree, or a later rework built on it, when it is judged.
THEOREM HonestWorkStays ==
  ASSUME ~Overlap
  PROVE  Spec => []HonestWorkIsNotFailed
<1>1. Looped => HonestWorkIsNotFailed
  BY DEF Looped, LoopOK, Alone, HonestOK, HonestWorkIsNotFailed
<1> QED BY <1>1, AlwaysLooped, PTL

\* execute gives up on a run nobody interfered with only for one of the causes named, even
\* where the ticks of a status could interleave: such a status counts as interference.
THEOREM BlockedForCause == Spec => []ForegroundBlocksForCause
<1>1. Looped => ForegroundBlocksForCause
  BY DEF Looped, LoopOK, Alone, CauseOK, Cause, Reviewing, ForegroundBlocksForCause
<1> QED BY <1>1, AlwaysLooped, PTL
================================================================================
