--------------------------- MODULE ReviewDeskProofs ---------------------------
(***************************************************************************)
(* Theorems about ReviewDesk, for every set of processes and whatever each *)
(* is asked to stage, and any number of resets and days.                   *)
(***************************************************************************)
EXTENDS ReviewDesk, FiniteSetTheorems, SequenceTheorems, TLAPS

USE RecordsAssumption, DeskAssumption

-----------------------------------------------------------------------------
(* What a demo has still to do.                                            *)

Names == {"detect", "register", "gather", "ask", "request", "recommend", "allow",
          "confirm", "stage", "schedule", "announce"}

Later == {<<"seed">>} \cup (Names \X Signals)

Moves == {<<"reset">>} \cup Later

LEMMA MoveNames ==
  /\ \A m \in Later : m[1] # "reset" /\ m # <<"reset">>
  /\ \A m \in Moves : m[1] = "reset" => m = <<"reset">>
  /\ \A m \in Moves : m[1] \in Names => m[2] \in Signals
BY DEF Moves, Later, Names

LEMMA LaterPair ==
  ASSUME NEW c \in Signals, NEW n \in Names
  PROVE  << <<n, c>> >> \in Seq(Later) /\ <<n, c>> \in Later
BY DEF Later

LEMMA StagingParts ==
  ASSUME NEW live, NEW c
  PROVE  StagingSteps(live, c) =
           << <<"request", c>>, <<"recommend", c>> >> \o << <<"allow", c>>, <<"confirm", c>> >>
             \o (IF live \/ c = "C" THEN << <<"stage", c>> >> ELSE << >>)
<1> DEFINE ask == <<"request", c>>
           tell == <<"recommend", c>>
           allow == <<"allow", c>>
           confirm == <<"confirm", c>>
           stage == IF live \/ c = "C" THEN << <<"stage", c>> >> ELSE << >>
<1>1. StagingSteps(live, c) = << ask >> \o << tell, allow, confirm >> \o stage
  BY DEF StagingSteps, Reports
<1> HIDE DEF ask, tell, allow, confirm, stage
<1>2. << ask >> \o << tell, allow, confirm >> = << ask, tell >> \o << allow, confirm >>
  OBVIOUS
<1>3. StagingSteps(live, c) = << ask, tell >> \o << allow, confirm >> \o stage
  BY <1>1, <1>2
<1> QED
  BY <1>3 DEF ask, tell, allow, confirm, stage

LEMMA CaseStepsType ==
  ASSUME NEW live \in BOOLEAN, NEW c \in {"A", "B", "C"}
  PROVE  CaseSteps(live, c) \in Seq(Later)
<1> DEFINE start == << <<"detect", c>>, <<"register", c>> >>
           other == IF c = "B" THEN << <<"register", "B-uncovered">> >> ELSE << >>
           gather == << <<"gather", c>> >>
           ask == IF live THEN << <<"ask", c>> >> ELSE << >>
           asked == << <<"request", c>>, <<"recommend", c>> >>
           more == << <<"allow", c>>, <<"confirm", c>> >>
           stage == IF live \/ c = "C" THEN << <<"stage", c>> >> ELSE << >>
           last == IF live THEN << <<"schedule", c>>, <<"announce", c>> >> ELSE << >>
<1>1. c \in Signals /\ "B-uncovered" \in Signals
  BY DEF Signals
<1>2. start \in Seq(Later) /\ asked \in Seq(Later) /\ more \in Seq(Later)
  BY <1>1 DEF Later, Names
<1>3. << >> \in Seq(Later)
  OBVIOUS
<1>4. other \in Seq(Later)
  BY <1>1, <1>3 DEF Later, Names
<1>5. gather \in Seq(Later)
  BY <1>1 DEF Later, Names
<1>6. ask \in Seq(Later)
  BY <1>1, <1>3 DEF Later, Names
<1>7. stage \in Seq(Later)
  BY <1>1, <1>3, LaterPair DEF Names
<1>8. last \in Seq(Later)
  <2>1. << <<"schedule", c>>, <<"announce", c>> >> \in Seq(Later)
    BY <1>1 DEF Later, Names
  <2> QED
    BY <1>3, <2>1
<1>9. StagingSteps(live, c) = asked \o more \o stage
  BY StagingParts
<1>10. CaseSteps(live, c) =
         start \o other \o gather \o ask \o StagingSteps(live, c) \o last
  BY DEF CaseSteps
<1> HIDE DEF start, other, gather, ask, asked, more, stage, last
<1>11. asked \o more \o stage \in Seq(Later)
  <2>1. asked \o more \in Seq(Later)
    BY <1>2, ConcatProperties
  <2> QED
    BY <1>7, <2>1, ConcatProperties
<1>12. start \o other \in Seq(Later)
  BY <1>2, <1>4, ConcatProperties
<1>13. start \o other \o gather \in Seq(Later)
  BY <1>5, <1>12, ConcatProperties
<1>14. start \o other \o gather \o ask \in Seq(Later)
  BY <1>6, <1>13, ConcatProperties
<1>15. start \o other \o gather \o ask \o StagingSteps(live, c) \in Seq(Later)
  BY <1>9, <1>11, <1>14, ConcatProperties
<1> QED
  BY <1>8, <1>10, <1>15, ConcatProperties

LEMMA StepsType ==
  ASSUME NEW story, story.live \in BOOLEAN, story.cases \in Seq({"A", "B", "C"})
  PROVE  /\ Steps(story) \in Seq(Moves)
         /\ Tail(Steps(story)) \in Seq(Later)
         /\ Steps(story)[1] = <<"reset">>
         /\ Steps(story) # << >>
<1> DEFINE start == << <<"reset">>, <<"seed">> >>
           one == IF Len(story.cases) >= 1 THEN CaseSteps(story.live, story.cases[1])
                                           ELSE << >>
           two == IF Len(story.cases) >= 2 THEN CaseSteps(story.live, story.cases[2])
                                           ELSE << >>
<1>1. one \in Seq(Later)
  <2>1. CASE Len(story.cases) >= 1
    <3>1. story.cases[1] \in {"A", "B", "C"}
      BY <2>1, LenProperties, ElementOfSeq
    <3> QED
      BY <2>1, <3>1, CaseStepsType
  <2> QED
    BY <2>1
<1>2. two \in Seq(Later)
  <2>1. CASE Len(story.cases) >= 2
    <3>1. story.cases[2] \in {"A", "B", "C"}
      BY <2>1, LenProperties, ElementOfSeq
    <3> QED
      BY <2>1, <3>1, CaseStepsType
  <2> QED
    BY <2>1
<1>3. start \in Seq(Moves) /\ Len(start) = 2
      /\ start[1] = <<"reset">> /\ start[2] = <<"seed">>
  BY DEF Moves, Later
<1>4. Steps(story) = start \o one \o two
  BY DEF Steps
<1> HIDE DEF start, one, two
<1>5. one \in Seq(Moves) /\ two \in Seq(Moves)
  BY <1>1, <1>2, SeqDef DEF Moves
<1> DEFINE all == start \o one \o two
<1>6. start \o one \in Seq(Moves) /\ Len(start \o one) = 2 + Len(one)
      /\ (start \o one)[1] = <<"reset">>
      /\ \A i \in 2 .. Len(start \o one) : (start \o one)[i] \in Later
  <2>0. /\ start \o one \in Seq(Moves)
        /\ Len(start \o one) = Len(start) + Len(one)
        /\ \A i \in 1 .. Len(start) + Len(one) :
             (start \o one)[i] = IF i <= Len(start) THEN start[i]
                                 ELSE one[i - Len(start)]
    BY <1>3, <1>5, ConcatProperties
  <2>1. start \o one \in Seq(Moves) /\ Len(start \o one) = 2 + Len(one)
    BY <1>3, <2>0
  <2>2. \A i \in 1 .. 2 + Len(one) :
          (start \o one)[i] = IF i <= 2 THEN start[i] ELSE one[i - 2]
    <3> HIDE DEF start
    <3> QED
      BY <1>3, <2>0
  <2>3. Len(one) \in Nat
    BY <1>1, LenProperties
  <2>4. ASSUME NEW i \in 2 .. 2 + Len(one)
        PROVE  (start \o one)[i] \in Later
    <3>0. i \in Nat /\ 2 <= i /\ i <= 2 + Len(one)
      BY <2>3, <2>4
    <3>1. CASE i = 2
      <4>0. 2 \in 1 .. 2 + Len(one) /\ 2 <= 2
        BY <2>3
      <4>1. (start \o one)[2] = start[2]
        BY <2>2, <4>0, Zenon
      <4>2. <<"seed">> \in Later
        BY DEF Later
      <4> QED
        BY <1>3, <3>1, <4>1, <4>2
    <3>2. CASE i # 2
      <4>1. i - 2 \in 1 .. Len(one)
        BY <2>3, <3>0, <3>2
      <4>2. one[i - 2] \in Later
        BY <1>1, <4>1, ElementOfSeq
      <4>3. i \in 1 .. 2 + Len(one) /\ ~(i <= 2)
        BY <2>3, <3>0, <3>2
      <4> QED
        BY <2>2, <4>2, <4>3
    <3> QED
      BY <3>1, <3>2
  <2> QED
    BY <1>3, <2>1, <2>2, <2>3, <2>4
<1>7. all \in Seq(Moves) /\ Len(all) = Len(start \o one) + Len(two)
  BY <1>5, <1>6, ConcatProperties
<1>8. \A i \in 1 .. Len(start \o one) + Len(two) :
        all[i] = IF i <= Len(start \o one) THEN (start \o one)[i]
                 ELSE two[i - Len(start \o one)]
  BY <1>5, <1>6, ConcatProperties
<1>9. Len(one) \in Nat /\ Len(two) \in Nat
  BY <1>1, <1>2
<1>10. ASSUME NEW i \in 2 .. Len(all)
       PROVE  all[i] \in Later
  <2>1. CASE i <= Len(start \o one)
    BY <1>6, <1>7, <1>8, <1>9, <1>10, <2>1
  <2>2. CASE ~(i <= Len(start \o one))
    <3>1. i - Len(start \o one) \in 1 .. Len(two)
      BY <1>6, <1>7, <1>9, <2>2
    <3>2. two[i - Len(start \o one)] \in Later
      BY <1>2, <3>1, ElementOfSeq
    <3> QED
      BY <1>6, <1>7, <1>8, <1>9, <2>2, <3>2
  <2> QED
    BY <2>1, <2>2
<1>11. all[1] = <<"reset">> /\ all # << >> /\ Len(all) \in Nat \ {0}
  BY <1>6, <1>7, <1>8, <1>9
<1> HIDE DEF all
<1>12. Tail(all) \in Seq(Later)
  <2>1. /\ Tail(all) \in Seq(Moves)
        /\ Len(Tail(all)) = Len(all) - 1
        /\ \A i \in 1 .. Len(Tail(all)) : Tail(all)[i] = all[i+1]
    BY <1>7, <1>11, HeadTailProperties
  <2>2. \A i \in 1 .. Len(Tail(all)) : Tail(all)[i] \in Later
    BY <1>10, <1>11, <2>1
  <2> QED
    <3>1. Tail(all) \in [1 .. Len(Tail(all)) -> Moves] /\ Len(Tail(all)) \in Nat
      BY <2>1, LenProperties
    <3>2. Tail(all) \in [1 .. Len(Tail(all)) -> Later]
      BY <2>2, <3>1
    <3>3. \E n \in Nat : Tail(all) \in [1 .. n -> Later]
      BY <3>1, <3>2
    <3>4. Seq(Later) = UNION {[1 .. n -> Later] : n \in Nat}
      BY SeqDef
    <3> HIDE DEF Later
    <3> QED
      BY <3>3, <3>4
<1> QED
  BY <1>4, <1>7, <1>11, <1>12 DEF all

-----------------------------------------------------------------------------
(* What every step does to the demos.                                      *)

Ends == {"none", "done", "failed"}

DemosInv ==
  /\ demo \in [Processes -> [todo : Seq(Moves), live : BOOLEAN, own : SUBSET Items,
                             end : Ends, alone : BOOLEAN]]
  /\ \A x \in Processes :
       Running(x) => Tail(demo[x].todo) \in Seq(Later) /\ demo[x].end = "none"

\* The demos that have yet to empty the tables: each has a reset to its name.
Resetting == {x \in Processes : Running(x) /\ Head(demo[x].todo) = <<"reset">>}

LEMMA Proceeds ==
  ASSUME DemosInv, NEW x \in Processes, NEW own, Proceed(x, own)
  PROVE  /\ demo'[x].todo = Tail(demo[x].todo) /\ demo'[x].own = own
         /\ demo'[x].live = demo[x].live /\ demo'[x].alone = demo[x].alone
         /\ demo'[x].end \in {"none", "done"}
         /\ \A y \in Processes \ {x} : demo'[y] = demo[y]
<1> DEFINE rest == Tail(demo[x].todo)
           last == IF rest = << >> THEN "done" ELSE "none"
<1>1. demo' = [demo EXCEPT ![x].todo = rest, ![x].own = own, ![x].end = last]
  BY DEF Proceed
<1>2. last \in {"none", "done"}
  OBVIOUS
<1> HIDE DEF rest, last
<1>3. /\ demo'[x].todo = rest /\ demo'[x].own = own /\ demo'[x].live = demo[x].live
      /\ demo'[x].alone = demo[x].alone /\ demo'[x].end = last
      /\ \A y \in Processes \ {x} : demo'[y] = demo[y]
  BY <1>1 DEF DemosInv
<1> QED
  BY <1>2, <1>3 DEF rest

LEMMA ProceedDemos ==
  ASSUME DemosInv, NEW x \in Processes, Running(x), NEW own \in SUBSET Items,
         Proceed(x, own)
  PROVE  DemosInv' /\ Resetting' = Resetting \ {x}
<1> DEFINE rest == Tail(demo[x].todo)
<1>1. rest \in Seq(Later) /\ rest \in Seq(Moves)
  BY HeadTailProperties DEF DemosInv, Running
<1>2. /\ demo'[x].todo = rest
      /\ demo'[x].end = (IF rest = << >> THEN "done" ELSE "none")
      /\ \A y \in Processes \ {x} : demo'[y] = demo[y]
  BY DEF Proceed, DemosInv
<1>3. demo' \in [Processes -> [todo : Seq(Moves), live : BOOLEAN, own : SUBSET Items,
                               end : Ends, alone : BOOLEAN]]
  <2> HIDE DEF rest
  <2>1. demo' = [demo EXCEPT ![x].todo = rest, ![x].own = own,
                             ![x].end = IF rest = << >> THEN "done" ELSE "none"]
    BY DEF Proceed, rest
  <2> DEFINE last == IF rest = << >> THEN "done" ELSE "none"
             Demos == [todo : Seq(Moves), live : BOOLEAN, own : SUBSET Items,
                       end : Ends, alone : BOOLEAN]
             moved == [demo[x] EXCEPT !.todo = rest, !.own = own, !.end = last]
  <2>2. last \in Ends
    BY DEF Ends
  <2>3. demo' = [demo EXCEPT ![x] = moved]
    BY <2>1 DEF DemosInv
  <2>4. demo[x] \in Demos
    BY DEF DemosInv
  <2> HIDE DEF last
  <2>5. moved \in Demos
    BY <1>1, <2>2, <2>4
  <2> HIDE DEF moved
  <2> QED
    BY <2>3, <2>5 DEF DemosInv
<1>4. rest # << >> => Tail(rest) \in Seq(Later) /\ Head(rest) \in Later
  BY <1>1, HeadTailProperties
<1>5. rest # << >> => Head(rest) # <<"reset">>
  BY <1>4, MoveNames
<1> HIDE DEF rest
<1>6. DemosInv'
  BY <1>2, <1>3, <1>4 DEF DemosInv, Running
<1> QED
  BY <1>2, <1>5, <1>6 DEF Resetting, Running

LEMMA LeaveDemos ==
  ASSUME DemosInv, NEW x \in Processes, NEW end \in Ends,
         demo' = [demo EXCEPT ![x].todo = << >>, ![x].end = end]
  PROVE  DemosInv' /\ Resetting' = Resetting \ {x}
<1>1. /\ demo'[x].todo = << >>
      /\ \A y \in Processes \ {x} : demo'[y] = demo[y]
  BY DEF DemosInv
<1>2. demo' \in [Processes -> [todo : Seq(Moves), live : BOOLEAN, own : SUBSET Items,
                               end : Ends, alone : BOOLEAN]]
  <2>1. << >> \in Seq(Moves)
    OBVIOUS
  <2> QED
    BY <2>1 DEF DemosInv
<1> QED
  BY <1>1, <1>2 DEF DemosInv, Running, Resetting

LEMMA BeginDemos ==
  ASSUME DemosInv, NEW x \in Processes, NEW story \in Stories[x], Begin(x, story)
  PROVE  DemosInv' /\ Resetting' = Resetting \cup {x}
<1>1. /\ Steps(story) \in Seq(Moves)
      /\ Tail(Steps(story)) \in Seq(Later)
      /\ Steps(story)[1] = <<"reset">>
      /\ Steps(story) # << >>
  BY StepsType
<1>2. Head(Steps(story)) = <<"reset">>
  BY <1>1
<1>3. demo' = [y \in Processes |->
                IF y = x THEN [todo |-> Steps(story), live |-> story.live, own |-> {},
                               end |-> "none", alone |-> \A z \in Processes : ~Running(z)]
                         ELSE [demo[y] EXCEPT !.alone = FALSE]]
  BY DEF Begin
<1>4. demo' \in [Processes -> [todo : Seq(Moves), live : BOOLEAN, own : SUBSET Items,
                               end : Ends, alone : BOOLEAN]]
  <2>1. (\A z \in Processes : ~Running(z)) \in BOOLEAN
    OBVIOUS
  <2>2. story.live \in BOOLEAN
    OBVIOUS
  <2>3. \A y \in Processes : [demo[y] EXCEPT !.alone = FALSE] \in
          [todo : Seq(Moves), live : BOOLEAN, own : SUBSET Items, end : Ends,
           alone : BOOLEAN]
    BY DEF DemosInv
  <2> HIDE DEF Steps
  <2>4. [todo |-> Steps(story), live |-> story.live, own |-> {}, end |-> "none",
         alone |-> \A z \in Processes : ~Running(z)] \in
          [todo : Seq(Moves), live : BOOLEAN, own : SUBSET Items, end : Ends,
           alone : BOOLEAN]
    BY <1>1, <2>1, <2>2 DEF Ends
  <2> QED
    BY <1>3, <2>3, <2>4
<1>5. \A y \in Processes \ {x} :
        demo'[y].todo = demo[y].todo /\ demo'[y].end = demo[y].end
  BY <1>3 DEF DemosInv
<1>6. demo'[x].todo = Steps(story) /\ demo'[x].end = "none"
  BY <1>3
<1>7. DemosInv'
  BY <1>1, <1>4, <1>5, <1>6 DEF DemosInv, Running
<1>8. x \in Resetting'
  <2>1. demo'[x].todo # << >> /\ Head(demo'[x].todo) = <<"reset">>
    BY <1>1, <1>2, <1>6, Zenon
  <2> QED
    BY <2>1 DEF Resetting, Running
<1>9. \A y \in Processes \ {x} : y \in Resetting' <=> y \in Resetting
  BY <1>5 DEF Resetting, Running
<1> QED
  BY <1>7, <1>8, <1>9 DEF Resetting

\* A demo's step moves it on, ends it or starts it; only telling of the
\* recommended plan takes that step off its list.
LEMMA DemoMoves ==
  ASSUME RecordsTypeOK, DemosInv, NEW x \in Processes, StagesDemo(x)
  PROVE  \/ /\ Running(x)
            /\ Head(demo[x].todo)[1] = "recommend" => ReportPlan(x)
            /\ \E own \in SUBSET Items : Proceed(x, own)
         \/ Running(x) /\ \E end \in Ends : Leave(x, end)
         \/ \E story \in Stories[x] : Begin(x, story)
<1>1. demo[x].own \in SUBSET Items
  BY DEF DemosInv
<1>2. CASE RegisterSignal(x)
  <2>1. Running(x) /\ Head(demo[x].todo)[1] = "register"
    BY <1>2 DEF RegisterSignal, At
  <2>2. Head(demo[x].todo) \in Moves
    BY <2>1, HeadTailProperties DEF DemosInv, Running
  <2>3. Subject(x) \in Signals
    BY <2>1, <2>2, MoveNames DEF Subject, Names
  <2>4. Item(Subject(x)) \in Items
    BY <2>3 DEF Item, Items, RecordsTypeOK
  <2> QED
    BY <1>1, <1>2, <2>1, <2>4 DEF RegisterSignal
<1>3. CASE Goes(x) /\ Running(x) /\ Head(demo[x].todo)[1] # "recommend"
  BY <1>1, <1>3 DEF Goes
<1>4. CASE ReportPlan(x)
  BY <1>1, <1>4 DEF ReportPlan, Report, At, Goes
<1>5. CASE Ask(x)
  BY <1>1, <1>5 DEF Ask, At, Goes, Ends
<1>6. CASE Fail(x) \/ Interrupt(x)
  BY <1>6 DEF Fail, Fails, Interrupt, At, Ends
<1> QED
  BY <1>2, <1>3, <1>4, <1>5, <1>6 DEF StagesDemo, Reset, SeedRows, Detect, Gather,
     Request, ReportGate, ReportRequest, Report, Stage, Schedule, Announce, At

LEMMA DemoStep ==
  ASSUME RecordsTypeOK, DemosInv, NEW x \in Processes, StagesDemo(x)
  PROVE  \/ Running(x) /\ \E own \in SUBSET Items : Proceed(x, own)
         \/ \E end \in Ends : Running(x) /\ Leave(x, end)
         \/ \E story \in Stories[x] : Begin(x, story)
BY DemoMoves

\* The console's steps leave the demos alone, stop its own or count a day.
LEMMA DeskDemos ==
  ASSUME DemosInv, Desk
  PROVE  DemosInv' /\ Resetting' \subseteq Resetting
<1>1. CASE PassDay
  <2>1. \A x \in Processes : /\ demo'[x].todo = demo[x].todo
                             /\ demo'[x].end = demo[x].end
    BY <1>1 DEF PassDay, DemosInv
  <2>2. demo' \in [Processes -> [todo : Seq(Moves), live : BOOLEAN, own : SUBSET Items,
                                 end : Ends, alone : BOOLEAN]]
    BY <1>1 DEF PassDay, DemosInv
  <2> QED
    BY <2>1, <2>2 DEF DemosInv, Running, Resetting
<1>2. ASSUME NEW u \in People, Restart(u)
      PROVE  DemosInv' /\ Resetting' \subseteq Resetting
  <2>1. PICK end \in Ends : demo' = [demo EXCEPT ![Console].todo = << >>,
                                                 ![Console].end = end]
    <3>1. demo[Console].end \in Ends /\ "none" \in Ends
      BY DEF DemosInv, Ends
    <3>2. demo' = [demo EXCEPT ![Console].todo = << >>,
                     ![Console].end = IF Running(Console) THEN "none"
                                      ELSE demo[Console].end]
      BY <1>2 DEF Restart, DemosInv
    <3> QED
      BY <3>1, <3>2
  <2> QED
    BY <2>1, LeaveDemos
<1>3. CASE UNCHANGED demo
  BY <1>3 DEF DemosInv, Running, Resetting
<1> QED
  BY <1>1, <1>2, <1>3 DEF Desk, OpenDemo, LoseForm, CommitDecision, RefuseDecision,
     RecordDecision, LoseDecision, OpenApproval, Decide, DeskRest

LEMMA DemosStep ==
  ASSUME RecordsTypeOK, DemosInv, [Next]_vars
  PROVE  DemosInv'
<1>1. ASSUME NEW x \in Processes, StagesDemo(x)
      PROVE  DemosInv'
  BY <1>1, DemoStep, ProceedDemos, LeaveDemos, BeginDemos DEF Leave
<1>2. CASE UNCHANGED vars
  BY <1>2 DEF vars, DemosInv, Running
<1> QED
  BY <1>1, <1>2, DeskDemos DEF Next

-----------------------------------------------------------------------------
(* The bound on resets.                                                    *)

ResetsInv == resets + Cardinality(Resetting) <= MaxResets

LEMMA ResetsStep ==
  ASSUME RecordsTypeOK, DemosInv, ResetsInv, [Next]_vars
  PROVE  resets' \in 0..MaxResets /\ ResetsInv'
<1>0. resets \in Nat /\ MaxResets \in Nat
  BY DEF RecordsTypeOK
<1>1. IsFiniteSet(Resetting) /\ Cardinality(Resetting) \in Nat
  BY FS_Subset, FS_CardinalityType DEF Resetting
<1>2. CASE resets' = resets /\ Resetting' \subseteq Resetting
  <2>1. Cardinality(Resetting') <= Cardinality(Resetting)
        /\ Cardinality(Resetting') \in Nat
    BY <1>1, <1>2, FS_Subset, FS_CardinalityType
  <2> QED
    BY <1>0, <1>1, <1>2, <2>1 DEF ResetsInv
<1>3. ASSUME NEW x \in Processes, Reset(x)
      PROVE  resets' \in 0..MaxResets /\ ResetsInv'
  <2>1. resets' = resets + 1 /\ Running(x) /\ Head(demo[x].todo)[1] = "reset"
    BY <1>3 DEF Reset, At, Truncate
  <2>2. Head(demo[x].todo) \in Moves
    BY <2>1, HeadTailProperties DEF DemosInv, Running
  <2>3. x \in Resetting
    BY <2>1, <2>2, MoveNames DEF Resetting
  <2>4. Resetting' = Resetting \ {x}
    <3>1. demo[x].own \in SUBSET Items
      BY DEF DemosInv
    <3> QED
      BY <1>3, <2>1, <3>1, ProceedDemos DEF Reset, Goes
  <2>5. Cardinality(Resetting') = Cardinality(Resetting) - 1
    BY <1>1, <2>3, <2>4, FS_RemoveElement
  <2>6. Cardinality(Resetting') \in Nat
    BY <1>1, <2>4, FS_Subset, FS_CardinalityType
  <2> QED
    BY <1>0, <1>1, <2>1, <2>5, <2>6 DEF ResetsInv
<1>4. ASSUME NEW x \in Processes, NEW story \in Stories[x], Begin(x, story)
      PROVE  resets' \in 0..MaxResets /\ ResetsInv'
  <2>1. resets' = resets /\ resets + Cardinality(Resetting) < MaxResets
    BY <1>4 DEF Begin, Resetting, recordVars
  <2>2. Resetting' = Resetting \cup {x}
    BY <1>4, BeginDemos
  <2>3. Cardinality(Resetting') \in Nat
        /\ Cardinality(Resetting') <= Cardinality(Resetting) + 1
    <3>1. /\ IsFiniteSet(Resetting')
          /\ Cardinality(Resetting') = IF x \in Resetting THEN Cardinality(Resetting)
                                       ELSE Cardinality(Resetting) + 1
      BY <1>1, <2>2, FS_AddElement
    <3> QED
      BY <1>1, <3>1
  <2> QED
    BY <1>0, <1>1, <2>1, <2>3 DEF ResetsInv
<1>5. ASSUME NEW x \in Processes, StagesDemo(x), ~Reset(x),
             ~\E story \in Stories[x] : Begin(x, story)
      PROVE  resets' = resets
  <2>1. CASE RegisterSignal(x)
    BY <2>1 DEF RegisterSignal, Register
  <2>2. CASE Gather(x)
    BY <2>2 DEF Gather, Record, recordVars
  <2>3. CASE Ask(x) \/ Announce(x) \/ \E kind : Report(x, kind)
    BY <2>3 DEF Ask, Report, Announce, Record
  <2>4. CASE SeedRows(x) \/ Detect(x) \/ Fail(x) \/ Interrupt(x)
    BY <2>4 DEF SeedRows, Seed, Detect, Fail, Interrupt, recordVars
  <2>5. CASE Request(x) \/ Stage(x) \/ Schedule(x)
    BY <2>5 DEF Request, CreatePending, Stage, StageWorkflow, Schedule, ScheduleTask
  <2> QED
    BY <1>5, <2>1, <2>2, <2>3, <2>4, <2>5
    DEF StagesDemo, ReportPlan, ReportGate, ReportRequest
<1>8. ASSUME NEW x \in Processes, StagesDemo(x),
             ~\E story \in Stories[x] : Begin(x, story)
      PROVE  Resetting' \subseteq Resetting
  BY <1>8, DemoStep, ProceedDemos, LeaveDemos DEF Leave
<1>6. CASE Desk
  <2>1. resets' = resets
    BY <1>6 DEF Desk, OpenDemo, LoseForm, CommitDecision, DecidePlan, RefuseDecision,
       RecordDecision, Record, LoseDecision, PassDay, AdvanceDay, OpenApproval, Decide,
       Restart, DeskRest, recordVars
  <2> QED
    BY <1>2, <1>6, <2>1, DeskDemos
<1>7. CASE UNCHANGED vars
  <2>1. resets' = resets /\ Resetting' \subseteq Resetting
    BY <1>7 DEF vars, recordVars, Resetting, Running
  <2> QED
    BY <1>2, <2>1
<1> QED
  BY <1>2, <1>3, <1>4, <1>5, <1>6, <1>7, <1>8 DEF Next

-----------------------------------------------------------------------------
(* The rows.                                                               *)

LEMMA TruncateType ==
  ASSUME RecordsTypeOK, Truncate, resets' \in 0..MaxResets
  PROVE  RecordsTypeOK'
<1>1. Plans' = {} /\ approval' \in [Plans' -> [status : {"pending"} \cup Verdicts,
                                              expires : 1..(LastDay + 1)]]
  BY DEF Truncate, Plans
<1>2. day' \in 0..LastDay
  BY DEF Truncate
<1> QED
  BY <1>1, <1>2 DEF RecordsTypeOK, Truncate

LEMMA SeedType ==
  ASSUME RecordsTypeOK, Seed \/ AdvanceDay \/ UNCHANGED recordVars
  PROVE  RecordsTypeOK'
<1>1. CASE UNCHANGED recordVars
  BY <1>1 DEF RecordsTypeOK, recordVars, tableVars, Plans, Resolves
<1>2. CASE Seed
  BY <1>2 DEF RecordsTypeOK, Seed, tableVars, Plans, Resolves
<1>3. CASE AdvanceDay
  BY <1>3 DEF RecordsTypeOK, AdvanceDay, tableVars, Plans, Resolves
<1> QED
  BY <1>1, <1>2, <1>3

LEMMA RegisterType ==
  ASSUME RecordsTypeOK, NEW run, NEW signal \in Signals, Register(run, signal)
  PROVE  RecordsTypeOK'
<1>1. Item(signal) \in Items
  BY DEF Item, Items, RecordsTypeOK
<1>2. attention' = attention \cup {Item(signal)}
  BY DEF Register
<1>3. \A e \in ledger' : Resolves(e)'
  <2>1. \A e \in ledger : Resolves(e)'
    BY <1>2 DEF Register, RecordsTypeOK, Resolves, Plans
  <2>2. PICK e : /\ ledger' = ledger \cup {e}
                 /\ e.items = {Item(signal)} /\ e.plans = {} /\ e.who = {}
    <3> DEFINE kind == IF Item(signal) \in attention THEN "deduplicated" ELSE "detected"
               new == Event(kind, run, {Item(signal)}, {}, {})
    <3>1. ledger' = ledger \cup {new}
      BY DEF Register
    <3>2. new.items = {Item(signal)} /\ new.plans = {} /\ new.who = {}
      BY DEF Event
    <3> HIDE DEF new
    <3> QED
      BY <3>1, <3>2
  <2>3. Resolves(e)'
    BY <1>2, <2>2 DEF Resolves
  <2> QED
    BY <2>1, <2>2, <2>3
<1> QED
  BY <1>1, <1>2, <1>3 DEF Register, RecordsTypeOK, Plans

LEMMA RecordType ==
  ASSUME RecordsTypeOK, NEW e, Record(e)
  PROVE  RecordsTypeOK'
<1>1. \A f : Resolves(f)' <=> Resolves(f)
  BY DEF Record, Resolves, Plans
<1> QED
  BY <1>1 DEF Record, RecordsTypeOK, Plans

LEMMA CreatePendingType ==
  ASSUME RecordsTypeOK, NEW p \in PlanIds, CreatePending(p)
  PROVE  RecordsTypeOK'
<1>1. Plans' = Plans \cup {p}
  BY DEF CreatePending, Plans
<1>2. approval' \in [Plans' -> [status : {"pending"} \cup Verdicts,
                                expires : 1..(LastDay + 1)]]
  <2>1. [status |-> "pending", expires |-> day + 1]
          \in [status : {"pending"} \cup Verdicts, expires : 1..(LastDay + 1)]
    BY DEF RecordsTypeOK
  <2> QED
    BY <1>1, <2>1 DEF CreatePending, RecordsTypeOK
<1>3. \A e \in ledger' : Resolves(e)'
  BY <1>1 DEF CreatePending, RecordsTypeOK, Resolves
<1> QED
  BY <1>1, <1>2, <1>3 DEF CreatePending, RecordsTypeOK

LEMMA StageType ==
  ASSUME RecordsTypeOK, NEW p \in PlanIds, StageWorkflow(p) \/ ScheduleTask(p)
  PROVE  RecordsTypeOK'
<1>1. \A e : Resolves(e)' <=> Resolves(e)
  BY DEF StageWorkflow, ScheduleTask, Resolves, Plans
<1> QED
  BY <1>1 DEF StageWorkflow, ScheduleTask, RecordsTypeOK, Plans

LEMMA DecideType ==
  ASSUME RecordsTypeOK, NEW p, NEW verdict \in Verdicts, DecidePlan(p, verdict)
  PROVE  RecordsTypeOK' /\ Plans' = Plans
<1>1. p \in Plans /\ approval' = [approval EXCEPT ![p].status = verdict]
  BY DEF DecidePlan, CanDecide
<1>2. Plans' = Plans
  BY <1>1 DEF Plans
<1>3. approval' \in [Plans' -> [status : {"pending"} \cup Verdicts,
                                expires : 1..(LastDay + 1)]]
  BY <1>1, <1>2 DEF RecordsTypeOK
<1>4. \A e \in ledger' : Resolves(e)'
  BY <1>2 DEF DecidePlan, RecordsTypeOK, Resolves
<1> QED
  BY <1>2, <1>3, <1>4 DEF DecidePlan, RecordsTypeOK

-----------------------------------------------------------------------------
(* Type correctness.                                                       *)

\* The decision being handled, and what of the desk TypeOK says.
DeskInv ==
  /\ \/ post = {}
     \/ \E d : /\ post = {d}
               /\ d = [plan |-> d.plan, verdict |-> d.verdict, run |-> d.run,
                       recorded |-> d.recorded]
               /\ d.verdict \in Verdicts
  /\ post # {} => ~Running(Console)
  /\ actor \in People
  /\ form \in {NoForm, DemoForm} \cup {ApprovalForm(p) : p \in PlanIds}

TypeInv == RecordsTypeOK /\ DemosInv /\ ResetsInv /\ DeskInv

LEMMA PlanType ==
  ASSUME NEW x \in Processes, NEW item \in Items
  PROVE  Plan(x, item) \in PlanIds
BY DEF Plan, PlanIds

LEMMA DemoRecords ==
  ASSUME RecordsTypeOK, DemosInv, ResetsInv, NEW x \in Processes, StagesDemo(x)
  PROVE  RecordsTypeOK'
<1>0. Own(x) \subseteq Items
  BY DEF Own, DemosInv
<1>1. CASE Reset(x)
  <2>1. resets' \in 0..MaxResets
    BY <1>1, ResetsStep DEF Next
  <2> QED
    BY <1>1, <2>1, TruncateType DEF Reset
<1>2. CASE SeedRows(x) \/ Detect(x) \/ Fail(x) \/ Interrupt(x)
  BY <1>2, SeedType DEF SeedRows, Detect, Fail, Interrupt
<1>3. CASE RegisterSignal(x)
  <2>1. Running(x) /\ Head(demo[x].todo)[1] = "register"
    BY <1>3 DEF RegisterSignal, At
  <2>2. Head(demo[x].todo) \in Moves
    BY <2>1, HeadTailProperties DEF DemosInv, Running
  <2>3. Subject(x) \in Signals
    BY <2>1, <2>2, MoveNames DEF Subject, Names
  <2> QED
    BY <1>3, <2>3, RegisterType DEF RegisterSignal
<1>4. CASE Gather(x) \/ Ask(x) \/ Announce(x) \/ \E kind : Report(x, kind)
  BY <1>4, RecordType, SeedType DEF Gather, Ask, Report, Announce
<1>5. CASE Request(x)
  BY <1>0, <1>5, PlanType, CreatePendingType DEF Request
<1>6. CASE Stage(x) \/ Schedule(x)
  BY <1>0, <1>6, PlanType, StageType DEF Stage, Schedule
<1>7. ASSUME NEW story \in Stories[x], Begin(x, story)
      PROVE  RecordsTypeOK'
  BY <1>7, SeedType DEF Begin
<1> QED
  BY <1>1, <1>2, <1>3, <1>4, <1>5, <1>6, <1>7
  DEF StagesDemo, ReportPlan, ReportGate, ReportRequest

LEMMA DeskRecords ==
  ASSUME RecordsTypeOK, DeskInv, Desk
  PROVE  RecordsTypeOK'
<1>1. CASE CommitDecision
  <2>1. PICK d \in post : DecidePlan(d.plan, d.verdict)
    BY <1>1 DEF CommitDecision
  <2> QED
    BY <2>1, DecideType DEF DeskInv
<1>2. CASE RecordDecision
  BY <1>2, RecordType DEF RecordDecision
<1>3. CASE PassDay
  BY <1>3, SeedType DEF PassDay
<1>4. CASE UNCHANGED recordVars
  BY <1>4, SeedType
<1> QED
  BY <1>1, <1>2, <1>3, <1>4 DEF Desk, OpenDemo, LoseForm, RefuseDecision, LoseDecision,
     OpenApproval, Decide, Restart, DeskRest

LEMMA DemoDesk ==
  ASSUME DeskInv, RecordsTypeOK, DemosInv, NEW x \in Processes, StagesDemo(x)
  PROVE  DeskInv'
<1>1. UNCHANGED <<post, actor>>
  <2>1. ASSUME NEW y \in Processes, NEW own, Proceed(y, own)
        PROVE  UNCHANGED <<post, actor>>
    BY <2>1 DEF Proceed
  <2>2. ASSUME NEW y \in Processes, NEW end, Leave(y, end)
        PROVE  UNCHANGED <<post, actor>>
    BY <2>2 DEF Leave
  <2>3. ASSUME NEW story, Begin(x, story)
        PROVE  UNCHANGED <<post, actor>>
    BY <2>3 DEF Begin
  <2> QED
    BY <2>1, <2>2, <2>3, DemoStep
<1>2. form' \in {form, NoForm}
  BY DemoStep DEF Proceed, Leave, Begin, Answer
<1>3. post # {} => ~Running(Console)'
  <2>1. ASSUME Running(Console)', ~Running(Console)
        PROVE  post = {}
    <3>1. CASE Running(x)
      <4>1. x # Console
        BY <2>1, <3>1
      <4>2. demo'[Console].todo = demo[Console].todo
        <5>1. ASSUME NEW own, Proceed(x, own)
              PROVE  demo'[Console].todo = demo[Console].todo
          BY <4>1, <5>1 DEF Proceed, DemosInv
        <5>2. ASSUME NEW end, Leave(x, end)
              PROVE  demo'[Console].todo = demo[Console].todo
          BY <4>1, <5>2 DEF Leave, DemosInv
        <5> QED
          BY <3>1, <5>1, <5>2, DemoStep DEF Begin
      <4> QED
        BY <2>1, <4>2 DEF Running
    <3>2. CASE ~Running(x)
      <4>1. PICK story \in Stories[x] : Begin(x, story)
        BY <3>2, DemoStep
      <4>2. CASE x = Console
        BY <4>1, <4>2 DEF Begin, ConsoleFree
      <4>3. CASE x # Console
        <5>1. demo'[Console].todo = demo[Console].todo
          BY <4>1, <4>3 DEF Begin, DemosInv
        <5> QED
          BY <2>1, <5>1 DEF Running
      <4> QED
        BY <4>2, <4>3
    <3> QED
      BY <3>1, <3>2
  <2> QED
    BY <2>1 DEF DeskInv
<1> QED
  BY <1>1, <1>2, <1>3 DEF DeskInv

LEMMA DeskDesk ==
  ASSUME DeskInv, RecordsTypeOK, DemosInv, Desk
  PROVE  DeskInv'
<1>1. Running(Console)' => Running(Console)
  <2>1. ASSUME NEW u \in People, Restart(u)
        PROVE  ~Running(Console)'
    BY <2>1 DEF Restart, Running, DemosInv
  <2>2. CASE PassDay
    BY <2>2 DEF PassDay, Running, DemosInv
  <2>3. CASE UNCHANGED demo
    BY <2>3 DEF Running
  <2> QED
    BY <2>1, <2>2, <2>3 DEF Desk, OpenDemo, LoseForm, CommitDecision, RefuseDecision,
       RecordDecision, LoseDecision, OpenApproval, Decide, DeskRest
<1>2. ASSUME NEW p \in Plans, OpenApproval(p)
      PROVE  DeskInv'
  <2>1. p \in PlanIds
    BY DEF RecordsTypeOK
  <2> QED
    BY <1>1, <1>2, <2>1 DEF OpenApproval, DeskRest, DeskInv
<1>3. ASSUME NEW p \in Plans, NEW verdict \in Verdicts, Decide(p, verdict)
      PROVE  DeskInv'
  <2>1. PICK run : post' = {[plan |-> p, verdict |-> verdict, run |-> run,
                             recorded |-> FALSE]}
    BY <1>3 DEF Decide
  <2>2. ~Running(Console)'
    BY <1>1, <1>3 DEF Decide, ConsoleFree
  <2> DEFINE d == [plan |-> p, verdict |-> verdict, run |-> run, recorded |-> FALSE]
  <2>3. /\ d = [plan |-> d.plan, verdict |-> d.verdict, run |-> d.run,
                recorded |-> d.recorded]
        /\ d.verdict \in Verdicts
    OBVIOUS
  <2> HIDE DEF d
  <2>4. post' = {d}
    BY <2>1 DEF d
  <2> QED
    BY <1>3, <2>2, <2>3, <2>4 DEF Decide, DeskRest, DeskInv
<1>4. CASE CommitDecision
  <2>1. PICK d \in post : post' = {[d EXCEPT !.recorded = TRUE]}
    BY <1>4 DEF CommitDecision
  <2>2. /\ d.verdict \in Verdicts
        /\ d = [plan |-> d.plan, verdict |-> d.verdict, run |-> d.run,
                recorded |-> d.recorded]
    BY DEF DeskInv
  <2>3. [d EXCEPT !.recorded = TRUE]
          = [plan |-> d.plan, verdict |-> d.verdict, run |-> d.run, recorded |-> TRUE]
    <3> DEFINE q == [plan |-> d.plan, verdict |-> d.verdict, run |-> d.run,
                     recorded |-> d.recorded]
    <3>1. [q EXCEPT !.recorded = TRUE]
            = [plan |-> d.plan, verdict |-> d.verdict, run |-> d.run, recorded |-> TRUE]
      <4> DEFINE Q == [plan : {d.plan}, verdict : {d.verdict}, run : {d.run},
                       recorded : {d.recorded, TRUE}]
      <4>1. q \in Q
        OBVIOUS
      <4>2. /\ [q EXCEPT !.recorded = TRUE] \in Q
            /\ [q EXCEPT !.recorded = TRUE].recorded = TRUE
        BY <4>1
      <4>3. \A r \in Q : r = [plan |-> d.plan, verdict |-> d.verdict, run |-> d.run,
                            recorded |-> r.recorded]
        OBVIOUS
      <4> HIDE DEF q, Q
      <4> QED
        BY <4>2, <4>3
    <3>2. d = q
      BY <2>2
    <3> HIDE DEF q
    <3> QED
      BY <3>1, <3>2
  <2>4. PICK e : /\ post' = {e}
                 /\ e = [plan |-> e.plan, verdict |-> e.verdict, run |-> e.run,
                         recorded |-> e.recorded]
                 /\ e.verdict \in Verdicts
    <3> DEFINE q == [plan |-> d.plan, verdict |-> d.verdict, run |-> d.run,
                     recorded |-> TRUE]
    <3>1. /\ q = [plan |-> q.plan, verdict |-> q.verdict, run |-> q.run,
                  recorded |-> q.recorded]
          /\ q.verdict = d.verdict
      OBVIOUS
    <3>2. post' = {q}
      BY <2>1, <2>3
    <3> HIDE DEF q
    <3> QED
      BY <2>2, <3>1, <3>2
  <2> QED
    BY <1>1, <1>4, <2>4 DEF CommitDecision, DeskInv
<1>5. CASE OpenDemo \/ LoseForm
  BY <1>1, <1>5 DEF OpenDemo, LoseForm, DeskRest, DeskInv
<1>6. CASE RefuseDecision \/ RecordDecision \/ LoseDecision
  BY <1>6 DEF RefuseDecision, RecordDecision, LoseDecision, DeskRest, DeskInv
<1>7. CASE PassDay
  BY <1>1, <1>7 DEF PassDay, DeskInv
<1>8. ASSUME NEW u \in People, Restart(u)
      PROVE  DeskInv'
  BY <1>8 DEF Restart, DeskInv
<1> QED
  BY <1>2, <1>3, <1>4, <1>5, <1>6, <1>7, <1>8 DEF Desk

LEMMA InitTypeInv == Init => TypeInv
<1> SUFFICES ASSUME Init PROVE TypeInv
  OBVIOUS
<1>1. RecordsTypeOK
  <2>1. Plans = {} /\ approval \in [Plans -> [status : {"pending"} \cup Verdicts,
                                              expires : 1..(LastDay + 1)]]
    BY DEF Init, RecordsInit, Plans
  <2>2. resets \in 0..MaxResets /\ day \in 0..LastDay
    BY DEF Init, RecordsInit
  <2> QED
    BY <2>1, <2>2 DEF Init, RecordsInit, RecordsTypeOK
<1>2. \A x \in Processes : ~Running(x)
  BY DEF Init, Idle, Running
<1>3. DemosInv
  <2>1. << >> \in Seq(Moves)
    OBVIOUS
  <2> QED
    BY <1>2, <2>1 DEF Init, Idle, DemosInv, Ends
<1>4. ResetsInv
  <2>1. Resetting = {}
    BY <1>2 DEF Resetting
  <2> QED
    BY <2>1, FS_EmptySet DEF ResetsInv, Init, RecordsInit
<1>5. DeskInv
  BY DEF Init, DeskInv, People
<1> QED
  BY <1>1, <1>3, <1>4, <1>5 DEF TypeInv

LEMMA TypeStep ==
  ASSUME TypeInv, [Next]_vars
  PROVE  TypeInv'
<1> USE DEF TypeInv
<1>1. DemosInv' /\ ResetsInv'
  BY DemosStep, ResetsStep
<1>2. ASSUME NEW x \in Processes, StagesDemo(x)
      PROVE  RecordsTypeOK' /\ DeskInv'
  BY <1>2, DemoRecords, DemoDesk
<1>3. CASE Desk
  BY <1>1, <1>3, DeskRecords, DeskDesk
<1>4. CASE UNCHANGED vars
  <2>1. RecordsTypeOK'
    BY <1>4, SeedType DEF vars
  <2> QED
    BY <1>1, <1>4, <2>1 DEF vars, DeskInv, Running
<1> QED
  BY <1>1, <1>2, <1>3, <1>4 DEF Next

\* Every state is well typed; in particular every reference between rows can
\* be followed, however demos, decisions, resets and restarts interleave.
THEOREM TypeCorrect == Spec => []TypeOK
<1>1. TypeInv /\ [Next]_vars => TypeInv'
  BY TypeStep
<1>2. TypeInv => TypeOK
  <2> SUFFICES ASSUME TypeInv PROVE TypeOK
    OBVIOUS
  <2>1. Cardinality(post) <= 1
    <3>1. CASE post = {}
      BY <3>1, FS_EmptySet
    <3>2. ASSUME NEW d, post = {d}
          PROVE  Cardinality(post) <= 1
      <4>1. Cardinality({d}) = 1
        BY FS_Singleton
      <4> QED
        BY <3>2, <4>1
    <3> QED
      BY <3>1, <3>2 DEF TypeInv, DeskInv
  <2> QED
    BY <2>1 DEF TypeInv, DeskInv, DemosInv, Ends, TypeOK
<1> QED
  BY <1>1, <1>2, InitTypeInv, PTL DEF Spec

-----------------------------------------------------------------------------
(* One plan for each signal.                                               *)

\* A demo's right to plan for an item: the item is of the present tables or
\* gone with earlier ones, nobody else has a right to it, and a plan that is
\* there is the only one and took up that right.
RightInv ==
  /\ \A i \in attention : i[1] = resets
  /\ \A x \in Processes : \A i \in demo[x].own :
       i[1] <= resets /\ (i[1] = resets => i \in attention)
  /\ \A x, y \in Processes : \A i \in demo[x].own \cap demo[y].own :
       i[1] = resets => x = y
  /\ \A p \in Plans, x \in Processes : p.item \in demo[x].own => x = p.by
  /\ OnePlanPerSignal

\* Only a registration gives a right; the other steps keep or drop those there are.
LEMMA OwnProceeds ==
  ASSUME DemosInv, NEW x \in Processes, NEW own \in SUBSET Items, Proceed(x, own)
  PROVE  /\ demo'[x].own = own
         /\ \A y \in Processes \ {x} : demo'[y].own = demo[y].own
BY Proceeds

LEMMA OwnShrinks ==
  ASSUME RecordsTypeOK, DemosInv, [Next]_vars,
         ~\E x \in Processes : RegisterSignal(x)
  PROVE  \A y \in Processes : demo'[y].own \subseteq demo[y].own
<1>1. ASSUME NEW x \in Processes, Goes(x)
      PROVE  \A y \in Processes : demo'[y].own \subseteq demo[y].own
  <2>1. demo[x].own \in SUBSET Items
    BY DEF DemosInv
  <2> QED
    BY <1>1, <2>1, OwnProceeds DEF Goes
<1>2. ASSUME NEW x \in Processes, NEW end, Leave(x, end)
      PROVE  \A y \in Processes : demo'[y].own \subseteq demo[y].own
  BY <1>2 DEF Leave, DemosInv
<1>3. ASSUME NEW x \in Processes, NEW story, Begin(x, story)
      PROVE  \A y \in Processes : demo'[y].own \subseteq demo[y].own
  <2> HIDE DEF Steps
  <2>1. \A y \in Processes \ {x} : demo'[y].own = demo[y].own
    BY <1>3 DEF Begin, DemosInv
  <2>2. demo'[x].own = {}
    BY <1>3 DEF Begin
  <2> QED
    BY <2>1, <2>2
<1>4. ASSUME NEW x \in Processes, StagesDemo(x)
      PROVE  \A y \in Processes : demo'[y].own \subseteq demo[y].own
  <2>1. \/ Goes(x)
        \/ \E end : Leave(x, end)
        \/ \E story : Begin(x, story)
    BY <1>4 DEF StagesDemo, Reset, SeedRows, Detect, Gather, Ask, Request,
       ReportPlan, ReportGate, ReportRequest, Report, Stage, Schedule, Announce, Fail,
       Interrupt
  <2> QED
    BY <1>1, <1>2, <1>3, <2>1
<1>5. CASE PassDay
  BY <1>5 DEF PassDay, DemosInv
<1>6. ASSUME NEW u \in People, Restart(u)
      PROVE  \A y \in Processes : demo'[y].own \subseteq demo[y].own
  BY <1>6 DEF Restart, DemosInv
<1>7. CASE UNCHANGED demo
  BY <1>7
<1> QED
  BY <1>4, <1>5, <1>6, <1>7 DEF Next, Desk, OpenDemo, LoseForm, CommitDecision,
     RefuseDecision, RecordDecision, LoseDecision, OpenApproval, Decide, DeskRest, vars

LEMMA RightKept ==
  ASSUME TypeInv, RightInv, UNCHANGED <<resets, attention>>, Plans' = Plans,
         \A y \in Processes : demo'[y].own \subseteq demo[y].own
  PROVE  RightInv'
BY DEF RightInv, OnePlanPerSignal

\* A reset takes all rights away.
LEMMA RightReset ==
  ASSUME TypeInv, RightInv, Truncate,
         \A y \in Processes : demo'[y].own \subseteq demo[y].own
  PROVE  RightInv'
<1>1. attention' = {} /\ Plans' = {} /\ resets' = resets + 1
  BY DEF Truncate, Plans
<1>2. resets \in Nat
  BY DEF TypeInv, RecordsTypeOK
<1>3. \A x \in Processes : \A i \in demo[x].own : i[1] \in Nat /\ i[1] <= resets
  BY DEF RightInv, TypeInv, DemosInv, Items
<1>4. \A x \in Processes : \A i \in demo'[x].own : i[1] <= resets' /\ i[1] # resets'
  BY <1>1, <1>2, <1>3
<1> QED
  BY <1>1, <1>4 DEF RightInv, OnePlanPerSignal

\* Who registers an item first is the only one with a right to it.
LEMMA RightRegister ==
  ASSUME TypeInv, RightInv, NEW x \in Processes, RegisterSignal(x), TypeInv'
  PROVE  RightInv'
<1> DEFINE item == Item(Subject(x))
<1>1. /\ attention' = attention \cup {item}
      /\ resets' = resets /\ Plans' = Plans
      /\ Proceed(x, demo[x].own \cup ({item} \ attention))
  BY DEF RegisterSignal, Register, Plans
<1>2. item \in Items /\ item[1] = resets /\ resets \in Nat
  <2>1. item \in attention'
    BY <1>1
  <2> QED
    BY <2>1 DEF TypeInv, RecordsTypeOK, Item
<1>3. demo[x].own \cup ({item} \ attention) \in SUBSET Items
  BY <1>2 DEF TypeInv, DemosInv
<1>4. /\ demo'[x].own = demo[x].own \cup ({item} \ attention)
      /\ \A y \in Processes \ {x} : demo'[y].own = demo[y].own
  BY <1>1, <1>3, OwnProceeds DEF TypeInv
<1> HIDE DEF item
<1>5. item \notin attention =>
        /\ \A y \in Processes : item \notin demo[y].own
        /\ \A p \in Plans : p.item # item
  BY <1>2 DEF RightInv, TypeInv, RecordsTypeOK
<1>6. \A i \in attention' : i[1] = resets'
  BY <1>1, <1>2 DEF RightInv
<1>7. \A y \in Processes : \A i \in demo'[y].own :
        i[1] <= resets' /\ (i[1] = resets' => i \in attention')
  BY <1>1, <1>2, <1>4 DEF RightInv
<1>8. \A y, z \in Processes : \A i \in demo'[y].own \cap demo'[z].own :
        i[1] = resets' => y = z
  BY <1>1, <1>4, <1>5 DEF RightInv
<1>9. \A p \in Plans', y \in Processes : p.item \in demo'[y].own => y = p.by
  BY <1>1, <1>4, <1>5 DEF RightInv
<1>10. OnePlanPerSignal'
  BY <1>1 DEF RightInv, OnePlanPerSignal
<1> QED
  BY <1>6, <1>7, <1>8, <1>9, <1>10 DEF RightInv

\* A request takes up the right.
LEMMA RightRequest ==
  ASSUME TypeInv, RightInv, NEW x \in Processes, Request(x),
         \A y \in Processes : demo'[y].own \subseteq demo[y].own
  PROVE  RightInv'
<1>1. PICK item \in Own(x) : CreatePending(Plan(x, item))
  BY DEF Request
<1> DEFINE new == Plan(x, item)
<1>2. /\ item \in demo[x].own /\ item \in attention
      /\ item \in Items
      /\ new.item = item /\ new.by = x /\ new \in PlanIds
      /\ Plans' = Plans \cup {new}
      /\ UNCHANGED <<resets, attention>>
  BY <1>1, PlanType DEF Own, CreatePending, Plan, Plans, TypeInv, DemosInv
<1>3. item[1] = resets
  BY <1>2 DEF RightInv
<1>4. \A q \in Plans : q.item = item => q = new
  <2>1. ASSUME NEW q \in Plans, q.item = item
        PROVE  q = new
    <3>1. q.by = x
      BY <1>2, <2>1 DEF RightInv
    <3>2. q \in PlanIds
      BY DEF TypeInv, RecordsTypeOK
    <3> QED
      BY <2>1, <3>1, <3>2 DEF Plan, PlanIds
  <2> QED
    BY <2>1
<1> HIDE DEF new
<1>5. \A p \in Plans', y \in Processes : p.item \in demo'[y].own => y = p.by
  <2>1. \A y \in Processes : item \in demo'[y].own => y = x
    BY <1>2, <1>3 DEF RightInv
  <2> QED
    BY <1>2, <2>1 DEF RightInv
<1>6. OnePlanPerSignal'
  BY <1>2, <1>4 DEF RightInv, OnePlanPerSignal
<1> QED
  BY <1>2, <1>5, <1>6 DEF RightInv

LEMMA RightStep ==
  ASSUME TypeInv, RightInv, [Next]_vars
  PROVE  RightInv'
<1>1. CASE \E x \in Processes : RegisterSignal(x)
  BY <1>1, RightRegister, TypeStep
<1>2. ASSUME ~\E x \in Processes : RegisterSignal(x)
      PROVE  RightInv'
  <2>0. \A y \in Processes : demo'[y].own \subseteq demo[y].own
    BY <1>2, OwnShrinks DEF TypeInv
  <2>1. ASSUME NEW x \in Processes, StagesDemo(x)
        PROVE  RightInv'
    <3>1. CASE Reset(x)
      BY <2>0, <3>1, RightReset DEF Reset
    <3>2. CASE Request(x)
      BY <2>0, <3>2, RightRequest
    <3>3. CASE Gather(x) \/ Ask(x) \/ Announce(x) \/ \E kind : Report(x, kind)
      <4>1. UNCHANGED <<resets, attention, approval>>
        BY <3>3 DEF Gather, Ask, Report, Announce, Record, recordVars, tableVars
      <4> QED
        BY <2>0, <4>1, RightKept DEF Plans
    <3>4. CASE SeedRows(x) \/ Detect(x) \/ Fail(x) \/ Interrupt(x) \/ Stage(x) \/ Schedule(x)
      <4>1. UNCHANGED <<resets, attention, approval>>
        BY <3>4 DEF SeedRows, Seed, Detect, Fail, Interrupt, Stage, StageWorkflow,
           Schedule, ScheduleTask, recordVars, tableVars
      <4> QED
        BY <2>0, <4>1, RightKept DEF Plans
    <3>5. ASSUME NEW story, Begin(x, story)
          PROVE  RightInv'
      <4>1. UNCHANGED <<resets, attention, approval>>
        BY <3>5 DEF Begin, recordVars, tableVars
      <4> QED
        BY <2>0, <4>1, RightKept DEF Plans
    <3> QED
      BY <1>2, <2>1, <3>1, <3>2, <3>3, <3>4, <3>5
      DEF StagesDemo, ReportPlan, ReportGate, ReportRequest
  <2>2. CASE CommitDecision
    <3>1. PICK d \in post : DecidePlan(d.plan, d.verdict) /\ d.verdict \in Verdicts
      BY <2>2 DEF CommitDecision, TypeInv, DeskInv
    <3>2. UNCHANGED <<resets, attention>> /\ Plans' = Plans
      BY <3>1, DecideType DEF DecidePlan, TypeInv
    <3> QED
      BY <2>0, <3>2, RightKept
  <2>3. CASE UNCHANGED <<resets, attention, approval>>
    BY <2>0, <2>3, RightKept DEF Plans
  <2> QED
    BY <2>1, <2>2, <2>3 DEF Next, Desk, OpenDemo, LoseForm, RefuseDecision,
       RecordDecision, Record, LoseDecision, PassDay, AdvanceDay, OpenApproval, Decide,
       Restart, DeskRest, recordVars, tableVars, vars
<1> QED
  BY <1>1, <1>2

\* However many processes run demos over each other, stop anywhere and empty
\* the tables under each other: an attention item never gets a second plan.
THEOREM SignalsGetOnePlan == Spec => []OnePlanPerSignal
<1>1. Init => TypeInv /\ RightInv
  BY InitTypeInv DEF Init, RecordsInit, Idle, RightInv, OnePlanPerSignal, Plans
<1>2. TypeInv /\ RightInv /\ [Next]_vars => (TypeInv /\ RightInv)'
  BY TypeStep, RightStep
<1>3. RightInv => OnePlanPerSignal
  BY DEF RightInv
<1> QED
  BY <1>1, <1>2, <1>3, PTL DEF Spec

-----------------------------------------------------------------------------
(* The order of a demo's transactions.                                     *)

\* The moves of a case, in their order.
Rank == [detect |-> 1, register |-> 2, gather |-> 3, ask |-> 4, request |-> 5,
         recommend |-> 6, allow |-> 7, confirm |-> 8, stage |-> 9, schedule |-> 10,
         announce |-> 11]

Before(m, n) ==
  /\ n # <<"reset">>
  /\ n = <<"seed">> => m = <<"reset">>
  /\ m \in Names \X Signals /\ n \in Names \X Signals /\ m[2] = n[2]
       => Rank[m[1]] < Rank[n[1]]

Ordered(s) == \A i, j \in 1..Len(s) : i < j => Before(s[i], s[j])

\* The seed follows the reset, and a plan's request its event.
Followed(s) ==
  \A i \in 1..Len(s) :
    /\ s[i] = <<"reset">> => i < Len(s) /\ s[i + 1] = <<"seed">>
    /\ \A c \in Signals :
         s[i] = <<"request", c>> => i < Len(s) /\ s[i + 1] = <<"recommend", c>>

Elements(s) == {s[i] : i \in 1..Len(s)}

After == Names \ {"detect", "register"}

\* A case that is registered and goes on asks for an approval.
Whole(s) ==
  \A c \in Signals, n \in After :
    {<<"register", c>>, <<n, c>>} \subseteq Elements(s) => <<"request", c>> \in Elements(s)

Registered(s) ==
  \A c \in Signals, n \in After :
    <<n, c>> \in Elements(s) => <<"register", c>> \in Elements(s)

Planned(s) == Ordered(s) /\ Followed(s) /\ Whole(s)

LEMMA Ranks ==
  /\ \A n \in Names : Rank[n] \in 1..11
  /\ Rank["register"] = 2 /\ Rank["gather"] = 3 /\ Rank["request"] = 5
  /\ Rank["recommend"] = 6 /\ Rank["allow"] = 7 /\ Rank["confirm"] = 8
  /\ Rank["stage"] = 9 /\ Rank["schedule"] = 10 /\ Rank["announce"] = 11
  /\ Rank["detect"] = 1 /\ Rank["ask"] = 4
BY DEF Rank, Names

LEMMA TailPlanned ==
  ASSUME NEW s \in Seq(Moves), s # << >>, Planned(s)
  PROVE  /\ Planned(Tail(s))
         /\ Elements(s) = {Head(s)} \cup Elements(Tail(s))
         /\ \A m \in Elements(Tail(s)) : Before(Head(s), m)
         /\ Head(s) = <<"reset">> => Tail(s) # << >> /\ Head(Tail(s)) = <<"seed">>
         /\ \A c \in Signals :
              Head(s) = <<"request", c>> => <<"recommend", c>> \in Elements(Tail(s))
<1> DEFINE t == Tail(s)
           k == Len(t)
<1>1. /\ t \in Seq(Moves) /\ k \in Nat
      /\ Len(s) = k + 1
      /\ \A i \in 1..k : t[i] = s[i + 1]
      /\ Head(s) = s[1]
  BY HeadTailProperties, LenProperties
<1> HIDE DEF t, k
<1>2. Elements(s) = {Head(s)} \cup Elements(t)
  <2>1. ASSUME NEW i \in 1..k + 1
        PROVE  s[i] \in {Head(s)} \cup Elements(t)
    <3>1. CASE i = 1
      BY <1>1, <3>1
    <3>2. CASE i # 1
      <4>1. i - 1 \in 1..k /\ i = (i - 1) + 1
        BY <1>1, <3>2
      <4>2. t[i - 1] = s[i]
        BY <1>1, <4>1
      <4> QED
        BY <4>1, <4>2 DEF Elements, k
    <3> QED
      BY <3>1, <3>2
  <2>2. ASSUME NEW i \in 1..k
        PROVE  t[i] \in Elements(s)
    BY <1>1 DEF Elements
  <2>3. Head(s) \in Elements(s)
    BY <1>1 DEF Elements
  <2>4. Elements(t) = {t[i] : i \in 1..k}
    BY DEF Elements, k
  <2>5. Elements(s) = {s[i] : i \in 1..k + 1}
    BY <1>1 DEF Elements
  <2>6. Elements(s) \subseteq {Head(s)} \cup Elements(t)
    BY <2>1, <2>5
  <2>7. Elements(t) \subseteq Elements(s)
    BY <2>2, <2>4
  <2> QED
    BY <2>3, <2>6, <2>7
<1>3. Elements(t) = {t[i] : i \in 1..k}
  BY DEF Elements, k
<1>4. \A m \in Elements(t) : Before(Head(s), m)
  <2>1. ASSUME NEW i \in 1..k
        PROVE  Before(s[1], s[i + 1])
    BY <1>1 DEF Planned, Ordered
  <2> QED
    BY <1>1, <1>3, <2>1
<1>5. Ordered(t)
  <2>1. ASSUME NEW i \in 1..k, NEW j \in 1..k, i < j
        PROVE  Before(t[i], t[j])
    <3>1. i + 1 \in 1..Len(s) /\ j + 1 \in 1..Len(s) /\ i + 1 < j + 1
      BY <1>1, <2>1
    <3>2. Before(s[i + 1], s[j + 1])
      BY <3>1 DEF Planned, Ordered
    <3> QED
      BY <1>1, <3>2
  <2> QED
    BY <2>1 DEF Ordered, k
<1>6. Followed(t)
  <2>1. ASSUME NEW i \in 1..k
        PROVE  /\ t[i] = <<"reset">> => i < k /\ t[i + 1] = <<"seed">>
               /\ \A c \in Signals :
                    t[i] = <<"request", c>> => i < k /\ t[i + 1] = <<"recommend", c>>
    <3>1. i + 1 \in 1..Len(s) /\ t[i] = s[i + 1]
      BY <1>1
    <3>2. (i + 1 < Len(s)) => (i < k /\ t[i + 1] = s[(i + 1) + 1])
      BY <1>1
    <3> QED
      BY <3>1, <3>2 DEF Planned, Followed
  <2> QED
    BY <2>1 DEF Followed, k
<1>7. Whole(t)
  <2>1. ASSUME NEW c \in Signals, NEW n \in After,
               {<<"register", c>>, <<n, c>>} \subseteq Elements(t)
        PROVE  <<"request", c>> \in Elements(t)
    <3>1. <<"request", c>> \in Elements(s)
      BY <1>2, <2>1 DEF Planned, Whole
    <3>2. Head(s) # <<"request", c>>
      <4>1. Before(Head(s), <<"register", c>>)
        BY <1>4, <2>1
      <4>2. ~Before(<<"request", c>>, <<"register", c>>)
        BY Ranks DEF Before, Names
      <4> QED
        BY <4>1, <4>2
    <3> QED
      BY <1>2, <3>1, <3>2
  <2> QED
    BY <2>1 DEF Whole
<1>8. Head(s) = <<"reset">> => t # << >> /\ Head(t) = <<"seed">>
  <2> SUFFICES ASSUME Head(s) = <<"reset">> PROVE t # << >> /\ Head(t) = <<"seed">>
    OBVIOUS
  <2>1. 1 \in 1..Len(s) /\ s[1] = <<"reset">>
    BY <1>1
  <2>2. 1 < Len(s) /\ s[1 + 1] = <<"seed">>
    BY <2>1 DEF Planned, Followed
  <2>3. 1 \in 1..k /\ t[1] = <<"seed">>
    BY <1>1, <2>2
  <2> QED
    BY <1>1, <2>3, EmptySeq DEF k
<1>9. \A c \in Signals :
        Head(s) = <<"request", c>> => <<"recommend", c>> \in Elements(t)
  <2> SUFFICES ASSUME NEW c \in Signals, Head(s) = <<"request", c>>
               PROVE  <<"recommend", c>> \in Elements(t)
    OBVIOUS
  <2>1. 1 \in 1..Len(s) /\ s[1] = <<"request", c>>
    BY <1>1
  <2>2. 1 < Len(s) /\ s[1 + 1] = <<"recommend", c>>
    BY <2>1 DEF Planned, Followed
  <2>3. 1 \in 1..k /\ t[1] = <<"recommend", c>>
    BY <1>1, <2>2
  <2> QED
    BY <1>3, <2>3
<1> QED
  BY <1>2, <1>4, <1>5, <1>6, <1>7, <1>8, <1>9 DEF Planned, t

LEMMA ConcatOrdered ==
  ASSUME NEW s \in Seq(Moves), NEW t \in Seq(Moves),
         Ordered(s), Ordered(t), Followed(s), Followed(t),
         \A m \in Elements(s), n \in Elements(t) : Before(m, n)
  PROVE  /\ s \o t \in Seq(Moves)
         /\ Ordered(s \o t) /\ Followed(s \o t)
         /\ Elements(s \o t) = Elements(s) \cup Elements(t)
<1> DEFINE u == s \o t
           k == Len(s)
           l == Len(t)
<1>1. /\ u \in Seq(Moves) /\ k \in Nat /\ l \in Nat /\ Len(u) = k + l
      /\ \A i \in 1..k + l : u[i] = IF i <= k THEN s[i] ELSE t[i - k]
  BY ConcatProperties, LenProperties
<1>2. Elements(s) = {s[i] : i \in 1..k} /\ Elements(t) = {t[i] : i \in 1..l}
      /\ Elements(u) = {u[i] : i \in 1..k + l}
  BY <1>1 DEF Elements
<1> HIDE DEF u
<1>3. \A i \in 1..k + l :
        \/ i \in 1..k /\ u[i] = s[i] /\ u[i] \in Elements(s)
        \/ i - k \in 1..l /\ u[i] = t[i - k] /\ u[i] \in Elements(t)
  <2> SUFFICES ASSUME NEW i \in 1..k + l
               PROVE  \/ i \in 1..k /\ u[i] = s[i] /\ u[i] \in Elements(s)
                      \/ i - k \in 1..l /\ u[i] = t[i - k] /\ u[i] \in Elements(t)
    OBVIOUS
  <2> HIDE DEF k, l
  <2>1. CASE i <= k
    <3>1. i \in 1..k /\ u[i] = s[i]
      BY <1>1, <2>1
    <3> QED
      BY <1>2, <3>1
  <2>2. CASE ~(i <= k)
    <3>1. i - k \in 1..l /\ u[i] = t[i - k]
      BY <1>1, <2>2
    <3> QED
      BY <1>2, <3>1
  <2> QED
    BY <2>1, <2>2
<1>4. Elements(u) = Elements(s) \cup Elements(t)
  <2> HIDE DEF k, l
  <2>1. ASSUME NEW i \in 1..k
        PROVE  s[i] \in Elements(u)
    <3>1. i \in 1..k + l /\ u[i] = s[i]
      BY <1>1
    <3> QED
      BY <1>2, <3>1
  <2>2. ASSUME NEW i \in 1..l
        PROVE  t[i] \in Elements(u)
    <3>1. k + i \in 1..k + l /\ ~(k + i <= k) /\ (k + i) - k = i
      BY <1>1
    <3>2. u[k + i] = t[i]
      BY <1>1, <3>1
    <3> QED
      BY <1>2, <3>1, <3>2
  <2> QED
    BY <1>2, <1>3, <2>1, <2>2
<1>5. Ordered(u)
  <2> SUFFICES ASSUME NEW i \in 1..k + l, NEW j \in 1..k + l, i < j
               PROVE  Before(u[i], u[j])
    BY <1>1 DEF Ordered
  <2>1. CASE i \in 1..k /\ j \in 1..k /\ u[i] = s[i] /\ u[j] = s[j]
    BY <2>1 DEF Ordered
  <2>2. CASE i - k \in 1..l /\ j - k \in 1..l /\ u[i] = t[i - k] /\ u[j] = t[j - k]
    <3>1. i - k < j - k
      BY <1>1
    <3> QED
      BY <2>2, <3>1 DEF Ordered
  <2>3. CASE u[i] \in Elements(s) /\ u[j] \in Elements(t)
    BY <2>3
  <2>4. ~(i - k \in 1..l /\ j \in 1..k)
    BY <1>1
  <2> HIDE DEF k, l
  <2> QED
    BY <1>3, <2>1, <2>2, <2>3, <2>4
<1>6. Followed(u)
  <2> SUFFICES ASSUME NEW i \in 1..k + l
               PROVE  /\ u[i] = <<"reset">> => i < k + l /\ u[i + 1] = <<"seed">>
                      /\ \A c \in Signals : u[i] = <<"request", c>> =>
                           i < k + l /\ u[i + 1] = <<"recommend", c>>
    BY <1>1 DEF Followed
  <2>1. CASE i \in 1..k /\ u[i] = s[i]
    <3>1. (i < k) => (i < k + l /\ u[i + 1] = s[i + 1])
      BY <1>1, <2>1
    <3> QED
      BY <2>1, <3>1 DEF Followed
  <2>2. CASE i - k \in 1..l /\ u[i] = t[i - k]
    <3>1. (i - k < l) => (i < k + l /\ u[i + 1] = t[(i - k) + 1])
      <4>1. ASSUME i - k < l
            PROVE  i < k + l /\ u[i + 1] = t[(i - k) + 1]
        <5>1. i + 1 \in 1..k + l /\ ~(i + 1 <= k) /\ (i + 1) - k = (i - k) + 1
          BY <1>1, <2>2, <4>1
        <5>2. u[i + 1] = t[(i + 1) - k]
          BY <1>1, <5>1
        <5> QED
          BY <1>1, <4>1, <5>1, <5>2
      <4> QED
        BY <4>1
    <3> QED
      BY <2>2, <3>1 DEF Followed
  <2> HIDE DEF k, l
  <2> QED
    BY <1>3, <2>1, <2>2
<1> QED
  BY <1>1, <1>4, <1>5, <1>6 DEF u

\* Moves of one case whose rank lies between two bounds.
Span(c, lo, hi) == {m \in Names \X {c} : lo <= Rank[m[1]] /\ Rank[m[1]] <= hi}

Uncovered == <<"register", "B-uncovered">>

LEMMA Pairs ==
  ASSUME NEW a, NEW b
  PROVE  <<a, b>> # <<"reset">> /\ <<a, b>> # <<"seed">>
OBVIOUS

LEMMA SpansBefore ==
  ASSUME NEW c \in {"A", "B", "C"}, NEW lo \in Nat, NEW hi \in Nat, NEW top \in Nat,
         NEW m \in Span(c, lo, hi) \cup {Uncovered}, NEW n \in Span(c, hi + 1, top)
  PROVE  Before(m, n)
<1>1. n[2] = c /\ n[1] \in Names /\ hi + 1 <= Rank[n[1]] /\ n = <<n[1], n[2]>>
  BY DEF Span
<1>2. n # <<"reset">> /\ n # <<"seed">>
  BY <1>1, Pairs
<1>3. CASE m = Uncovered
  <2>1. m[2] # n[2]
    BY <1>1, <1>3 DEF Uncovered
  <2> QED
    BY <1>2, <2>1 DEF Before
<1>4. CASE m \in Span(c, lo, hi)
  <2>1. m[1] \in Names /\ Rank[m[1]] <= hi
    BY <1>4 DEF Span
  <2>2. Rank[m[1]] \in 1..11 /\ Rank[n[1]] \in 1..11
    BY <1>1, <2>1, Ranks, Zenon
  <2> DEFINE low == Rank[m[1]]
             high == Rank[n[1]]
  <2>3. low \in Nat /\ high \in Nat /\ low <= hi /\ hi + 1 <= high
    <3>1. low \in 1..11 /\ high \in 1..11 /\ low <= hi /\ hi + 1 <= high
      BY <1>1, <2>1, <2>2, Zenon
    <3> HIDE DEF low, high
    <3> QED
      BY <3>1
  <2> HIDE DEF low, high
  <2>4. low < high
    BY <2>3
  <2> QED
    BY <1>2, <2>4 DEF Before, low, high
<1> QED
  BY <1>3, <1>4

\* A piece of a case: in order, and every move of it of a rank between bounds.
Piece(s, c, lo, hi) ==
  /\ s \in Seq(Moves) /\ Ordered(s) /\ Followed(s)
  /\ Elements(s) \subseteq Span(c, lo, hi)

Begun(s, c, hi) ==
  /\ s \in Seq(Moves) /\ Ordered(s) /\ Followed(s)
  /\ Elements(s) \subseteq Span(c, 1, hi) \cup (IF c = "B" THEN {Uncovered} ELSE {})

LEMMA PieceJoins ==
  ASSUME NEW s, NEW t, NEW c \in {"A", "B", "C"}, NEW hi \in Nat, NEW top \in Nat,
         hi <= top, Begun(s, c, hi), Piece(t, c, hi + 1, top)
  PROVE  /\ Begun(s \o t, c, top)
         /\ Elements(s \o t) = Elements(s) \cup Elements(t)
<1>1. \A m \in Elements(s), n \in Elements(t) : Before(m, n)
  <2>1. 1 \in Nat
    OBVIOUS
  <2> QED
    BY <2>1, SpansBefore DEF Begun, Piece
<1>2. /\ s \o t \in Seq(Moves) /\ Ordered(s \o t) /\ Followed(s \o t)
      /\ Elements(s \o t) = Elements(s) \cup Elements(t)
  BY <1>1, ConcatOrdered DEF Begun, Piece
<1>3. Span(c, 1, hi) \subseteq Span(c, 1, top) /\ Span(c, hi + 1, top) \subseteq Span(c, 1, top)
  <2>1. \A m \in Names \X {c} : Rank[m[1]] \in 1..11
    BY Ranks
  <2> QED
    BY <2>1 DEF Span
<1> QED
  BY <1>2, <1>3 DEF Begun, Piece

LEMMA NoElements == /\ << >> \in Seq(Moves) /\ Ordered(<< >>) /\ Followed(<< >>)
                    /\ Elements(<< >>) = {}
BY DEF Ordered, Followed, Elements

LEMMA OneElement ==
  ASSUME NEW n \in Names \ {"request"}, NEW c \in Signals
  PROVE  /\ << <<n, c>> >> \in Seq(Moves)
         /\ Ordered(<< <<n, c>> >>) /\ Followed(<< <<n, c>> >>)
         /\ Elements(<< <<n, c>> >>) = {<<n, c>>}
<1> DEFINE m == <<n, c>>
           s == << m >>
<1>1. m \in Moves /\ m # <<"reset">> /\ \A d \in Signals : m # <<"request", d>>
  BY DEF Moves, Later
<1> HIDE DEF m
<1>2. s \in Seq(Moves) /\ Len(s) = 1 /\ s[1] = m
  BY <1>1
<1> HIDE DEF s
<1>3. Elements(s) = {m}
  BY <1>2 DEF Elements
<1>4. Ordered(s)
  BY <1>2 DEF Ordered
<1>5. Followed(s)
  <2>1. \A i \in 1..Len(s) : s[i] = m
    BY <1>2
  <2> QED
    BY <1>1, <2>1, Zenon DEF Followed
<1> QED
  BY <1>2, <1>3, <1>4, <1>5 DEF s, m

LEMMA TwoElements ==
  ASSUME NEW c \in Signals, NEW n \in Names, NEW k \in Names, Rank[n] < Rank[k],
         n = "request" => k = "recommend", k # "request"
  PROVE  /\ << <<n, c>>, <<k, c>> >> \in Seq(Moves)
         /\ Ordered(<< <<n, c>>, <<k, c>> >>) /\ Followed(<< <<n, c>>, <<k, c>> >>)
         /\ Elements(<< <<n, c>>, <<k, c>> >>) = {<<n, c>>, <<k, c>>}
<1> DEFINE m == <<n, c>>
           q == <<k, c>>
           s == << m, q >>
<1>1. /\ m \in Moves /\ m # <<"reset">>
      /\ \A d \in Signals : m = <<"request", d>> => q = <<"recommend", d>>
      /\ q \in Moves /\ q # <<"reset">> /\ \A d \in Signals : q # <<"request", d>>
  BY DEF Moves, Later
<1>2. Before(m, q)
  <2>1. q # <<"seed">> /\ m[1] = n /\ q[1] = k
    OBVIOUS
  <2> HIDE DEF m, q
  <2> QED
    BY <1>1, <2>1 DEF Before
<1> HIDE DEF m, q
<1>3. s \in Seq(Moves) /\ Len(s) = 2 /\ s[1] = m /\ s[2] = q
  BY <1>1
<1> HIDE DEF s
<1>4. Elements(s) = {m, q}
  BY <1>3 DEF Elements
<1>5. Ordered(s)
  BY <1>2, <1>3 DEF Ordered
<1>6. Followed(s)
  <2>1. ASSUME NEW i \in 1..Len(s)
        PROVE  /\ s[i] = <<"reset">> => i < Len(s) /\ s[i + 1] = <<"seed">>
               /\ \A d \in Signals :
                    s[i] = <<"request", d>> => i < Len(s) /\ s[i + 1] = <<"recommend", d>>
    <3>1. CASE i = 2
      BY <1>1, <1>3, <3>1, Zenon
    <3>2. CASE i = 1
      <4>1. s[i] = m /\ s[i + 1] = q /\ i < Len(s)
        BY <1>3, <3>2
      <4> QED
        BY <1>1, <4>1, Zenon
    <3> QED
      BY <1>3, <3>1, <3>2
  <2> QED
    BY <2>1 DEF Followed
<1> QED
  BY <1>3, <1>4, <1>5, <1>6 DEF s, m, q

LEMMA EmptyPiece ==
  ASSUME NEW c, NEW lo, NEW hi
  PROVE  Piece(<< >>, c, lo, hi)
BY NoElements DEF Piece

LEMMA OnePiece ==
  ASSUME NEW n \in Names \ {"request"}, NEW c \in Signals, NEW r \in Nat, Rank[n] = r
  PROVE  Piece(<< <<n, c>> >>, c, r, r)
<1> DEFINE m == <<n, c>>
           s == << m >>
<1>1. s \in Seq(Moves) /\ Ordered(s) /\ Followed(s) /\ Elements(s) = {m}
  BY OneElement
<1>2. m \in Span(c, r, r)
  BY DEF Span
<1> HIDE DEF m, s
<1>3. Piece(s, c, r, r)
  BY <1>1, <1>2 DEF Piece
<1> QED
  BY <1>3 DEF m, s

LEMMA TwoPiece ==
  ASSUME NEW c \in Signals, NEW n \in Names, NEW k \in Names,
         NEW r \in Nat, NEW q \in Nat, Rank[n] = r, Rank[k] = q, r < q,
         n = "request" => k = "recommend", k # "request"
  PROVE  Piece(<< <<n, c>>, <<k, c>> >>, c, r, q)
<1> DEFINE m == <<n, c>>
           p == <<k, c>>
           s == << m, p >>
<1>1. s \in Seq(Moves) /\ Ordered(s) /\ Followed(s) /\ Elements(s) = {m, p}
  BY TwoElements
<1>2. m \in Span(c, r, q) /\ p \in Span(c, r, q)
  BY DEF Span
<1> HIDE DEF m, p, s
<1>3. Piece(s, c, r, q)
  BY <1>1, <1>2 DEF Piece
<1> QED
  BY <1>3 DEF m, p, s

LEMMA CaseStepsOrdered ==
  ASSUME NEW live \in BOOLEAN, NEW c \in {"A", "B", "C"}
  PROVE  /\ Begun(CaseSteps(live, c), c, 11)
         /\ {<<"register", c>>, <<"request", c>>} \subseteq Elements(CaseSteps(live, c))
<1> DEFINE start == << <<"detect", c>>, <<"register", c>> >>
           other == IF c = "B" THEN << <<"register", "B-uncovered">> >> ELSE << >>
           gather == << <<"gather", c>> >>
           ask == IF live THEN << <<"ask", c>> >> ELSE << >>
           asked == << <<"request", c>>, <<"recommend", c>> >>
           more == << <<"allow", c>>, <<"confirm", c>> >>
           stage == IF live \/ c = "C" THEN << <<"stage", c>> >> ELSE << >>
           last == IF live THEN << <<"schedule", c>>, <<"announce", c>> >> ELSE << >>
<1>1. c \in Signals /\ "B-uncovered" \in Signals /\ c # "B-uncovered"
  BY DEF Signals
<1>2. /\ Piece(start, c, 1, 2) /\ Elements(start) = {<<"detect", c>>, <<"register", c>>}
  <2>1. Rank["detect"] < Rank["register"]
    BY Ranks
  <2> QED
    BY <1>1, <2>1, TwoPiece, TwoElements, Ranks DEF Names
<1>3. /\ other \in Seq(Moves) /\ Ordered(other) /\ Followed(other)
      /\ Elements(other) = IF c = "B" THEN {Uncovered} ELSE {}
  BY <1>1, OneElement, NoElements DEF Names, Uncovered
<1>4. Piece(gather, c, 3, 3)
  BY <1>1, OnePiece, Ranks DEF Names
<1>5. Piece(ask, c, 4, 4)
  BY <1>1, OnePiece, EmptyPiece, Ranks DEF Names
<1>6. Piece(asked, c, 5, 6) /\ Elements(asked) = {<<"request", c>>, <<"recommend", c>>}
  <2>1. /\ Rank["request"] = 5 /\ Rank["recommend"] = 6 /\ 5 < 6 /\ 5 \in Nat /\ 6 \in Nat
        /\ "request" \in Names /\ "recommend" \in Names /\ "recommend" # "request"
    BY Ranks DEF Names
  <2>2. Rank["request"] < Rank["recommend"]
    BY <2>1
  <2>3. Piece(asked, c, 5, 6)
    BY <1>1, <2>1, TwoPiece
  <2>4. Elements(asked) = {<<"request", c>>, <<"recommend", c>>}
    BY <1>1, <2>1, <2>2, TwoElements
  <2> QED
    BY <2>3, <2>4
<1>7. Piece(more, c, 7, 8) /\ Piece(stage, c, 9, 9)
  <2>1. /\ Rank["allow"] = 7 /\ Rank["confirm"] = 8 /\ Rank["stage"] = 9
        /\ 7 < 8 /\ 7 \in Nat /\ 8 \in Nat /\ 9 \in Nat
        /\ "allow" \in Names /\ "confirm" \in Names /\ "stage" \in Names \ {"request"}
        /\ "allow" # "request" /\ "confirm" # "request"
    BY Ranks DEF Names
  <2>2. Piece(more, c, 7, 8)
    BY <1>1, <2>1, TwoPiece
  <2>3. Piece(<< <<"stage", c>> >>, c, 9, 9) /\ Piece(<< >>, c, 9, 9)
    BY <1>1, <2>1, OnePiece, EmptyPiece
  <2> QED
    BY <2>2, <2>3
<1>8. Piece(last, c, 10, 11)
  <2>1. Piece(<< <<"schedule", c>>, <<"announce", c>> >>, c, 10, 11)
    <3>1. Rank["schedule"] = 10 /\ Rank["announce"] = 11
      BY Ranks
    <3>2. 10 \in Nat /\ 11 \in Nat /\ 10 < 11 /\ "schedule" # "request"
          /\ "announce" # "request" /\ "schedule" \in Names /\ "announce" \in Names
      BY DEF Names
    <3> QED
      BY <1>1, <3>1, <3>2, TwoPiece
  <2>2. Piece(<< >>, c, 10, 11)
    BY EmptyPiece
  <2> QED
    BY <2>1, <2>2
<1>9. CaseSteps(live, c) =
        start \o other \o gather \o ask \o (asked \o more \o stage) \o last
  BY StagingParts DEF CaseSteps
<1> HIDE DEF start, other, gather, ask, asked, more, stage, last
<1>10. Begun(start \o other, c, 2) /\ Elements(start) \subseteq Elements(start \o other)
  <2>1. \A m \in Elements(start), n \in Elements(other) : Before(m, n)
    BY <1>1, <1>2, <1>3 DEF Before, Uncovered
  <2>2. /\ start \o other \in Seq(Moves)
        /\ Ordered(start \o other) /\ Followed(start \o other)
        /\ Elements(start \o other) = Elements(start) \cup Elements(other)
    BY <1>2, <1>3, <2>1, ConcatOrdered DEF Piece
  <2> QED
    BY <1>2, <1>3, <2>2 DEF Begun, Piece
<1> DEFINE s3 == start \o other \o gather
           s4 == s3 \o ask
           s6 == s4 \o asked
           s8 == s6 \o more
           s9 == s8 \o stage
           s11 == s9 \o last
<1>11. Begun(s3, c, 3) /\ Elements(start) \subseteq Elements(s3)
  <2>1. Piece(gather, c, 2 + 1, 3) /\ 2 <= 3
    BY <1>4
  <2> QED
    BY <1>10, <2>1, PieceJoins
<1> HIDE DEF s3
<1>12. Begun(s4, c, 4) /\ Elements(start) \subseteq Elements(s4)
  <2>1. Piece(ask, c, 3 + 1, 4) /\ 3 <= 4
    BY <1>5
  <2> QED
    BY <1>11, <2>1, PieceJoins
<1> HIDE DEF s4
<1>13. Begun(s6, c, 6) /\ Elements(start) \cup Elements(asked) \subseteq Elements(s6)
  <2>1. Piece(asked, c, 4 + 1, 6) /\ 4 <= 6
    BY <1>6
  <2> QED
    BY <1>12, <2>1, PieceJoins
<1> HIDE DEF s6
<1>14. Begun(s8, c, 8) /\ Elements(start) \cup Elements(asked) \subseteq Elements(s8)
  <2>1. Piece(more, c, 6 + 1, 8) /\ 6 <= 8
    BY <1>7
  <2> QED
    BY <1>13, <2>1, PieceJoins
<1> HIDE DEF s8
<1>15. Begun(s9, c, 9) /\ Elements(start) \cup Elements(asked) \subseteq Elements(s9)
  <2>1. Piece(stage, c, 8 + 1, 9) /\ 8 <= 9
    BY <1>7
  <2> QED
    BY <1>14, <2>1, PieceJoins
<1> HIDE DEF s9
<1>16. Begun(s11, c, 11) /\ Elements(start) \cup Elements(asked) \subseteq Elements(s11)
  <2>1. Piece(last, c, 9 + 1, 11) /\ 9 <= 11
    BY <1>8
  <2> QED
    BY <1>15, <2>1, PieceJoins
<1>17. CaseSteps(live, c) = s11
  <2>1. /\ s4 \in Seq(Moves) /\ asked \in Seq(Moves) /\ more \in Seq(Moves)
        /\ stage \in Seq(Moves)
    BY <1>6, <1>7, <1>12 DEF Begun, Piece
  <2>2. s4 \o (asked \o more \o stage) = s9
    <3>1. asked \o more \in Seq(Moves)
      BY <2>1, ConcatProperties
    <3>2. s4 \o ((asked \o more) \o stage) = (s4 \o (asked \o more)) \o stage
      <4> DEFINE two == asked \o more
                 S == Moves
      <4>1. two \in Seq(S) /\ s4 \in Seq(S) /\ stage \in Seq(S)
        BY <2>1, <3>1
      <4> HIDE DEF two, S
      <4>2. s4 \o (two \o stage) = (s4 \o two) \o stage
        BY <4>1, ConcatAssociative
      <4> QED
        BY <4>2 DEF two
    <3>3. s4 \o (asked \o more) = s8
      <4> DEFINE S == Moves
      <4>1. asked \in Seq(S) /\ s4 \in Seq(S) /\ more \in Seq(S)
        BY <2>1
      <4> HIDE DEF S
      <4>2. s4 \o (asked \o more) = (s4 \o asked) \o more
        BY <4>1, ConcatAssociative
      <4> QED
        BY <4>2 DEF s6, s8
    <3> QED
      BY <3>2, <3>3 DEF s9
  <2> QED
    BY <1>9, <2>2 DEF s3, s4, s11
<1> HIDE DEF s11
<1> QED
  BY <1>2, <1>6, <1>16, <1>17

\* Whatever is staged, its transactions come in the order of their ranks.
LEMMA StepsPlanned ==
  ASSUME NEW story, story.live \in BOOLEAN, story.cases \in Seq({"A", "B", "C"}),
         \A m, n \in 1..Len(story.cases) : m # n => story.cases[m] # story.cases[n]
  PROVE  Planned(Steps(story)) /\ Registered(Steps(story))
<1> DEFINE start == << <<"reset">>, <<"seed">> >>
           c1 == story.cases[1]
           c2 == story.cases[2]
           one == IF Len(story.cases) >= 1 THEN CaseSteps(story.live, c1) ELSE << >>
           two == IF Len(story.cases) >= 2 THEN CaseSteps(story.live, c2) ELSE << >>
           k == Len(story.cases)
<1>0. k \in Nat
  BY LenProperties
<1>1. start \in Seq(Moves) /\ Ordered(start) /\ Followed(start)
      /\ Elements(start) = {<<"reset">>, <<"seed">>}
  <2> DEFINE a == <<"reset">>
             b == <<"seed">>
  <2>1. /\ a \in Moves /\ b \in Moves /\ b # a
        /\ \A c \in Signals : a # <<"request", c>> /\ b # <<"request", c>>
    BY DEF Moves, Later
  <2>2. Before(a, b)
    BY DEF Before
  <2>3. a = <<"reset">> /\ b = <<"seed">>
    OBVIOUS
  <2> HIDE DEF a, b
  <2>4. start = <<a, b>>
    BY <2>3
  <2> HIDE DEF start
  <2>5. start \in Seq(Moves) /\ Len(start) = 2 /\ start[1] = a /\ start[2] = b
    BY <2>1, <2>4
  <2>6. Elements(start) = {a, b}
    BY <2>5 DEF Elements
  <2>7. Ordered(start)
    BY <2>2, <2>5 DEF Ordered
  <2>8. Followed(start)
    BY <2>1, <2>3, <2>5 DEF Followed
  <2> QED
    BY <2>3, <2>5, <2>6, <2>7, <2>8
<1>2. k >= 1 => c1 \in {"A", "B", "C"}
  BY <1>0, ElementOfSeq
<1>3. k >= 2 => c2 \in {"A", "B", "C"} /\ c1 # c2
  <2>1. k >= 2 => 1 \in 1..k /\ 2 \in 1..k
    BY <1>0
  <2> QED
    BY <2>1, ElementOfSeq
<1> DEFINE Case(s, c) == /\ Begun(s, c, 11) /\ c \in {"A", "B", "C"}
                         /\ {<<"register", c>>, <<"request", c>>} \subseteq Elements(s)
<1>4. IF k >= 1 THEN Case(one, c1) ELSE one = << >>
  BY <1>2, CaseStepsOrdered
<1>5. IF k >= 2 THEN Case(two, c2) ELSE two = << >>
  BY <1>3, CaseStepsOrdered
<1>6. Steps(story) = start \o one \o two
  BY DEF Steps
<1> HIDE DEF start, one, two, c1, c2, k
\* What a case's moves look like.
<1>7. ASSUME NEW s, NEW c, Case(s, c)
      PROVE  /\ s \in Seq(Moves) /\ Ordered(s) /\ Followed(s)
             /\ \A m \in Elements(s) : /\ m = <<m[1], m[2]>> /\ m[1] \in Names
                                       /\ m[2] = c \/ (m = Uncovered /\ c = "B")
  <2>1. \A m \in Span(c, 1, 11) : m = <<m[1], m[2]>> /\ m[1] \in Names /\ m[2] = c
    BY DEF Span
  <2>2. Uncovered = <<Uncovered[1], Uncovered[2]>> /\ Uncovered[1] \in Names
    BY DEF Uncovered, Names
  <2>3. Elements(s) \subseteq Span(c, 1, 11) \cup (IF c = "B" THEN {Uncovered} ELSE {})
    BY <1>7 DEF Begun
  <2> QED
    BY <1>7, <2>1, <2>2, <2>3 DEF Begun
<1> HIDE DEF Case
<1>8. /\ one \in Seq(Moves) /\ Ordered(one) /\ Followed(one)
      /\ two \in Seq(Moves) /\ Ordered(two) /\ Followed(two)
  BY <1>4, <1>5, <1>7, NoElements
<1>9. \A m \in Elements(one) :
        /\ k >= 1 /\ m = <<m[1], m[2]>> /\ m[1] \in Names
        /\ m[2] = c1 \/ (m = Uncovered /\ c1 = "B")
  BY <1>4, <1>7, NoElements
<1>10. \A m \in Elements(two) :
         /\ k >= 2 /\ m = <<m[1], m[2]>> /\ m[1] \in Names
         /\ m[2] = c2 \/ (m = Uncovered /\ c2 = "B")
  BY <1>5, <1>7, NoElements
<1>11. ASSUME NEW n, NEW m \in Elements(start), n = <<n[1], n[2]>>, n[1] \in Names
       PROVE  Before(m, n)
  <2>1. n # <<"reset">> /\ n # <<"seed">>
    BY <1>11
  <2>2. m \notin Names \X Signals
    BY <1>1
  <2> QED
    BY <2>1, <2>2 DEF Before
<1>12. ASSUME NEW m \in Elements(one), NEW n \in Elements(two)
       PROVE  Before(m, n)
  <2>0. k >= 2 /\ k >= 1
    BY <1>0, <1>10
  <2>1. n = <<n[1], n[2]>> /\ n # <<"reset">> /\ n # <<"seed">>
    BY <1>10, Pairs
  <2>2. m[2] # n[2]
    <3>1. m[2] = c1 \/ (m[2] = "B-uncovered" /\ c1 = "B")
      BY <1>9 DEF Uncovered
    <3>2. n[2] = c2 \/ (n[2] = "B-uncovered" /\ c2 = "B")
      BY <1>10 DEF Uncovered
    <3> QED
      BY <1>2, <1>3, <2>0, <3>1, <3>2
  <2> QED
    BY <2>1, <2>2 DEF Before
<1> DEFINE first == start \o one
           all == first \o two
<1>13. /\ first \in Seq(Moves) /\ Ordered(first) /\ Followed(first)
       /\ Elements(first) = Elements(start) \cup Elements(one)
  BY <1>1, <1>8, <1>9, <1>11, ConcatOrdered
<1> HIDE DEF first
<1>14. \A m \in Elements(first), n \in Elements(two) : Before(m, n)
  BY <1>10, <1>11, <1>12, <1>13
<1>15. /\ all \in Seq(Moves) /\ Ordered(all) /\ Followed(all)
       /\ Elements(all) = Elements(first) \cup Elements(two)
  BY <1>8, <1>13, <1>14, ConcatOrdered
<1>16. Steps(story) = all
  BY <1>6 DEF first, all
<1> HIDE DEF all
<1>17. ASSUME NEW c \in Signals, NEW n \in After, <<n, c>> \in Elements(all)
       PROVE  {<<"register", c>>, <<"request", c>>} \subseteq Elements(all)
  <2>0. n # "register" /\ n # "detect"
    BY DEF After
  <2>1. <<n, c>> \notin Elements(start)
    BY <1>1
  <2>2. <<n, c>> # Uncovered
    BY <2>0 DEF Uncovered
  <2>3. CASE <<n, c>> \in Elements(one)
    <3>1. k >= 1 /\ c = c1
      BY <1>9, <2>2, <2>3
    <3> QED
      BY <1>4, <1>13, <1>15, <3>1 DEF Case
  <2>4. CASE <<n, c>> \in Elements(two)
    <3>1. k >= 2 /\ c = c2
      BY <1>10, <2>2, <2>4
    <3> QED
      BY <1>5, <1>15, <3>1 DEF Case
  <2> QED
    BY <1>13, <1>15, <1>17, <2>1, <2>3, <2>4
<1> QED
  BY <1>15, <1>16, <1>17 DEF Planned, Whole, Registered

Todo(x) == Elements(demo[x].todo)

TodoInv == \A x \in Processes : Planned(demo[x].todo)

LEMMA NothingPlanned == Planned(<< >>) /\ Elements(<< >>) = {}
BY NoElements DEF Planned, Whole

LEMMA ProceedTodo ==
  ASSUME DemosInv, TodoInv, NEW x \in Processes, Running(x), NEW own \in SUBSET Items,
         Proceed(x, own)
  PROVE  /\ demo'[x].todo = Tail(demo[x].todo) /\ Planned(demo'[x].todo)
         /\ demo'[x].own = own /\ demo'[x].live = demo[x].live
         /\ demo'[x].alone = demo[x].alone
         /\ demo'[x].end \in {"none", "done"}
         /\ \A y \in Processes \ {x} : demo'[y] = demo[y]
         /\ Todo(x) = {Head(demo[x].todo)} \cup Todo(x)'
         /\ \A m \in Todo(x)' : Before(Head(demo[x].todo), m)
<1>1. demo[x].todo \in Seq(Moves) /\ demo[x].todo # << >>
  BY DEF DemosInv, Running
<1>2. LET rest == Tail(demo[x].todo)
      IN  /\ Planned(rest)
          /\ Elements(demo[x].todo) = {Head(demo[x].todo)} \cup Elements(rest)
          /\ \A m \in Elements(rest) : Before(Head(demo[x].todo), m)
  BY <1>1, TailPlanned DEF TodoInv
<1> QED
  BY <1>2, Proceeds DEF Todo

LEMMA LeaveTodo ==
  ASSUME DemosInv, NEW x \in Processes, NEW end,
         demo' = [demo EXCEPT ![x].todo = << >>, ![x].end = end]
  PROVE  /\ demo'[x].todo = << >> /\ Todo(x)' = {} /\ demo'[x].end = end
         /\ demo'[x].own = demo[x].own /\ demo'[x].alone = demo[x].alone
         /\ \A y \in Processes \ {x} : demo'[y] = demo[y]
<1>1. /\ demo'[x].todo = << >> /\ demo'[x].end = end
      /\ demo'[x].own = demo[x].own /\ demo'[x].alone = demo[x].alone
      /\ \A y \in Processes \ {x} : demo'[y] = demo[y]
  BY DEF DemosInv
<1> QED
  BY <1>1, NothingPlanned DEF Todo

LEMMA BeginTodo ==
  ASSUME DemosInv, NEW x \in Processes, NEW story \in Stories[x], Begin(x, story)
  PROVE  /\ demo'[x].todo = Steps(story) /\ demo'[x].own = {} /\ demo'[x].end = "none"
         /\ demo'[x].alone = (\A z \in Processes : ~Running(z))
         /\ Planned(demo'[x].todo) /\ Registered(demo'[x].todo)
         /\ Head(demo'[x].todo) = <<"reset">>
         /\ \A y \in Processes \ {x} :
              /\ demo'[y].todo = demo[y].todo /\ demo'[y].live = demo[y].live
              /\ demo'[y].own = demo[y].own /\ demo'[y].end = demo[y].end
              /\ ~demo'[y].alone
         /\ UNCHANGED <<recordVars, actor, form, post>>
<1>1. /\ Planned(Steps(story)) /\ Registered(Steps(story))
      /\ Head(Steps(story)) = <<"reset">>
  BY StepsPlanned, StepsType
<1>2. demo' = [y \in Processes |->
                IF y = x THEN [todo |-> Steps(story), live |-> story.live, own |-> {},
                               end |-> "none", alone |-> \A z \in Processes : ~Running(z)]
                         ELSE [demo[y] EXCEPT !.alone = FALSE]]
      /\ UNCHANGED <<recordVars, actor, form, post>>
  BY DEF Begin
<1> HIDE DEF Steps
<1>3. /\ demo'[x].todo = Steps(story) /\ demo'[x].own = {} /\ demo'[x].end = "none"
  BY <1>2
<1>4. demo'[x].alone = (\A z \in Processes : ~Running(z))
  BY <1>2
<1>5. \A y \in Processes \ {x} :
        /\ demo'[y].todo = demo[y].todo /\ demo'[y].live = demo[y].live
        /\ demo'[y].own = demo[y].own /\ demo'[y].end = demo[y].end
        /\ ~demo'[y].alone
  BY <1>2 DEF DemosInv
<1> QED
  BY <1>1, <1>2, <1>3, <1>4, <1>5

\* The demos' lists only get shorter.
Shrinks(x) ==
  \/ demo'[x].own = {}
  \/ Todo(x)' = {}
  \/ /\ Todo(x)' \subseteq Todo(x) /\ demo'[x].live = demo[x].live
     /\ \A c : <<"recommend", c>> \in Todo(x) \ Todo(x)' => ReportPlan(x)

LEMMA TodoStep ==
  ASSUME RecordsTypeOK, DemosInv, TodoInv, [Next]_vars
  PROVE  TodoInv' /\ \A x \in Processes : Shrinks(x)
<1>1. ASSUME NEW x \in Processes, Running(x), NEW own \in SUBSET Items, Proceed(x, own),
             Head(demo[x].todo)[1] = "recommend" => ReportPlan(x)
      PROVE  TodoInv' /\ \A y \in Processes : Shrinks(y)
  <2>1. /\ Planned(demo'[x].todo) /\ demo'[x].live = demo[x].live
        /\ Todo(x) = {Head(demo[x].todo)} \cup Todo(x)'
        /\ \A y \in Processes \ {x} : demo'[y] = demo[y]
    BY <1>1, ProceedTodo
  <2>2. TodoInv'
    BY <2>1 DEF TodoInv
  <2>3. \A c : <<"recommend", c>> \in Todo(x) \ Todo(x)' => ReportPlan(x)
    <3> SUFFICES ASSUME NEW c, <<"recommend", c>> \in Todo(x) \ Todo(x)'
                 PROVE  ReportPlan(x)
      OBVIOUS
    <3>1. Head(demo[x].todo) = <<"recommend", c>>
      BY <2>1
    <3> QED
      BY <1>1, <3>1
  <2>4. Shrinks(x)
    BY <2>1, <2>3 DEF Shrinks
  <2>5. ASSUME NEW y \in Processes \ {x}
        PROVE  Shrinks(y)
    BY <2>1 DEF Shrinks, Todo
  <2> QED
    BY <2>2, <2>4, <2>5
<1>2. ASSUME NEW x \in Processes, NEW end,
             demo' = [demo EXCEPT ![x].todo = << >>, ![x].end = end]
      PROVE  TodoInv' /\ \A y \in Processes : Shrinks(y)
  <2>1. /\ demo'[x].todo = << >> /\ Todo(x)' = {}
        /\ \A y \in Processes \ {x} : demo'[y] = demo[y]
    BY <1>2, LeaveTodo
  <2> QED
    BY <2>1, NothingPlanned DEF TodoInv, Shrinks, Todo
<1>3. ASSUME NEW x \in Processes, NEW story \in Stories[x], Begin(x, story)
      PROVE  TodoInv' /\ \A y \in Processes : Shrinks(y)
  <2>1. /\ Planned(demo'[x].todo) /\ demo'[x].own = {}
        /\ \A y \in Processes \ {x} :
             demo'[y].todo = demo[y].todo /\ demo'[y].live = demo[y].live
    BY <1>3, BeginTodo
  <2> QED
    BY <2>1 DEF TodoInv, Shrinks, Todo
<1>4. ASSUME \A x \in Processes : /\ demo'[x].todo = demo[x].todo
                                  /\ demo'[x].live = demo[x].live
      PROVE  TodoInv' /\ \A y \in Processes : Shrinks(y)
  BY <1>4 DEF TodoInv, Shrinks, Todo
<1>5. ASSUME NEW x \in Processes, StagesDemo(x)
      PROVE  TodoInv' /\ \A y \in Processes : Shrinks(y)
  BY <1>1, <1>2, <1>3, <1>5, DemoMoves DEF Leave
<1>6. CASE PassDay
  <2>1. \A x \in Processes : /\ demo'[x].todo = demo[x].todo
                             /\ demo'[x].live = demo[x].live
    BY <1>6 DEF PassDay, DemosInv
  <2> QED
    BY <1>4, <2>1
<1>7. ASSUME NEW u \in People, Restart(u)
      PROVE  TodoInv' /\ \A y \in Processes : Shrinks(y)
  <2> DEFINE last == IF Running(Console) THEN "none" ELSE demo[Console].end
  <2>1. demo' = [demo EXCEPT ![Console].todo = << >>, ![Console].end = last]
    BY <1>7 DEF Restart, DemosInv
  <2> QED
    BY <1>2, <2>1
<1>8. CASE UNCHANGED demo
  BY <1>4, <1>8
<1> QED
  BY <1>5, <1>6, <1>7, <1>8 DEF Next, Desk, OpenDemo, LoseForm, CommitDecision,
     RefuseDecision, RecordDecision, LoseDecision, OpenApproval, Decide, DeskRest, vars

-----------------------------------------------------------------------------
(* Requests and their events.                                              *)

\* The ledger names the plan as recommended in this run.
Asked(p, run) == \E r \in ledger : r.kind = "recommended" /\ p \in r.plans /\ r.run = run

StagedAsked == \A p \in workflows : \E run : Asked(p, run)

\* A demo that has told of its plan and goes on to tell more of it, to stage or to
\* announce it finds the event, under its own run.
OwnAsked ==
  \A x \in Processes : \A item \in demo[x].own :
    /\ Plan(x, item) \in Plans
    /\ <<"recommend", item[2]>> \notin Todo(x)
    /\ \E n \in PlanSteps : <<n, item[2]>> \in Todo(x)
    => Asked(Plan(x, item), RunId(demo[x].live, item[2]))

\* A demo asks once for each item.
OwnUnplanned ==
  \A x \in Processes : \A item \in demo[x].own :
    <<"request", item[2]>> \in Todo(x) => Plan(x, item) \notin Plans

\* Every event about a plan is of the run that requested it.
LedgerAsked == \A e \in ledger : \A p \in e.plans : Asked(p, e.run)

\* The decision being handled is about a plan of the present tables or one
\* that is gone for good; while it is there its run is the request's and,
\* once committed, its approval has the verdict.
PostInv ==
  \A d \in post :
    /\ d.plan \in PlanIds
    /\ d.plan.item[1] <= resets /\ (d.plan.item[1] = resets => d.plan \in Plans)
    /\ d.plan \in Plans => Asked(d.plan, d.run)
    /\ d.plan \in Plans /\ d.recorded => approval[d.plan].status = d.verdict

VerdictsStand ==
  \A e \in ledger : e.kind \in Verdicts =>
    \A p \in e.plans : approval[p].status = e.kind /\ e.who = {Approver(p)}

RequestInv ==
  StagedAsked /\ OwnAsked /\ OwnUnplanned /\ LedgerAsked /\ PostInv /\ VerdictsStand

LEMMA AskedKept ==
  ASSUME ledger \subseteq ledger'
  PROVE  \A p, run : Asked(p, run) => Asked(p, run)'
BY DEF Asked

\* Own items have a signal.
LEMMA OwnItems ==
  ASSUME DemosInv, NEW x \in Processes, NEW item \in demo[x].own
  PROVE  item \in Items /\ item[1] \in Nat /\ item[2] \in Signals /\ item = <<item[1], item[2]>>
BY DEF DemosInv, Items

\* What the demos may rely on survives a step that makes no plan and records
\* no recommendation; whatever is registered has no plan.
LEMMA OwnKept ==
  ASSUME OwnAsked, OwnUnplanned, Plans' \subseteq Plans, ledger \subseteq ledger',
         NEW x \in Processes, Shrinks(x), ~ReportPlan(x),
         \A item \in demo'[x].own \ demo[x].own : Plan(x, item) \notin Plans
  PROVE  \A item \in demo'[x].own :
           /\ /\ Plan(x, item) \in Plans'
              /\ <<"recommend", item[2]>> \notin Todo(x)'
              /\ \E n \in PlanSteps : <<n, item[2]>> \in Todo(x)'
              => /\ demo'[x].live = demo[x].live
                 /\ Asked(Plan(x, item), RunId(demo[x].live, item[2]))'
           /\ <<"request", item[2]>> \in Todo(x)' => Plan(x, item) \notin Plans'
<1> SUFFICES ASSUME NEW item \in demo'[x].own, Plan(x, item) \in Plans'
             PROVE  /\ /\ <<"recommend", item[2]>> \notin Todo(x)'
                       /\ \E n \in PlanSteps : <<n, item[2]>> \in Todo(x)'
                       => /\ demo'[x].live = demo[x].live
                          /\ Asked(Plan(x, item), RunId(demo[x].live, item[2]))'
                    /\ <<"request", item[2]>> \notin Todo(x)'
  OBVIOUS
<1>1. item \in demo[x].own
  OBVIOUS
<1>2. <<"request", item[2]>> \notin Todo(x)'
  BY <1>1 DEF Shrinks, OwnUnplanned
<1>3. ASSUME <<"recommend", item[2]>> \notin Todo(x)',
             \E n \in PlanSteps : <<n, item[2]>> \in Todo(x)'
      PROVE  Asked(Plan(x, item), RunId(demo[x].live, item[2]))' /\ demo'[x].live = demo[x].live
  <2>1. /\ Todo(x)' \subseteq Todo(x) /\ demo'[x].live = demo[x].live
        /\ <<"recommend", item[2]>> \notin Todo(x)
    BY <1>1, <1>3 DEF Shrinks
  <2>2. Asked(Plan(x, item), RunId(demo[x].live, item[2]))
    BY <1>1, <1>3, <2>1 DEF OwnAsked
  <2> QED
    BY <2>1, <2>2 DEF Asked
<1> QED
  BY <1>2, <1>3

\* A step that adds no plan, stages nothing and tells the ledger nothing of a
\* plan.
LEMMA RequestQuiet ==
  ASSUME TypeInv, TodoInv, RequestInv, [Next]_vars,
         UNCHANGED <<approval, workflows, resets>>, ledger \subseteq ledger',
         \A e \in ledger' \ ledger : e.plans = {},
         post' \subseteq post,
         \A x \in Processes : ~ReportPlan(x),
         \A x \in Processes : \A item \in demo'[x].own \ demo[x].own :
           Plan(x, item) \notin Plans
  PROVE  RequestInv'
<1>1. Plans' = Plans
  BY DEF Plans
<1>2. \A p, run : Asked(p, run) => Asked(p, run)'
  BY AskedKept
<1>3. \A x \in Processes : Shrinks(x)
  BY TodoStep DEF TypeInv
<1>4. StagedAsked'
  BY <1>2 DEF RequestInv, StagedAsked
<1>5. OwnAsked' /\ OwnUnplanned'
  <2>1. ASSUME NEW x \in Processes, NEW item \in demo'[x].own
        PROVE  /\ (/\ Plan(x, item) \in Plans'
                   /\ <<"recommend", item[2]>> \notin Todo(x)'
                   /\ \E n \in PlanSteps : <<n, item[2]>> \in Todo(x)')
                  => /\ demo'[x].live = demo[x].live
                     /\ Asked(Plan(x, item), RunId(demo[x].live, item[2]))'
               /\ <<"request", item[2]>> \in Todo(x)' => Plan(x, item) \notin Plans'
    BY <1>1, <1>3, <2>1, OwnKept DEF RequestInv
  <2>2. OwnUnplanned'
    BY <2>1 DEF OwnUnplanned
  <2> QED
    BY <2>1, <2>2 DEF OwnAsked, Asked
<1>6. LedgerAsked'
  BY <1>2 DEF RequestInv, LedgerAsked
<1>7. PostInv'
  BY <1>1, <1>2 DEF RequestInv, PostInv
<1>8. VerdictsStand'
  BY DEF RequestInv, VerdictsStand
<1> QED
  BY <1>4, <1>5, <1>6, <1>7, <1>8 DEF RequestInv

LEMMA RequestReset ==
  ASSUME TypeInv, RequestInv, NEW x \in Processes, Reset(x)
  PROVE  RequestInv'
<1>1. Plans' = {} /\ ledger' = {} /\ workflows' = {} /\ resets' = resets + 1 /\ post' = post
  BY DEF Reset, Truncate, Plans, Goes, Proceed
<1>2. resets \in Nat
  BY DEF TypeInv, RecordsTypeOK
<1>3. PostInv'
  <2>1. ASSUME NEW d \in post
        PROVE  /\ d.plan \in PlanIds /\ d.plan.item[1] <= resets' /\ d.plan.item[1] # resets'
    <3>1. d.plan \in PlanIds /\ d.plan.item[1] <= resets
      BY DEF RequestInv, PostInv
    <3>2. d.plan.item \in Items
      BY <3>1 DEF PlanIds
    <3>3. d.plan.item[1] \in Nat
      BY <3>2 DEF Items
    <3> QED
      BY <1>1, <1>2, <3>1, <3>3
  <2> QED
    BY <1>1, <2>1 DEF PostInv
<1> QED
  BY <1>1, <1>3 DEF RequestInv, StagedAsked, OwnAsked, OwnUnplanned, LedgerAsked,
     VerdictsStand

\* The head of a list in the order of the ranks.
LEMMA HeadMove ==
  ASSUME DemosInv, TodoInv, NEW x \in Processes, NEW own \in SUBSET Items, Proceed(x, own),
         Running(x), NEW n \in Names, Head(demo[x].todo)[1] = n
  PROVE  /\ Subject(x) \in Signals /\ Head(demo[x].todo) = <<n, Subject(x)>>
         /\ <<n, Subject(x)>> \in Todo(x)
         /\ \A k \in Names : Rank[k] <= Rank[n] => <<k, Subject(x)>> \notin Todo(x)'
         /\ n = "request" => <<"recommend", Subject(x)>> \in Todo(x)'
<1> DEFINE h == Head(demo[x].todo)
<1>1. h \in Moves
  BY HeadTailProperties DEF DemosInv, Running
<1>2. h[2] \in Signals
  BY <1>1, MoveNames
<1>3. h = <<n, h[2]>>
  <2>1. h \notin {<<"reset">>, <<"seed">>}
    BY DEF Names
  <2> QED
    BY <1>1, <2>1 DEF Moves, Later
<1>4. \A m \in Todo(x)' : Before(h, m)
  BY ProceedTodo
<1>5. ASSUME NEW k \in Names, Rank[k] <= Rank[n], <<k, h[2]>> \in Todo(x)'
      PROVE  FALSE
  <2>1. Before(<<n, h[2]>>, <<k, h[2]>>)
    BY <1>3, <1>4, <1>5
  <2>2. Rank[n] < Rank[k]
    BY <1>2, <2>1 DEF Before
  <2>3. Rank[n] \in 1..11 /\ Rank[k] \in 1..11
    BY Ranks, Zenon
  <2> DEFINE a == Rank[n]
             b == Rank[k]
  <2>4. a \in 1..11 /\ b \in 1..11 /\ a < b /\ b <= a
    BY <1>5, <2>2, <2>3
  <2> HIDE DEF a, b
  <2> QED
    BY <2>4
<1>6. n = "request" => <<"recommend", h[2]>> \in Todo(x)'
  <2>1. demo[x].todo \in Seq(Moves) /\ demo[x].todo # << >> /\ Planned(demo[x].todo)
    BY DEF DemosInv, Running, TodoInv
  <2>2. \A c \in Signals : h = <<"request", c>> =>
          <<"recommend", c>> \in Elements(Tail(demo[x].todo))
    BY <2>1, TailPlanned
  <2>3. demo'[x].todo = Tail(demo[x].todo)
    BY ProceedTodo
  <2> QED
    BY <1>2, <1>3, <2>2, <2>3 DEF Todo
<1>7. h \in Todo(x)
  BY ProceedTodo
<1> QED
  BY <1>2, <1>3, <1>5, <1>6, <1>7 DEF Subject

\* Of a signal's items only the present one can have a plan.
LEMMA PresentItem ==
  ASSUME TypeInv, RightInv, NEW x \in Processes, NEW item \in demo[x].own,
         NEW i \in demo[x].own, item[2] = i[2],
         Plan(x, item) \in Plans, Plan(x, i) \in Plans
  PROVE  item = i
<1>1. Plan(x, item).item = item /\ Plan(x, i).item = i
  BY DEF Plan
<1>2. item \in attention /\ i \in attention
  BY <1>1 DEF TypeInv, RecordsTypeOK
<1>3. item[1] = resets /\ i[1] = resets
  BY <1>2 DEF RightInv
<1> QED
  BY <1>3, OwnItems DEF TypeInv

\* The request's first event.
LEMMA RequestRecords ==
  ASSUME TypeInv, TodoInv, RightInv, RequestInv, [Next]_vars,
         NEW x \in Processes, ReportPlan(x)
  PROVE  RequestInv'
<1>1. PICK item \in Own(x) :
        Record(Event("recommended", Run(x), {item}, {Plan(x, item)}, User(item)))
  BY DEF ReportPlan, Report
<1>0. PICK run : run = Run(x)
  OBVIOUS
<1> DEFINE e == Event("recommended", run, {item}, {Plan(x, item)}, User(item))
           p == Plan(x, item)
<1>2. /\ UNCHANGED <<approval, workflows, resets>>
      /\ ledger' = ledger \cup {e} /\ p \in Plans
  BY <1>0, <1>1 DEF Record, Resolves, Event
<1>3. e.kind = "recommended" /\ e.plans = {p} /\ e.run = run
  BY DEF Event
<1>4. item \in demo[x].own /\ item[2] = Subject(x)
  BY DEF Own
<1>5. Running(x) /\ Head(demo[x].todo)[1] = "recommend" /\ Proceed(x, demo[x].own)
      /\ demo[x].own \in SUBSET Items /\ "recommend" \in Names
  BY DEF ReportPlan, Report, At, Goes, TypeInv, DemosInv, Names
<1>6. /\ Head(demo[x].todo) = <<"recommend", Subject(x)>>
      /\ Subject(x) \in Signals
  BY <1>5, HeadMove DEF TypeInv
<1>7. /\ demo'[x].own = demo[x].own /\ demo'[x].live = demo[x].live
      /\ \A y \in Processes \ {x} : demo'[y] = demo[y]
      /\ Todo(x) = {Head(demo[x].todo)} \cup Todo(x)'
  BY <1>5, ProceedTodo DEF TypeInv
<1>8. Plans' = Plans /\ post' = post
  BY <1>2, <1>5 DEF Plans, Proceed
<1> HIDE DEF e, p
<1>9. \A q, r : Asked(q, r) => Asked(q, r)'
  BY <1>2, AskedKept
<1>10. Asked(p, run)'
  <2>1. e \in ledger'
    BY <1>2
  <2>2. \E r \in ledger' : r.kind = "recommended" /\ p \in r.plans /\ r.run = run
    BY <1>3, <2>1
  <2> QED
    BY <2>2 DEF Asked
<1>11. StagedAsked'
  BY <1>2, <1>9 DEF RequestInv, StagedAsked
<1>12. OwnUnplanned'
  <2>1. ASSUME NEW y \in Processes, NEW i \in demo'[y].own, <<"request", i[2]>> \in Todo(y)'
        PROVE  Plan(y, i) \notin Plans
    <3>1. i \in demo[y].own /\ Todo(y)' \subseteq Todo(y)
      BY <1>7, <2>1 DEF Todo
    <3> QED
      BY <2>1, <3>1 DEF RequestInv, OwnUnplanned
  <2> QED
    BY <1>8, <2>1 DEF OwnUnplanned
<1>13. OwnAsked'
  <2>1. ASSUME NEW y \in Processes, NEW i \in demo'[y].own,
               Plan(y, i) \in Plans,
               <<"recommend", i[2]>> \notin Todo(y)',
               \E n \in PlanSteps : <<n, i[2]>> \in Todo(y)'
        PROVE  Asked(Plan(y, i), RunId(demo[y].live, i[2]))' /\ demo'[y].live = demo[y].live
    <3>1. i \in demo[y].own /\ Todo(y)' \subseteq Todo(y) /\ demo'[y].live = demo[y].live
      BY <1>7, <2>1 DEF Todo
    <3>2. CASE <<"recommend", i[2]>> \notin Todo(y)
      <4>1. Asked(Plan(y, i), RunId(demo[y].live, i[2]))
        BY <2>1, <3>1, <3>2 DEF RequestInv, OwnAsked
      <4> QED
        BY <1>9, <3>1, <4>1
    <3>3. CASE <<"recommend", i[2]>> \in Todo(y)
      <4>1. y = x
        BY <1>7, <2>1, <3>3 DEF Todo
      <4>2. <<"recommend", i[2]>> = <<"recommend", Subject(x)>>
        BY <1>6, <1>7, <2>1, <3>3, <4>1
      <4>3. i[2] = item[2]
        BY <1>4, <4>2
      <4>4. i = item
        BY <1>2, <1>4, <2>1, <3>1, <4>1, <4>3, PresentItem DEF p
      <4>5. run = RunId(demo[x].live, i[2])
        BY <1>0, <1>4, <4>3 DEF Run
      <4> QED
        BY <1>10, <3>1, <4>1, <4>4, <4>5 DEF p, Asked
    <3> QED
      BY <3>2, <3>3
  <2> QED
    BY <1>8, <2>1 DEF OwnAsked, Asked
<1>14. LedgerAsked'
  <2>1. ASSUME NEW f \in ledger', NEW q \in f.plans
        PROVE  Asked(q, f.run)'
    <3>1. CASE f \in ledger
      BY <1>9, <2>1, <3>1 DEF RequestInv, LedgerAsked
    <3>2. CASE f = e
      BY <1>3, <1>10, <2>1, <3>2
    <3> QED
      BY <1>2, <3>1, <3>2
  <2> QED
    BY <2>1 DEF LedgerAsked
<1>15. PostInv'
  BY <1>2, <1>8, <1>9 DEF RequestInv, PostInv
<1>16. VerdictsStand'
  <2>1. e.kind \notin Verdicts
    BY <1>3 DEF Verdicts
  <2> QED
    BY <1>2, <2>1 DEF RequestInv, VerdictsStand
<1> QED
  BY <1>11, <1>12, <1>13, <1>14, <1>15, <1>16 DEF RequestInv

\* What a demo finds that stages or announces its plan.
LEMMA FoundAsked ==
  ASSUME TypeInv, TodoInv, RequestInv, NEW x \in Processes, NEW n \in PlanSteps \ {"recommend"},
         At(x, n), Goes(x), NEW item \in Own(x), Plan(x, item) \in Plans
  PROVE  Asked(Plan(x, item), Run(x))
<1>1. /\ Running(x) /\ Head(demo[x].todo)[1] = n /\ Proceed(x, demo[x].own)
      /\ demo[x].own \in SUBSET Items /\ n \in Names
  BY DEF At, Goes, TypeInv, DemosInv, Names, PlanSteps
<1>2. /\ Subject(x) \in Signals /\ Head(demo[x].todo) = <<n, Subject(x)>>
      /\ <<n, Subject(x)>> \in Todo(x)
      /\ \A k \in Names : Rank[k] <= Rank[n] => <<k, Subject(x)>> \notin Todo(x)'
  BY <1>1, HeadMove DEF TypeInv
<1>3. Todo(x) = {Head(demo[x].todo)} \cup Todo(x)'
  BY <1>1, ProceedTodo DEF TypeInv
<1>4. Rank["recommend"] <= Rank[n] /\ "recommend" \in Names
  BY Ranks DEF Names, PlanSteps
<1>5. <<"recommend", Subject(x)>> \notin Todo(x)
  <2>1. <<"recommend", Subject(x)>> # <<n, Subject(x)>>
    OBVIOUS
  <2> QED
    BY <1>2, <1>3, <1>4, <2>1
<1>6. item \in demo[x].own /\ item[2] = Subject(x)
  BY DEF Own
<1> QED
  BY <1>2, <1>5, <1>6 DEF RequestInv, OwnAsked, Run

\* Telling more of a plan that was recommended.
LEMMA RequestMentions ==
  ASSUME TypeInv, TodoInv, RightInv, RequestInv, [Next]_vars,
         \A y \in Processes : ~ReportPlan(y),
         NEW x \in Processes, NEW n \in PlanSteps \ {"recommend"}, At(x, n), Goes(x),
         NEW item \in Own(x), NEW run, run = Run(x), NEW kind, kind \notin Verdicts,
         NEW items, NEW who, Record(Event(kind, run, items, {Plan(x, item)}, who))
  PROVE  RequestInv'
<1> DEFINE e == Event(kind, run, items, {Plan(x, item)}, who)
           p == Plan(x, item)
<1>2. /\ UNCHANGED <<approval, workflows, resets>>
      /\ ledger' = ledger \cup {e} /\ p \in Plans
  BY DEF Record, Resolves, Event
<1>3. e.kind \notin Verdicts /\ e.plans = {p} /\ e.run = run
  BY DEF Event
<1>4. Asked(p, run)
  BY <1>2, FoundAsked
<1>5. Plans' = Plans /\ post' = post /\ \A y \in Processes : demo'[y].own = demo[y].own
  <2>1. demo[x].own \in SUBSET Items
    BY DEF TypeInv, DemosInv
  <2>2. \A y \in Processes : demo'[y].own = demo[y].own
    BY <2>1, OwnProceeds DEF Goes, TypeInv
  <2> QED
    BY <1>2, <2>2 DEF Plans, Goes, Proceed
<1> HIDE DEF e, p
<1>6. \A q, r : Asked(q, r) => Asked(q, r)'
  BY <1>2, AskedKept
<1>7. StagedAsked'
  BY <1>2, <1>6 DEF RequestInv, StagedAsked
<1>8. OwnAsked' /\ OwnUnplanned'
  <2>0. \A y \in Processes : Shrinks(y)
    BY TodoStep DEF TypeInv
  <2>1. ASSUME NEW y \in Processes, NEW i \in demo'[y].own
        PROVE  /\ (/\ Plan(y, i) \in Plans'
                   /\ <<"recommend", i[2]>> \notin Todo(y)'
                   /\ \E k \in PlanSteps : <<k, i[2]>> \in Todo(y)')
                  => /\ demo'[y].live = demo[y].live
                     /\ Asked(Plan(y, i), RunId(demo[y].live, i[2]))'
               /\ <<"request", i[2]>> \in Todo(y)' => Plan(y, i) \notin Plans'
    BY <1>2, <1>5, <2>0, <2>1, OwnKept DEF RequestInv
  <2>2. OwnUnplanned'
    BY <2>1 DEF OwnUnplanned
  <2> QED
    BY <2>1, <2>2 DEF OwnAsked, Asked
<1>9. LedgerAsked'
  <2>1. ASSUME NEW f \in ledger', NEW q \in f.plans
        PROVE  Asked(q, f.run)'
    <3>1. CASE f \in ledger
      BY <1>6, <2>1, <3>1 DEF RequestInv, LedgerAsked
    <3>2. CASE f = e
      BY <1>3, <1>4, <1>6, <2>1, <3>2
    <3> QED
      BY <1>2, <3>1, <3>2
  <2> QED
    BY <2>1 DEF LedgerAsked
<1>10. PostInv'
  BY <1>2, <1>5, <1>6 DEF RequestInv, PostInv
<1>11. VerdictsStand'
  BY <1>2, <1>3 DEF RequestInv, VerdictsStand
<1> QED
  BY <1>7, <1>8, <1>9, <1>10, <1>11 DEF RequestInv

LEMMA RequestReports ==
  ASSUME TypeInv, TodoInv, RightInv, RequestInv, [Next]_vars,
         \A y \in Processes : ~ReportPlan(y),
         NEW x \in Processes, ReportGate(x) \/ ReportRequest(x) \/ Announce(x)
  PROVE  RequestInv'
<1>1. PICK run : run = Run(x)
  OBVIOUS
<1>2. ASSUME NEW n \in {"allow", "confirm"}, NEW kind \in {"allowed", "requested"},
             At(x, n), Report(x, kind)
      PROVE  RequestInv'
  <2>1. PICK item \in Own(x) :
          Record(Event(kind, run, {item}, {Plan(x, item)}, User(item)))
    BY <1>1, <1>2 DEF Report
  <2>2. kind \notin Verdicts /\ n \in PlanSteps \ {"recommend"} /\ Goes(x)
    BY <1>2 DEF Verdicts, PlanSteps, Report
  <2> QED
    BY <1>1, <1>2, <2>1, <2>2, RequestMentions
<1>3. CASE Announce(x)
  <2>1. PICK item \in Own(x) :
          Record(Event("scheduled", run, {}, {Plan(x, item)}, User(item)))
    BY <1>1, <1>3 DEF Announce
  <2>2. /\ "scheduled" \notin Verdicts /\ "announce" \in PlanSteps \ {"recommend"}
        /\ At(x, "announce") /\ Goes(x)
    BY <1>3 DEF Verdicts, PlanSteps, Announce
  <2> QED
    BY <1>1, <2>1, <2>2, RequestMentions
<1> QED
  BY <1>2, <1>3 DEF ReportGate, ReportRequest

\* Staging: the workflow's request is in the ledger.
LEMMA RequestStages ==
  ASSUME TypeInv, TodoInv, RequestInv, [Next]_vars,
         NEW x \in Processes, Stage(x), \A y \in Processes : ~ReportPlan(y)
  PROVE  RequestInv'
<1>1. PICK item \in Own(x) : StageWorkflow(Plan(x, item))
  BY DEF Stage
<1> DEFINE p == Plan(x, item)
<1>2. /\ UNCHANGED <<approval, resets, ledger>>
      /\ workflows' = workflows \cup {p} /\ p \in Plans
  BY <1>1 DEF StageWorkflow
<1>0. PICK run : run = Run(x)
  OBVIOUS
<1>4. Asked(p, run)
  <2>1. "stage" \in PlanSteps \ {"recommend"}
    BY DEF PlanSteps
  <2> QED
    BY <1>0, <1>2, <2>1, FoundAsked DEF Stage
<1>5. Plans' = Plans /\ post' = post /\ \A y \in Processes : demo'[y].own = demo[y].own
  <2>1. demo[x].own \in SUBSET Items
    BY DEF TypeInv, DemosInv
  <2>2. \A y \in Processes : demo'[y].own = demo[y].own
    BY <2>1, OwnProceeds DEF Stage, Goes, TypeInv
  <2> QED
    BY <1>2, <2>2 DEF Plans, Stage, Goes, Proceed
<1> HIDE DEF p
<1>6. \A q, r : Asked(q, r) => Asked(q, r)'
  BY <1>2, AskedKept
<1>7. StagedAsked'
  BY <1>2, <1>4, <1>6 DEF RequestInv, StagedAsked
<1>8. OwnAsked' /\ OwnUnplanned'
  <2>0. \A y \in Processes : Shrinks(y)
    BY TodoStep DEF TypeInv
  <2>1. ASSUME NEW y \in Processes, NEW i \in demo'[y].own
        PROVE  /\ (/\ Plan(y, i) \in Plans'
                   /\ <<"recommend", i[2]>> \notin Todo(y)'
                   /\ \E n \in PlanSteps : <<n, i[2]>> \in Todo(y)')
                  => /\ demo'[y].live = demo[y].live
                     /\ Asked(Plan(y, i), RunId(demo[y].live, i[2]))'
               /\ <<"request", i[2]>> \in Todo(y)' => Plan(y, i) \notin Plans'
    BY <1>2, <1>5, <2>0, <2>1, OwnKept DEF RequestInv
  <2>2. OwnUnplanned'
    BY <2>1 DEF OwnUnplanned
  <2> QED
    BY <2>1, <2>2 DEF OwnAsked, Asked
<1>9. LedgerAsked'
  BY <1>2, <1>6 DEF RequestInv, LedgerAsked
<1>10. PostInv'
  BY <1>2, <1>5, <1>6 DEF RequestInv, PostInv
<1>11. VerdictsStand'
  BY <1>2 DEF RequestInv, VerdictsStand
<1> QED
  BY <1>7, <1>8, <1>9, <1>10, <1>11 DEF RequestInv

\* Requesting: the plan is new, and its event is still to be recorded.
LEMMA RequestRequests ==
  ASSUME TypeInv, TodoInv, RightInv, RequestInv, [Next]_vars,
         NEW x \in Processes, Request(x), \A y \in Processes : ~ReportPlan(y)
  PROVE  RequestInv'
<1>1. PICK item \in Own(x) : CreatePending(Plan(x, item))
  BY DEF Request
<1> DEFINE p == Plan(x, item)
<1>2. /\ UNCHANGED <<workflows, resets, ledger>>
      /\ Plans' = Plans \cup {p} /\ p.item \in attention
      /\ \A q \in Plans : q # p => approval'[q] = approval[q]
  BY <1>1 DEF CreatePending, Plans
<1>3. item \in demo[x].own /\ item[2] = Subject(x) /\ p.item = item
  BY DEF Own, Plan
<1>4. Running(x) /\ Head(demo[x].todo)[1] = "request" /\ Proceed(x, demo[x].own)
      /\ demo[x].own \in SUBSET Items /\ "request" \in Names /\ post' = post
  BY DEF Request, At, Goes, Proceed, TypeInv, DemosInv, Names
<1>5. /\ <<"request", Subject(x)>> \in Todo(x)
      /\ <<"request", Subject(x)>> \notin Todo(x)'
      /\ <<"recommend", Subject(x)>> \in Todo(x)'
  <2>1. Rank["request"] <= Rank["request"]
    BY Ranks
  <2> QED
    BY <1>4, <2>1, HeadMove DEF TypeInv
<1>6. /\ demo'[x].own = demo[x].own /\ demo'[x].live = demo[x].live
      /\ \A y \in Processes \ {x} : demo'[y] = demo[y]
  BY <1>4, ProceedTodo DEF TypeInv
<1>7. p \notin Plans
  BY <1>3, <1>5 DEF RequestInv, OwnUnplanned
<1>8. item[1] = resets
  BY <1>2, <1>3 DEF RightInv
<1>9. \A y \in Processes : Shrinks(y)
  BY TodoStep DEF TypeInv
<1>10. \A y, i : Plan(y, i) = p => y = x /\ i = item
  <2>1. \A y, i : Plan(y, i).by = y /\ Plan(y, i).item = i
    BY DEF Plan
  <2> QED
    BY <2>1
<1> HIDE DEF p
<1>11. \A q, run : Asked(q, run) => Asked(q, run)'
  BY <1>2, AskedKept
<1>12. StagedAsked'
  BY <1>2, <1>11 DEF RequestInv, StagedAsked
<1>13. OwnUnplanned'
  <2>1. ASSUME NEW y \in Processes, NEW i \in demo'[y].own, <<"request", i[2]>> \in Todo(y)'
        PROVE  Plan(y, i) \notin Plans'
    <3>1. i \in demo[y].own /\ <<"request", i[2]>> \in Todo(y)
      BY <1>6, <1>9, <2>1 DEF Shrinks
    <3>2. Plan(y, i) \notin Plans
      BY <3>1 DEF RequestInv, OwnUnplanned
    <3>3. Plan(y, i) # p
      BY <1>3, <1>5, <1>10, <2>1
    <3> QED
      BY <1>2, <3>2, <3>3
  <2> QED
    BY <2>1 DEF OwnUnplanned
<1>14. OwnAsked'
  <2>1. ASSUME NEW y \in Processes, NEW i \in demo'[y].own,
               Plan(y, i) \in Plans',
               <<"recommend", i[2]>> \notin Todo(y)',
               \E n \in PlanSteps : <<n, i[2]>> \in Todo(y)'
        PROVE  Asked(Plan(y, i), RunId(demo[y].live, i[2]))' /\ demo'[y].live = demo[y].live
    <3>1. Plan(y, i) # p
      BY <1>3, <1>5, <1>10, <2>1
    <3>2. Plan(y, i) \in Plans
      BY <1>2, <2>1, <3>1
    <3>3. i \in demo[y].own
      BY <1>6, <2>1
    <3>4. /\ Todo(y)' \subseteq Todo(y) /\ demo'[y].live = demo[y].live
          /\ <<"recommend", i[2]>> \notin Todo(y)
      BY <1>9, <2>1 DEF Shrinks
    <3>5. Asked(Plan(y, i), RunId(demo[y].live, i[2]))
      BY <2>1, <3>2, <3>3, <3>4 DEF RequestInv, OwnAsked
    <3> QED
      BY <1>11, <3>4, <3>5
  <2> QED
    BY <2>1 DEF OwnAsked, Asked
<1>15. LedgerAsked'
  BY <1>2, <1>11 DEF RequestInv, LedgerAsked
<1>16. PostInv'
  <2>1. ASSUME NEW d \in post
        PROVE  /\ d.plan \in PlanIds
               /\ d.plan.item[1] <= resets /\ (d.plan.item[1] = resets => d.plan \in Plans')
               /\ d.plan \in Plans' => Asked(d.plan, d.run)'
               /\ d.plan \in Plans' /\ d.recorded => approval'[d.plan].status = d.verdict
    <3>1. d.plan # p
      BY <1>3, <1>7, <1>8 DEF RequestInv, PostInv
    <3> QED
      BY <1>2, <1>11, <3>1 DEF RequestInv, PostInv
  <2> QED
    BY <1>2, <1>4, <2>1 DEF PostInv
<1>17. VerdictsStand'
  <2>1. \A e \in ledger : e.plans \subseteq Plans
    BY DEF TypeInv, RecordsTypeOK, Resolves
  <2>2. \A e \in ledger : \A q \in e.plans : approval'[q] = approval[q]
    BY <1>2, <1>7, <2>1
  <2> QED
    BY <1>2, <2>2 DEF RequestInv, VerdictsStand
<1> QED
  BY <1>12, <1>13, <1>14, <1>15, <1>16, <1>17 DEF RequestInv

\* A decision: loaded with the run of its plan, committed, told to the ledger.
LEMMA RequestDecides ==
  ASSUME TypeInv, RightInv, RequestInv, NEW p \in Plans, NEW verdict \in Verdicts,
         Decide(p, verdict)
  PROVE  RequestInv'
<1>1. PICK run \in RunsOf(p) :
        post' = {[plan |-> p, verdict |-> verdict, run |-> run, recorded |-> FALSE]}
  BY DEF Decide
<1>2. UNCHANGED <<recordVars, demo>>
  BY DEF Decide, DeskRest
<1>3. UNCHANGED <<resets, approval, workflows, ledger, demo>> /\ Plans' = Plans
  BY <1>2 DEF recordVars, tableVars, Plans
<1>4. Asked(p, run)
  <2>1. PICK e \in ledger : p \in e.plans /\ e.run = run
    BY <1>1 DEF RunsOf
  <2> QED
    BY <2>1 DEF RequestInv, LedgerAsked
<1>5. p \in PlanIds /\ p.item[1] = resets
  BY DEF TypeInv, RecordsTypeOK, RightInv
<1>6. PostInv'
  <2> DEFINE d == [plan |-> p, verdict |-> verdict, run |-> run, recorded |-> FALSE]
  <2>1. d.plan = p /\ d.run = run /\ ~d.recorded
    OBVIOUS
  <2>2. post' = {d}
    BY <1>1
  <2> HIDE DEF d
  <2>3. resets \in Nat
    BY DEF TypeInv, RecordsTypeOK
  <2>4. Asked(p, run)'
    BY <1>3, <1>4 DEF Asked
  <2> QED
    BY <1>3, <1>5, <2>1, <2>2, <2>3, <2>4 DEF PostInv
<1>7. OwnAsked'
  <2>1. ASSUME NEW x \in Processes, NEW item \in demo[x].own,
               Plan(x, item) \in Plans, <<"recommend", item[2]>> \notin Todo(x),
               \E n \in PlanSteps : <<n, item[2]>> \in Todo(x)
        PROVE  Asked(Plan(x, item), RunId(demo[x].live, item[2]))'
    <3>1. Asked(Plan(x, item), RunId(demo[x].live, item[2]))
      BY <2>1 DEF RequestInv, OwnAsked
    <3> QED
      BY <1>3, <3>1 DEF Asked
  <2> QED
    BY <1>3, <2>1 DEF OwnAsked, Todo
<1> QED
  BY <1>3, <1>6, <1>7 DEF RequestInv, StagedAsked, OwnUnplanned, LedgerAsked, Asked,
     VerdictsStand, Todo

LEMMA RequestCommits ==
  ASSUME TypeInv, RequestInv, CommitDecision
  PROVE  RequestInv'
<1>1. PICK d \in post : /\ ~d.recorded
                        /\ DecidePlan(d.plan, d.verdict)
                        /\ post' = {[d EXCEPT !.recorded = TRUE]}
                        /\ UNCHANGED demo
  BY DEF CommitDecision
<1>2. d.verdict \in Verdicts
  BY DEF TypeInv, DeskInv
<1>3. /\ Plans' = Plans /\ UNCHANGED <<resets, workflows, ledger, demo>>
      /\ d.plan \in Plans /\ approval[d.plan].status = "pending"
  BY <1>1, <1>2, DecideType DEF DecidePlan, CanDecide, Undecided, TypeInv
<1>4. /\ approval'[d.plan].status = d.verdict
      /\ \A q \in Plans : q # d.plan => approval'[q] = approval[q]
  BY <1>1, <1>3 DEF DecidePlan, TypeInv, RecordsTypeOK
<1>5. PostInv'
  <2> DEFINE f == [d EXCEPT !.recorded = TRUE]
  <2>1. f.plan = d.plan /\ f.run = d.run /\ f.verdict = d.verdict
    OBVIOUS
  <2>2. post' = {f}
    BY <1>1
  <2> HIDE DEF f
  <2>3. d.plan \in PlanIds /\ d.plan.item[1] <= resets /\ Asked(d.plan, d.run)
    BY <1>3 DEF RequestInv, PostInv
  <2>4. Asked(d.plan, d.run)'
    BY <1>3, <2>3 DEF Asked
  <2> QED
    BY <1>3, <1>4, <2>1, <2>2, <2>3, <2>4 DEF PostInv
<1>6. VerdictsStand'
  <2>1. ASSUME NEW e \in ledger, e.kind \in Verdicts, NEW q \in e.plans
        PROVE  approval'[q].status = e.kind /\ e.who = {Approver(q)}
    <3>1. approval[q].status = e.kind /\ e.who = {Approver(q)} /\ q \in Plans
      BY <2>1 DEF RequestInv, VerdictsStand, TypeInv, RecordsTypeOK, Resolves
    <3>2. q # d.plan
      BY <1>3, <2>1, <3>1 DEF Verdicts
    <3> QED
      BY <1>4, <3>1, <3>2
  <2> QED
    BY <1>3, <2>1 DEF VerdictsStand
<1> QED
  BY <1>3, <1>5, <1>6 DEF RequestInv, StagedAsked, OwnAsked, OwnUnplanned, LedgerAsked,
     Asked, Todo

LEMMA RequestTells ==
  ASSUME TypeInv, RequestInv, RecordDecision
  PROVE  RequestInv'
<1>1. PICK d \in post : d.recorded /\ Record(DecisionEvent(d)) /\ post' = {} /\ UNCHANGED demo
  BY DEF RecordDecision
<1> DEFINE e == Event(d.verdict, d.run, {d.plan.item}, {d.plan}, {Approver(d.plan)})
<1>2. /\ e.kind = d.verdict /\ e.plans = {d.plan} /\ e.run = d.run
      /\ e.who = {Approver(d.plan)}
  BY DEF Event
<1>3. /\ UNCHANGED <<resets, approval, workflows, demo>> /\ Plans' = Plans
      /\ ledger' = ledger \cup {e} /\ d.plan \in Plans
  <2>1. DecisionEvent(d) = e
    BY DEF DecisionEvent
  <2> HIDE DEF e
  <2> QED
    BY <1>1, <1>2, <2>1 DEF Record, Resolves, Plans
<1> HIDE DEF e
<1>4. \A q, r : Asked(q, r) => Asked(q, r)'
  BY <1>3, AskedKept
<1>5. Asked(d.plan, d.run)' /\ approval[d.plan].status = d.verdict
  BY <1>1, <1>3, <1>4 DEF RequestInv, PostInv
<1>6. LedgerAsked'
  <2>1. ASSUME NEW f \in ledger', NEW q \in f.plans
        PROVE  Asked(q, f.run)'
    <3>1. CASE f \in ledger
      BY <1>4, <2>1, <3>1 DEF RequestInv, LedgerAsked
    <3>2. CASE f = e
      BY <1>2, <1>5, <2>1, <3>2
    <3> QED
      BY <1>3, <3>1, <3>2
  <2> QED
    BY <2>1 DEF LedgerAsked
<1>7. VerdictsStand'
  <2>1. ASSUME NEW f \in ledger', f.kind \in Verdicts, NEW q \in f.plans
        PROVE  approval[q].status = f.kind /\ f.who = {Approver(q)}
    <3>1. CASE f \in ledger
      BY <2>1, <3>1 DEF RequestInv, VerdictsStand
    <3>2. CASE f = e
      BY <1>2, <1>5, <2>1, <3>2
    <3> QED
      BY <1>3, <3>1, <3>2
  <2> QED
    BY <1>3, <2>1 DEF VerdictsStand
<1>8. StagedAsked'
  BY <1>3, <1>4 DEF RequestInv, StagedAsked
<1>9. OwnUnplanned'
  BY <1>3 DEF RequestInv, OwnUnplanned, Todo
<1>10. OwnAsked'
  <2>1. ASSUME NEW x \in Processes, NEW item \in demo[x].own,
               Plan(x, item) \in Plans, <<"recommend", item[2]>> \notin Todo(x),
               \E n \in PlanSteps : <<n, item[2]>> \in Todo(x)
        PROVE  Asked(Plan(x, item), RunId(demo[x].live, item[2]))'
    <3>1. Asked(Plan(x, item), RunId(demo[x].live, item[2]))
      BY <2>1 DEF RequestInv, OwnAsked
    <3> QED
      BY <1>3, <3>1 DEF Asked
  <2> QED
    BY <1>3, <2>1 DEF OwnAsked, Todo
<1>11. PostInv'
  BY <1>1 DEF PostInv
<1> QED
  BY <1>6, <1>7, <1>8, <1>9, <1>10, <1>11 DEF RequestInv

LEMMA RequestStep ==
  ASSUME TypeInv, TypeInv', TodoInv, RightInv, RequestInv, [Next]_vars
  PROVE  RequestInv'
<1>1. CASE \E x \in Processes : Reset(x)
  BY <1>1, RequestReset
<1>2. CASE \E x \in Processes : ReportPlan(x)
  BY <1>2, RequestRecords
<1>3. ASSUME \A x \in Processes : ~ReportPlan(x)
      PROVE  RequestInv'
  <2>1. CASE \E x \in Processes : Request(x)
    BY <1>3, <2>1, RequestRequests
  <2>2. CASE \E x \in Processes : ReportGate(x) \/ ReportRequest(x) \/ Announce(x)
    BY <1>3, <2>2, RequestReports
  <2>3. CASE \E x \in Processes : Stage(x)
    BY <1>3, <2>3, RequestStages
  <2>4. ASSUME NEW x \in Processes, RegisterSignal(x)
        PROVE  RequestInv'
    <3> DEFINE item == Item(Subject(x))
    <3>1. /\ UNCHANGED <<approval, workflows, resets>> /\ post' = post
          /\ Proceed(x, demo[x].own \cup ({item} \ attention))
      BY <2>4 DEF RegisterSignal, Register, Proceed
    <3>2. ledger \subseteq ledger' /\ \A e \in ledger' \ ledger : e.plans = {}
      <4>1. PICK e : ledger' = ledger \cup {e} /\ e.plans = {}
        <5> DEFINE kind == IF item \in attention THEN "deduplicated" ELSE "detected"
                   new == Event(kind, Run(x), {item}, {}, {})
        <5>1. ledger' = ledger \cup {new}
          BY <2>4 DEF RegisterSignal, Register
        <5>2. new.plans = {}
          BY DEF Event
        <5> HIDE DEF new
        <5> QED
          BY <5>1, <5>2
      <4> QED
        BY <4>1
    <3>3. item \in attention'
      BY <2>4 DEF RegisterSignal, Register
    <3>4. attention' \subseteq Items
      BY DEF TypeInv, RecordsTypeOK
    <3>5. demo[x].own \cup ({item} \ attention) \in SUBSET Items
      BY <3>3, <3>4 DEF TypeInv, DemosInv
    <3> HIDE DEF item
    <3>6. /\ demo'[x].own = demo[x].own \cup ({item} \ attention)
          /\ \A y \in Processes \ {x} : demo'[y].own = demo[y].own
      BY <3>1, <3>5, OwnProceeds DEF TypeInv
    <3>7. item \notin attention => Plan(x, item) \notin Plans
      <4>1. Plan(x, item).item = item
        BY DEF Plan
      <4> QED
        BY <4>1 DEF TypeInv, RecordsTypeOK
    <3>8. ASSUME NEW y \in Processes, NEW i \in demo'[y].own \ demo[y].own
          PROVE  Plan(y, i) \notin Plans
      BY <3>6, <3>7, <3>8
    <3> QED
      BY <1>3, <3>1, <3>2, <3>8, RequestQuiet
  <2>5. ASSUME NEW x \in Processes, Gather(x) \/ Ask(x)
        PROVE  RequestInv'
    <3>1. UNCHANGED <<approval, workflows, resets>> /\ post' = post
      BY <2>5 DEF Gather, Ask, Record, recordVars, tableVars, Goes, Proceed, Leave
    <3>2. ledger \subseteq ledger' /\ \A e \in ledger' \ ledger : e.plans = {}
      <4>1. CASE ledger' = ledger
        BY <4>1
      <4>2. ASSUME NEW kind, NEW items, NEW who, Record(Event(kind, Run(x), items, {}, who))
            PROVE  ledger \subseteq ledger' /\ \A e \in ledger' \ ledger : e.plans = {}
        BY <4>2 DEF Record, Event
      <4> QED
        BY <2>5, <4>1, <4>2 DEF Gather, Ask, recordVars, tableVars
    <3>3. \A y \in Processes : \A i \in demo'[y].own \ demo[y].own : Plan(y, i) \notin Plans
      <4>1. demo[x].own \in SUBSET Items
        BY DEF TypeInv, DemosInv
      <4>2. CASE Goes(x)
        BY <4>1, <4>2, OwnProceeds DEF Goes, TypeInv
      <4>3. CASE Leave(x, "done")
        BY <4>3 DEF Leave, TypeInv, DemosInv
      <4> QED
        BY <2>5, <4>2, <4>3 DEF Gather, Ask
    <3> QED
      BY <1>3, <3>1, <3>2, <3>3, RequestQuiet
  <2>6. ASSUME UNCHANGED <<approval, workflows, resets, ledger>>, post' \subseteq post,
               ~\E x \in Processes : RegisterSignal(x)
        PROVE  RequestInv'
    <3>1. \A y \in Processes : demo'[y].own \subseteq demo[y].own
      BY <2>6, OwnShrinks DEF TypeInv
    <3> QED
      BY <1>3, <2>6, <3>1, RequestQuiet
  <2>7. ASSUME NEW x \in Processes,
               \/ SeedRows(x) \/ Detect(x) \/ Fail(x) \/ Interrupt(x) \/ Schedule(x)
               \/ \E story \in Stories[x] : Begin(x, story)
        PROVE  UNCHANGED <<approval, workflows, resets, ledger>> /\ post' = post
    BY <2>7 DEF SeedRows, Seed, Detect, Fail, Interrupt, Schedule, ScheduleTask, Begin,
       recordVars, tableVars, Goes, Proceed, Leave
  <2>8. ASSUME NEW x \in Processes, StagesDemo(x), ~\E y \in Processes : Reset(y)
        PROVE  RequestInv'
    <3>1. CASE \E y \in Processes : RegisterSignal(y)
      BY <2>4, <3>1
    <3>2. CASE ~\E y \in Processes : RegisterSignal(y)
      BY <1>3, <2>1, <2>2, <2>3, <2>5, <2>6, <2>7, <2>8, <3>2 DEF StagesDemo
    <3> QED
      BY <3>1, <3>2
  <2>9. CASE Desk
    <3>1. CASE \E p \in Plans, verdict \in Verdicts : Decide(p, verdict)
      BY <3>1, RequestDecides
    <3>2. CASE CommitDecision \/ RecordDecision
      BY <3>2, RequestCommits, RequestTells
    <3>3. CASE UNCHANGED <<approval, workflows, resets, ledger>> /\ post' \subseteq post
      BY <2>4, <2>6, <3>3
    <3> QED
      BY <2>9, <3>1, <3>2, <3>3 DEF Desk, OpenDemo, LoseForm, RefuseDecision, LoseDecision,
         PassDay, AdvanceDay, OpenApproval, Restart, DeskRest, recordVars, tableVars
  <2>10. CASE UNCHANGED vars
    <3>1. UNCHANGED <<approval, workflows, resets, ledger>> /\ post' \subseteq post
      BY <2>10 DEF vars, recordVars, tableVars
    <3> QED
      BY <2>4, <2>6, <3>1
  <2> QED
    BY <1>1, <2>8, <2>9, <2>10 DEF Next
<1> QED
  BY <1>1, <1>2, <1>3

DeskInvariant == TypeInv /\ TodoInv /\ RightInv /\ RequestInv

LEMMA DeskInvariantHolds == Spec => []DeskInvariant
<1>1. Init => DeskInvariant
  <2> SUFFICES ASSUME Init PROVE DeskInvariant
    OBVIOUS
  <2>1. TypeInv
    BY InitTypeInv
  <2>2. RightInv
    BY DEF Init, RecordsInit, Idle, RightInv, OnePlanPerSignal, Plans
  <2>3. TodoInv
    BY NothingPlanned DEF Init, Idle, TodoInv
  <2>4. RequestInv
    BY DEF Init, RecordsInit, Idle, RequestInv, StagedAsked, OwnAsked, OwnUnplanned,
       LedgerAsked, PostInv, VerdictsStand
  <2> QED
    BY <2>1, <2>2, <2>3, <2>4 DEF DeskInvariant
<1>2. DeskInvariant /\ [Next]_vars => DeskInvariant'
  <2> SUFFICES ASSUME DeskInvariant, [Next]_vars PROVE DeskInvariant'
    OBVIOUS
  <2>1. TypeInv'
    BY TypeStep DEF DeskInvariant
  <2>2. RightInv'
    BY RightStep DEF DeskInvariant
  <2>3. TodoInv'
    BY TodoStep DEF DeskInvariant, TypeInv
  <2>4. RequestInv'
    BY <2>1, RequestStep DEF DeskInvariant
  <2> QED
    BY <2>1, <2>2, <2>3, <2>4 DEF DeskInvariant
<1> QED
  BY <1>1, <1>2, PTL DEF Spec

\* A workflow whose approval is open is in its approver's queue, the approver
\* may open it, and a decision finds the audit run, in every order of demos,
\* resets and decisions: a request's event comes before its workflow.
THEOREM StagedCanBeAnswered == Spec => []StagedIsAnswerable
<1>1. DeskInvariant => StagedIsAnswerable
  <2> SUFFICES ASSUME DeskInvariant, NEW p \in workflows, Undecided(p)
               PROVE  /\ RunsOf(p) # {}
                      /\ p \in PendingFor(Approver(p))
                      /\ CanViewPlan(Approver(p), p)
    BY DEF StagedIsAnswerable
  <2>1. p \in Plans
    BY DEF DeskInvariant, TypeInv, RecordsTypeOK
  <2>2. PICK e \in ledger : p \in e.plans
    BY DEF DeskInvariant, RequestInv, StagedAsked, Asked
  <2>3. RunsOf(p) # {}
    BY <2>2 DEF RunsOf
  <2> QED
    BY <2>1, <2>3 DEF PendingFor, CanViewPlan
<1> QED
  BY <1>1, DeskInvariantHolds, PTL

\* The decisions in the ledger are those of the approvals, by their approvers
\* and in the run of the request, though each is told in a transaction of its
\* own that a reset, a restart or another demo may come before.
THEOREM LedgerAlwaysAgrees == Spec => []LedgerAgrees
<1>1. DeskInvariant => LedgerAgrees
  <2> SUFFICES ASSUME DeskInvariant, NEW e \in ledger, e.kind \in Verdicts, NEW p \in e.plans
               PROVE  /\ approval[p].status = e.kind
                      /\ e.who = {Approver(p)}
                      /\ \E r \in ledger :
                           r.kind = "recommended" /\ p \in r.plans /\ r.run = e.run
    BY DEF LedgerAgrees
  <2>1. Asked(p, e.run)
    BY DEF DeskInvariant, RequestInv, LedgerAsked
  <2> QED
    BY <2>1 DEF DeskInvariant, RequestInv, VerdictsStand, Asked
<1> QED
  BY <1>1, DeskInvariantHolds, PTL

-----------------------------------------------------------------------------
(* A demo that is left alone.                                              *)

Alone(x) == Running(x) /\ demo[x].alone

OnlyOne(x) == \A y \in Processes : Running(y) => y = x

\* Once it has emptied the tables they hold what it put there, and the seed
\* is missing exactly as long as it has still to write it.
TablesOwn(x) ==
  IF Head(demo[x].todo) = <<"reset">> THEN demo[x].own = {}
  ELSE /\ day = 0
       /\ (Head(demo[x].todo) = <<"seed">>) <=> ~seeded
       /\ demo[x].own = attention

\* A case that goes on is still to be registered, or has its item; ...
RegistersFirst(x) ==
  \A c \in Signals, n \in After :
    <<n, c>> \in Todo(x) =>
      <<"register", c>> \in Todo(x) \/ \E item \in demo[x].own : item[2] = c

\* ... and what needs its plan has it, or the plan is still to be requested.
RequestsFirst(x) ==
  \A item \in demo[x].own, n \in PlanSteps :
    <<n, item[2]>> \in Todo(x) =>
      <<"request", item[2]>> \in Todo(x) \/ Plan(x, item) \in Plans

Lone(x) == OnlyOne(x) /\ TablesOwn(x) /\ RegistersFirst(x) /\ RequestsFirst(x)

AloneInv == \A x \in Processes : Alone(x) => Lone(x)

\* The head of a list: what ranks below it has been done.
LEMMA HeadDone ==
  ASSUME DemosInv, TodoInv, NEW x \in Processes, Running(x),
         NEW n \in Names, Head(demo[x].todo)[1] = n
  PROVE  /\ Subject(x) \in Signals /\ Head(demo[x].todo) = <<n, Subject(x)>>
         /\ <<n, Subject(x)>> \in Todo(x)
         /\ \A k \in Names : Rank[k] < Rank[n] => <<k, Subject(x)>> \notin Todo(x)
<1> DEFINE h == Head(demo[x].todo)
           rest == Elements(Tail(demo[x].todo))
<1>1. demo[x].todo \in Seq(Moves) /\ demo[x].todo # << >> /\ Planned(demo[x].todo)
  BY DEF DemosInv, Running, TodoInv
<1>2. h \in Moves
  BY <1>1, HeadTailProperties
<1>3. Todo(x) = {h} \cup rest /\ \A m \in rest : Before(h, m)
  BY <1>1, TailPlanned DEF Todo
<1>4. h[2] \in Signals
  BY <1>2, MoveNames
<1>5. h = <<n, h[2]>>
  <2>1. h \notin {<<"reset">>, <<"seed">>}
    BY DEF Names
  <2> QED
    BY <1>2, <2>1 DEF Moves, Later
<1>6. ASSUME NEW k \in Names, Rank[k] < Rank[n], <<k, h[2]>> \in Todo(x)
      PROVE  FALSE
  <2> DEFINE a == Rank[n]
             b == Rank[k]
  <2>1. a \in 1..11 /\ b \in 1..11 /\ b < a
    BY <1>6, Ranks, Zenon
  <2>2. <<k, h[2]>> # h
    <3>1. a # b
      <4> HIDE DEF a, b
      <4> QED
        BY <2>1
    <3>2. n # k
      BY <3>1
    <3> QED
      BY <1>5, <3>2
  <2>3. Before(<<n, h[2]>>, <<k, h[2]>>)
    BY <1>3, <1>5, <1>6, <2>2
  <2>4. a < b
    BY <1>4, <2>3 DEF Before
  <2> HIDE DEF a, b
  <2> QED
    BY <2>1, <2>4
<1> QED
  BY <1>3, <1>4, <1>5, <1>6 DEF Subject

\* It does not fail.
LEMMA AloneFails ==
  ASSUME TypeInv, TodoInv, NEW x \in Processes, Alone(x), Lone(x), Fails(x)
  PROVE  FALSE
<1> DEFINE h == Head(demo[x].todo)
<1>1. Running(x) /\ h \in Moves
  BY HeadTailProperties DEF Alone, TypeInv, DemosInv, Running
<1>2. h[1] = "seed" => h = <<"seed">> /\ h # <<"reset">>
  BY <1>1 DEF Moves, Later, Names
<1>3. h[1] \in Names => h # <<"seed">> /\ h # <<"reset">>
  BY DEF Names
<1>4. ~At(x, "seed")
  <2> SUFFICES ASSUME At(x, "seed") PROVE ~(Fails(x))
    OBVIOUS
  <2>1. h[1] = "seed" /\ h = <<"seed">> /\ h # <<"reset">>
    BY <1>2 DEF At
  <2>2. ~seeded
    BY <2>1 DEF Lone, TablesOwn
  <2> QED
    BY <2>1, <2>2 DEF Fails, At, PlanSteps
<1>5. h[1] \in Names
  BY <1>4 DEF Fails, At, Names, PlanSteps
<1>6. day = 0 /\ seeded /\ demo[x].own = attention
  BY <1>3, <1>5 DEF Lone, TablesOwn
<1>7. Own(x) \subseteq attention
  BY <1>6 DEF Own
<1>8. PICK n \in Names : h[1] = n
  BY <1>5
<1>9. /\ Subject(x) \in Signals /\ <<n, Subject(x)>> \in Todo(x)
      /\ \A k \in Names : Rank[k] < Rank[n] => <<k, Subject(x)>> \notin Todo(x)
  BY <1>1, <1>8, HeadDone DEF TypeInv
<1>10. CASE n = "gather"
  <2>1. <<"register", Subject(x)>> \notin Todo(x)
    BY <1>9, <1>10, Ranks DEF Names
  <2>2. "gather" \in After
    BY DEF After, Names
  <2>3. \E item \in demo[x].own : item[2] = Subject(x)
    BY <1>9, <1>10, <2>1, <2>2 DEF Lone, RegistersFirst
  <2>4. Own(x) # {}
    BY <2>3 DEF Own
  <2> QED
    BY <1>6, <1>7, <1>8, <1>10, <2>4 DEF Fails, At, PlanSteps
<1>11. CASE n \in PlanSteps
  <2>1. <<"request", Subject(x)>> \notin Todo(x)
    BY <1>9, <1>11, Ranks DEF Names, PlanSteps
  <2>2. \A item \in Own(x) : Plan(x, item) \in Plans
    BY <1>9, <1>11, <2>1 DEF Own, Lone, RequestsFirst
  <2> QED
    BY <1>6, <1>8, <1>11, <2>2 DEF Fails, At, PlanSteps
<1>12. CASE n \notin {"gather"} \cup PlanSteps
  BY <1>4, <1>6, <1>7, <1>8, <1>12 DEF Fails, At
<1> QED
  BY <1>10, <1>11, <1>12

\* One move of it on: the order of its steps.
LEMMA LoneOrder ==
  ASSUME TypeInv, TodoInv, NEW x \in Processes, Lone(x), Running(x),
         NEW own \in SUBSET Items, Proceed(x, own), demo[x].own \subseteq own,
         own = {} \/ Plans \subseteq Plans',
         \A c : Head(demo[x].todo) = <<"register", c>> => \E item \in own : item[2] = c,
         \A c : Head(demo[x].todo) = <<"request", c>> =>
                  \A item \in own : item[2] = c => Plan(x, item) \in Plans',
         \A item \in own \ demo[x].own : Head(demo[x].todo) = <<"register", item[2]>>
  PROVE  OnlyOne(x)' /\ RegistersFirst(x)' /\ RequestsFirst(x)'
<1> DEFINE h == Head(demo[x].todo)
<1>1. /\ demo'[x].own = own
      /\ \A y \in Processes \ {x} : demo'[y] = demo[y]
      /\ Todo(x) = {h} \cup Todo(x)'
  BY ProceedTodo DEF TypeInv
<1>2. OnlyOne(x)'
  BY <1>1 DEF Lone, OnlyOne, Running
<1>3. RegistersFirst(x)'
  <2>1. ASSUME NEW c \in Signals, NEW n \in After, <<n, c>> \in Todo(x)',
               <<"register", c>> \notin Todo(x)'
        PROVE  \E item \in own : item[2] = c
    <3>1. CASE <<"register", c>> \in Todo(x)
      <4>1. h = <<"register", c>>
        BY <1>1, <2>1, <3>1
      <4> QED
        BY <4>1
    <3>2. CASE \E item \in demo[x].own : item[2] = c
      BY <3>2
    <3> QED
      BY <1>1, <2>1, <3>1, <3>2 DEF Lone, RegistersFirst
  <2> QED
    BY <1>1, <2>1 DEF RegistersFirst
<1>4. RequestsFirst(x)'
  <2>1. ASSUME NEW item \in own, NEW n \in PlanSteps,
               <<n, item[2]>> \in Todo(x)', <<"request", item[2]>> \notin Todo(x)'
        PROVE  Plan(x, item) \in Plans'
    <3>1. CASE item \in demo[x].own
      <4>1. <<"request", item[2]>> \in Todo(x) \/ Plan(x, item) \in Plans
        BY <1>1, <2>1, <3>1 DEF Lone, RequestsFirst
      <4>2. CASE <<"request", item[2]>> \in Todo(x)
        <5>1. h = <<"request", item[2]>>
          BY <1>1, <2>1, <4>2
        <5> QED
          BY <5>1
      <4> QED
        BY <2>1, <4>1, <4>2
    <3>2. CASE item \notin demo[x].own
      <4>1. h = <<"register", item[2]>> /\ item[2] \in Signals
        BY <3>2 DEF Items
      <4>2. <<"register", item[2]>> \in Todo(x) /\ <<n, item[2]>> \in Todo(x)
        BY <1>1, <2>1, <4>1
      <4>3. n \in After
        BY DEF After, Names, PlanSteps
      <4>4. Whole(demo[x].todo)
        BY DEF TodoInv, Planned
      <4>5. <<"request", item[2]>> \in Todo(x)
        BY <4>1, <4>2, <4>3, <4>4 DEF Whole, Todo
      <4>6. h # <<"request", item[2]>>
        BY <4>1
      <4> QED
        BY <1>1, <2>1, <4>5, <4>6
    <3> QED
      BY <3>1, <3>2
  <2> QED
    BY <1>1, <2>1 DEF RequestsFirst
<1> QED
  BY <1>2, <1>3, <1>4

\* One move of it on: what the tables hold.
LEMMA LoneProceeds ==
  ASSUME TypeInv, TypeInv', TodoInv, RightInv, NEW x \in Processes, Alone(x), Lone(x),
         StagesDemo(x), NEW some, Proceed(x, some), Running(x)'
  PROVE  Lone(x)'
<1> DEFINE h == Head(demo[x].todo)
           next == Head(demo'[x].todo)
<1>0. Running(x) /\ demo[x].own \in SUBSET Items
  BY DEF Alone, TypeInv, DemosInv
<1>1. demo[x].todo \in Seq(Moves) /\ demo[x].todo # << >> /\ Planned(demo[x].todo)
  BY <1>0 DEF TypeInv, DemosInv, Running, TodoInv
<1>2. h \in Moves /\ demo'[x].todo = Tail(demo[x].todo) /\ demo'[x].todo # << >>
  <2>1. demo'[x].todo = Tail(demo[x].todo)
    BY Proceeds DEF TypeInv
  <2>2. h \in Moves
    BY <1>1, HeadTailProperties
  <2> QED
    BY <2>1, <2>2 DEF Running
<1>3. next \in Elements(demo'[x].todo) /\ Before(h, next)
      /\ (h = <<"reset">> => next = <<"seed">>)
  <2>1. Tail(demo[x].todo) \in Seq(Moves)
    BY <1>1, HeadTailProperties
  <2>2. next \in Elements(demo'[x].todo)
    <3>1. Len(Tail(demo[x].todo)) \in Nat \ {0}
      BY <1>2, <2>1, EmptySeq, LenProperties
    <3>2. 1 \in 1..Len(Tail(demo[x].todo))
      <4> DEFINE k == Len(Tail(demo[x].todo))
      <4>1. k \in Nat \ {0}
        BY <3>1
      <4> HIDE DEF k
      <4>2. 1 \in 1..k
        BY <4>1
      <4> QED
        BY <4>2 DEF k
    <3>3. next = Tail(demo[x].todo)[1]
      BY <1>2, <2>1, HeadTailProperties
    <3> QED
      BY <1>2, <3>2, <3>3 DEF Elements
  <2> QED
    BY <1>1, <1>2, <2>2, TailPlanned
<1>4. next # <<"reset">> /\ (next = <<"seed">> => h = <<"reset">>)
  BY <1>3 DEF Before
<1>5. /\ h[1] = "reset" => h = <<"reset">>
      /\ h[1] = "seed" => h = <<"seed">>
      /\ h[1] \in Names => h # <<"seed">> /\ h # <<"reset">> /\ Subject(x) \in Signals
                           /\ h = <<h[1], Subject(x)>>
  <2>1. h[1] \in Names => h[2] \in Signals /\ h = <<h[1], h[2]>>
    BY <1>2, MoveNames DEF Moves, Later, Names
  <2>2. Subject(x) = h[2]
    BY DEF Subject
  <2> QED
    BY <1>2, <2>1, <2>2 DEF Moves, Later, Names
<1>7. CASE Reset(x)
  <2>1. h = <<"reset">> /\ demo[x].own = {} /\ Proceed(x, demo[x].own)
    BY <1>5, <1>7 DEF Reset, At, Goes, Lone, TablesOwn
  <2>2. demo'[x].own = {} /\ attention' = {} /\ day' = 0 /\ seeded' = FALSE
    BY <1>0, <1>7, <2>1, OwnProceeds DEF Reset, Truncate, TypeInv
  <2>3. TablesOwn(x)'
    BY <1>3, <1>4, <2>1, <2>2 DEF TablesOwn
  <2>4. OnlyOne(x)' /\ RegistersFirst(x)' /\ RequestsFirst(x)'
    <3>1. \A c : h # <<"register", c>> /\ h # <<"request", c>>
      BY <2>1
    <3> QED
      BY <1>0, <2>1, <3>1, LoneOrder
  <2> QED
    BY <2>3, <2>4 DEF Lone
<1>8. CASE RegisterSignal(x)
  <2> DEFINE item == Item(Subject(x))
             own == demo[x].own \cup ({item} \ attention)
  <2>1. /\ h[1] = "register" /\ Proceed(x, own)
        /\ attention' = attention \cup {item}
        /\ UNCHANGED <<day, seeded>> /\ Plans' = Plans
    BY <1>8 DEF RegisterSignal, At, Register, Plans
  <2>2. h = <<"register", Subject(x)>> /\ h # <<"seed">> /\ h # <<"reset">>
        /\ Subject(x) \in Signals
    BY <1>5, <2>1 DEF Names
  <2>3. day = 0 /\ seeded /\ demo[x].own = attention
    BY <2>2 DEF Lone, TablesOwn
  <2>4. item \in attention' /\ attention' \subseteq Items /\ item[2] = Subject(x)
    BY <2>1 DEF TypeInv, RecordsTypeOK, Item
  <2> HIDE DEF item
  <2>5. own \in SUBSET Items
    BY <1>0, <2>4
  <2>6. demo'[x].own = own
    BY <2>1, <2>5, OwnProceeds DEF TypeInv
  <2>7. own = attention \cup {item}
    BY <2>3
  <2>8. TablesOwn(x)'
    BY <1>4, <2>1, <2>2, <2>3, <2>6, <2>7 DEF TablesOwn
  <2>9. OnlyOne(x)' /\ RegistersFirst(x)' /\ RequestsFirst(x)'
    <3>1. \A c : h = <<"register", c>> => \E i \in own : i[2] = c
      BY <2>2, <2>4, <2>7
    <3>2. \A c : h # <<"request", c>>
      BY <2>2
    <3>3. \A i \in own \ demo[x].own : h = <<"register", i[2]>>
      BY <2>2, <2>4
    <3>4. demo[x].own \subseteq own
      OBVIOUS
    <3> HIDE DEF own, h
    <3> QED
      BY <1>0, <2>1, <2>5, <3>1, <3>2, <3>3, <3>4, LoneOrder DEF h
  <2> QED
    BY <2>8, <2>9 DEF Lone
<1>9. CASE SeedRows(x)
  <2>1. h = <<"seed">> /\ h # <<"reset">> /\ Proceed(x, demo[x].own)
    BY <1>5, <1>9 DEF SeedRows, At, Goes
  <2>2. day = 0 /\ demo[x].own = attention
    BY <2>1 DEF Lone, TablesOwn
  <2>3. seeded' = TRUE /\ UNCHANGED <<day, attention, approval>>
    BY <1>9 DEF SeedRows, Seed, tableVars
  <2>4. demo'[x].own = demo[x].own
    BY <1>0, <2>1, OwnProceeds DEF TypeInv
  <2>5. TablesOwn(x)'
    BY <1>4, <2>1, <2>2, <2>3, <2>4 DEF TablesOwn
  <2>6. OnlyOne(x)' /\ RegistersFirst(x)' /\ RequestsFirst(x)'
    <3>1. \A c : h # <<"register", c>> /\ h # <<"request", c>>
      BY <2>1
    <3>2. Plans' = Plans
      BY <2>3 DEF Plans
    <3> QED
      BY <1>0, <2>1, <3>1, <3>2, LoneOrder
  <2> QED
    BY <2>5, <2>6 DEF Lone
\* The others leave the items and the clock alone.
<1>10. ASSUME NEW n \in Names \ {"register", "request"}, At(x, n), Goes(x),
              UNCHANGED <<day, seeded, attention>>, Plans' = Plans
       PROVE  Lone(x)'
  <2>1. h[1] = n /\ Proceed(x, demo[x].own) /\ n \in Names
    BY <1>10 DEF At, Goes
  <2>2. h = <<n, Subject(x)>> /\ h # <<"reset">> /\ h # <<"seed">>
    BY <1>5, <2>1
  <2>3. day = 0 /\ seeded /\ demo[x].own = attention
    BY <2>2 DEF Lone, TablesOwn
  <2>4. demo'[x].own = demo[x].own
    BY <1>0, <2>1, OwnProceeds DEF TypeInv
  <2>5. TablesOwn(x)'
    BY <1>4, <1>10, <2>2, <2>3, <2>4 DEF TablesOwn
  <2>6. OnlyOne(x)' /\ RegistersFirst(x)' /\ RequestsFirst(x)'
    <3>1. \A c : h # <<"register", c>> /\ h # <<"request", c>>
      BY <1>10, <2>2
    <3> QED
      BY <1>0, <1>10, <2>1, <3>1, LoneOrder
  <2> QED
    BY <2>5, <2>6 DEF Lone
<1>11. CASE Request(x)
  <2>1. h[1] = "request" /\ Proceed(x, demo[x].own) /\ "request" \in Names
    BY <1>11 DEF Request, At, Goes, Names
  <2>2. h = <<"request", Subject(x)>> /\ h # <<"reset">> /\ h # <<"seed">>
    BY <1>5, <2>1
  <2>3. day = 0 /\ seeded /\ demo[x].own = attention
    BY <2>2 DEF Lone, TablesOwn
  <2>4. demo'[x].own = demo[x].own
    BY <1>0, <2>1, OwnProceeds DEF TypeInv
  <2>5. PICK item \in Own(x) : CreatePending(Plan(x, item))
    BY <1>11 DEF Request
  <2>6. UNCHANGED <<day, seeded, attention>> /\ Plans' = Plans \cup {Plan(x, item)}
    BY <2>5 DEF CreatePending, Plans
  <2>7. TablesOwn(x)'
    BY <1>4, <2>2, <2>3, <2>4, <2>6 DEF TablesOwn
  <2>8. ASSUME NEW i \in demo[x].own, i[2] = Subject(x)
        PROVE  i = item
    <3>1. item \in demo[x].own /\ item[2] = Subject(x)
      BY DEF Own
    <3>2. i[1] = resets /\ item[1] = resets
      BY <2>3, <3>1 DEF RightInv
    <3> QED
      BY <2>8, <3>1, <3>2, OwnItems DEF TypeInv
  <2>9. OnlyOne(x)' /\ RegistersFirst(x)' /\ RequestsFirst(x)'
    <3>1. \A c : h # <<"register", c>> /\ (h = <<"request", c>> => c = Subject(x))
      BY <2>2
    <3>2. \A c : h = <<"request", c>> =>
            \A i \in demo[x].own : i[2] = c => Plan(x, i) \in Plans'
      BY <2>6, <2>8, <3>1
    <3> HIDE DEF h
    <3> QED
      BY <1>0, <2>1, <2>6, <3>1, <3>2, LoneOrder DEF h
  <2> QED
    BY <2>7, <2>9 DEF Lone
<1>12. CASE Detect(x)
  <2>1. UNCHANGED <<day, seeded, attention>> /\ Plans' = Plans
    BY <1>12 DEF Detect, recordVars, tableVars, Plans
  <2> QED
    BY <1>10, <1>12, <2>1 DEF Detect, Names
<1>13. CASE Gather(x)
  <2>1. UNCHANGED <<day, seeded, attention>> /\ Plans' = Plans
    BY <1>13 DEF Gather, Record, recordVars, tableVars, Plans
  <2> QED
    BY <1>10, <1>13, <2>1 DEF Gather, Names
<1>14. CASE Ask(x) /\ Goes(x)
  <2>1. UNCHANGED <<day, seeded, attention>> /\ Plans' = Plans
    BY <1>14 DEF Ask, Record, Plans
  <2> QED
    BY <1>10, <1>14, <2>1 DEF Ask, Names
<1>15. CASE ReportPlan(x) \/ ReportGate(x) \/ ReportRequest(x)
  <2>1. /\ Goes(x)
        /\ \E n \in {"recommend", "allow", "confirm"} : At(x, n)
        /\ UNCHANGED <<day, seeded, attention>> /\ Plans' = Plans
    BY <1>15 DEF ReportPlan, ReportGate, ReportRequest, Report, Record, Plans
  <2> QED
    BY <1>10, <2>1 DEF Names
<1>16. CASE Stage(x)
  <2>1. UNCHANGED <<day, seeded, attention>> /\ Plans' = Plans
    BY <1>16 DEF Stage, StageWorkflow, Plans
  <2> QED
    BY <1>10, <1>16, <2>1 DEF Stage, Names
<1>17. CASE Schedule(x)
  <2>1. UNCHANGED <<day, seeded, attention>> /\ Plans' = Plans
    BY <1>17 DEF Schedule, ScheduleTask, Plans
  <2> QED
    BY <1>10, <1>17, <2>1 DEF Schedule, Names
<1>18. CASE Announce(x)
  <2>1. UNCHANGED <<day, seeded, attention>> /\ Plans' = Plans
    BY <1>18 DEF Announce, Record, Plans
  <2> QED
    BY <1>10, <1>18, <2>1 DEF Announce, Names
<1>19. ASSUME NEW end, Leave(x, end)
       PROVE  FALSE
  <2>1. demo'[x].todo = << >>
    BY <1>19, LeaveTodo DEF Leave, TypeInv
  <2> QED
    BY <1>2, <2>1
<1>20. ~\E story \in Stories[x] : Begin(x, story)
  BY <1>0 DEF Begin
<1> QED
  BY <1>7, <1>8, <1>9, <1>11, <1>12, <1>13, <1>14, <1>15, <1>16, <1>17, <1>18, <1>19, <1>20
  DEF StagesDemo, Ask, Fail, Interrupt

\* The steps of others that leave a lone demo what it stands on.
LEMMA LoneKept ==
  ASSUME TypeInv, NEW x \in Processes, Lone(x), demo'[x] = demo[x],
         \A y \in Processes : Running(y)' => Running(y),
         UNCHANGED <<day, seeded, attention>>, Plans' = Plans
  PROVE  Lone(x)'
<1>1. OnlyOne(x)'
  BY DEF Lone, OnlyOne
<1>2. TablesOwn(x)'
  BY DEF Lone, TablesOwn
<1>3. RegistersFirst(x)' /\ RequestsFirst(x)'
  BY DEF Lone, RegistersFirst, RequestsFirst, Todo
<1> QED
  BY <1>1, <1>2, <1>3 DEF Lone

LEMMA AloneStep ==
  ASSUME TypeInv, TypeInv', TodoInv, RightInv, AloneInv, [Next]_vars
  PROVE  AloneInv'
<1> SUFFICES ASSUME NEW x \in Processes, Alone(x)' PROVE Lone(x)'
  BY DEF AloneInv
<1>0. Running(x)' /\ demo'[x].alone
  BY DEF Alone
<1>1. ASSUME NEW y \in Processes, NEW story \in Stories[y], Begin(y, story)
      PROVE  Lone(x)'
  <2>1. /\ demo'[y].own = {}
        /\ demo'[y].alone = (\A z \in Processes : ~Running(z))
        /\ Registered(demo'[y].todo) /\ Head(demo'[y].todo) = <<"reset">>
        /\ \A z \in Processes \ {y} : demo'[z].todo = demo[z].todo /\ ~demo'[z].alone
    BY <1>1, BeginTodo DEF TypeInv
  <2>2. y = x
    BY <1>0, <2>1
  <2>3. OnlyOne(x)'
    BY <1>0, <2>1, <2>2 DEF OnlyOne, Running
  <2>4. TablesOwn(x)'
    BY <2>1, <2>2 DEF TablesOwn
  <2>5. RegistersFirst(x)' /\ RequestsFirst(x)'
    BY <2>1, <2>2 DEF RegistersFirst, RequestsFirst, Registered, Todo
  <2> QED
    BY <2>3, <2>4, <2>5 DEF Lone
<1>2. ASSUME NEW y \in Processes, NEW own, Running(y), StagesDemo(y), Proceed(y, own)
      PROVE  Lone(x)'
  <2>2. demo'[x].alone = demo[x].alone /\ (x # y => demo'[x] = demo[x])
    BY <1>2, Proceeds DEF TypeInv
  <2>3. Running(x)
    BY <1>0, <1>2, <2>2 DEF Running
  <2>4. Alone(x) /\ Lone(x)
    BY <1>0, <2>2, <2>3 DEF Alone, AloneInv
  <2>5. y = x
    BY <1>2, <2>4 DEF Lone, OnlyOne
  <2> QED
    BY <1>0, <1>2, <2>4, <2>5, LoneProceeds
<1>3. ASSUME NEW y \in Processes, NEW end, Running(y), Leave(y, end)
      PROVE  FALSE
  <2>1. /\ demo'[y].todo = << >>
        /\ \A z \in Processes \ {y} : demo'[z] = demo[z]
    BY <1>3, LeaveTodo DEF Leave, TypeInv
  <2>2. x # y
    BY <1>0, <2>1 DEF Running
  <2>3. Alone(x) /\ Lone(x)
    BY <1>0, <2>1, <2>2 DEF Alone, Running, AloneInv
  <2> QED
    BY <1>3, <2>2, <2>3 DEF Lone, OnlyOne
<1>4. ASSUME NEW y \in Processes, StagesDemo(y)
      PROVE  Lone(x)'
  BY <1>1, <1>2, <1>3, <1>4, DemoMoves DEF TypeInv
<1>5. CASE PassDay
  BY <1>0, <1>5 DEF PassDay, TypeInv, DemosInv
<1>6. ASSUME NEW u \in People, Restart(u)
      PROVE  Lone(x)'
  <2> DEFINE last == IF Running(Console) THEN "none" ELSE demo[Console].end
  <2>1. demo' = [demo EXCEPT ![Console].todo = << >>, ![Console].end = last]
    BY <1>6 DEF Restart, TypeInv, DemosInv
  <2>2. /\ demo'[Console].todo = << >>
        /\ \A z \in Processes \ {Console} : demo'[z] = demo[z]
    BY <2>1, LeaveTodo DEF TypeInv
  <2>3. x # Console
    BY <1>0, <2>2 DEF Running
  <2>4. demo'[x] = demo[x] /\ \A y \in Processes : Running(y)' => Running(y)
    BY <2>2, <2>3 DEF Running
  <2>5. Lone(x)
    BY <1>0, <2>4 DEF Alone, AloneInv
  <2>6. UNCHANGED <<day, seeded, attention>> /\ Plans' = Plans
    BY <1>6 DEF Restart, recordVars, tableVars, Plans
  <2> QED
    BY <2>4, <2>5, <2>6, LoneKept
<1>7. ASSUME UNCHANGED <<demo, day, seeded, attention>>, Plans' = Plans
      PROVE  Lone(x)'
  <2>1. demo'[x] = demo[x] /\ \A y \in Processes : Running(y)' => Running(y)
    BY <1>7 DEF Running
  <2>2. Lone(x)
    BY <1>0, <2>1 DEF Alone, AloneInv
  <2> QED
    BY <1>7, <2>1, <2>2, LoneKept
<1>8. CASE CommitDecision
  <2>1. PICK d \in post : DecidePlan(d.plan, d.verdict) /\ d.verdict \in Verdicts
    BY <1>8 DEF CommitDecision, TypeInv, DeskInv
  <2>2. UNCHANGED <<demo, day, seeded, attention>> /\ Plans' = Plans
    BY <1>8, <2>1, DecideType DEF CommitDecision, DecidePlan, TypeInv
  <2> QED
    BY <1>7, <2>2
<1>9. CASE RecordDecision
  <2>1. UNCHANGED <<demo, day, seeded, attention>> /\ Plans' = Plans
    BY <1>9 DEF RecordDecision, Record, Plans
  <2> QED
    BY <1>7, <2>1
<1>10. CASE UNCHANGED <<recordVars, demo>>
  <2>1. UNCHANGED <<demo, day, seeded, attention>> /\ Plans' = Plans
    BY <1>10 DEF recordVars, tableVars, Plans
  <2> QED
    BY <1>7, <2>1
<1> QED
  BY <1>4, <1>5, <1>6, <1>8, <1>9, <1>10 DEF Next, Desk, OpenDemo, LoseForm,
     RefuseDecision, LoseDecision, OpenApproval, Decide, DeskRest, vars

LEMMA FinishStep ==
  ASSUME TypeInv, TodoInv, AloneInv, UndisturbedDemosFinish, [Next]_vars
  PROVE  UndisturbedDemosFinish'
<1>1. ASSUME NEW y \in Processes, NEW story \in Stories[y], Begin(y, story)
      PROVE  UndisturbedDemosFinish'
  <2>1. /\ demo'[y].end = "none"
        /\ \A z \in Processes \ {y} : ~demo'[z].alone
    BY <1>1, BeginTodo DEF TypeInv
  <2> QED
    BY <2>1 DEF UndisturbedDemosFinish
<1>2. ASSUME NEW y \in Processes, NEW own, Proceed(y, own)
      PROVE  UndisturbedDemosFinish'
  <2>1. /\ demo'[y].end # "failed"
        /\ \A z \in Processes \ {y} : demo'[z] = demo[z]
    BY <1>2, Proceeds DEF TypeInv
  <2> QED
    BY <2>1 DEF UndisturbedDemosFinish
<1>3. ASSUME NEW y \in Processes, NEW end, Leave(y, end), end # "failed" \/ ~demo[y].alone
      PROVE  UndisturbedDemosFinish'
  <2>1. /\ demo'[y].end = end /\ demo'[y].alone = demo[y].alone
        /\ \A z \in Processes \ {y} : demo'[z] = demo[z]
    BY <1>3, LeaveTodo DEF Leave, TypeInv
  <2> QED
    BY <1>3, <2>1 DEF UndisturbedDemosFinish
<1>4. ASSUME NEW y \in Processes, Fail(y)
      PROVE  ~demo[y].alone
  <2>1. Fails(y) /\ Running(y)
    BY <1>4 DEF Fail, Fails, At
  <2> QED
    BY <2>1, AloneFails DEF Alone, AloneInv
<1>5. ASSUME NEW y \in Processes, StagesDemo(y)
      PROVE  UndisturbedDemosFinish'
  <2>1. \/ \E own : Proceed(y, own)
        \/ Leave(y, "done") \/ Leave(y, "none")
        \/ Fail(y) /\ Leave(y, "failed")
        \/ \E story \in Stories[y] : Begin(y, story)
    BY <1>5 DEF StagesDemo, Reset, SeedRows, Detect, RegisterSignal, Gather, Ask, Request,
       ReportPlan, ReportGate, ReportRequest, Report, Stage, Schedule, Announce, Fail,
       Interrupt, Goes
  <2> QED
    BY <1>1, <1>2, <1>3, <1>4, <2>1
<1>6. CASE PassDay
  BY <1>6 DEF PassDay, UndisturbedDemosFinish, TypeInv, DemosInv
<1>7. ASSUME NEW u \in People, Restart(u)
      PROVE  UndisturbedDemosFinish'
  <2> DEFINE last == IF Running(Console) THEN "none" ELSE demo[Console].end
  <2>1. demo' = [demo EXCEPT ![Console].todo = << >>, ![Console].end = last]
    BY <1>7 DEF Restart, TypeInv, DemosInv
  <2>2. last \in {"none", demo[Console].end}
    OBVIOUS
  <2> HIDE DEF last
  <2>3. /\ demo'[Console].end = last /\ demo'[Console].alone = demo[Console].alone
        /\ \A z \in Processes \ {Console} : demo'[z] = demo[z]
    BY <2>1, LeaveTodo DEF TypeInv
  <2> QED
    BY <2>2, <2>3 DEF UndisturbedDemosFinish
<1>8. CASE UNCHANGED demo
  BY <1>8 DEF UndisturbedDemosFinish
<1> QED
  BY <1>5, <1>6, <1>7, <1>8 DEF Next, Desk, OpenDemo, LoseForm, CommitDecision,
     RefuseDecision, RecordDecision, LoseDecision, OpenApproval, Decide, DeskRest, vars

\* A demo that has the database and the clock to itself finds at every step
\* what that step needs: it does not fail, whatever was left before it began.
THEOREM LoneDemosNeverFail == Spec => []UndisturbedDemosFinish
<1>1. Init => AloneInv /\ UndisturbedDemosFinish
  BY DEF Init, Idle, AloneInv, Alone, Running, UndisturbedDemosFinish
<1>2. ASSUME DeskInvariant, DeskInvariant', AloneInv, UndisturbedDemosFinish, [Next]_vars
      PROVE  AloneInv' /\ UndisturbedDemosFinish'
  BY <1>2, AloneStep, FinishStep DEF DeskInvariant
<1> QED
  BY <1>1, <1>2, DeskInvariantHolds, PTL DEF Spec

=============================================================================
