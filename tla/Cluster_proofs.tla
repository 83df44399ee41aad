--------------------------- MODULE Cluster_proofs ---------------------------
(***************************************************************************)
(* Proofs about Coordinator, for any plans, workers and number of retries.   *)
(***************************************************************************)
EXTENDS Coordinator, TLAPS

Doings == {"rest", "resolve", "submit", "await", "done", "failed"}
Replies == {"none", "ok", "error", "transient"}
Phases == {"idle", "level", "fetch", "ok", "failed", "unfetched", "timeout"}
Futures == [doing : Doings, at : Nat, tries : Nat, reply : Replies,
            fed : SUBSET Workers, ran : SUBSET Workers]
Jobs == [stage : AllStages, worker : Workers, awaited : BOOLEAN, told : BOOLEAN]

\* A future at one of the workers of s.
FutureOf(s, f) == f \in Futures /\ f.at \in DOMAIN HomesOf[s]

FuturesOK == fut \in [AllStages -> Futures] /\ \A s \in AllStages : FutureOf(s, fut[s])

\* The type of the variables.
ClusterTypeOK ==
  /\ plan \in Plans /\ distributed \in BOOLEAN /\ cancelled \in BOOLEAN
  /\ phase \in Phases
  /\ level \in DOMAIN Levels
  /\ FuturesOK
  /\ status \in [AllStages -> {"none", "Running", "Completed"}]
  /\ jobs \subseteq Jobs

-----------------------------------------------------------------------------
(***************************************************************************)
(* The plan, which no step changes.                                        *)
(***************************************************************************)

\* The levels of a plan have each stage once, after its sources.
LEMMA PlanFacts ==
  ASSUME plan \in Plans
  PROVE  /\ Levels \in Seq(SUBSET AllStages) /\ 1 \in DOMAIN Levels
         /\ Len(Levels) \in DOMAIN Levels
         /\ \A n \in DOMAIN Levels : n \in Nat /\ Levels[n] \subseteq AllStages
         /\ \A s \in AllStages : \E n \in DOMAIN Levels : s \in Levels[n]
         /\ \A m, n \in DOMAIN Levels : \A s \in Levels[n] : s \in Levels[m] => m = n
         /\ \A n \in DOMAIN Levels : \A s \in Levels[n] : \A p \in SourcesOf[s] :
              p \in AllStages /\ \E m \in DOMAIN Levels : m < n /\ p \in Levels[m]
  <1> USE DEF Levels, AllStages, SourcesOf, HomesOf
  <1>1. /\ plan.levels \in Seq(SUBSET DOMAIN plan.homes) /\ plan.levels # <<>>
        /\ DOMAIN plan.homes = UNION Range(plan.levels)
        /\ \A n \in DOMAIN plan.levels : \A s \in plan.levels[n] :
              /\ plan.sources[s] \subseteq UNION {plan.levels[m] : m \in 1..(n - 1)}
              /\ \A m \in DOMAIN plan.levels : s \in plan.levels[m] => m = n
    BY PlansAssumption
  <1>2. /\ DOMAIN plan.levels = 1..Len(plan.levels) /\ Len(plan.levels) \in Nat \ {0}
    BY <1>1
  <1>3. \A n \in DOMAIN plan.levels : plan.levels[n] \subseteq AllStages
    BY <1>1
  <1>4. \A s \in AllStages : \E n \in DOMAIN plan.levels : s \in plan.levels[n]
    BY DEF Range
  <1>5. ASSUME NEW n \in DOMAIN plan.levels, NEW s \in plan.levels[n], NEW p \in plan.sources[s]
        PROVE  p \in AllStages /\ \E m \in DOMAIN plan.levels : m < n /\ p \in plan.levels[m]
    <2>1. PICK m \in 1..(n - 1) : p \in plan.levels[m]
      BY <1>1
    <2>2. m \in DOMAIN plan.levels /\ m < n
      BY <1>2
    <2> QED
      BY <1>3, <2>1, <2>2
  <1> QED
    BY <1>1, <1>2, <1>3, <1>4, <1>5

\* The workers of a stage are a sequence that is not empty.
LEMMA HomeFacts ==
  ASSUME plan \in Plans, NEW s \in AllStages
  PROVE  /\ HomesOf[s] \in Seq(Homes(s)) /\ 1 \in DOMAIN HomesOf[s]
         /\ DOMAIN HomesOf[s] = 1..Len(HomesOf[s]) /\ Len(HomesOf[s]) \in Nat \ {0}
         /\ \A i \in DOMAIN HomesOf[s] : HomesOf[s][i] \in Homes(s)
         /\ Homes(s) = {HomesOf[s][i] : i \in 1..Len(HomesOf[s])}
         /\ Homes(s) \subseteq Workers
  <1> USE DEF HomesOf, Homes
  <1>1. DOMAIN plan.homes = AllStages
    BY PlansAssumption DEF AllStages, Levels
  <1>2. plan.homes[s] \in Seq(Range(plan.homes[s])) /\ plan.homes[s] # <<>>
    BY <1>1, PlansAssumption
  <1>3. DOMAIN plan.homes[s] = 1..Len(plan.homes[s]) /\ Len(plan.homes[s]) \in Nat \ {0}
    BY <1>2
  <1>4. Homes(s) \subseteq Workers
    BY DEF Workers
  <1> QED
    BY <1>2, <1>3, <1>4 DEF Range


\* What depends on the plan alone stays.
LEMMA PlanStays ==
  ASSUME plan' = plan
  PROVE  /\ AllStages' = AllStages /\ Levels' = Levels /\ HomesOf' = HomesOf
         /\ SourcesOf' = SourcesOf /\ Workers' = Workers
         /\ Futures' = Futures /\ Jobs' = Jobs /\ NoFutures' = NoFutures
         /\ \A s : Homes(s)' = Homes(s)
  BY DEF AllStages, Levels, HomesOf, SourcesOf, Workers, Homes, Futures, Jobs, NoFutures

\* The plan and the mode of an execution never change.
LEMMA StepKeepsPlan == [CoordinatorNext]_clusterVars => plan' = plan /\ distributed' = distributed
  BY DEF CoordinatorNext, ExecutePlan, QueryMoves, LevelSucceeds, LevelFails, FetchOutput,
         QueryTimesOut, CallerCancels, StageMoves, ResolveInputs, Submit, HandleReply, JobEnds,
         LoseReply, CancelArrives, LoseCancel, ResultExpires, clusterVars

-----------------------------------------------------------------------------
(***************************************************************************)
(* Type correctness.                                                       *)
(***************************************************************************)

\* What the steps of a future leave it to be.
LEMMA FutureMoves ==
  ASSUME plan \in Plans, NEW s \in AllStages, NEW f, FutureOf(s, f)
  PROVE  /\ FutureOf(s, NoFuture)
         /\ \A x \in Doings : FutureOf(s, [f EXCEPT !.doing = x])
         /\ \A x \in Replies : FutureOf(s, [f EXCEPT !.reply = x])
  <1>1. FutureOf(s, NoFuture)
    BY HomeFacts DEF NoFuture, FutureOf, Futures, Doings, Replies
  <1>2. \A x \in Doings : FutureOf(s, [f EXCEPT !.doing = x])
    BY DEF FutureOf, Futures
  <1>3. \A x \in Replies : FutureOf(s, [f EXCEPT !.reply = x])
    BY DEF FutureOf, Futures
  <1> QED
    BY <1>1, <1>2, <1>3

\* A future that has its reply, case by case.
LEMMA ReplyCases ==
  ASSUME plan \in Plans, NEW s \in AllStages, FutureOf(s, fut[s]),
         fut[s].reply # "none"
  PROVE  LET f == fut[s]
             g == [f EXCEPT !.ran = @ \cup {WorkerOf(s)}]
         IN  /\ f.reply = "error" => AfterReply(s, f) = [f EXCEPT !.doing = "failed"]
             /\ f.reply = "transient" => \/ AfterReply(s, f) = [f EXCEPT !.doing = "submit"]
                                    \/ AfterReply(s, f) = [f EXCEPT !.doing = "failed"]
             /\ f.reply = "ok" =>
                  \/ f.at = Len(HomesOf[s]) /\ AfterReply(s, f) = [g EXCEPT !.doing = "done"]
                  \/ /\ f.at # Len(HomesOf[s])
                     /\ AfterReply(s, f) = [g EXCEPT !.at = @ + 1, !.doing = "resolve"]
             /\ f.reply \in {"error", "transient", "ok"}
  <1> DEFINE f == fut[s]
  <1>1. f.reply \in {"error", "transient", "ok"}
    BY DEF FutureOf, Futures, Replies
  <1>2. CASE f.reply = "error"
    BY <1>2 DEF AfterReply
  <1>3. CASE f.reply = "transient"
    BY <1>3 DEF AfterReply
  <1>4. CASE f.reply = "ok"
    BY <1>4 DEF AfterReply
  <1> QED
    BY <1>1, <1>2, <1>3, <1>4

\* A future that takes a reply stays well-formed,
LEMMA ReplyType ==
  ASSUME plan \in Plans, NEW s \in AllStages, FutureOf(s, fut[s]), fut[s].reply # "none"
  PROVE  FutureOf(s, AfterReply(s, fut[s]))
  <1> DEFINE f == fut[s]
             g == [f EXCEPT !.ran = @ \cup {WorkerOf(s)}]
  <1>1. WorkerOf(s) \in Workers
    BY HomeFacts DEF FutureOf, WorkerOf
  <1>2. FutureOf(s, g) /\ g.at = f.at
    BY <1>1 DEF FutureOf, Futures
  <1>3. FutureOf(s, [g EXCEPT !.doing = "done"])
    BY <1>2, FutureMoves DEF Doings
  <1>4. f.at # Len(HomesOf[s]) => FutureOf(s, [g EXCEPT !.at = @ + 1, !.doing = "resolve"])
    <2>d. /\ DOMAIN HomesOf[s] = 1..Len(HomesOf[s]) /\ Len(HomesOf[s]) \in Nat
          /\ f.at \in DOMAIN HomesOf[s]
      BY HomeFacts DEF FutureOf
    <2> HIDE DEF g, f
    <2>1. f.at # Len(HomesOf[s]) => f.at + 1 \in DOMAIN HomesOf[s] /\ f.at + 1 \in Nat
      BY <2>d
    <2> QED
      BY <1>2, <2>1 DEF FutureOf, Futures, Doings
  <1>5. \A x \in Doings : FutureOf(s, [f EXCEPT !.doing = x])
    BY FutureMoves
  <1> QED
    BY <1>3, <1>4, <1>5, ReplyCases DEF Doings


\* so do the futures of a level that starts,
LEMMA StartType ==
  ASSUME plan \in Plans, NEW n, NEW f, \A s \in AllStages : FutureOf(s, f[s])
  PROVE  /\ StartLevel(n, f) \in [AllStages -> Futures]
         /\ \A s \in AllStages : FutureOf(s, StartLevel(n, f)[s])
  <1>1. \A s \in AllStages : /\ FutureOf(s, [f[s] EXCEPT !.doing = "resolve"])
                             /\ FutureOf(s, f[s])
    BY FutureMoves DEF Doings
  <1> QED
    BY <1>1 DEF StartLevel, FutureOf

\* and those at rest are.
LEMMA RestType ==
  ASSUME plan \in Plans
  PROVE  NoFutures \in [AllStages -> Futures] /\ \A s \in AllStages : FutureOf(s, NoFutures[s])
  <1>1. \A s \in AllStages : FutureOf(s, NoFuture)
    BY HomeFacts DEF NoFuture, FutureOf, Futures, Doings, Replies
  <1> QED
    BY <1>1 DEF NoFutures, FutureOf

\* One future moves.
LEMMA OneType ==
  ASSUME plan \in Plans, FuturesOK, NEW s \in AllStages, NEW f, FutureOf(s, f),
         fut' = [fut EXCEPT ![s] = f], plan' = plan
  PROVE  FuturesOK'
  <1>1. fut' \in [AllStages -> Futures] /\ \A x \in AllStages : FutureOf(x, fut'[x])
    BY DEF FuturesOK, FutureOf
  <1>2. AllStages' = AllStages /\ HomesOf' = HomesOf /\ Futures' = Futures
    BY PlanStays
  <1> QED
    BY <1>1, <1>2 DEF FuturesOK, FutureOf

\* The steps of a stage.
LEMMA StageType ==
  ASSUME plan \in Plans, FuturesOK, NEW s \in AllStages, StageMoves(s)
  PROVE  FuturesOK'
  <1> DEFINE f == fut[s]
  <1>0. FutureOf(s, f) /\ plan' = plan
    BY DEF FuturesOK, StageMoves, ResolveInputs, Submit, HandleReply
  <1>w. WorkerOf(s) \in Workers
    BY <1>0, HomeFacts DEF FutureOf, WorkerOf
  <1>1. CASE ResolveInputs(s)
    <2>1. PICK d \in {"submit", "failed"}, e \in {f.fed, f.fed \cup {WorkerOf(s)}} :
            fut' = [fut EXCEPT ![s] = [f EXCEPT !.doing = d, !.tries = 0, !.fed = e]]
      BY <1>1 DEF ResolveInputs, FuturesOK, FutureOf, Futures
    <2>2. FutureOf(s, [f EXCEPT !.doing = d, !.tries = 0, !.fed = e])
      BY <1>0, <1>w DEF FutureOf, Futures, Doings
    <2> QED
      BY <1>0, <2>1, <2>2, OneType
  <1>2. CASE Submit(s)
    <2>1. PICK r \in {"none", "transient"} :
            fut' = [fut EXCEPT ![s] = [f EXCEPT !.doing = "await", !.tries = @ + 1, !.reply = r]]
      <3>1. PICK reached : fut' = [fut EXCEPT ![s].doing = "await", ![s].tries = @ + 1,
                                     ![s].reply = IF reached THEN "none" ELSE "transient"]
        BY <1>2, Zenon DEF Submit
      <3>2. PICK r \in {"none", "transient"} : r = IF reached THEN "none" ELSE "transient"
        OBVIOUS
      <3>3. fut' = [fut EXCEPT ![s].doing = "await", ![s].tries = @ + 1, ![s].reply = r]
        BY <3>1, <3>2, Zenon
      <3> QED
        BY <3>3 DEF FuturesOK, FutureOf, Futures
    <2>2. FutureOf(s, [f EXCEPT !.doing = "await", !.tries = @ + 1, !.reply = r])
      <3>1. r \in Replies /\ "await" \in Doings
        BY DEF Replies, Doings
      <3>2. f.tries + 1 \in Nat /\ f \in Futures
        BY <1>0 DEF FutureOf, Futures
      <3> QED
        BY <1>0, <3>1, <3>2 DEF FutureOf, Futures
    <2> QED
      BY <1>0, <2>1, <2>2, OneType
  <1>3. CASE HandleReply(s)
    <2>1. fut[s].reply # "none" /\ fut' = [fut EXCEPT ![s] = AfterReply(s, fut[s])]
      BY <1>3 DEF HandleReply
    <2> QED
      BY <1>0, <2>1, OneType, ReplyType
  <1> QED
    BY <1>1, <1>2, <1>3 DEF StageMoves

\* The other steps of an execution.
LEMMA QueryType ==
  ASSUME plan \in Plans, FuturesOK, ExecutePlan \/ QueryMoves \/ QueryTimesOut \/ CallerCancels
  PROVE  FuturesOK'
  <1>0. plan' = plan
    BY DEF ExecutePlan, QueryMoves, LevelSucceeds, LevelFails, FetchOutput, QueryTimesOut,
           CallerCancels
  <1>1. AllStages' = AllStages /\ HomesOf' = HomesOf /\ Futures' = Futures
    BY <1>0, PlanStays
  <1>2. ASSUME /\ fut' \in [AllStages -> Futures]
               /\ \A s \in AllStages : FutureOf(s, fut'[s])
        PROVE  FuturesOK'
    BY <1>1, <1>2 DEF FuturesOK, FutureOf
  <1>3. CASE fut' = fut
    BY <1>2, <1>3 DEF FuturesOK
  <1>4. CASE fut' = NoFutures
    BY <1>2, <1>4, RestType
  <1>5. CASE fut' = StartLevel(1, NoFutures)
    BY <1>2, <1>5, RestType, StartType
  <1>6. CASE fut' = StartLevel(level + 1, fut)
    BY <1>2, <1>6, StartType DEF FuturesOK
  <1> QED
    BY <1>3, <1>4, <1>5, <1>6
    DEF ExecutePlan, QueryMoves, LevelSucceeds, LevelFails, FetchOutput, QueryTimesOut,
        CallerCancels, GoOn


\* The workers: only the reply of a future changes.
LEMMA WorkerMoves ==
  ASSUME ClusterTypeOK,
         \/ \E j \in jobs : JobEnds(j) \/ LoseReply(j)
         \/ \E w \in Workers : CancelArrives(w) \/ LoseCancel(w)
         \/ ResultExpires
  PROVE  \E r \in [AllStages -> Replies] :
           fut' = [s \in AllStages |-> [fut[s] EXCEPT !.reply = r[s]]]
  <1>t. fut \in [AllStages -> Futures] /\ jobs \subseteq Jobs
    BY DEF ClusterTypeOK, FuturesOK
  <1>0. ASSUME NEW r \in [AllStages -> Replies], DOMAIN fut' = AllStages,
               fut' = [s \in AllStages |-> fut'[s]],
               \A s \in AllStages : fut'[s] = [fut[s] EXCEPT !.reply = r[s]]
        PROVE  \E q \in [AllStages -> Replies] :
                 fut' = [s \in AllStages |-> [fut[s] EXCEPT !.reply = q[s]]]
    <2>1. fut' = [s \in AllStages |-> [fut[s] EXCEPT !.reply = r[s]]]
      BY <1>0
    <2> QED
      BY <2>1
  <1> DEFINE same == [s \in AllStages |-> fut[s].reply]
  <1>1. /\ same \in [AllStages -> Replies]
        /\ \A s \in AllStages : fut[s] = [fut[s] EXCEPT !.reply = same[s]]
    BY <1>t DEF Futures
  <1>2. CASE fut' = fut
    <2> HIDE DEF same
    <2> QED
      BY <1>t, <1>0, <1>1, <1>2
  <1>3. ASSUME NEW s \in AllStages, NEW x \in Replies, fut' = [fut EXCEPT ![s].reply = x]
        PROVE  \E q \in [AllStages -> Replies] :
                 fut' = [z \in AllStages |-> [fut[z] EXCEPT !.reply = q[z]]]
    <2> DEFINE q == [same EXCEPT ![s] = x]
    <2> HIDE DEF same
    <2>1. q \in [AllStages -> Replies] /\ q[s] = x /\ \A z \in AllStages : z # s => q[z] = same[z]
      BY <1>1, <1>3
    <2>2. /\ fut'[s] = [fut[s] EXCEPT !.reply = x]
          /\ \A z \in AllStages : z # s => fut'[z] = fut[z]
          /\ DOMAIN fut' = AllStages /\ fut' = [z \in AllStages |-> fut'[z]]
      BY <1>t, <1>3
    <2> HIDE DEF q
    <2>3. \A z \in AllStages : fut'[z] = [fut[z] EXCEPT !.reply = q[z]]
      <3> TAKE z \in AllStages
      <3>1. CASE z = s
        BY <2>1, <2>2, <3>1
      <3>2. CASE z # s
        <4>1. fut'[z] = fut[z] /\ q[z] = same[z]
          BY <2>1, <2>2, <3>2
        <4>2. fut[z] = [fut[z] EXCEPT !.reply = same[z]]
          BY <1>1
        <4> QED
          BY <4>1, <4>2, Zenon
      <3> QED
        BY <3>1, <3>2
    <2> QED
      BY <1>0, <2>1, <2>2, <2>3
  <1>4. ASSUME NEW j \in jobs, JobEnds(j) \/ LoseReply(j)
        PROVE  \E q \in [AllStages -> Replies] :
                 fut' = [s \in AllStages |-> [fut[s] EXCEPT !.reply = q[s]]]
    <2>1. j.stage \in AllStages
      BY <1>t DEF Jobs
    <2>2. fut' = fut \/ \E x \in {"ok", "error", "transient"} : fut' = [fut EXCEPT ![j.stage].reply = x]
      BY <1>4 DEF JobEnds, LoseReply, Failures
    <2> QED
      BY <1>2, <1>3, <2>1, <2>2 DEF Replies
  <1>5. ASSUME NEW w, CancelArrives(w)
        PROVE  \E q \in [AllStages -> Replies] :
                 fut' = [s \in AllStages |-> [fut[s] EXCEPT !.reply = q[s]]]
    <2>1. PICK hit \in SUBSET jobs :
            fut' = [s \in AllStages |->
                      IF \E j \in hit : j.stage = s /\ j.awaited
                      THEN [fut[s] EXCEPT !.reply = "transient"] ELSE fut[s]]
      BY <1>5 DEF CancelArrives
    <2> DEFINE q == [s \in AllStages |-> IF \E j \in hit : j.stage = s /\ j.awaited
                                         THEN "transient" ELSE same[s]]
    <2> HIDE DEF same
    <2>2. q \in [AllStages -> Replies]
      BY <1>1 DEF Replies
    <2>3. \A s \in AllStages : fut'[s] = [fut[s] EXCEPT !.reply = q[s]]
      BY <1>1, <2>1
    <2>4. DOMAIN fut' = AllStages /\ fut' = [s \in AllStages |-> fut'[s]]
      BY <2>1
    <2> HIDE DEF q
    <2> QED
      BY <1>0, <2>2, <2>3, <2>4
  <1>6. CASE (\E w \in Workers : LoseCancel(w)) \/ ResultExpires
    BY <1>2, <1>6 DEF LoseCancel, ResultExpires, coordVars
  <1> QED
    BY <1>4, <1>5, <1>6


\* Every step keeps the futures well-formed.
LEMMA FuturesStep ==
  ASSUME ClusterTypeOK, [CoordinatorNext]_clusterVars
  PROVE  FuturesOK'
  <1>t. plan \in Plans /\ FuturesOK
    BY DEF ClusterTypeOK
  <1>0. plan' = plan
    BY StepKeepsPlan
  <1>p. AllStages' = AllStages /\ HomesOf' = HomesOf /\ Futures' = Futures
    BY <1>0, PlanStays
  <1>1. ASSUME NEW r \in [AllStages -> Replies],
               fut' = [s \in AllStages |-> [fut[s] EXCEPT !.reply = r[s]]]
        PROVE  FuturesOK'
    <2>1. \A s \in AllStages : FutureOf(s, [fut[s] EXCEPT !.reply = r[s]])
      BY <1>t, FutureMoves DEF FuturesOK
    <2>2. fut' \in [AllStages -> Futures] /\ \A s \in AllStages : FutureOf(s, fut'[s])
      BY <1>1, <2>1 DEF FutureOf
    <2> QED
      BY <1>p, <2>2 DEF FuturesOK, FutureOf
  <1>2. CASE fut' = fut
    BY <1>t, <1>p, <1>2 DEF FuturesOK, FutureOf
  <1>3. CASE UNCHANGED clusterVars
    BY <1>2, <1>3 DEF clusterVars, coordVars
  <1> QED
    BY <1>t, <1>1, <1>3, StageType, QueryType, WorkerMoves DEF CoordinatorNext

\* The executions on the workers.
LEMMA JobsType ==
  ASSUME ClusterTypeOK, [CoordinatorNext]_clusterVars
  PROVE  jobs' \subseteq Jobs
  <1>t. plan \in Plans /\ FuturesOK /\ jobs \subseteq Jobs
    BY DEF ClusterTypeOK
  <1>1. CASE jobs' \subseteq jobs
    BY <1>t, <1>1
  <1>2. \A j \in Jobs : /\ [j EXCEPT !.awaited = FALSE] \in Jobs
                        /\ [j EXCEPT !.told = TRUE] \in Jobs
    BY DEF Jobs
  <1>3. CASE QueryTimesOut \/ (\E j \in jobs : LoseReply(j))
    <2>1. \A js \in SUBSET Jobs : Orphaned(js) \subseteq Jobs
      BY <1>2, Zenon DEF Orphaned
    <2> QED
      BY <1>t, <1>3, <2>1 DEF QueryTimesOut, LoseReply
  <1>4. CASE \E st : CancelQuery(st)
    <2>1. {[j EXCEPT !.told = TRUE] : j \in jobs} \subseteq Jobs
      BY <1>t, <1>2, Zenon
    <2>2. jobs' = {[j EXCEPT !.told = TRUE] : j \in jobs} \/ jobs' = jobs
      BY <1>4, Zenon DEF CancelQuery
    <2> QED
      BY <1>t, <2>1, <2>2, Zenon
  <1>5. ASSUME NEW s \in AllStages, Submit(s) PROVE jobs' \subseteq Jobs
    <2>1. WorkerOf(s) \in Workers
      BY <1>t, HomeFacts DEF FuturesOK, FutureOf, WorkerOf
    <2>2. [stage |-> s, worker |-> WorkerOf(s), awaited |-> TRUE, told |-> FALSE] \in Jobs
      BY <2>1 DEF Jobs
    <2>3. jobs' \subseteq jobs \cup
            {[stage |-> s, worker |-> WorkerOf(s), awaited |-> TRUE, told |-> FALSE]}
      <3>1. \/ jobs' = jobs
            \/ jobs' = jobs \cup
                 {[stage |-> s, worker |-> WorkerOf(s), awaited |-> TRUE, told |-> FALSE]}
        BY <1>5, Zenon DEF Submit
      <3> QED
        BY <3>1
    <2> QED
      BY <1>t, <2>2, <2>3
  <1>6. ASSUME NEW s, ResolveInputs(s) \/ HandleReply(s) PROVE jobs' = jobs
    BY <1>6 DEF ResolveInputs, HandleReply, workerVars
  <1>7. CASE ExecutePlan \/ LevelSucceeds \/ FetchOutput
    BY <1>1, <1>7 DEF ExecutePlan, LevelSucceeds, FetchOutput, workerVars
  <1>8. LevelFails \/ CallerCancels => \E st : CancelQuery(st)
    BY DEF LevelFails, CallerCancels
  <1>9. CASE \/ \E j \in jobs : JobEnds(j)
             \/ \E w \in Workers : CancelArrives(w) \/ LoseCancel(w)
             \/ ResultExpires
    BY <1>1, <1>9 DEF JobEnds, CancelArrives, LoseCancel, ResultExpires
  <1>10. CASE UNCHANGED clusterVars
    BY <1>1, <1>10 DEF clusterVars, workerVars
  <1> QED
    BY <1>1, <1>3, <1>4, <1>5, <1>6, <1>7, <1>8, <1>9, <1>10
    DEF CoordinatorNext, QueryMoves, StageMoves

\* The statuses, the phase and the level.
LEMMA QueryStateType ==
  ASSUME ClusterTypeOK, [CoordinatorNext]_clusterVars
  PROVE  /\ status' \in [AllStages -> {"none", "Running", "Completed"}]
         /\ phase' \in Phases /\ level' \in DOMAIN Levels /\ cancelled' \in BOOLEAN
  <1> DEFINE St == [AllStages -> {"none", "Running", "Completed"}]
  <1>t. /\ plan \in Plans /\ status \in St
        /\ phase \in Phases /\ level \in DOMAIN Levels /\ cancelled \in BOOLEAN
    BY DEF ClusterTypeOK
  <1>l. /\ Levels \in Seq(SUBSET AllStages) /\ 1 \in DOMAIN Levels
        /\ level < Len(Levels) => level + 1 \in DOMAIN Levels
    <2>1. Levels \in Seq(SUBSET AllStages) /\ 1 \in DOMAIN Levels
      BY <1>t, PlanFacts
    <2> QED
      BY <1>t, <2>1
  <1>m. /\ \A n, st : st \in St => MarkRunning(n, st) \in St /\ MarkCompleted(n, st) \in St
        /\ [s \in AllStages |-> "none"] \in St
    BY DEF MarkRunning, MarkCompleted
  <1>1. CASE ExecutePlan
    <2>1. cancelled' \in BOOLEAN
      BY <1>1, Zenon DEF ExecutePlan
    <2>2. phase' = "level" /\ level' = 1 /\ status' = MarkRunning(1, status)
      BY <1>1 DEF ExecutePlan
    <2> HIDE DEF St
    <2> QED
      BY <1>t, <1>l, <1>m, <2>1, <2>2 DEF Phases, St
  <1>2. CASE LevelSucceeds
    <2>1. cancelled' = cancelled /\ GoOn(MarkCompleted(Levels[level], status))
      BY <1>2 DEF LevelSucceeds
    <2>2. MarkCompleted(Levels[level], status) \in St
      BY <1>t, <1>m
    <2>3. CASE level < Len(Levels)
      BY <1>t, <1>l, <1>m, <2>1, <2>2, <2>3 DEF GoOn
    <2>4. CASE ~(level < Len(Levels))
      BY <1>t, <1>l, <1>m, <2>1, <2>2, <2>4 DEF GoOn, Phases
    <2> QED
      BY <2>3, <2>4
  <1>3. CASE LevelFails
    <2>1. status' = [s \in AllStages |-> "none"] /\ phase' = "failed" /\ UNCHANGED <<level, cancelled>>
      BY <1>3 DEF LevelFails, CancelQuery
    <2> QED
      BY <1>t, <1>m, <2>1 DEF Phases
  <1>4. CASE CallerCancels
    <2>1. status' = [s \in AllStages |-> "none"] /\ UNCHANGED <<phase, level>>
      BY <1>4 DEF CallerCancels, CancelQuery
    <2>2. cancelled' \in BOOLEAN
      BY <1>4, Zenon DEF CallerCancels
    <2> QED
      BY <1>t, <1>m, <2>1, <2>2
  <1>5. CASE FetchOutput \/ QueryTimesOut
    BY <1>t, <1>5 DEF FetchOutput, QueryTimesOut, Phases
  <1>6. CASE UNCHANGED <<status, phase, level, cancelled>>
    BY <1>t, <1>6
  <1> QED
    BY <1>1, <1>2, <1>3, <1>4, <1>5, <1>6
    DEF CoordinatorNext, QueryMoves, StageMoves, ResolveInputs, Submit, HandleReply, JobEnds,
        LoseReply, CancelArrives, LoseCancel, ResultExpires, coordVars, clusterVars


\* The types hold at the start.
LEMMA ClusterInit == CoordinatorInit => ClusterTypeOK
  <1> SUFFICES ASSUME CoordinatorInit PROVE ClusterTypeOK
    OBVIOUS
  <1>1. plan \in Plans /\ distributed \in BOOLEAN /\ cancelled \in BOOLEAN
    BY Zenon DEF CoordinatorInit
  <1>2. phase = "idle" /\ level = 1 /\ fut = NoFutures /\ jobs = {}
        /\ status = [s \in AllStages |-> "none"]
    BY DEF CoordinatorInit
  <1>3. FuturesOK
    BY <1>1, <1>2, RestType DEF FuturesOK
  <1>4. level \in DOMAIN Levels
    BY <1>1, <1>2, PlanFacts
  <1> QED
    BY <1>1, <1>2, <1>3, <1>4 DEF ClusterTypeOK, Phases

\* Every step keeps the types.
LEMMA ClusterStep ==
  ASSUME ClusterTypeOK, [CoordinatorNext]_clusterVars
  PROVE  ClusterTypeOK'
  <1>1. plan' = plan /\ distributed' = distributed
    BY StepKeepsPlan
  <1>2. plan' \in Plans /\ distributed' \in BOOLEAN
    BY <1>1, Zenon DEF ClusterTypeOK
  <1>3. AllStages' = AllStages /\ Levels' = Levels /\ Jobs' = Jobs
    BY <1>1, PlanStays
  <1> QED
    BY <1>2, <1>3, FuturesStep, JobsType, QueryStateType DEF ClusterTypeOK

-----------------------------------------------------------------------------
(***************************************************************************)
(* Orphans.  While nobody has cancelled it, every stage of the level that    *)
(* runs is marked as running, so that the one that fails is still marked     *)
(* when the query is cancelled for its sake.                                 *)
(***************************************************************************)

Marked ==
  distributed /\ phase = "level" /\ ~cancelled =>
    \A s \in Levels[level] : status[s] = "Running"

\* Marked is inductive with the types.
LEMMA MarkedStep ==
  ASSUME ClusterTypeOK, Marked, [CoordinatorNext]_clusterVars
  PROVE  Marked'
  <1>t. /\ plan \in Plans /\ level \in DOMAIN Levels
        /\ distributed \in BOOLEAN /\ cancelled \in BOOLEAN
    BY DEF ClusterTypeOK
  <1>0. Levels' = Levels /\ distributed' = distributed
    BY StepKeepsPlan, PlanStays
  <1>l. \A n \in DOMAIN Levels : Levels[n] \subseteq AllStages
    BY <1>t, PlanFacts
  <1>m. \A n \in DOMAIN Levels : \A st :
          distributed => \A s \in Levels[n] : MarkRunning(n, st)[s] = "Running"
    BY <1>l DEF MarkRunning
  <1>1. CASE ExecutePlan
    <2>1. level' = 1 /\ status' = MarkRunning(1, status) /\ 1 \in DOMAIN Levels
      BY <1>t, <1>1, PlanFacts DEF ExecutePlan
    <2> QED
      BY <1>0, <1>m, <2>1 DEF Marked
  <1>2. CASE LevelSucceeds
    <2>1. phase = "level" /\ GoOn(MarkCompleted(Levels[level], status))
      BY <1>2 DEF LevelSucceeds, LevelOver
    <2>2. CASE level < Len(Levels)
      <3>1. PICK st : level' = level + 1 /\ status' = MarkRunning(level + 1, st)
        BY <2>1, <2>2 DEF GoOn
      <3>2. level + 1 \in DOMAIN Levels
        <4>1. Levels \in Seq(SUBSET AllStages)
          BY <1>t, PlanFacts
        <4> QED
          BY <1>t, <2>2, <4>1
      <3> QED
        BY <1>0, <1>m, <3>1, <3>2 DEF Marked
    <2>3. CASE ~(level < Len(Levels))
      <3>1. phase' = "fetch"
        BY <2>1, <2>3 DEF GoOn
      <3> QED
        BY <3>1 DEF Marked
    <2> QED
      BY <2>2, <2>3
  <1>3. CASE LevelFails \/ FetchOutput \/ QueryTimesOut
    <2>1. phase' # "level"
      BY <1>3 DEF LevelFails, FetchOutput, QueryTimesOut
    <2> QED
      BY <2>1 DEF Marked
  <1>4. CASE CallerCancels
    <2>1. cancelled'
      BY <1>4, Zenon DEF CallerCancels
    <2> QED
      BY <2>1, Zenon DEF Marked
  <1>5. CASE UNCHANGED <<status, phase, level, cancelled>>
    BY <1>0, <1>5 DEF Marked
  <1> QED
    BY <1>1, <1>2, <1>3, <1>4, <1>5
    DEF CoordinatorNext, QueryMoves, StageMoves, ResolveInputs, Submit, HandleReply, JobEnds,
        LoseReply, CancelArrives, LoseCancel, ResultExpires, coordVars, clusterVars

\* With Marked, every step keeps OrphansAreCancelled.
LEMMA OrphanStep ==
  ASSUME ClusterTypeOK, Marked, OrphansAreCancelled, [CoordinatorNext]_clusterVars
  PROVE  OrphansAreCancelled'
  <1> SUFFICES ASSUME distributed', phase' = "failed", ~cancelled', NEW j \in jobs'
               PROVE  j.told
    BY DEF OrphansAreCancelled
  <1>t. plan \in Plans /\ level \in DOMAIN Levels /\ jobs \subseteq Jobs
    BY DEF ClusterTypeOK
  <1>0. distributed
    BY StepKeepsPlan, Zenon
  <1>1. CASE LevelFails
    <2>1. phase = "level" /\ ~cancelled /\ FailedStages # {}
      BY <1>1 DEF LevelFails, LevelOver
    <2>2. PICK before \in SUBSET (Levels[level] \ FailedStages) :
            CancelQuery(MarkCompleted(before, status))
      BY <1>1 DEF LevelFails
    <2>3. PICK s \in Levels[level] : s \in FailedStages
      BY <2>1 DEF FailedStages
    <2>4. s \in AllStages /\ status[s] = "Running"
      BY <1>t, <1>0, <2>1, PlanFacts DEF Marked
    <2>5. MarkCompleted(before, status)[s] = "Running"
      BY <2>2, <2>3, <2>4 DEF MarkCompleted
    <2>6. jobs' = {[i EXCEPT !.told = TRUE] : i \in jobs}
      BY <1>0, <2>2, <2>4, <2>5 DEF CancelQuery
    <2>7. PICK i \in jobs : j = [i EXCEPT !.told = TRUE]
      BY <2>6, Zenon
    <2>8. i \in Jobs
      BY <1>t
    <2> QED
      BY <2>7, <2>8 DEF Jobs
  <1>2. CASE phase = "failed" /\ ~cancelled /\ jobs' \subseteq jobs
    BY <1>0, <1>2 DEF OrphansAreCancelled
  <1>3. ASSUME NEW i \in jobs, LoseReply(i) PROVE j.told
    <2>1. phase = "failed" /\ ~cancelled
      BY <1>3 DEF LoseReply
    <2>2. i.told /\ i \in Jobs
      BY <1>t, <1>0, <1>3, <2>1 DEF OrphansAreCancelled
    <2>3. j \in jobs \/ j = [i EXCEPT !.awaited = FALSE]
      BY <1>3, Zenon DEF LoseReply, Orphaned
    <2>4. [i EXCEPT !.awaited = FALSE].told
      BY <2>2 DEF Jobs
    <2> QED
      BY <1>0, <2>1, <2>3, <2>4 DEF OrphansAreCancelled
  <1>4. ~ExecutePlan /\ ~FetchOutput /\ ~QueryTimesOut /\ ~CallerCancels
    BY DEF ExecutePlan, FetchOutput, QueryTimesOut, CallerCancels
  <1>5. ~LevelSucceeds /\ ~\E s \in AllStages : StageMoves(s)
    BY DEF LevelSucceeds, LevelOver, GoOn, StageMoves, ResolveInputs, Submit, HandleReply, Doing
  <1>6. ASSUME NEW i \in jobs, JobEnds(i) PROVE j.told
    <2>1. phase' = phase /\ cancelled' = cancelled /\ jobs' \subseteq jobs
      BY <1>6 DEF JobEnds
    <2> QED
      BY <1>2, <2>1
  <1>7. CASE (\E w \in Workers : CancelArrives(w) \/ LoseCancel(w)) \/ ResultExpires
               \/ UNCHANGED clusterVars
    <2>1. phase' = phase /\ cancelled' = cancelled /\ jobs' \subseteq jobs
      BY <1>7 DEF CancelArrives, LoseCancel, ResultExpires, coordVars, clusterVars, workerVars
    <2>2. phase = "failed" /\ ~cancelled
      BY <2>1
    <2> QED
      BY <1>2, <2>1, <2>2
  <1> QED
    BY <1>1, <1>3, <1>4, <1>5, <1>6, <1>7 DEF CoordinatorNext, QueryMoves

\* When a failed stage has ended a query that nobody cancelled, every worker
\* that still runs something of it has been sent a cancellation, for any plan.
THEOREM FailedLevelIsCancelled == CoordinatorSpec => []OrphansAreCancelled
  <1>1. CoordinatorInit => ClusterTypeOK /\ Marked /\ OrphansAreCancelled
    BY ClusterInit DEF CoordinatorInit, Marked, OrphansAreCancelled
  <1>2. /\ ClusterTypeOK /\ Marked /\ OrphansAreCancelled /\ [CoordinatorNext]_clusterVars
        => ClusterTypeOK' /\ Marked' /\ OrphansAreCancelled'
    BY ClusterStep, MarkedStep, OrphanStep
  <1> QED
    BY <1>1, <1>2, PTL DEF CoordinatorSpec


-----------------------------------------------------------------------------
(***************************************************************************)
(* Answers.  The stages of earlier levels are done, those of later levels    *)
(* have not begun; and a future has been through its workers in order, each  *)
(* with whole inputs.                                                        *)
(***************************************************************************)

Executing == phase \in {"level", "fetch", "ok"}

Ordered ==
  Executing =>
    \A n \in DOMAIN Levels : \A s \in Levels[n] :
      /\ n < level \/ phase # "level" => fut[s].doing = "done"
      /\ n > level => fut[s].doing = "rest"

Passed(s, i) == {HomesOf[s][h] : h \in 1..(i - 1)}

Sound(s, f) ==
  /\ f.doing = "rest" => f.at = 1 /\ f.ran = {} /\ f.fed = {}
  /\ f.ran = IF f.doing = "done" THEN Homes(s) ELSE Passed(s, f.at)
  /\ f.ran \subseteq f.fed /\ f.fed \subseteq Homes(s)
  /\ f.doing \in {"submit", "await"} => HomesOf[s][f.at] \in f.fed

AllSound == Executing => \A s \in AllStages : Sound(s, fut[s])

\* Being sound is a matter of the plan.
LEMMA SoundStays ==
  ASSUME plan' = plan, NEW s, Sound(s, fut'[s])
  PROVE  Sound(s, fut[s])'
  <1>1. HomesOf' = HomesOf /\ Homes(s)' = Homes(s)
    BY PlanStays
  <1>2. \A i : Passed(s, i)' = Passed(s, i)
    BY <1>1 DEF Passed
  <1> QED
    BY <1>1, <1>2 DEF Sound, Passed

\* A future that begins, and one that is told or asked something.
LEMMA SoundMoves ==
  ASSUME plan \in Plans, NEW s \in AllStages, NEW f, FutureOf(s, f), Sound(s, f)
  PROVE  /\ \A x : Sound(s, [f EXCEPT !.reply = x])
         /\ f.doing = "rest" => Sound(s, [f EXCEPT !.doing = "resolve"])
         /\ f.doing \in {"submit", "await"} =>
              \A x \in {"submit", "await", "failed"} : \A t, r :
                Sound(s, [f EXCEPT !.doing = x, !.tries = t, !.reply = r])
         /\ f.doing = "resolve" =>
              /\ \A t : Sound(s, [f EXCEPT !.doing = "failed", !.tries = t])
              /\ \A t : Sound(s, [f EXCEPT !.doing = "submit", !.tries = t,
                                           !.fed = @ \cup {HomesOf[s][f.at]}])
  <1>t. f \in Futures /\ f.at \in DOMAIN HomesOf[s]
    BY DEF FutureOf
  <1>h. HomesOf[s][f.at] \in Homes(s)
    BY <1>t, HomeFacts
  <1>1. \A x : Sound(s, [f EXCEPT !.reply = x])
    BY <1>t DEF Sound, Futures
  <1>2. f.doing = "rest" => Sound(s, [f EXCEPT !.doing = "resolve"])
    BY <1>t DEF Sound, Futures
  <1>3. ASSUME f.doing \in {"submit", "await"}, NEW x \in {"submit", "await", "failed"},
               NEW t, NEW r
        PROVE  Sound(s, [f EXCEPT !.doing = x, !.tries = t, !.reply = r])
    BY <1>t, <1>3 DEF Sound, Futures
  <1>4. ASSUME f.doing = "resolve", NEW t
        PROVE  Sound(s, [f EXCEPT !.doing = "failed", !.tries = t])
    BY <1>t, <1>4 DEF Sound, Futures
  <1>5. ASSUME f.doing = "resolve", NEW t
        PROVE  Sound(s, [f EXCEPT !.doing = "submit", !.tries = t,
                                  !.fed = @ \cup {HomesOf[s][f.at]}])
    BY <1>t, <1>h, <1>5 DEF Sound, Futures
  <1> QED
    BY <1>1, <1>2, <1>3, <1>4, <1>5

\* A future that has been at one more of its workers.
LEMMA SoundReply ==
  ASSUME plan \in Plans, NEW s \in AllStages, FutureOf(s, fut[s]), Sound(s, fut[s]),
         fut[s].doing = "await", fut[s].reply # "none"
  PROVE  Sound(s, AfterReply(s, fut[s])) /\ AfterReply(s, fut[s]).doing # "rest"
  <1> DEFINE f == fut[s]
             w == HomesOf[s][f.at]
             g == [f EXCEPT !.ran = @ \cup {w}]
  <1>t. f \in Futures /\ f.at \in DOMAIN HomesOf[s] /\ f.at \in Nat
    BY DEF FutureOf, Futures
  <1>h. /\ DOMAIN HomesOf[s] = 1..Len(HomesOf[s]) /\ Len(HomesOf[s]) \in Nat \ {0}
        /\ Homes(s) = {HomesOf[s][i] : i \in 1..Len(HomesOf[s])}
    BY HomeFacts
  <1>1. Passed(s, f.at + 1) = Passed(s, f.at) \cup {w}
    <2>1. 1..((f.at + 1) - 1) = 1..(f.at - 1) \cup {f.at}
      BY <1>t, <1>h
    <2> QED
      BY <2>1 DEF Passed
  <1>2. /\ g \in Futures /\ g.at = f.at /\ g.fed = f.fed /\ g.ran = Passed(s, f.at + 1)
        /\ g.ran \subseteq g.fed /\ g.fed \subseteq Homes(s)
    <2>1. f.ran = Passed(s, f.at) /\ w \in f.fed /\ f.ran \subseteq f.fed /\ f.fed \subseteq Homes(s)
      BY DEF Sound
    <2>2. f.ran \cup {w} \in SUBSET Workers
      BY <1>t, <2>1, HomeFacts DEF Futures
    <2> HIDE DEF f, w
    <2>3. g \in Futures /\ g.at = f.at /\ g.fed = f.fed /\ g.ran = f.ran \cup {w}
      BY <1>t, <2>2 DEF Futures
    <2> HIDE DEF g
    <2> QED
      BY <1>1, <2>1, <2>3
  <1> HIDE DEF g
  <1>3. ASSUME f.at = Len(HomesOf[s])
        PROVE  Sound(s, [g EXCEPT !.doing = "done"]) /\ [g EXCEPT !.doing = "done"].doing = "done"
    <2>1. Passed(s, f.at + 1) = Homes(s)
      <3>1. (f.at + 1) - 1 = Len(HomesOf[s])
        BY <1>t, <1>3
      <3> QED
        BY <1>h, <3>1 DEF Passed
    <2> HIDE DEF f
    <2> QED
      BY <1>2, <2>1 DEF Sound, Futures
  <1>4. /\ Sound(s, [g EXCEPT !.at = @ + 1, !.doing = "resolve"])
        /\ [g EXCEPT !.at = @ + 1, !.doing = "resolve"].doing = "resolve"
    <2> HIDE DEF f
    <2> QED
      BY <1>2 DEF Sound, Futures
  <1>5. \A x \in {"submit", "failed"} : /\ Sound(s, [f EXCEPT !.doing = x])
                                        /\ [f EXCEPT !.doing = x].doing = x
    <2>1. f.doing = "await" /\ Sound(s, f)
      OBVIOUS
    <2> HIDE DEF f
    <2> QED
      BY <1>t, <2>1 DEF Sound, Futures
  <1>6. g = [fut[s] EXCEPT !.ran = @ \cup {WorkerOf(s)}]
    BY DEF g, WorkerOf
  <1> QED
    BY <1>3, <1>4, <1>5, <1>6, ReplyCases


AnswerInv == Ordered /\ AllSound

\* Only the stages of the level that runs are at work.
LEMMA AtWork ==
  ASSUME ClusterTypeOK, AnswerInv, NEW s \in AllStages, phase = "level",
         fut[s].doing \notin {"rest", "done"}
  PROVE  s \in Levels[level] /\ Sound(s, fut[s]) /\ FutureOf(s, fut[s])
  <1>1. plan \in Plans /\ level \in DOMAIN Levels /\ FutureOf(s, fut[s])
    BY DEF ClusterTypeOK, FuturesOK
  <1>2. PICK n \in DOMAIN Levels : s \in Levels[n]
    BY <1>1, PlanFacts
  <1>3. ~(n < level) /\ ~(n > level) /\ Sound(s, fut[s])
    BY <1>2 DEF AnswerInv, Ordered, AllSound, Executing
  <1>4. n \in Nat /\ level \in Nat
    BY <1>1, PlanFacts
  <1> QED
    BY <1>1, <1>2, <1>3, <1>4

\* One of them moves.
LEMMA AnswerOne ==
  ASSUME ClusterTypeOK, AnswerInv, NEW s \in AllStages, s \in Levels[level], NEW f,
         Sound(s, f), fut' = [fut EXCEPT ![s] = f],
         phase = "level", UNCHANGED <<plan, phase, level>>
  PROVE  AnswerInv'
  <1>t. plan \in Plans /\ level \in DOMAIN Levels /\ fut \in [AllStages -> Futures]
    BY DEF ClusterTypeOK, FuturesOK
  <1>p. /\ AllStages' = AllStages /\ Levels' = Levels /\ HomesOf' = HomesOf
        /\ \A x : Homes(x)' = Homes(x)
    BY PlanStays
  <1>1. /\ fut'[s] = f
        /\ \A x \in AllStages : x # s => fut'[x] = fut[x]
    BY <1>t
  <1>2. Ordered'
    <2> SUFFICES ASSUME NEW n \in DOMAIN Levels, NEW x \in Levels[n]
                 PROVE  /\ n < level => fut'[x].doing = "done"
                        /\ n > level => fut'[x].doing = "rest"
      BY <1>p DEF Ordered
    <2>1. x \in AllStages /\ n \in Nat /\ level \in Nat
      BY <1>t, PlanFacts
    <2>2. x = s => n = level
      BY <1>t, PlanFacts
    <2>3. CASE x = s
      BY <2>1, <2>2, <2>3
    <2>4. CASE x # s
      <3>1. fut'[x] = fut[x]
        BY <1>1, <2>1, <2>4
      <3> QED
        BY <3>1 DEF AnswerInv, Ordered, Executing
    <2> QED
      BY <2>3, <2>4
  <1>3. \A x \in AllStages : Sound(x, fut'[x])
    BY <1>1 DEF AnswerInv, AllSound, Executing
  <1>4. \A x \in AllStages : Sound(x, fut[x])'
    BY <1>p, <1>3, SoundStays
  <1>5. AllSound'
    BY <1>p, <1>4 DEF AllSound
  <1> QED
    BY <1>2, <1>5 DEF AnswerInv

\* AnswerInv is kept by the steps of the futures,
LEMMA AnswerStage ==
  ASSUME ClusterTypeOK, AnswerInv, NEW s \in AllStages, StageMoves(s)
  PROVE  AnswerInv'
  <1> DEFINE f == fut[s]
  <1>t. plan \in Plans /\ level \in DOMAIN Levels /\ fut \in [AllStages -> Futures]
    BY DEF ClusterTypeOK, FuturesOK
  <1>0. phase = "level" /\ UNCHANGED <<plan, phase, level>>
        /\ f.doing \in {"resolve", "submit", "await"}
    BY DEF StageMoves, ResolveInputs, Submit, HandleReply, Doing
  <1>1. s \in Levels[level] /\ Sound(s, f) /\ FutureOf(s, f)
    BY <1>0, AtWork
  <1>2. ASSUME NEW g, Sound(s, g), fut' = [fut EXCEPT ![s] = g]
        PROVE  AnswerInv'
    BY <1>0, <1>1, <1>2, AnswerOne
  <1>3. CASE ResolveInputs(s)
    <2>1. f.doing = "resolve"
      BY <1>3 DEF ResolveInputs, Doing
    <2>2. \A p \in SourcesOf[s] : fut[p].ran = Homes(p)
      <3> TAKE p \in SourcesOf[s]
      <3>1. PICK m \in DOMAIN Levels : m < level /\ p \in Levels[m]
        BY <1>t, <1>1, PlanFacts
      <3>2. p \in AllStages /\ fut[p].doing = "done"
        BY <1>t, <1>0, <3>1, PlanFacts DEF AnswerInv, Ordered, Executing
      <3>3. Sound(p, fut[p])
        BY <1>0, <3>2 DEF AnswerInv, AllSound, Executing
      <3> QED
        BY <3>2, <3>3 DEF Sound
    <2>3. \/ fut' = [fut EXCEPT ![s] = [f EXCEPT !.doing = "failed", !.tries = 0]]
          \/ fut' = [fut EXCEPT ![s] = [f EXCEPT !.doing = "submit", !.tries = 0,
                                                 !.fed = @ \cup {HomesOf[s][f.at]}]]
      <3> DEFINE there == \A p \in SourcesOf[s] : \A w \in Asked(p, s) : <<p, w>> \in stored
                 whole == \A p \in SourcesOf[s] : fut[p].ran = Homes(p)
      <3>1. fut' = [fut EXCEPT ![s].doing = IF there THEN "submit" ELSE "failed", ![s].tries = 0,
                               ![s].fed = IF there /\ whole THEN @ \cup {WorkerOf(s)} ELSE @]
        BY <1>3, Zenon DEF ResolveInputs
      <3>2. whole
        BY <2>2
      <3>3. WorkerOf(s) = HomesOf[s][f.at]
        BY DEF WorkerOf
      <3> HIDE DEF there, whole
      <3>4. CASE there
        BY <1>t, <3>1, <3>2, <3>3, <3>4 DEF Futures
      <3>5. CASE ~there
        BY <1>t, <3>1, <3>5 DEF Futures
      <3> QED
        BY <3>4, <3>5
    <2>4. /\ Sound(s, [f EXCEPT !.doing = "failed", !.tries = 0])
          /\ Sound(s, [f EXCEPT !.doing = "submit", !.tries = 0, !.fed = @ \cup {HomesOf[s][f.at]}])
      BY <1>t, <1>1, <2>1, SoundMoves
    <2> QED
      BY <1>2, <2>3, <2>4
  <1>4. CASE Submit(s)
    <2>1. f.doing = "submit"
      BY <1>4 DEF Submit, Doing
    <2>2. PICK r : fut' = [fut EXCEPT ![s].doing = "await", ![s].tries = @ + 1, ![s].reply = r]
      BY <1>4, Zenon DEF Submit
    <2>3. fut' = [fut EXCEPT ![s] = [f EXCEPT !.doing = "await", !.tries = @ + 1, !.reply = r]]
      BY <1>t, <2>2 DEF Futures
    <2>4. [f EXCEPT !.doing = "await", !.tries = @ + 1, !.reply = r]
            = [f EXCEPT !.doing = "await", !.tries = f.tries + 1, !.reply = r]
      OBVIOUS
    <2>5. Sound(s, [f EXCEPT !.doing = "await", !.tries = f.tries + 1, !.reply = r])
      BY <1>t, <1>1, <2>1, SoundMoves
    <2> QED
      BY <1>2, <2>3, <2>4, <2>5
  <1>5. CASE HandleReply(s)
    <2>1. f.doing = "await" /\ f.reply # "none" /\ fut' = [fut EXCEPT ![s] = AfterReply(s, f)]
      BY <1>5 DEF HandleReply, Doing
    <2>2. Sound(s, AfterReply(s, f))
      BY <1>t, <1>1, <2>1, SoundReply
    <2> QED
      BY <1>2, <2>1, <2>2
  <1> QED
    BY <1>3, <1>4, <1>5 DEF StageMoves


\* The workers touch replies alone.
LEMMA AnswerWorker ==
  ASSUME ClusterTypeOK, AnswerInv, NEW r \in [AllStages -> Replies],
         fut' = [s \in AllStages |-> [fut[s] EXCEPT !.reply = r[s]]],
         UNCHANGED <<plan, phase, level>>
  PROVE  AnswerInv'
  <1>t. plan \in Plans /\ level \in DOMAIN Levels /\ FuturesOK
    BY DEF ClusterTypeOK
  <1>p. AllStages' = AllStages /\ Levels' = Levels
    BY PlanStays
  <1>1. \A s \in AllStages : /\ fut'[s] = [fut[s] EXCEPT !.reply = r[s]]
                             /\ fut'[s].doing = fut[s].doing
    BY <1>t DEF FuturesOK, Futures
  <1>2. Ordered'
    <2>1. \A n \in DOMAIN Levels : Levels[n] \subseteq AllStages
      BY <1>t, PlanFacts
    <2> QED
      BY <1>p, <1>1, <2>1 DEF AnswerInv, Ordered, Executing
  <1>3. AllSound'
    <2> SUFFICES ASSUME Executing, NEW s \in AllStages PROVE Sound(s, fut[s])'
      BY <1>p DEF AllSound, Executing
    <2>1. Sound(s, [fut[s] EXCEPT !.reply = r[s]])
      BY <1>t, SoundMoves DEF AnswerInv, AllSound, FuturesOK
    <2>2. Sound(s, fut'[s])
      BY <1>1, <2>1
    <2> QED
      BY <2>2, SoundStays
  <1> QED
    BY <1>2, <1>3 DEF AnswerInv

\* A level begins: nothing of it, or of a later one, has begun.
LEMMA AnswerStart ==
  ASSUME plan \in Plans, plan' = plan, NEW n \in DOMAIN Levels, NEW f,
         \A s \in AllStages : FutureOf(s, f[s]) /\ Sound(s, f[s]),
         \A m \in DOMAIN Levels : \A s \in Levels[m] :
           /\ m < n => f[s].doing = "done"
           /\ m >= n => f[s].doing = "rest",
         fut' = StartLevel(n, f), level' = n, phase' = "level"
  PROVE  AnswerInv'
  <1>p. AllStages' = AllStages /\ Levels' = Levels
    BY PlanStays
  <1>l. \A m \in DOMAIN Levels : m \in Nat /\ Levels[m] \subseteq AllStages
    BY PlanFacts
  <1>1. \A s \in AllStages : fut'[s] = IF s \in Levels[n] THEN [f[s] EXCEPT !.doing = "resolve"] ELSE f[s]
    BY DEF StartLevel
  <1>2. Ordered'
    <2> SUFFICES ASSUME NEW m \in DOMAIN Levels, NEW s \in Levels[m]
                 PROVE  /\ m < n => fut'[s].doing = "done"
                        /\ m > n => fut'[s].doing = "rest"
      BY <1>p DEF Ordered
    <2>1. s \in AllStages /\ m \in Nat /\ n \in Nat
      BY <1>l
    <2>2. s \in Levels[n] => m = n
      BY PlanFacts
    <2>3. CASE s \in Levels[n]
      BY <2>1, <2>2, <2>3
    <2>4. CASE s \notin Levels[n]
      <3>1. fut'[s] = f[s]
        BY <1>1, <2>1, <2>4
      <3> QED
        BY <2>1, <3>1
    <2> QED
      BY <2>3, <2>4
  <1>3. AllSound'
    <2> SUFFICES ASSUME NEW s \in AllStages PROVE Sound(s, fut[s])'
      BY <1>p DEF AllSound
    <2>1. s \in Levels[n] => Sound(s, [f[s] EXCEPT !.doing = "resolve"])
      <3>1. s \in Levels[n] => f[s].doing = "rest"
        BY <1>l
      <3> QED
        BY <3>1, SoundMoves
    <2>2. Sound(s, fut'[s])
      BY <1>1, <2>1
    <2> QED
      BY <2>2, SoundStays
  <1> QED
    BY <1>2, <1>3 DEF AnswerInv

\* by those of the query,
LEMMA AnswerQuery ==
  ASSUME ClusterTypeOK, AnswerInv, ExecutePlan \/ QueryMoves \/ QueryTimesOut \/ CallerCancels
  PROVE  AnswerInv'
  <1>t. plan \in Plans /\ level \in DOMAIN Levels /\ FuturesOK
    BY DEF ClusterTypeOK
  <1>0. plan' = plan
    BY DEF ExecutePlan, QueryMoves, LevelSucceeds, LevelFails, FetchOutput, QueryTimesOut,
           CallerCancels
  <1>p. AllStages' = AllStages /\ Levels' = Levels
    BY <1>0, PlanStays
  <1>l. \A m \in DOMAIN Levels : m \in Nat /\ Levels[m] \subseteq AllStages
    BY <1>t, PlanFacts
  <1>1. CASE ExecutePlan
    <2>1. fut' = StartLevel(1, NoFutures) /\ level' = 1 /\ phase' = "level" /\ 1 \in DOMAIN Levels
      BY <1>t, <1>1, PlanFacts DEF ExecutePlan
    <2>2. \A s \in AllStages : NoFutures[s] = NoFuture /\ FutureOf(s, NoFutures[s])
      BY <1>t, RestType DEF NoFutures
    <2>3. \A s \in AllStages : Sound(s, NoFutures[s])
      <3>1. \A s \in AllStages : Passed(s, 1) = {}
        BY DEF Passed
      <3> QED
        BY <2>2, <3>1 DEF NoFuture, Sound
    <2>4. \A m \in DOMAIN Levels : ~(m < 1) /\ \A s \in Levels[m] : NoFutures[s].doing = "rest"
      <3>1. \A m \in DOMAIN Levels : m >= 1
        <4>1. Levels \in Seq(SUBSET AllStages)
          BY <1>t, PlanFacts
        <4> QED
          BY <4>1
      <3> QED
        BY <1>l, <2>2, <3>1 DEF NoFuture
    <2> QED
      BY <1>t, <1>0, <2>1, <2>2, <2>3, <2>4, AnswerStart
  <1>2. CASE LevelSucceeds
    <2>1. /\ phase = "level" /\ \A s \in Levels[level] : fut[s].doing = "done"
          /\ GoOn(MarkCompleted(Levels[level], status))
      BY <1>2 DEF LevelSucceeds, LevelOver, FailedStages
    <2>2. \A m \in DOMAIN Levels : \A s \in Levels[m] :
            /\ m <= level => fut[s].doing = "done"
            /\ m > level => fut[s].doing = "rest"
      BY <1>t, <1>l, <2>1 DEF AnswerInv, Ordered, Executing
    <2>3. \A s \in AllStages : FutureOf(s, fut[s]) /\ Sound(s, fut[s])
      BY <1>t, <2>1 DEF AnswerInv, AllSound, Executing, FuturesOK
    <2>q. Levels \in Seq(SUBSET AllStages)
      BY <1>t, PlanFacts
    <2>4. CASE level < Len(Levels)
      <3>1. fut' = StartLevel(level + 1, fut) /\ level' = level + 1 /\ phase' = "level"
        BY <2>1, <2>4 DEF GoOn
      <3>2. level + 1 \in DOMAIN Levels /\ level \in Nat
        BY <1>t, <2>q, <2>4
      <3>3. \A m \in DOMAIN Levels : \A s \in Levels[m] :
              /\ m < level + 1 => fut[s].doing = "done"
              /\ m >= level + 1 => fut[s].doing = "rest"
        BY <1>l, <2>2, <3>2
      <3>4. PICK n \in DOMAIN Levels : n = level + 1
        BY <3>2
      <3> QED
        BY <1>t, <1>0, <2>3, <3>1, <3>3, <3>4, AnswerStart
    <2>5. CASE ~(level < Len(Levels))
      <3>1. phase' = "fetch" /\ UNCHANGED <<level, fut>>
        BY <2>1, <2>5 DEF GoOn
      <3>2. \A m \in DOMAIN Levels : m <= level /\ ~(m > level)
        BY <1>t, <2>q, <2>5
      <3>3. Ordered'
        BY <1>p, <2>2, <3>1, <3>2 DEF Ordered
      <3>4. \A s \in AllStages : Sound(s, fut[s])'
        BY <1>0, <2>3, <3>1, SoundStays
      <3>5. AllSound'
        BY <1>p, <3>4 DEF AllSound
      <3> QED
        BY <3>3, <3>5 DEF AnswerInv
    <2> QED
      BY <2>4, <2>5
  <1>3. CASE LevelFails \/ QueryTimesOut
    <2>1. phase' \in {"failed", "timeout"}
      BY <1>3 DEF LevelFails, QueryTimesOut
    <2> QED
      BY <2>1 DEF AnswerInv, Ordered, AllSound, Executing
  <1>4. CASE FetchOutput \/ CallerCancels
    <2>1. /\ UNCHANGED <<level, fut>>
          /\ \/ phase = "fetch" /\ phase' \in {"ok", "unfetched"}
             \/ phase' = phase
      BY <1>4 DEF FetchOutput, CallerCancels
    <2>2. Ordered'
      BY <1>p, <2>1 DEF AnswerInv, Ordered, Executing
    <2>3. Executing' => Executing
      BY <2>1 DEF Executing
    <2>4. Executing => \A s \in AllStages : Sound(s, fut[s])'
      BY <1>0, <2>1, SoundStays DEF AnswerInv, AllSound
    <2>5. AllSound'
      BY <1>p, <2>3, <2>4 DEF AllSound
    <2> QED
      BY <2>2, <2>5 DEF AnswerInv
  <1> QED
    BY <1>1, <1>2, <1>3, <1>4 DEF QueryMoves


\* and so by every step.
LEMMA AnswerStep ==
  ASSUME ClusterTypeOK, AnswerInv, [CoordinatorNext]_clusterVars
  PROVE  AnswerInv'
  <1>1. CASE UNCHANGED clusterVars
    <2>1. UNCHANGED <<plan, phase, level, fut>>
      BY <1>1 DEF clusterVars, coordVars
    <2>2. AllStages' = AllStages /\ Levels' = Levels
      BY <2>1, PlanStays
    <2>3. Executing => \A s \in AllStages : Sound(s, fut[s])'
      BY <2>1, SoundStays DEF AnswerInv, AllSound
    <2> QED
      BY <2>1, <2>2, <2>3 DEF AnswerInv, Ordered, AllSound, Executing
  <1>2. CASE \/ \E j \in jobs : JobEnds(j) \/ LoseReply(j)
             \/ \E w \in Workers : CancelArrives(w) \/ LoseCancel(w)
             \/ ResultExpires
    <2>1. UNCHANGED <<plan, phase, level>>
      BY <1>2 DEF JobEnds, LoseReply, CancelArrives, LoseCancel, ResultExpires, coordVars
    <2> QED
      BY <1>2, <2>1, WorkerMoves, AnswerWorker
  <1> QED
    BY <1>1, <1>2, AnswerStage, AnswerQuery DEF CoordinatorNext

\* A query that is answered ran every stage on every worker in this execution,
\* on whole inputs: neither results that earlier executions of the same id left
\* behind, nor losses, retries and cancellations, make it skip one.
THEOREM AnswersAreOfThisRun == CoordinatorSpec => []AnsweredFromThisRun
  <1>1. CoordinatorInit => ClusterTypeOK /\ AnswerInv
    BY ClusterInit DEF CoordinatorInit, AnswerInv, Ordered, AllSound, Executing
  <1>2. ClusterTypeOK /\ AnswerInv /\ [CoordinatorNext]_clusterVars
        => ClusterTypeOK' /\ AnswerInv'
    BY ClusterStep, AnswerStep
  <1>3. ClusterTypeOK /\ AnswerInv => AnsweredFromThisRun
    <2> SUFFICES ASSUME ClusterTypeOK, AnswerInv, phase = "ok", NEW s \in AllStages
                 PROVE  fut[s].ran = Homes(s) /\ fut[s].fed = Homes(s)
      BY DEF AnsweredFromThisRun
    <2>1. PICK n \in DOMAIN Levels : s \in Levels[n]
      BY PlanFacts DEF ClusterTypeOK
    <2>2. fut[s].doing = "done" /\ Sound(s, fut[s])
      BY <2>1 DEF AnswerInv, Ordered, AllSound, Executing
    <2> QED
      BY <2>2 DEF Sound
  <1> QED
    BY <1>1, <1>2, <1>3, PTL DEF CoordinatorSpec

-----------------------------------------------------------------------------
(***************************************************************************)
(* Replies.  A job whose reply is awaited is the one its future submitted    *)
(* last, and no other: the reply of an orphan of an earlier attempt or       *)
(* execution reaches no future.                                              *)
(***************************************************************************)

RepliesMatch ==
  /\ \A j \in jobs : j.awaited =>
       /\ phase = "level"
       /\ fut[j.stage].doing = "await" /\ fut[j.stage].reply = "none"
       /\ j.worker = WorkerOf(j.stage)
  /\ \A i, j \in jobs : i.awaited /\ j.awaited /\ i.stage = j.stage => i = j


\* No job is awaited when no future waits.
LEMMA NoneAwaited ==
  ASSUME ClusterTypeOK, AnswerInv, RepliesMatch, phase # "level" \/ LevelOver
  PROVE  \A j \in jobs : ~j.awaited
  <1> SUFFICES ASSUME NEW j \in jobs, j.awaited PROVE FALSE
    OBVIOUS
  <1>1. phase = "level" /\ fut[j.stage].doing = "await"
    BY DEF RepliesMatch
  <1>2. j.stage \in AllStages
    BY DEF ClusterTypeOK, Jobs
  <1>3. j.stage \in Levels[level]
    BY <1>1, <1>2, AtWork
  <1> QED
    BY <1>1, <1>3 DEF LevelOver

\* A step of s while no job of s is awaited.
LEMMA MatchStage ==
  ASSUME ClusterTypeOK, RepliesMatch, NEW s \in AllStages, StageMoves(s)
  PROVE  RepliesMatch'
  <1>t. plan \in Plans /\ fut \in [AllStages -> Futures] /\ jobs \subseteq Jobs
    BY DEF ClusterTypeOK, FuturesOK
  <1>0. phase = "level" /\ UNCHANGED <<plan, phase>>
    BY DEF StageMoves, ResolveInputs, Submit, HandleReply, Doing
  <1>p. HomesOf' = HomesOf
    BY <1>0, PlanStays
  <1>1. \A j \in jobs : j.awaited => j.stage # s /\ j.stage \in AllStages
    <2>1. fut[s].doing \in {"resolve", "submit"} \/ fut[s].reply # "none"
      BY DEF StageMoves, ResolveInputs, Submit, HandleReply, Doing
    <2> QED
      BY <1>t, <2>1 DEF RepliesMatch, Jobs
  <1>2. \A x \in AllStages : x # s => fut'[x] = fut[x]
    BY <1>t DEF StageMoves, ResolveInputs, Submit, HandleReply
  <1>3. \A j \in jobs : j.awaited =>
          /\ fut'[j.stage].doing = "await" /\ fut'[j.stage].reply = "none"
          /\ j.worker = HomesOf[j.stage][fut'[j.stage].at]
    BY <1>1, <1>2 DEF RepliesMatch, WorkerOf
  <1>4. CASE jobs' = jobs
    BY <1>0, <1>p, <1>3, <1>4 DEF RepliesMatch, WorkerOf
  <1>5. ASSUME Submit(s), ~(jobs' = jobs) PROVE RepliesMatch'
    <2> DEFINE n == [stage |-> s, worker |-> WorkerOf(s), awaited |-> TRUE, told |-> FALSE]
    <2>1. /\ jobs' = jobs \cup {n}
          /\ fut' = [fut EXCEPT ![s].doing = "await", ![s].tries = @ + 1, ![s].reply = "none"]
      BY <1>5, Zenon DEF Submit
    <2>2. fut'[s].doing = "await" /\ fut'[s].reply = "none" /\ fut'[s].at = fut[s].at
      BY <1>t, <2>1 DEF Futures
    <2>3. n.stage = s /\ n.worker = HomesOf[s][fut[s].at]
      BY DEF WorkerOf
    <2> HIDE DEF n
    <2>4. \A j \in jobs' : j.awaited =>
            /\ fut'[j.stage].doing = "await" /\ fut'[j.stage].reply = "none"
            /\ j.worker = HomesOf[j.stage][fut'[j.stage].at]
      BY <1>3, <2>1, <2>2, <2>3
    <2>5. \A i, j \in jobs' : i.awaited /\ j.awaited /\ i.stage = j.stage => i = j
      BY <1>1, <2>1, <2>3 DEF RepliesMatch
    <2> QED
      BY <1>0, <1>p, <2>4, <2>5 DEF RepliesMatch, WorkerOf
  <1>6. ResolveInputs(s) \/ HandleReply(s) => jobs' = jobs
    BY DEF ResolveInputs, HandleReply, workerVars
  <1> QED
    BY <1>4, <1>5, <1>6 DEF StageMoves

\* The coordinator's other steps.
LEMMA MatchQuery ==
  ASSUME ClusterTypeOK, AnswerInv, RepliesMatch,
         ExecutePlan \/ QueryMoves \/ QueryTimesOut \/ CallerCancels
  PROVE  RepliesMatch'
  <1>t. jobs \subseteq Jobs
    BY DEF ClusterTypeOK
  <1>1. ASSUME \A j \in jobs' : ~j.awaited PROVE RepliesMatch'
    BY <1>1 DEF RepliesMatch
  <1>c. ASSUME NEW st, CancelQuery(st), NEW j \in jobs'
        PROVE  \E i \in jobs : /\ j = i \/ j = [i EXCEPT !.told = TRUE]
                               /\ j.awaited = i.awaited /\ j.stage = i.stage /\ j.worker = i.worker
    <2>1. PICK i \in jobs : j = i \/ j = [i EXCEPT !.told = TRUE]
      BY <1>c, Zenon DEF CancelQuery
    <2> QED
      BY <1>t, <2>1 DEF Jobs
  <1>2. CASE ExecutePlan \/ LevelSucceeds \/ FetchOutput
    <2>1. jobs' = jobs /\ (phase # "level" \/ LevelOver)
      BY <1>2 DEF ExecutePlan, LevelSucceeds, FetchOutput, workerVars
    <2> QED
      BY <1>1, <2>1, NoneAwaited
  <1>3. CASE LevelFails
    <2>1. PICK st : CancelQuery(st)
      BY <1>3 DEF LevelFails
    <2>2. \A i \in jobs : ~i.awaited
      BY <1>3, NoneAwaited DEF LevelFails
    <2>3. \A j \in jobs' : ~j.awaited
      BY <1>c, <2>1, <2>2
    <2> QED
      BY <1>1, <2>3
  <1>4. CASE QueryTimesOut
    <2>1. \A i \in Jobs : ~[i EXCEPT !.awaited = FALSE].awaited
      BY DEF Jobs
    <2>2. \A j \in jobs' : \E i \in jobs : j = [i EXCEPT !.awaited = FALSE]
      BY <1>4, Zenon DEF QueryTimesOut, Orphaned
    <2> QED
      BY <1>t, <1>1, <2>1, <2>2
  <1>5. CASE CallerCancels
    <2>1. CancelQuery(status) /\ UNCHANGED <<plan, phase, fut>>
      BY <1>5 DEF CallerCancels
    <2>p. HomesOf' = HomesOf
      BY <2>1, PlanStays
    <2>2. \A j \in jobs' : j.awaited =>
            /\ phase = "level"
            /\ fut[j.stage].doing = "await" /\ fut[j.stage].reply = "none"
            /\ j.worker = HomesOf[j.stage][fut[j.stage].at]
      BY <1>c, <2>1 DEF RepliesMatch, WorkerOf
    <2>3. ASSUME NEW i \in jobs', NEW j \in jobs', i.awaited, j.awaited, i.stage = j.stage
          PROVE  i = j
      <3>1. CASE jobs' = jobs
        BY <2>3, <3>1 DEF RepliesMatch
      <3>2. CASE jobs' = {[x EXCEPT !.told = TRUE] : x \in jobs}
        <4>1. PICK x \in jobs, y \in jobs :
                i = [x EXCEPT !.told = TRUE] /\ j = [y EXCEPT !.told = TRUE]
          BY <3>2, Zenon
        <4>2. i.awaited = x.awaited /\ i.stage = x.stage /\ j.awaited = y.awaited /\ j.stage = y.stage
          BY <1>t, <4>1 DEF Jobs
        <4>3. x = y
          BY <2>3, <4>2 DEF RepliesMatch
        <4> QED
          BY <4>1, <4>3
      <3> QED
        BY <2>1, <3>1, <3>2, Zenon DEF CancelQuery
    <2> QED
      BY <2>1, <2>p, <2>2, <2>3 DEF RepliesMatch, WorkerOf
  <1> QED
    BY <1>2, <1>3, <1>4, <1>5 DEF QueryMoves


\* A job ends, or its reply or its cancellation is lost or delivered.
LEMMA MatchWorker ==
  ASSUME ClusterTypeOK, RepliesMatch,
         \/ \E j \in jobs : JobEnds(j) \/ LoseReply(j)
         \/ \E w \in Workers : CancelArrives(w) \/ LoseCancel(w)
         \/ ResultExpires
  PROVE  RepliesMatch'
  <1>t. fut \in [AllStages -> Futures] /\ jobs \subseteq Jobs
    BY DEF ClusterTypeOK, FuturesOK
  <1>0. UNCHANGED <<plan, phase>>
    BY DEF JobEnds, LoseReply, CancelArrives, LoseCancel, ResultExpires, coordVars
  <1>p. HomesOf' = HomesOf
    BY <1>0, PlanStays
  <1>s. \A j \in jobs : j.stage \in AllStages
    BY <1>t DEF Jobs
  <1>1. ASSUME \A j \in jobs' : j.awaited => j \in jobs /\ fut'[j.stage] = fut[j.stage]
        PROVE  RepliesMatch'
    BY <1>0, <1>p, <1>1 DEF RepliesMatch, WorkerOf
  <1>2. ASSUME NEW j \in jobs, JobEnds(j) PROVE RepliesMatch'
    <2>1. jobs' \subseteq jobs /\ (j.awaited => jobs' = jobs \ {j})
      BY <1>2 DEF JobEnds
    <2>2. CASE ~j.awaited
      <3>1. fut' = fut
        BY <1>2, <2>2 DEF JobEnds
      <3> QED
        BY <1>1, <2>1, <3>1
    <2>3. CASE j.awaited
      <3>1. PICK how : fut' = [fut EXCEPT ![j.stage].reply = how]
        BY <1>2, <2>3 DEF JobEnds
      <3>2. \A x \in AllStages : x # j.stage => fut'[x] = fut[x]
        BY <1>t, <3>1
      <3>3. \A i \in jobs' : i.awaited => i.stage # j.stage
        BY <2>1, <2>3 DEF RepliesMatch
      <3> QED
        BY <1>s, <1>1, <2>1, <3>2, <3>3
    <2> QED
      BY <2>2, <2>3
  <1>3. ASSUME NEW j \in jobs, LoseReply(j) PROVE RepliesMatch'
    <2>1. PICK how : j.awaited /\ fut' = [fut EXCEPT ![j.stage].reply = how]
      BY <1>3 DEF LoseReply
    <2>2. \A i \in jobs' : (i \in jobs /\ i # j) \/ i = [j EXCEPT !.awaited = FALSE]
      BY <1>3, Zenon DEF LoseReply, Orphaned
    <2>3. ~[j EXCEPT !.awaited = FALSE].awaited
      BY <1>t DEF Jobs
    <2>4. \A i \in jobs' : i.awaited => i \in jobs /\ i.stage # j.stage
      BY <2>1, <2>2, <2>3 DEF RepliesMatch
    <2>5. \A x \in AllStages : x # j.stage => fut'[x] = fut[x]
      BY <1>t, <2>1
    <2> QED
      BY <1>s, <1>1, <2>4, <2>5
  <1>4. ASSUME NEW w, CancelArrives(w) PROVE RepliesMatch'
    <2>1. PICK hit \in SUBSET jobs :
            /\ jobs' = jobs \ hit
            /\ fut' = [s \in AllStages |->
                         IF \E j \in hit : j.stage = s /\ j.awaited
                         THEN [fut[s] EXCEPT !.reply = "transient"] ELSE fut[s]]
      BY <1>4 DEF CancelArrives
    <2>2. \A i \in jobs' : i.awaited => ~\E j \in hit : j.stage = i.stage /\ j.awaited
      BY <2>1 DEF RepliesMatch
    <2>3. \A i \in jobs' : i.awaited => fut'[i.stage] = fut[i.stage]
      BY <1>s, <2>1, <2>2
    <2> QED
      BY <1>1, <2>1, <2>3
  <1>5. CASE (\E w \in Workers : LoseCancel(w)) \/ ResultExpires
    <2>1. UNCHANGED <<fut, jobs>>
      BY <1>5 DEF LoseCancel, ResultExpires, coordVars
    <2> QED
      BY <1>1, <2>1
  <1> QED
    BY <1>2, <1>3, <1>4, <1>5

\* A reply a future takes is that of the attempt it is waiting for, at the
\* worker it is at, although lost replies leave jobs of earlier attempts and of
\* earlier executions of the query running on the same workers.
THEOREM RepliesReachTheirFuture == CoordinatorSpec => []RepliesMatch
  <1>1. CoordinatorInit => ClusterTypeOK /\ AnswerInv /\ RepliesMatch
    BY ClusterInit DEF CoordinatorInit, AnswerInv, Ordered, AllSound, Executing, RepliesMatch
  <1>2. ClusterTypeOK /\ AnswerInv /\ RepliesMatch /\ UNCHANGED clusterVars => RepliesMatch'
    BY DEF clusterVars, coordVars, workerVars, RepliesMatch, WorkerOf, HomesOf
  <1>3. ClusterTypeOK /\ AnswerInv /\ RepliesMatch /\ CoordinatorNext => RepliesMatch'
    BY MatchStage, MatchQuery, MatchWorker DEF CoordinatorNext
  <1>4. ClusterTypeOK /\ AnswerInv /\ [CoordinatorNext]_clusterVars
        => ClusterTypeOK' /\ AnswerInv'
    BY ClusterStep, AnswerStep
  <1> QED
    BY <1>1, <1>2, <1>3, <1>4, PTL DEF CoordinatorSpec

-----------------------------------------------------------------------------
(***************************************************************************)
(* What an execution waits for.  The stages of the level that runs have    *)
(* begun, and a future that waits without a reply has a job on a worker    *)
(* that still owes it one: a lost, cancelled or finished job never goes    *)
(* without telling its future.                                             *)
(***************************************************************************)

Owed(s) == fut[s].doing = "await" /\ fut[s].reply = "none"

Attended ==
  phase = "level" =>
    /\ \A s \in Levels[level] : fut[s].doing # "rest"
    /\ \A s \in AllStages : Owed(s) => \E j \in jobs : j.awaited /\ j.stage = s

\* The step of a future ends its wait, or submits a job for it.
LEMMA AttendedStage ==
  ASSUME ClusterTypeOK, Attended, NEW s \in AllStages, StageMoves(s)
  PROVE  Attended'
  <1>t. /\ plan \in Plans /\ level \in DOMAIN Levels /\ fut \in [AllStages -> Futures]
        /\ FutureOf(s, fut[s])
    BY DEF ClusterTypeOK, FuturesOK
  <1>0. phase = "level" /\ UNCHANGED <<plan, phase, level>>
    BY DEF StageMoves, ResolveInputs, Submit, HandleReply, Doing
  <1>p. Levels' = Levels /\ AllStages' = AllStages
    BY <1>0, PlanStays
  <1>1. jobs \subseteq jobs'
    BY DEF StageMoves, ResolveInputs, Submit, HandleReply, workerVars
  <1>2. \A x \in AllStages : x # s => fut'[x] = fut[x]
    BY <1>t DEF StageMoves, ResolveInputs, Submit, HandleReply
  <1>3. ASSUME fut'[s].doing # "rest",
               fut'[s].doing = "await" /\ fut'[s].reply = "none"
                 => \E j \in jobs' : j.awaited /\ j.stage = s
        PROVE  Attended'
    <2>1. \A x \in Levels[level] : x \in AllStages
      BY <1>t, PlanFacts
    <2>2. \A x \in Levels[level] : fut'[x].doing # "rest"
      BY <1>0, <1>2, <1>3, <2>1 DEF Attended
    <2>3. ASSUME NEW x \in AllStages, fut'[x].doing = "await", fut'[x].reply = "none"
          PROVE  \E j \in jobs' : j.awaited /\ j.stage = x
      <3>1. CASE x = s
        BY <1>3, <2>3, <3>1
      <3>2. CASE x # s
        BY <1>0, <1>1, <1>2, <2>3, <3>2 DEF Attended, Owed
      <3> QED
        BY <3>1, <3>2
    <2> QED
      BY <1>0, <1>p, <2>2, <2>3 DEF Attended, Owed
  <1>4. CASE ResolveInputs(s)
    <2>1. fut'[s].doing \in {"submit", "failed"}
      BY <1>t, <1>4 DEF ResolveInputs, Futures
    <2> QED
      BY <1>3, <2>1
  <1>5. CASE Submit(s)
    <2>1. PICK reached \in {TRUE, ~distributed} :
            /\ fut' = [fut EXCEPT ![s].doing = "await", ![s].tries = @ + 1,
                                  ![s].reply = IF reached THEN "none" ELSE "transient"]
            /\ jobs' = IF ~reached THEN jobs
                       ELSE jobs \cup {[stage |-> s, worker |-> WorkerOf(s),
                                        awaited |-> TRUE, told |-> FALSE]}
      BY <1>5 DEF Submit
    <2>2. fut'[s].doing = "await" /\ fut'[s].reply = IF reached THEN "none" ELSE "transient"
      BY <1>t, <2>1 DEF Futures
    <2> DEFINE n == [stage |-> s, worker |-> WorkerOf(s), awaited |-> TRUE, told |-> FALSE]
    <2>3. n.awaited /\ n.stage = s /\ (reached => n \in jobs')
      BY <2>1
    <2> HIDE DEF n
    <2> QED
      BY <1>3, <2>2, <2>3
  <1>6. CASE HandleReply(s)
    <2>1. fut'[s] = AfterReply(s, fut[s]) /\ fut[s].reply # "none"
      BY <1>t, <1>6 DEF HandleReply
    <2>2. AfterReply(s, fut[s]).doing \in {"failed", "submit", "done", "resolve"}
      BY <1>t, <2>1, ReplyCases DEF FutureOf, Futures
    <2> QED
      BY <1>3, <2>1, <2>2
  <1> QED
    BY <1>4, <1>5, <1>6 DEF StageMoves

\* The steps of the query begin a level whole, or leave the phase.
LEMMA AttendedQuery ==
  ASSUME ClusterTypeOK, Attended, ExecutePlan \/ QueryMoves \/ QueryTimesOut \/ CallerCancels
  PROVE  Attended'
  <1>t. /\ plan \in Plans /\ level \in DOMAIN Levels /\ fut \in [AllStages -> Futures]
        /\ jobs \subseteq Jobs
    BY DEF ClusterTypeOK, FuturesOK
  <1>p. Levels' = Levels /\ AllStages' = AllStages
    BY StepKeepsPlan, PlanStays DEF CoordinatorNext
  <1>s. ASSUME NEW n \in DOMAIN Levels, NEW f \in [AllStages -> Futures]
        PROVE  /\ \A s \in Levels[n] : StartLevel(n, f)[s].doing = "resolve"
               /\ \A s \in AllStages \ Levels[n] : StartLevel(n, f)[s] = f[s]
    <2>1. Levels[n] \subseteq AllStages
      BY <1>t, PlanFacts
    <2> QED
      BY <2>1 DEF StartLevel, Futures
  <1>1. CASE phase' # "level"
    BY <1>1 DEF Attended
  <1>2. CASE ExecutePlan
    <2>1. level' = 1 /\ fut' = StartLevel(1, NoFutures) /\ 1 \in DOMAIN Levels
      BY <1>t, <1>2, PlanFacts DEF ExecutePlan
    <2>2. /\ NoFutures \in [AllStages -> Futures]
          /\ \A s \in AllStages : NoFutures[s].doing = "rest"
      BY <1>t, RestType DEF NoFutures, NoFuture
    <2>3. /\ \A s \in Levels[1] : fut'[s].doing = "resolve"
          /\ \A s \in AllStages : fut'[s].doing \in {"rest", "resolve"}
      BY <1>s, <2>1, <2>2
    <2> QED
      BY <1>p, <2>1, <2>3 DEF Attended, Owed
  <1>3. CASE LevelSucceeds /\ phase' = "level"
    <2>1. /\ phase = "level" /\ jobs' = jobs /\ level < Len(Levels)
          /\ level' = level + 1 /\ fut' = StartLevel(level + 1, fut)
      BY <1>3 DEF LevelSucceeds, LevelOver, GoOn, workerVars
    <2>2. level + 1 \in DOMAIN Levels
      <3>1. Levels \in Seq(SUBSET AllStages)
        BY <1>t, PlanFacts
      <3> QED
        BY <1>t, <2>1, <3>1
    <2>3. /\ \A s \in Levels[level + 1] : fut'[s].doing = "resolve"
          /\ \A s \in AllStages \ Levels[level + 1] : fut'[s] = fut[s]
      BY <1>t, <1>s, <2>1, <2>2
    <2>4. ASSUME NEW s \in AllStages, fut'[s].doing = "await", fut'[s].reply = "none"
          PROVE  \E j \in jobs' : j.awaited /\ j.stage = s
      <3>1. fut'[s] = fut[s]
        BY <2>3, <2>4
      <3> QED
        BY <2>1, <2>4, <3>1 DEF Attended, Owed
    <2> QED
      BY <1>p, <2>1, <2>3, <2>4 DEF Attended, Owed
  <1>4. CASE CallerCancels
    <2>1. CancelQuery(status) /\ UNCHANGED <<phase, level, fut>>
      BY <1>4 DEF CallerCancels
    <2>2. ASSUME NEW j \in jobs, j.awaited
          PROVE  \E i \in jobs' : i.awaited /\ i.stage = j.stage
      <3>1. CASE jobs' = jobs
        BY <2>2, <3>1
      <3>2. CASE jobs' = {[i EXCEPT !.told = TRUE] : i \in jobs}
        <4>1. /\ [j EXCEPT !.told = TRUE].awaited
              /\ [j EXCEPT !.told = TRUE].stage = j.stage
          BY <1>t, <2>2 DEF Jobs
        <4>2. [j EXCEPT !.told = TRUE] \in jobs'
          BY <3>2
        <4> QED
          BY <4>1, <4>2
      <3> QED
        BY <2>1, <3>1, <3>2, Zenon DEF CancelQuery
    <2>3. ASSUME phase = "level", NEW s \in AllStages, Owed(s)
          PROVE  \E i \in jobs' : i.awaited /\ i.stage = s
      <3>1. PICK j \in jobs : j.awaited /\ j.stage = s
        BY <2>3 DEF Attended
      <3> QED
        BY <2>2, <3>1
    <2> QED
      BY <1>p, <2>1, <2>3 DEF Attended, Owed
  <1>5. LevelFails \/ FetchOutput \/ QueryTimesOut => phase' # "level"
    BY DEF LevelFails, FetchOutput, QueryTimesOut
  <1> QED
    BY <1>1, <1>2, <1>3, <1>4, <1>5 DEF QueryMoves

\* A job that ends, is lost or is cancelled tells the future that waits for it.
LEMMA AttendedWorker ==
  ASSUME ClusterTypeOK, Attended,
         \/ \E j \in jobs : JobEnds(j) \/ LoseReply(j)
         \/ \E w \in Workers : CancelArrives(w) \/ LoseCancel(w)
         \/ ResultExpires
  PROVE  Attended'
  <1>t. fut \in [AllStages -> Futures] /\ jobs \subseteq Jobs
    BY DEF ClusterTypeOK, FuturesOK
  <1>0. UNCHANGED <<plan, phase, level>>
    BY DEF JobEnds, LoseReply, CancelArrives, LoseCancel, ResultExpires, coordVars
  <1>p. Levels' = Levels /\ AllStages' = AllStages
    BY <1>0, PlanStays
  <1>l. \A s \in Levels[level] : s \in AllStages
    BY PlanFacts DEF ClusterTypeOK
  <1>r. PICK r \in [AllStages -> Replies] :
          fut' = [s \in AllStages |-> [fut[s] EXCEPT !.reply = r[s]]]
    BY WorkerMoves
  <1>d. \A s \in AllStages : fut'[s].doing = fut[s].doing
    BY <1>t, <1>r DEF Futures
  <1>1. ASSUME \A j \in jobs : j.awaited =>
                 \/ j \in jobs'
                 \/ fut'[j.stage].reply # "none",
               \A s \in AllStages : fut'[s].reply = "none" => fut[s].reply = "none"
        PROVE  Attended'
    <2>1. ASSUME phase = "level", NEW s \in AllStages, fut'[s].doing = "await", fut'[s].reply = "none"
          PROVE  \E j \in jobs' : j.awaited /\ j.stage = s
      <3>1. Owed(s)
        BY <1>d, <1>1, <2>1 DEF Owed
      <3>2. PICK j \in jobs : j.awaited /\ j.stage = s
        BY <2>1, <3>1 DEF Attended
      <3> QED
        BY <1>1, <2>1, <3>2
    <2> QED
      BY <1>0, <1>p, <1>l, <1>d, <2>1 DEF Attended, Owed
  <1>2. ASSUME NEW j \in jobs, JobEnds(j) PROVE Attended'
    <2>1. PICK how \in {"ok", "error", "transient"} :
            fut' = IF j.awaited THEN [fut EXCEPT ![j.stage].reply = how] ELSE fut
      BY <1>2 DEF JobEnds, Failures
    <2>2. j.stage \in AllStages /\ \A i \in jobs : i # j => i \in jobs'
      BY <1>t, <1>2 DEF JobEnds, Jobs
    <2>3. /\ j.awaited => fut'[j.stage].reply = how
          /\ \A s \in AllStages : fut'[s].reply \in {fut[s].reply, how}
      BY <1>t, <2>1, <2>2 DEF Futures
    <2> QED
      BY <1>1, <2>2, <2>3
  <1>3. ASSUME NEW j \in jobs, LoseReply(j) PROVE Attended'
    <2>1. PICK how \in {"transient", "error"} :
            /\ fut' = [fut EXCEPT ![j.stage].reply = how]
            /\ j.stage \in AllStages /\ \A i \in jobs : i # j => i \in jobs'
      BY <1>t, <1>3 DEF LoseReply, Jobs
    <2>2. /\ fut'[j.stage].reply = how
          /\ \A s \in AllStages : fut'[s].reply \in {fut[s].reply, how}
      BY <1>t, <2>1 DEF Futures
    <2> QED
      BY <1>1, <2>1, <2>2
  <1>4. ASSUME NEW w, CancelArrives(w) PROVE Attended'
    <2>1. PICK hit \in SUBSET jobs :
            /\ jobs' = jobs \ hit
            /\ fut' = [s \in AllStages |->
                         IF \E j \in hit : j.stage = s /\ j.awaited
                         THEN [fut[s] EXCEPT !.reply = "transient"] ELSE fut[s]]
      BY <1>4 DEF CancelArrives
    <2>2. \A s \in AllStages : fut'[s].reply \in {fut[s].reply, "transient"}
      BY <1>t, <2>1 DEF Futures
    <2>3. \A j \in hit : j.awaited => fut'[j.stage].reply = "transient"
      <3> SUFFICES ASSUME NEW j \in hit, j.awaited PROVE fut'[j.stage].reply = "transient"
        OBVIOUS
      <3>1. j.stage \in AllStages
        BY <1>t, <2>1 DEF Jobs
      <3>2. fut'[j.stage] = [fut[j.stage] EXCEPT !.reply = "transient"]
        BY <2>1, <3>1
      <3> QED
        BY <1>t, <3>1, <3>2 DEF Futures
    <2> QED
      BY <1>1, <2>1, <2>2, <2>3
  <1>5. CASE (\E w \in Workers : LoseCancel(w)) \/ ResultExpires
    <2>1. UNCHANGED <<fut, jobs>>
      BY <1>5 DEF LoseCancel, ResultExpires, coordVars
    <2> QED
      BY <1>1, <2>1
  <1> QED
    BY <1>2, <1>3, <1>4, <1>5

\* No future waits for a reply that nobody owes it, for any plan, workers and
\* number of retries.
THEOREM WaitsAreAttended == CoordinatorSpec => []Attended
  <1>1. CoordinatorInit => ClusterTypeOK /\ Attended
    BY ClusterInit DEF CoordinatorInit, Attended
  <1>2. ClusterTypeOK /\ Attended /\ UNCHANGED clusterVars => Attended'
    BY DEF clusterVars, coordVars, workerVars, Attended, Owed, Levels, AllStages
  <1>3. ClusterTypeOK /\ Attended /\ CoordinatorNext => Attended'
    BY AttendedStage, AttendedQuery, AttendedWorker DEF CoordinatorNext
  <1>4. ClusterTypeOK /\ [CoordinatorNext]_clusterVars => ClusterTypeOK'
    BY ClusterStep
  <1> QED
    BY <1>1, <1>2, <1>3, <1>4, PTL DEF CoordinatorSpec

\* Something can go on: the fetch, the end of a level, a future's own step, or
\* a job whose reply a future waits for.
CanGoOn ==
  \/ phase = "fetch" \/ LevelOver
  \/ \E s \in AllStages :
       \/ Doing(s, "resolve") \/ Doing(s, "submit")
       \/ Doing(s, "await") /\ fut[s].reply # "none"
  \/ \E j \in jobs : j.awaited

\* An execution is never stuck: until it has an outcome it can go on, whatever
\* was lost, cancelled or has expired.  (That it then ends is ExecutionsEnd,
\* which needs fairness.)
THEOREM ExecutionNeverStuck == CoordinatorSpec => [](phase \in {"level", "fetch"} => CanGoOn)
  <1>1. ASSUME ClusterTypeOK, Attended, phase = "level", ~LevelOver PROVE CanGoOn
    <2>1. PICK s \in Levels[level] : fut[s].doing \notin {"done", "failed"}
      BY <1>1 DEF LevelOver
    <2>2. s \in AllStages
      BY <1>1, <2>1, PlanFacts DEF ClusterTypeOK
    <2>3. fut[s].doing \in {"resolve", "submit", "await"}
      BY <1>1, <2>1, <2>2 DEF Attended, ClusterTypeOK, FuturesOK, Futures, Doings
    <2>4. CASE fut[s].doing \in {"resolve", "submit"}
      BY <1>1, <2>2, <2>4 DEF CanGoOn, Doing
    <2>5. CASE fut[s].doing = "await" /\ fut[s].reply # "none"
      BY <1>1, <2>2, <2>5 DEF CanGoOn, Doing
    <2>6. CASE Owed(s)
      BY <1>1, <2>2, <2>6 DEF CanGoOn, Attended
    <2> QED
      BY <2>3, <2>4, <2>5, <2>6 DEF Owed
  <1>2. ClusterTypeOK /\ Attended => (phase \in {"level", "fetch"} => CanGoOn)
    BY <1>1 DEF CanGoOn
  <1>3. CoordinatorSpec => []ClusterTypeOK
    BY ClusterInit, ClusterStep, PTL DEF CoordinatorSpec
  <1> QED
    BY <1>2, <1>3, WaitsAreAttended, PTL

=============================================================================
