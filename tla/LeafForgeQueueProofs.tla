------------------------ MODULE LeafForgeQueueProofs ------------------------
(***************************************************************************)
(* TLAPS proofs that the forge queue loses and mints no slot, shares one   *)
(* forge per name, yields the loop between the forges of a burst, and      *)
(* implements ForgePool, for any limit, any names and any number of        *)
(* callers.                                                                *)
(***************************************************************************)
EXTENDS LeafForgeQueue, FiniteSetTheorems, TLAPS

JobRecords == [name : Names, stage : Stages, waited : BOOLEAN]

Types ==
    /\ running \in Nat
    /\ jobs \in Seq(JobRecords)
    /\ pending \in Seq(Jobs) /\ micro \in Seq(Jobs) /\ immediates \in Seq(Jobs)
    /\ inflight \in [Names -> Nat]

\* The jobs of a queue are in stage s, and none is in it twice.
Queued(q, s) == /\ \A i \in 1..Len(q) : jobs[q[i]].stage = s
                /\ \A i, k \in 1..Len(q) : q[i] = q[k] => i = k

\* Every waiting job has its place in `pending`.
NoneForgotten == \A j \in InStage("waiting") : \E i \in 1..Len(pending) : pending[i] = j

\* What is left to the check phase is at the head of the immediates.
DueQueued == due \in Nat /\ due <= Len(immediates)

IndInv == /\ Types /\ DueQueued
          /\ Queued(pending, "waiting") /\ NoneForgotten
          /\ Queued(immediates, "granted")
          /\ SlotsAccounted
          /\ OneForgePerName

-----------------------------------------------------------------------------

\* What Head and Tail of a queue are, by position.
LEMMA HeadTail ==
    ASSUME NEW S, NEW q \in Seq(S), q # <<>>
    PROVE  /\ Head(q) = q[1] /\ Head(q) \in S /\ Len(q) >= 1
           /\ Tail(q) \in Seq(S) /\ Len(Tail(q)) = Len(q) - 1
           /\ \A i \in 1..Len(Tail(q)) : Tail(q)[i] = q[i + 1]
OBVIOUS

\* What replacing one element of a queue does.
LEMMA Replace ==
    ASSUME NEW S, NEW q \in Seq(S), NEW i \in 1..Len(q), NEW e \in S,
           NEW r, r = [q EXCEPT ![i] = e]
    PROVE  /\ r \in Seq(S) /\ Len(r) = Len(q) /\ r[i] = e
           /\ \A k \in 1..Len(q) : k # i => r[k] = q[k]
OBVIOUS

\* Jobs are the positions of the list of jobs; a change of stage keeps them.
LEMMA JobsAreIndices ==
    ASSUME Types
    PROVE  /\ Len(jobs) \in Nat /\ Jobs = 1..Len(jobs) /\ IsFiniteSet(Jobs)
           /\ \A j \in Jobs : jobs[j] \in JobRecords
           /\ Holders \in SUBSET Jobs /\ IsFiniteSet(Holders)
<1>1. Len(jobs) \in Nat /\ Jobs = 1..Len(jobs)
  BY DEF Types, Jobs
<1>2. IsFiniteSet(Jobs)
  BY <1>1, FS_Interval
<1>3. Holders \in SUBSET Jobs
  BY DEF Holders, InStage
<1>4. IsFiniteSet(Holders)
  BY <1>2, <1>3, FS_Subset
<1>5. \A j \in Jobs : jobs[j] \in JobRecords
  BY <1>1 DEF Types
<1> QED
  BY <1>1, <1>2, <1>3, <1>4, <1>5

\* Head(micro), Head(pending) and Head(immediates) are jobs in their stages.
LEMMA HeadsPlaced ==
    ASSUME IndInv
    PROVE  /\ micro # <<>> => Head(micro) \in Jobs /\ Tail(micro) \in Seq(Jobs)
           /\ pending # <<>> => /\ Head(pending) \in InStage("waiting")
                                /\ Tail(pending) \in Seq(Jobs)
           /\ immediates # <<>> => /\ Head(immediates) \in InStage("granted")
                                   /\ Tail(immediates) \in Seq(Jobs)
BY HeadTail DEF IndInv, Types, Queued, InStage

-----------------------------------------------------------------------------

LEMMA InitInd == Init => IndInv
<1> SUFFICES ASSUME Init PROVE IndInv
  OBVIOUS
<1>1. Jobs = {} /\ InStage("waiting") = {} /\ Holders = {} /\ Live = {}
  BY DEF Init, Jobs, InStage, Holders, Live
<1>2. Types
  BY DEF Init, Types, Jobs, None
<1>3. SlotsAccounted
  BY <1>1, FS_EmptySet, LimitAssumption DEF Init, SlotsAccounted
<1>4. OneForgePerName
  BY <1>1 DEF Init, OneForgePerName, None
<1> QED
  BY <1>1, <1>2, <1>3, <1>4 DEF Init, IndInv, DueQueued, Queued, NoneForgotten

-----------------------------------------------------------------------------

\* A job joins the list, in a stage of its own.
LEMMA AppendJob ==
    ASSUME Types, NEW n \in Names, NEW s \in Stages, jobs' = Append(jobs, Job(n, s))
    PROVE  LET j == Len(jobs) + 1
           IN  /\ j \in Nat \ {0} /\ j \notin Jobs /\ Jobs' = Jobs \cup {j}
               /\ jobs'[j].stage = s /\ jobs'[j].name = n
               /\ jobs'[j].waited = (s = "waiting")
               /\ \A k \in Jobs : jobs'[k] = jobs[k]
               /\ jobs' \in Seq(JobRecords)
<1>1. Len(jobs) \in Nat /\ Jobs = 1..Len(jobs)
  BY JobsAreIndices
<1>2. Job(n, s) \in JobRecords
  BY DEF Job, JobRecords
<1>3. jobs' \in Seq(JobRecords)
  BY <1>2 DEF Types
<1>4. /\ Len(jobs') = Len(jobs) + 1
      /\ jobs'[Len(jobs) + 1] = Job(n, s)
      /\ \A k \in 1..Len(jobs) : jobs'[k] = jobs[k]
  BY <1>2 DEF Types
<1>5. Jobs' = 1..Len(jobs')
  BY <1>3 DEF Jobs
<1>6. Job(n, s).stage = s /\ Job(n, s).name = n /\ Job(n, s).waited = (s = "waiting")
  BY DEF Job
<1> QED
  BY <1>1, <1>3, <1>4, <1>5, <1>6

\* A job changes its stage, and nothing else changes in the list.
LEMMA MoveJob ==
    ASSUME Types, NEW j \in Jobs, NEW s \in Stages,
           jobs' = [jobs EXCEPT ![j].stage = s]
    PROVE  /\ Jobs' = Jobs
           /\ jobs'[j].stage = s /\ jobs'[j].name = jobs[j].name
           /\ jobs'[j].waited = jobs[j].waited
           /\ \A k \in Jobs \ {j} : jobs'[k] = jobs[k]
           /\ jobs' \in Seq(JobRecords)
<1>1. /\ Len(jobs) \in Nat /\ Jobs = 1..Len(jobs)
      /\ \A k \in Jobs : jobs[k] \in JobRecords
  BY JobsAreIndices
<1>2. [jobs[j] EXCEPT !.stage = s] \in JobRecords
  BY <1>1 DEF JobRecords
<1>3. jobs \in Seq(JobRecords) /\ jobs' = [jobs EXCEPT ![j] = [jobs[j] EXCEPT !.stage = s]]
  BY DEF Types
<1>4. /\ jobs' \in Seq(JobRecords) /\ Len(jobs') = Len(jobs)
      /\ jobs'[j] = [jobs[j] EXCEPT !.stage = s]
      /\ \A k \in Jobs \ {j} : jobs'[k] = jobs[k]
  BY <1>1, <1>2, <1>3
<1>5. /\ jobs'[j].stage = s /\ jobs'[j].name = jobs[j].name
      /\ jobs'[j].waited = jobs[j].waited
  BY <1>1, <1>4 DEF JobRecords
<1>6. Jobs' = 1..Len(jobs')
  BY <1>4 DEF Jobs
<1> QED
  BY <1>1, <1>4, <1>5, <1>6

\* Two jobs change their stages at once.
LEMMA MoveTwoJobs ==
    ASSUME Types, NEW a \in Jobs, NEW b \in Jobs, a # b, NEW s \in Stages, NEW t \in Stages,
           jobs' = [jobs EXCEPT ![a].stage = s, ![b].stage = t]
    PROVE  /\ Jobs' = Jobs
           /\ jobs'[a].stage = s /\ jobs'[a].name = jobs[a].name
           /\ jobs'[b].stage = t /\ jobs'[b].name = jobs[b].name
           /\ \A k \in Jobs \ {a, b} : jobs'[k] = jobs[k]
           /\ jobs' \in Seq(JobRecords)
<1> DEFINE ra == [jobs[a] EXCEPT !.stage = s]
           rb == [jobs[b] EXCEPT !.stage = t]
<1>1. /\ Len(jobs) \in Nat /\ Jobs = 1..Len(jobs)
      /\ \A k \in Jobs : jobs[k] \in JobRecords
  BY JobsAreIndices
<1>2. /\ ra \in JobRecords /\ ra.stage = s /\ ra.name = jobs[a].name
      /\ rb \in JobRecords /\ rb.stage = t /\ rb.name = jobs[b].name
  BY <1>1 DEF JobRecords
<1>3. jobs \in Seq(JobRecords) /\ jobs' = [[jobs EXCEPT ![a] = ra] EXCEPT ![b] = rb]
  BY <1>1 DEF Types
<1> DEFINE g == [jobs EXCEPT ![a] = ra]
<1> HIDE DEF ra, rb
<1>6. /\ g \in Seq(JobRecords) /\ Len(g) = Len(jobs) /\ g[a] = ra
      /\ \A k \in Jobs \ {a} : g[k] = jobs[k]
  BY <1>1, <1>2, <1>3
<1>7. jobs' = [g EXCEPT ![b] = rb]
  BY <1>3
<1> HIDE DEF g
<1>4. /\ jobs' \in Seq(JobRecords) /\ Len(jobs') = Len(jobs)
      /\ jobs'[a] = ra /\ jobs'[b] = rb
      /\ \A k \in Jobs \ {a, b} : jobs'[k] = jobs[k]
  <2>1. /\ jobs' \in Seq(JobRecords) /\ Len(jobs') = Len(g) /\ jobs'[b] = rb
        /\ \A k \in 1..Len(g) : k # b => jobs'[k] = g[k]
    <3>1. b \in 1..Len(g) /\ rb \in JobRecords /\ g \in Seq(JobRecords)
      BY <1>1, <1>2, <1>6
    <3>2. PICK h : h = [g EXCEPT ![b] = rb]
      OBVIOUS
    <3>3. /\ h \in Seq(JobRecords) /\ Len(h) = Len(g) /\ h[b] = rb
          /\ \A k \in 1..Len(g) : k # b => h[k] = g[k]
      BY ONLY <3>1, <3>2, Replace
    <3> QED
      BY <3>2, <3>3, <1>7
  <2> QED
    BY <1>1, <1>6, <2>1
<1>5. Jobs' = 1..Len(jobs')
  BY <1>4 DEF Jobs
<1> QED
  BY <1>1, <1>2, <1>4, <1>5

-----------------------------------------------------------------------------

\* forge() of a new name.
LEMMA StartInd ==
    ASSUME IndInv, NEW c \in Callers, NEW n \in Names, Start(c, n)
    PROVE  IndInv'
<1> DEFINE j == Len(jobs) + 1
           s == IF running < Limit THEN "ready" ELSE "waiting"
<1>1. /\ Types /\ jobs' = Append(jobs, Job(n, s)) /\ s \in Stages
      /\ inflight[n] = None /\ inflight' = [inflight EXCEPT ![n] = j]
      /\ UNCHANGED <<immediates, due>>
  BY DEF Start, Acquire, IndInv, Stages
<1>2. /\ j \in Nat \ {0} /\ j \notin Jobs /\ Jobs' = Jobs \cup {j}
      /\ jobs'[j].stage = s /\ jobs'[j].name = n
      /\ \A k \in Jobs : jobs'[k] = jobs[k]
      /\ jobs' \in Seq(JobRecords)
  BY <1>1, AppendJob
<1>3. /\ pending \in Seq(Jobs) /\ micro \in Seq(Jobs) /\ immediates \in Seq(Jobs)
      /\ inflight \in [Names -> Nat] /\ running \in Nat /\ Limit \in Nat
  BY <1>1, LimitAssumption DEF Types
<1>4. s \in {"ready", "waiting"} /\ (s = "ready" <=> running < Limit)
  OBVIOUS
<1>5. /\ running' = (IF s = "ready" THEN running + 1 ELSE running)
      /\ micro' = (IF s = "ready" THEN Append(micro, j) ELSE micro)
      /\ pending' = (IF s = "ready" THEN pending ELSE Append(pending, j))
  BY DEF Start, Acquire
<1> HIDE DEF j, s
<1>6. Types'
  BY <1>1, <1>2, <1>3, <1>4, <1>5 DEF Types
<1>7. /\ InStage("waiting")' = (IF s = "waiting" THEN InStage("waiting") \cup {j}
                                                 ELSE InStage("waiting"))
      /\ Holders' = (IF s = "ready" THEN Holders \cup {j} ELSE Holders)
      /\ Live' = Live \cup {j}
  BY <1>2, <1>4 DEF InStage, Holders, Live
<1>8. Queued(immediates, "granted")'
  <2>1. \A i \in 1..Len(immediates) : immediates[i] \in Jobs
    BY <1>3
  <2> QED
    BY <1>1, <1>2, <2>1 DEF IndInv, Queued
<1>9. Queued(pending, "waiting")' /\ NoneForgotten'
  <2>1. CASE s = "ready"
    <3>1. pending' = pending /\ InStage("waiting")' = InStage("waiting")
      BY <2>1, <1>5, <1>7
    <3>2. \A i \in 1..Len(pending) : pending[i] \in Jobs
      BY <1>3
    <3>3. Queued(pending, "waiting")'
      BY <3>1, <3>2, <1>2 DEF IndInv, Queued
    <3>4. NoneForgotten'
      BY <3>1 DEF IndInv, NoneForgotten
    <3> QED
      BY <3>3, <3>4
  <2>2. CASE s = "waiting"
    <3>1. /\ Len(pending') = Len(pending) + 1 /\ pending'[Len(pending) + 1] = j
          /\ \A i \in 1..Len(pending) : pending'[i] = pending[i] /\ pending[i] \in Jobs
          /\ Len(pending) \in Nat
      BY <2>2, <1>3, <1>5
    <3>2. Queued(pending, "waiting")'
      BY <3>1, <2>2, <1>2 DEF IndInv, Queued
    <3>3. NoneForgotten'
      BY <3>1, <2>2, <1>7 DEF IndInv, NoneForgotten
    <3> QED
      BY <3>2, <3>3
  <2> QED
    BY <2>1, <2>2, <1>4
<1>10. SlotsAccounted'
  <2>1. /\ running = Cardinality(Holders) /\ IsFiniteSet(Holders) /\ j \notin Holders
        /\ running <= Limit
        /\ InStage("waiting") # {} => running = Limit
    BY <1>1, <1>2, JobsAreIndices DEF IndInv, SlotsAccounted
  <2>2. Cardinality(Holders \cup {j}) = Cardinality(Holders) + 1
    BY <2>1, FS_AddElement
  <2> QED
    BY <2>1, <2>2, <1>3, <1>4, <1>5, <1>7 DEF SlotsAccounted
<1>11. OneForgePerName'
  <2> SUFFICES ASSUME NEW m \in Names
               PROVE  {k \in Live' : jobs'[k].name = m}
                        = IF inflight'[m] = None THEN {} ELSE {inflight'[m]}
    BY DEF OneForgePerName
  <2>1. {k \in Live : jobs[k].name = m} = IF inflight[m] = None THEN {} ELSE {inflight[m]}
    BY DEF IndInv, OneForgePerName
  <2>2. {k \in Live' : jobs'[k].name = m}
          = {k \in Live : jobs[k].name = m} \cup (IF m = n THEN {j} ELSE {})
    BY <1>2, <1>7 DEF Live
  <2>3. inflight'[m] = IF m = n THEN j ELSE inflight[m]
    BY <1>1, <1>3
  <2> QED
    BY <2>1, <2>2, <2>3, <1>1, <1>2 DEF None
<1>12. DueQueued'
  BY <1>1 DEF IndInv, DueQueued
<1> QED
  BY <1>6, <1>8, <1>9, <1>10, <1>11, <1>12 DEF IndInv

\* The then() callback: the job at the head runs and gives up its slot, to the
\* oldest waiting job if there is one.
LEMMA ForgeInd ==
    ASSUME IndInv, Forge
    PROVE  IndInv'
<1> DEFINE a == Head(micro)
           b == Head(pending)
<1>1. PICK stage \in {"forged", "failed"} : Release(stage)
  BY DEF Forge
<1>2. /\ Types /\ micro # <<>> /\ a \in Jobs /\ Tail(micro) \in Seq(Jobs)
      /\ jobs[a].stage = "ready" /\ a \in Holders /\ a \notin InStage("waiting")
      /\ stage \in Stages /\ "granted" \in Stages
      /\ stage \notin {"ready", "granted", "waiting", "settled"}
      /\ micro' = Append(Tail(micro), a) /\ inflight' = inflight /\ due' = due
  BY <1>1, HeadsPlaced DEF Forge, Release, IndInv, InStage, Holders, Stages
<1>3. /\ pending \in Seq(Jobs) /\ immediates \in Seq(Jobs) /\ running \in Nat
      /\ inflight \in [Names -> Nat] /\ Limit \in Nat
      /\ running = Cardinality(Holders) /\ IsFiniteSet(Holders) /\ running <= Limit
      /\ InStage("waiting") # {} => running = Limit
  BY <1>2, JobsAreIndices, LimitAssumption DEF Types, IndInv, SlotsAccounted
<1>4. CASE pending = <<>>
  <2>1. /\ running' = running - 1 /\ jobs' = [jobs EXCEPT ![a].stage = stage]
        /\ UNCHANGED <<pending, immediates>>
    BY <1>1, <1>4 DEF Release
  <2> HIDE DEF a
  <2>2. /\ Jobs' = Jobs
        /\ jobs'[a].stage = stage /\ jobs'[a].name = jobs[a].name
        /\ \A k \in Jobs \ {a} : jobs'[k] = jobs[k]
        /\ jobs' \in Seq(JobRecords)
    BY <1>2, <2>1, MoveJob
  <2>3. /\ InStage("waiting")' = InStage("waiting")
        /\ Holders' = Holders \ {a} /\ Live' = Live
    BY <1>2, <2>2 DEF InStage, Holders, Live
  <2>4. /\ Cardinality(Holders \ {a}) = Cardinality(Holders) - 1
        /\ Cardinality(Holders) \in Nat /\ Cardinality(Holders \ {a}) \in Nat
    BY <1>2, <1>3, FS_RemoveElement, FS_CardinalityType
  <2>5. InStage("waiting") = {}
    BY <1>4 DEF IndInv, NoneForgotten
  <2>6. Types'
    BY <1>2, <1>3, <2>1, <2>2, <2>4 DEF Types
  <2>7. SlotsAccounted'
    BY <1>3, <2>1, <2>3, <2>4, <2>5 DEF SlotsAccounted
  <2>8. Queued(immediates, "granted")'
    <3>1. \A i \in 1..Len(immediates) : immediates[i] \in Jobs
      BY <1>3
    <3> QED
      BY <1>2, <2>1, <2>2, <3>1 DEF IndInv, Queued
  <2>9. Queued(pending, "waiting")' /\ NoneForgotten'
    BY <1>4, <2>1, <2>3, <2>5 DEF Queued, NoneForgotten
  <2>10. OneForgePerName'
    <3>1. \A k \in Live : jobs'[k].name = jobs[k].name
      BY <2>2 DEF Live
    <3> QED
      BY <1>2, <2>3, <3>1 DEF IndInv, OneForgePerName
  <2>11. DueQueued'
    BY <1>2, <2>1 DEF IndInv, DueQueued
  <2> QED
    BY <2>6, <2>7, <2>8, <2>9, <2>10, <2>11 DEF IndInv
<1>5. CASE pending # <<>>
  <2>1. /\ running' = running /\ pending' = Tail(pending)
        /\ immediates' = Append(immediates, b)
        /\ jobs' = [jobs EXCEPT ![a].stage = stage, ![b].stage = "granted"]
    BY <1>1, <1>5 DEF Release
  <2>2. /\ b \in InStage("waiting") /\ b \in Jobs /\ jobs[b].stage = "waiting"
        /\ Tail(pending) \in Seq(Jobs)
    BY <1>5, HeadsPlaced DEF InStage
  <2>3. /\ pending[1] = b /\ Len(pending) \in Nat /\ Len(pending) >= 1
        /\ Len(Tail(pending)) = Len(pending) - 1
        /\ \A i \in 1..Len(Tail(pending)) : Tail(pending)[i] = pending[i + 1]
        /\ \A i \in 1..Len(pending) : pending[i] \in Jobs
    BY <1>3, <1>5, HeadTail
  <2> HIDE DEF a, b
  <2>4. a # b
    BY <1>2, <2>2
  <2>5. /\ Jobs' = Jobs
        /\ jobs'[a].stage = stage /\ jobs'[a].name = jobs[a].name
        /\ jobs'[b].stage = "granted" /\ jobs'[b].name = jobs[b].name
        /\ \A k \in Jobs \ {a, b} : jobs'[k] = jobs[k]
        /\ jobs' \in Seq(JobRecords)
    BY <1>2, <2>1, <2>2, <2>4, MoveTwoJobs
  <2>6. /\ InStage("waiting")' = InStage("waiting") \ {b}
        /\ Holders' = (Holders \ {a}) \cup {b} /\ Live' = Live
        /\ b \notin Holders
    BY <1>2, <2>2, <2>4, <2>5 DEF InStage, Holders, Live
  <2>7. Cardinality(Holders') = Cardinality(Holders)
    <3>1. /\ Cardinality(Holders \ {a}) = Cardinality(Holders) - 1
          /\ IsFiniteSet(Holders \ {a}) /\ Cardinality(Holders) \in Nat
      BY <1>2, <1>3, FS_RemoveElement, FS_CardinalityType
    <3>2. Cardinality((Holders \ {a}) \cup {b}) = Cardinality(Holders \ {a}) + 1
      BY <2>6, <3>1, FS_AddElement
    <3> QED
      BY <2>6, <3>1, <3>2
  <2>8. Types'
    BY <1>2, <1>3, <2>1, <2>2, <2>5 DEF Types
  <2>9. SlotsAccounted'
    BY <1>3, <2>1, <2>2, <2>7 DEF SlotsAccounted
  <2>10. Queued(immediates, "granted")'
    <3>1. /\ \A i \in 1..Len(immediates) : immediates[i] \in Jobs /\ immediates[i] \notin {a, b}
          /\ Len(immediates) \in Nat
      BY <1>2, <1>3, <2>2 DEF IndInv, Queued
    <3>2. /\ Len(immediates') = Len(immediates) + 1
          /\ immediates'[Len(immediates) + 1] = b
          /\ \A i \in 1..Len(immediates) : immediates'[i] = immediates[i]
      BY <1>3, <2>1
    <3>3. \A i \in 1..Len(immediates') :
             \/ i \in 1..Len(immediates) /\ immediates'[i] \in Jobs \ {a, b}
             \/ i = Len(immediates) + 1 /\ immediates'[i] = b
      BY <3>1, <3>2
    <3>4. /\ \A i \in 1..Len(immediates) : jobs[immediates[i]].stage = "granted"
          /\ \A i, k \in 1..Len(immediates) : immediates[i] = immediates[k] => i = k
      BY DEF IndInv, Queued
    <3>5. \A i \in 1..Len(immediates') : jobs'[immediates'[i]].stage = "granted"
      BY <2>5, <3>2, <3>3, <3>4
    <3>6. \A i, k \in 1..Len(immediates') : immediates'[i] = immediates'[k] => i = k
      BY <3>2, <3>3, <3>4
    <3> QED
      BY <3>5, <3>6 DEF Queued
  <2>11. Queued(pending, "waiting")'
    <3>1. \A i \in 1..Len(pending) : jobs[pending[i]].stage = "waiting"
      BY DEF IndInv, Queued
    <3>2. \A i, k \in 1..Len(pending) : pending[i] = pending[k] => i = k
      BY DEF IndInv, Queued
    <3>3. \A i \in 1..Len(Tail(pending)) : /\ i + 1 \in 1..Len(pending)
                                           /\ Tail(pending)[i] \in Jobs \ {a, b}
      BY <1>2, <2>3, <3>1, <3>2
    <3>4. \A i \in 1..Len(Tail(pending)) : jobs'[Tail(pending)[i]].stage = "waiting"
      BY <2>3, <2>5, <3>1, <3>3
    <3>5. \A i, k \in 1..Len(Tail(pending)) : Tail(pending)[i] = Tail(pending)[k] => i = k
      BY <2>3, <3>2, <3>3
    <3> QED
      BY <2>1, <3>4, <3>5 DEF Queued
  <2>12. NoneForgotten'
    <3> SUFFICES ASSUME NEW j \in InStage("waiting") \ {b}
                 PROVE  \E i \in 1..Len(Tail(pending)) : Tail(pending)[i] = j
      BY <2>1, <2>6 DEF NoneForgotten
    <3>1. PICK i \in 1..Len(pending) : pending[i] = j
      BY DEF IndInv, NoneForgotten
    <3>2. i # 1 /\ i - 1 \in 1..Len(Tail(pending))
      BY <2>3, <3>1
    <3>3. Tail(pending)[i - 1] = pending[(i - 1) + 1]
      BY <2>3, <3>2
    <3> QED
      BY <3>1, <3>2, <3>3
  <2>13. OneForgePerName'
    <3>1. \A k \in Live : jobs'[k].name = jobs[k].name
      BY <2>5 DEF Live
    <3> QED
      BY <1>2, <2>6, <3>1 DEF IndInv, OneForgePerName
  <2>14. DueQueued'
    <3>1. Len(immediates') = Len(immediates) + 1 /\ Len(immediates) \in Nat
      BY <1>3, <2>1
    <3> QED
      BY <1>2, <3>1 DEF IndInv, DueQueued
  <2> QED
    BY <2>8, <2>9, <2>10, <2>11, <2>12, <2>13, <2>14 DEF IndInv
<1> QED
  BY <1>4, <1>5

\* The finally() callback: the job leaves the dedupe map as it settles.
LEMMA SettleInd ==
    ASSUME IndInv, Settle
    PROVE  IndInv'
<1> DEFINE a == Head(micro)
<1>1. /\ Types /\ a \in Jobs /\ Tail(micro) \in Seq(Jobs) /\ "settled" \in Stages
      /\ jobs[a].stage \in {"forged", "failed"}
      /\ micro' = Tail(micro) /\ jobs' = [jobs EXCEPT ![a].stage = "settled"]
      /\ inflight' = [inflight EXCEPT ![jobs[a].name] = None]
      /\ UNCHANGED <<running, pending, immediates, due>>
  BY HeadsPlaced DEF Settle, Forget, IndInv, Stages
<1> HIDE DEF a
<1>2. /\ Jobs' = Jobs
      /\ jobs'[a].stage = "settled" /\ jobs'[a].name = jobs[a].name
      /\ \A k \in Jobs \ {a} : jobs'[k] = jobs[k]
      /\ jobs' \in Seq(JobRecords)
  BY <1>1, MoveJob
<1>3. /\ InStage("waiting")' = InStage("waiting") /\ Holders' = Holders
      /\ Live' = Live \ {a} /\ a \in Live
  BY <1>1, <1>2 DEF InStage, Holders, Live
<1>4. /\ pending \in Seq(Jobs) /\ immediates \in Seq(Jobs) /\ running \in Nat
      /\ inflight \in [Names -> Nat]
      /\ \A k \in Jobs : jobs[k] \in JobRecords
  BY <1>1, JobsAreIndices DEF Types
<1>5. jobs[a].name \in Names
  BY <1>1, <1>4 DEF JobRecords
<1>6. Types'
  BY <1>1, <1>2, <1>4 DEF Types, None
<1>7. SlotsAccounted'
  BY <1>1, <1>3 DEF IndInv, SlotsAccounted
<1>8. Queued(immediates, "granted")'
  <2>1. \A i \in 1..Len(immediates) : immediates[i] \in Jobs
    BY <1>4
  <2> QED
    BY <1>1, <1>2, <2>1 DEF IndInv, Queued
<1>9. Queued(pending, "waiting")'
  <2>1. \A i \in 1..Len(pending) : pending[i] \in Jobs
    BY <1>4
  <2> QED
    BY <1>1, <1>2, <2>1 DEF IndInv, Queued
<1>10. NoneForgotten'
  BY <1>1, <1>3 DEF IndInv, NoneForgotten
<1>11. OneForgePerName'
  <2> SUFFICES ASSUME NEW m \in Names
               PROVE  {k \in Live' : jobs'[k].name = m}
                        = IF inflight'[m] = None THEN {} ELSE {inflight'[m]}
    BY DEF OneForgePerName
  <2>1. {k \in Live : jobs[k].name = m} = IF inflight[m] = None THEN {} ELSE {inflight[m]}
    BY DEF IndInv, OneForgePerName
  <2>2. {k \in Live' : jobs'[k].name = m} = {k \in Live : jobs[k].name = m} \ {a}
    BY <1>2, <1>3 DEF Live
  <2>3. inflight'[m] = IF m = jobs[a].name THEN None ELSE inflight[m]
    BY <1>1, <1>4
  <2>4. a \in {k \in Live : jobs[k].name = m} <=> m = jobs[a].name
    BY <1>3
  <2> QED
    BY <2>1, <2>2, <2>3, <2>4
<1>12. DueQueued'
  BY <1>1 DEF IndInv, DueQueued
<1> QED
  BY <1>6, <1>7, <1>8, <1>9, <1>10, <1>11, <1>12 DEF IndInv

\* The check phase has what it was promised.
LEMMA GrantDue ==
    ASSUME IndInv, Grant
    PROVE  immediates # <<>>
<1>1. due > 0 /\ due \in Nat /\ due <= Len(immediates)
  BY DEF Grant, IndInv, DueQueued
<1>2. immediates = <<>> => Len(immediates) = 0
  OBVIOUS
<1> QED
  BY <1>1, <1>2

\* The check phase: a granted job becomes ready, and holds its slot throughout.
LEMMA GrantInd ==
    ASSUME IndInv, Grant
    PROVE  IndInv'
<1> DEFINE a == Head(immediates)
<1>1. /\ Types /\ a \in Jobs /\ jobs[a].stage = "granted" /\ "ready" \in Stages
      /\ Tail(immediates) \in Seq(Jobs) /\ immediates # <<>>
      /\ micro' = <<a>> /\ immediates' = Tail(immediates)
      /\ jobs' = [jobs EXCEPT ![a].stage = "ready"]
      /\ UNCHANGED <<running, pending, inflight>>
  BY HeadsPlaced, GrantDue DEF Grant, IndInv, InStage, Stages
<1>2. /\ immediates[1] = a /\ Len(immediates) \in Nat /\ Len(immediates) >= 1
      /\ Len(Tail(immediates)) = Len(immediates) - 1
      /\ \A i \in 1..Len(Tail(immediates)) : Tail(immediates)[i] = immediates[i + 1]
      /\ \A i \in 1..Len(immediates) : immediates[i] \in Jobs
      /\ pending \in Seq(Jobs)
  BY <1>1, HeadTail DEF Types
<1> HIDE DEF a
<1>3. /\ Jobs' = Jobs
      /\ jobs'[a].stage = "ready" /\ jobs'[a].name = jobs[a].name
      /\ \A k \in Jobs \ {a} : jobs'[k] = jobs[k]
      /\ jobs' \in Seq(JobRecords)
  BY <1>1, MoveJob
<1>4. /\ InStage("waiting")' = InStage("waiting") /\ Holders' = Holders /\ Live' = Live
  BY <1>1, <1>3 DEF InStage, Holders, Live
<1>5. Types'
  BY <1>1, <1>3 DEF Types
<1>6. SlotsAccounted'
  BY <1>1, <1>4 DEF IndInv, SlotsAccounted
<1>7. Queued(immediates, "granted")'
  <2>1. \A i \in 1..Len(immediates) : jobs[immediates[i]].stage = "granted"
    BY DEF IndInv, Queued
  <2>2. \A i, k \in 1..Len(immediates) : immediates[i] = immediates[k] => i = k
    BY DEF IndInv, Queued
  <2>3. \A i \in 1..Len(Tail(immediates)) : /\ i + 1 \in 1..Len(immediates)
                                            /\ Tail(immediates)[i] \in Jobs \ {a}
    BY <1>2, <2>2
  <2> QED
    BY <1>1, <1>2, <1>3, <2>1, <2>2, <2>3 DEF Queued
<1>8. Queued(pending, "waiting")'
  <2>1. \A i \in 1..Len(pending) : pending[i] \in Jobs
    BY <1>2
  <2> QED
    BY <1>1, <1>3, <2>1 DEF IndInv, Queued
<1>9. NoneForgotten'
  BY <1>1, <1>4 DEF IndInv, NoneForgotten
<1>10. OneForgePerName'
  <2>1. \A k \in Live : jobs'[k].name = jobs[k].name
    BY <1>3 DEF Live
  <2> QED
    BY <1>1, <1>4, <2>1 DEF IndInv, OneForgePerName
<1>11. DueQueued'
  BY <1>1, <1>2 DEF Grant, IndInv, DueQueued
<1> QED
  BY <1>5, <1>6, <1>7, <1>8, <1>9, <1>10, <1>11 DEF IndInv

-----------------------------------------------------------------------------

\* Steps that leave the queue's own state alone: a shared call, the loop's poll, a
\* stutter.
LEMMA QuietInd ==
    ASSUME IndInv, due' \in {due, Len(immediates)},
           UNCHANGED <<running, pending, inflight, jobs, micro, immediates>>
    PROVE  IndInv'
<1>1. /\ Jobs' = Jobs /\ Live' = Live /\ Holders' = Holders
      /\ InStage("waiting")' = InStage("waiting")
  BY DEF Jobs, Live, Holders, InStage
<1>2. DueQueued'
  BY DEF IndInv, Types, DueQueued
<1> QED
  BY <1>1, <1>2 DEF IndInv, Types, Queued, NoneForgotten, SlotsAccounted, OneForgePerName

LEMMA NextInd ==
    ASSUME IndInv, [Next]_vars
    PROVE  IndInv'
<1>1. ASSUME NEW c \in Callers, NEW n \in Names, Share(c, n) PROVE IndInv'
  BY <1>1, QuietInd DEF Share
<1>2. ASSUME NEW c \in Callers, NEW n \in Names, Start(c, n) PROVE IndInv'
  BY <1>2, StartInd
<1>3. CASE Forge
  BY <1>3, ForgeInd
<1>4. CASE Settle
  BY <1>4, SettleInd
<1>5. CASE Grant
  BY <1>5, GrantInd
<1>6. CASE Turn
  BY <1>6, QuietInd DEF Turn
<1>7. CASE UNCHANGED vars
  BY <1>7, QuietInd DEF vars
<1> QED
  BY <1>1, <1>2, <1>3, <1>4, <1>5, <1>6, <1>7 DEF Next

\* leafForgeQueue's running counter is the number of slots held, never above the
\* limit, and a job waits only while every slot is taken.
THEOREM SlotsAreAccounted == Spec => []SlotsAccounted
<1>1. IndInv => SlotsAccounted
  BY DEF IndInv
<1> QED
  BY <1>1, InitInd, NextInd, PTL DEF Spec

\* Calls that race for one name share one forge, and the dedupe map holds exactly
\* the jobs that have not settled.
THEOREM OneForgeAtATime == Spec => []OneForgePerName
<1>1. IndInv => OneForgePerName
  BY DEF IndInv
<1> QED
  BY <1>1, InitInd, NextInd, PTL DEF Spec

-----------------------------------------------------------------------------
(* The loop is yielded between forges that waited. *)

WaitedReady == {j \in InStage("ready") : jobs[j].waited}

\* A job that is ready has its microtask; at most one of them waited for its slot, the one
\* that the current callback granted. The forges that are done, the one that is ready and
\* those left to the check phase were granted before the loop last polled, each with a slot.
YieldInv ==
    /\ turnForges \in Nat
    /\ \A j \in InStage("ready") : \E i \in 1..Len(micro) : micro[i] = j
    /\ \A j, k \in WaitedReady : j = k
    /\ turnForges + due <= Limit
    /\ WaitedReady # {} => turnForges + due + 1 <= Limit

LEMMA StartYields ==
    ASSUME IndInv, YieldInv, NEW c \in Callers, NEW n \in Names, Start(c, n)
    PROVE  YieldInv'
<1> DEFINE j == Len(jobs) + 1
           s == IF running < Limit THEN "ready" ELSE "waiting"
<1>1. /\ Types /\ jobs' = Append(jobs, Job(n, s)) /\ s \in {"ready", "waiting"} /\ s \in Stages
      /\ turnForges' = turnForges /\ due' = due /\ micro \in Seq(Jobs)
      /\ micro' = (IF s = "ready" THEN Append(micro, j) ELSE micro)
  BY DEF Start, Acquire, IndInv, Stages, Types
<1>2. /\ j \notin Jobs /\ Jobs' = Jobs \cup {j} /\ jobs'[j].stage = s
      /\ jobs'[j].waited = (s = "waiting") /\ \A k \in Jobs : jobs'[k] = jobs[k]
  BY <1>1, AppendJob
<1> HIDE DEF j, s
<1>3. InStage("ready")' = (IF s = "ready" THEN InStage("ready") \cup {j} ELSE InStage("ready"))
  BY <1>1, <1>2 DEF InStage
<1>4. WaitedReady' = WaitedReady
  BY <1>1, <1>2, <1>3 DEF WaitedReady, InStage
<1>5. /\ \A i \in 1..Len(micro) : i \in 1..Len(micro') /\ micro'[i] = micro[i]
      /\ s = "ready" => Len(micro') \in 1..Len(micro') /\ micro'[Len(micro')] = j
  BY <1>1
<1>6. \A k \in InStage("ready")' : \E i \in 1..Len(micro') : micro'[i] = k
  BY <1>3, <1>5 DEF YieldInv
<1> QED
  BY <1>1, <1>4, <1>6 DEF YieldInv

\* The job at the head of the microtasks is done with being ready, and the others stay
\* queued behind it.
LEMMA HeadMoves ==
    ASSUME IndInv, YieldInv, micro # <<>>, Head(micro) \notin InStage("ready")',
           InStage("ready")' \subseteq InStage("ready"),
           micro' \in {Tail(micro), Append(Tail(micro), Head(micro))}
    PROVE  \A j \in InStage("ready")' : \E i \in 1..Len(micro') : micro'[i] = j
<1>1. /\ micro \in Seq(Jobs) /\ Len(micro) \in Nat /\ Head(micro) = micro[1]
      /\ Tail(micro) \in Seq(Jobs) /\ Head(micro) \in Jobs
      /\ \A i \in 2..Len(micro) : i - 1 \in 1..Len(Tail(micro)) /\ Tail(micro)[i - 1] = micro[i]
  BY HeadTail DEF IndInv, Types
<1>2. \A i \in 1..Len(Tail(micro)) : i \in 1..Len(micro') /\ micro'[i] = Tail(micro)[i]
  BY <1>1
<1> SUFFICES ASSUME NEW j \in InStage("ready")' PROVE \E i \in 1..Len(micro') : micro'[i] = j
  OBVIOUS
<1>3. PICK i \in 1..Len(micro) : micro[i] = j
  BY DEF YieldInv
<1>4. i \in 2..Len(micro)
  BY <1>1, <1>3
<1> QED
  BY <1>1, <1>2, <1>3, <1>4

LEMMA ForgeYields ==
    ASSUME IndInv, YieldInv, Forge
    PROVE  YieldInv'
<1> DEFINE a == Head(micro)
           b == Head(pending)
<1>1. PICK stage \in {"forged", "failed"} : Release(stage)
  BY DEF Forge
<1>2. /\ Types /\ micro # <<>> /\ a \in Jobs /\ jobs[a].stage = "ready"
      /\ stage \in Stages /\ "granted" \in Stages /\ stage \notin {"ready", "granted"}
      /\ micro' = Append(Tail(micro), a)
      /\ turnForges' = IF jobs[a].waited THEN turnForges + 1 ELSE turnForges
      /\ due' = due /\ due \in Nat /\ Limit \in Nat
  BY <1>1, HeadsPlaced, LimitAssumption DEF DueQueued, Forge, Release, IndInv, Stages
<1>3. /\ a \notin InStage("ready")' /\ InStage("ready")' \subseteq InStage("ready")
      /\ WaitedReady' = WaitedReady \ {a}
  <2>1. CASE pending = <<>>
    <3>1. jobs' = [jobs EXCEPT ![a].stage = stage]
      BY <1>1, <2>1 DEF Release
    <3> HIDE DEF a
    <3>2. /\ Jobs' = Jobs /\ jobs'[a].stage = stage
          /\ \A k \in Jobs \ {a} : jobs'[k] = jobs[k]
      BY <1>2, <3>1, MoveJob
    <3> QED
      BY <1>2, <3>2 DEF InStage, WaitedReady
  <2>2. CASE pending # <<>>
    <3>1. /\ jobs' = [jobs EXCEPT ![a].stage = stage, ![b].stage = "granted"]
          /\ b \in Jobs /\ jobs[b].stage = "waiting"
      BY <1>1, <2>2, HeadsPlaced DEF Release, InStage
    <3> HIDE DEF a, b
    <3>2. a # b
      BY <1>2, <3>1
    <3>3. /\ Jobs' = Jobs
          /\ jobs'[a].stage = stage /\ jobs'[a].name = jobs[a].name
          /\ jobs'[b].stage = "granted" /\ jobs'[b].name = jobs[b].name
          /\ \A k \in Jobs \ {a, b} : jobs'[k] = jobs[k]
          /\ jobs' \in Seq(JobRecords)
      <4>1. /\ Types /\ a \in Jobs /\ b \in Jobs /\ a # b
            /\ stage \in Stages /\ "granted" \in Stages
        BY <1>2, <3>1, <3>2
      <4>2. jobs' = [jobs EXCEPT ![a].stage = stage, ![b].stage = "granted"]
        BY <3>1
      <4> QED
        BY ONLY <4>1, <4>2, MoveTwoJobs
    <3>4. InStage("ready")' = InStage("ready") \ {a}
      BY <1>2, <3>1, <3>3 DEF InStage
    <3>5. \A k \in InStage("ready")' : jobs'[k] = jobs[k]
      BY <1>2, <3>1, <3>3, <3>4 DEF InStage
    <3> QED
      BY <3>4, <3>5 DEF WaitedReady
  <2> QED
    BY <2>1, <2>2
<1>4. \A j \in InStage("ready")' : \E i \in 1..Len(micro') : micro'[i] = j
  BY <1>2, <1>3, HeadMoves
<1>5. jobs[a].waited => a \in WaitedReady
  BY <1>2 DEF WaitedReady, InStage
<1> HIDE DEF a, b
<1>6. /\ turnForges' \in Nat /\ turnForges' + due' <= Limit
      /\ WaitedReady' # {} => turnForges' + due' + 1 <= Limit
  <2>1. CASE jobs[a].waited
    <3>1. WaitedReady' = {}
      BY <1>3, <1>5, <2>1 DEF YieldInv
    <3> QED
      BY <1>2, <1>5, <2>1, <3>1 DEF YieldInv
  <2>2. CASE ~jobs[a].waited
    BY <1>2, <1>3, <2>2 DEF YieldInv
  <2> QED
    BY <2>1, <2>2
<1> QED
  BY <1>3, <1>4, <1>6 DEF YieldInv

LEMMA SettleYields ==
    ASSUME IndInv, YieldInv, Settle
    PROVE  YieldInv'
<1> DEFINE a == Head(micro)
<1>1. /\ Types /\ micro # <<>> /\ a \in Jobs /\ jobs[a].stage \in {"forged", "failed"}
      /\ "settled" \in Stages /\ micro' = Tail(micro)
      /\ turnForges' = turnForges /\ due' = due
      /\ jobs' = [jobs EXCEPT ![a].stage = "settled"]
  BY HeadsPlaced DEF Settle, IndInv, Stages
<1> HIDE DEF a
<1>2. /\ Jobs' = Jobs /\ jobs'[a].stage = "settled" /\ \A k \in Jobs \ {a} : jobs'[k] = jobs[k]
  BY <1>1, MoveJob
<1>3. InStage("ready")' = InStage("ready") /\ WaitedReady' = WaitedReady /\ a \notin InStage("ready")
  BY <1>1, <1>2 DEF InStage, WaitedReady
<1>4. \A j \in InStage("ready")' : \E i \in 1..Len(micro') : micro'[i] = j
  BY <1>1, <1>3, HeadMoves DEF a
<1> QED
  BY <1>1, <1>3, <1>4 DEF YieldInv

LEMMA GrantYields ==
    ASSUME IndInv, YieldInv, Grant
    PROVE  YieldInv'
<1> DEFINE a == Head(immediates)
<1>1. /\ Types /\ a \in Jobs /\ jobs[a].stage = "granted" /\ "ready" \in Stages
      /\ micro = <<>> /\ micro' = <<a>> /\ turnForges' = turnForges
      /\ due \in Nat /\ due' = due - 1 /\ Limit \in Nat
      /\ jobs' = [jobs EXCEPT ![a].stage = "ready"]
  BY HeadsPlaced, GrantDue, LimitAssumption DEF Grant, IndInv, DueQueued, InStage, Stages
<1> HIDE DEF a
<1>2. /\ Jobs' = Jobs /\ jobs'[a].stage = "ready" /\ \A k \in Jobs \ {a} : jobs'[k] = jobs[k]
  BY <1>1, MoveJob
<1>3. InStage("ready") = {}
  <2>1. Len(micro) = 0
    BY <1>1
  <2> QED
    BY <2>1 DEF YieldInv
<1>4. InStage("ready")' = {a}
  BY <1>1, <1>2, <1>3 DEF InStage
<1>5. 1 \in 1..Len(micro') /\ micro'[1] = a
  BY <1>1
<1> QED
  BY <1>1, <1>4, <1>5 DEF YieldInv, WaitedReady

LEMMA QuietYields ==
    ASSUME YieldInv, UNCHANGED <<jobs, micro, due, turnForges>>
    PROVE  YieldInv'
BY DEF YieldInv, WaitedReady, InStage, Jobs

\* Every immediate is a job that holds a slot, and none is queued twice.
LEMMA ImmediatesHoldSlots ==
    ASSUME IndInv
    PROVE  Len(immediates) \in Nat /\ Len(immediates) <= Limit
<1> DEFINE places == 1..Len(immediates)
           holder == [i \in places |-> immediates[i]]
<1>1. /\ Len(immediates) \in Nat /\ Limit \in Nat
      /\ IsFiniteSet(Holders) /\ Cardinality(Holders) <= Limit
  BY JobsAreIndices, LimitAssumption DEF IndInv, Types, SlotsAccounted
<1>2. \A i \in places : immediates[i] \in Holders
  BY DEF IndInv, Types, Queued, Holders, InStage
<1>3. holder \in Injection(places, Holders)
  BY <1>2 DEF IndInv, Queued, Injection, IsInjective
<1>4. Cardinality(places) <= Cardinality(Holders)
  BY <1>1, <1>3, FS_Injection
<1>5. \A k \in Nat : Cardinality(1..k) = k
  BY FS_Interval
<1> QED
  BY <1>1, <1>4, <1>5, FS_CardinalityType

\* At the poll nothing is ready, and the next check phase is for what has a slot.
LEMMA TurnYields ==
    ASSUME IndInv, YieldInv, Turn
    PROVE  YieldInv'
<1>1. /\ micro = <<>> /\ turnForges' = 0 /\ due' = Len(immediates)
      /\ jobs' = jobs /\ micro' = micro
  BY DEF Turn
<1>2. InStage("ready") = {}
  <2>1. Len(micro) = 0
    BY <1>1
  <2> QED
    BY <2>1 DEF YieldInv
<1>3. InStage("ready")' = {} /\ WaitedReady' = {}
  BY <1>1, <1>2 DEF WaitedReady, InStage, Jobs
<1> QED
  BY <1>1, <1>3, ImmediatesHoldSlots DEF YieldInv

\* leafForgeQueue's setImmediate grant: however long the burst that is queued, the loop polls
\* after at most `limit` forges of jobs that waited, so between any two at the default of 1.
THEOREM BurstsYield == Spec => []ForgesYield
<1>1. Init => YieldInv
  BY LimitAssumption DEF Init, YieldInv, WaitedReady, InStage, Jobs
<1>2. IndInv /\ YieldInv /\ [Next]_vars => YieldInv'
  <2> SUFFICES ASSUME IndInv, YieldInv, [Next]_vars PROVE YieldInv'
    OBVIOUS
  <2>1. ASSUME NEW c \in Callers, NEW n \in Names, Share(c, n) PROVE YieldInv'
    BY <2>1, QuietYields DEF Share
  <2>2. ASSUME NEW c \in Callers, NEW n \in Names, Start(c, n) PROVE YieldInv'
    BY <2>2, StartYields
  <2>3. CASE Forge
    BY <2>3, ForgeYields
  <2>4. CASE Settle
    BY <2>4, SettleYields
  <2>5. CASE Grant
    BY <2>5, GrantYields
  <2>6. CASE Turn
    BY <2>6, TurnYields
  <2>7. CASE UNCHANGED vars
    BY <2>7, QuietYields DEF vars
  <2> QED
    BY <2>1, <2>2, <2>3, <2>4, <2>5, <2>6, <2>7 DEF Next
<1>3. IndInv /\ YieldInv => ForgesYield
  BY LimitAssumption DEF IndInv, DueQueued, YieldInv, ForgesYield
<1> QED
  BY <1>1, <1>2, <1>3, InitInd, NextInd, PTL DEF Spec

-----------------------------------------------------------------------------
(* The queue implements ForgePool.                                          *)

\* Jobs wait in the order they came in.
Ordered == \A i, k \in 1..Len(pending) : i < k => pending[i] < pending[k]

RefInv == IndInv /\ Ordered

\* The pool's requests, as the jobs stand for them.
Request(j) == [name |-> j.name, stage |-> Served(j.stage)]
Requests == [j \in DOMAIN jobs |-> Request(jobs[j])]

\* A request's stage tells which stages its job can be in.
LEMMA ServedStages ==
    \A s \in Stages :
        /\ Served(s) = "queued" <=> s = "waiting"
        /\ Served(s) = "served" <=> s \in {"granted", "ready"}
        /\ Served(s) = "ended" <=> s \in {"forged", "failed"}
        /\ Served(s) = "answered" <=> s = "settled"
BY DEF Served, Stages

\* What the pool's sets are, in terms of the jobs.
LEMMA MappedSets ==
    ASSUME Types
    PROVE  /\ Pool!InStage("queued") = InStage("waiting")
           /\ Pool!InStage("served") = Holders
           /\ Pool!InStage("ended") = InStage("forged") \cup InStage("failed")
           /\ \A n \in Names : Pool!Open(n) = {j \in Live : jobs[j].name = n}
<1>1. \A j \in Jobs : jobs[j].stage \in Stages
  BY JobsAreIndices DEF JobRecords
<1>2. \A j \in Jobs : /\ Requests[j].stage = Served(jobs[j].stage)
                      /\ Requests[j].name = jobs[j].name
  BY DEF Requests, Request, Jobs
<1>3. DOMAIN Requests = Jobs
  BY DEF Requests, Jobs
<1>4. \A s : Pool!InStage(s) = {r \in Jobs : Requests[r].stage = s}
  BY <1>3 DEF Pool!InStage, Requests, Request
<1>5. \A n : Pool!Open(n) = {r \in Jobs : Requests[r].name = n /\ Requests[r].stage # "answered"}
  BY <1>3 DEF Pool!Open, Requests, Request
<1>6. Pool!InStage("queued") = InStage("waiting")
  BY <1>1, <1>2, <1>4, ServedStages DEF InStage
<1>7. Pool!InStage("served") = Holders
  BY <1>1, <1>2, <1>4, ServedStages DEF InStage, Holders
<1>8. Pool!InStage("ended") = InStage("forged") \cup InStage("failed")
  BY <1>1, <1>2, <1>4, ServedStages DEF InStage
<1>9. \A n \in Names : Pool!Open(n) = {j \in Live : jobs[j].name = n}
  BY <1>1, <1>2, <1>5, ServedStages DEF Live
<1> QED
  BY <1>6, <1>7, <1>8, <1>9

LEMMA OrderedInit == Init => Ordered
BY DEF Init, Ordered

LEMMA OrderedNext ==
    ASSUME RefInv, [Next]_vars
    PROVE  Ordered'
<1>1. Types /\ Len(pending) \in Nat /\ \A i \in 1..Len(pending) : pending[i] \in 1..Len(jobs)
  BY JobsAreIndices DEF RefInv, IndInv, Types
<1>2. CASE pending' = pending
  BY <1>2 DEF RefInv, Ordered
<1>3. CASE pending' = Append(pending, Len(jobs) + 1)
  <2>1. /\ Len(pending') = Len(pending) + 1 /\ pending'[Len(pending) + 1] = Len(jobs) + 1
        /\ \A i \in 1..Len(pending) : pending'[i] = pending[i]
    BY <1>1, <1>3 DEF Types
  <2>2. Len(jobs) \in Nat
    BY <1>1, JobsAreIndices
  <2>3. \A i, k \in 1..Len(pending) : i < k => pending[i] < pending[k]
    BY DEF RefInv, Ordered
  <2>4. ASSUME NEW i \in 1..(Len(pending) + 1), NEW k \in 1..(Len(pending) + 1), i < k
        PROVE  pending'[i] < pending'[k]
    <3>1. i \in 1..Len(pending) /\ pending[i] \in 1..Len(jobs)
      BY <1>1, <2>4
    <3>2. CASE k = Len(pending) + 1
      BY <2>1, <2>2, <3>1, <3>2
    <3>3. CASE k \in 1..Len(pending)
      BY <2>1, <2>3, <2>4, <3>1, <3>3
    <3> QED
      BY <1>1, <3>2, <3>3
  <2> QED
    BY <2>1, <2>4 DEF Ordered
<1>4. CASE pending # <<>> /\ pending' = Tail(pending)
  BY <1>1, <1>4, HeadTail DEF RefInv, Ordered, Types
<1>5. pending' = pending \/ pending' = Append(pending, Len(jobs) + 1)
        \/ (pending # <<>> /\ pending' = Tail(pending))
  BY DEF Next, vars, Share, Start, Acquire, Forge, Release, Settle, Grant, Turn
<1> QED
  BY <1>2, <1>3, <1>4, <1>5

\* The head of `pending` is the oldest job that waits.
LEMMA HeadIsOldest ==
    ASSUME RefInv, pending # <<>>
    PROVE  Head(pending) \in InStage("waiting")
           /\ \A j \in InStage("waiting") : Head(pending) <= j
<1>1. Types /\ Len(pending) \in Nat /\ \A i \in 1..Len(pending) : pending[i] \in Nat
  BY JobsAreIndices DEF RefInv, IndInv, Types
<1>2. Head(pending) = pending[1] /\ Len(pending) >= 1
  BY <1>1, HeadTail DEF Types
<1>3. \A i \in 1..Len(pending) : pending[1] <= pending[i]
  BY <1>1, <1>2 DEF RefInv, Ordered
<1>4. \A j \in InStage("waiting") : Head(pending) <= j
  BY <1>2, <1>3 DEF RefInv, IndInv, NoneForgotten
<1> QED
  BY <1>4, HeadsPlaced DEF RefInv

\* One job that moves is one request that moves, if its callers can tell.
LEMMA MoveRequest ==
    ASSUME Types, NEW j \in Jobs, NEW s \in Stages,
           jobs' = [jobs EXCEPT ![j].stage = s]
    PROVE  Requests' = [Requests EXCEPT ![j].stage = Served(s)]
<1>1. Jobs' = Jobs /\ jobs'[j].stage = s /\ jobs'[j].name = jobs[j].name
  BY MoveJob
<1>2. \A k \in Jobs \ {j} : jobs'[k] = jobs[k]
  BY MoveJob
<1>3. Requests' = [k \in Jobs |-> Request(jobs'[k])]
  BY <1>1 DEF Requests, Jobs, Request, Served
<1>4. Requests = [k \in Jobs |-> Request(jobs[k])]
  BY DEF Requests, Jobs
<1>5. Request(jobs'[j]) = [Request(jobs[j]) EXCEPT !.stage = Served(s)]
  BY <1>1 DEF Request
<1> QED
  BY <1>2, <1>3, <1>4, <1>5

\* Of a list, the members at a and b change their stages.
Restaged(new, old, a, s, b, t) == new = [old EXCEPT ![a].stage = s, ![b].stage = t]

LEMMA MoveTwoRequests ==
    ASSUME Types, NEW a \in Jobs, NEW b \in Jobs, a # b, NEW s \in Stages, NEW t \in Stages,
           Restaged(jobs', jobs, a, s, b, t)
    PROVE  Restaged(Requests', Requests, a, Served(s), b, Served(t))
<1>0. jobs' = [jobs EXCEPT ![a].stage = s, ![b].stage = t]
  BY DEF Restaged
<1>1. /\ Jobs' = Jobs
      /\ jobs'[a].stage = s /\ jobs'[a].name = jobs[a].name
      /\ jobs'[b].stage = t /\ jobs'[b].name = jobs[b].name
      /\ \A k \in Jobs \ {a, b} : jobs'[k] = jobs[k]
      /\ jobs' \in Seq(JobRecords)
  BY <1>0, MoveTwoJobs
<1>3. Requests' = [k \in Jobs |-> Request(jobs'[k])]
  BY <1>1 DEF Requests, Jobs, Request, Served
<1>4. Requests = [k \in Jobs |-> Request(jobs[k])]
  BY DEF Requests, Jobs
<1> DEFINE xa == [Request(jobs[a]) EXCEPT !.stage = Served(s)]
           xb == [Request(jobs[b]) EXCEPT !.stage = Served(t)]
<1>5. Request(jobs'[a]) = xa
  <2>1. jobs'[a].stage = s /\ jobs'[a].name = jobs[a].name
    BY <1>1
  <2> QED
    BY <2>1 DEF Request
<1>6. Request(jobs'[b]) = xb
  <2>1. jobs'[b].stage = t /\ jobs'[b].name = jobs[b].name
    BY <1>1
  <2> QED
    BY <2>1 DEF Request
<1>7. Requests[a] = Request(jobs[a]) /\ Requests[b] = Request(jobs[b])
  BY <1>4
<1>8. [Requests EXCEPT ![a].stage = Served(s), ![b].stage = Served(t)]
        = [[Requests EXCEPT ![a] = xa] EXCEPT ![b] = xb]
  BY <1>4, <1>7
<1> HIDE DEF xa, xb
<1>9. [[Requests EXCEPT ![a] = xa] EXCEPT ![b] = xb]
        = [k \in Jobs |-> IF k = b THEN xb ELSE IF k = a THEN xa ELSE Request(jobs[k])]
  BY <1>4
<1>10. \A k \in Jobs : Request(jobs'[k]) =
          IF k = b THEN xb ELSE IF k = a THEN xa ELSE Request(jobs[k])
  <2>1. \A k \in Jobs \ {a, b} : jobs'[k] = jobs[k]
    BY <1>1
  <2> TAKE k \in Jobs
  <2>2. CASE k = b
    BY <1>6, <2>2
  <2>3. CASE k = a
    BY <1>5, <2>3
  <2>4. CASE k # a /\ k # b
    <3>1. jobs'[k] = jobs[k]
      BY <2>1, <2>4
    <3> QED
      BY <2>4, <3>1
  <2> QED
    BY <2>2, <2>3, <2>4
<1> QED
  BY <1>3, <1>8, <1>9, <1>10 DEF Restaged

LEMMA AppendRequest ==
    ASSUME Types, NEW n \in Names, NEW s \in Stages, jobs' = Append(jobs, Job(n, s))
    PROVE  Requests' = Append(Requests, [name |-> n, stage |-> Served(s)])
           /\ Len(Requests) = Len(jobs)
<1>1. Len(jobs) \in Nat /\ Jobs = 1..Len(jobs)
  BY JobsAreIndices
<1>2. /\ Jobs' = Jobs \cup {Len(jobs) + 1}
      /\ jobs'[Len(jobs) + 1].stage = s /\ jobs'[Len(jobs) + 1].name = n
      /\ \A k \in Jobs : jobs'[k] = jobs[k]
  BY AppendJob
<1>3. Requests' = [k \in Jobs' |-> Request(jobs'[k])]
  BY DEF Requests, Jobs, Request, Served
<1>4. Requests = [k \in 1..Len(jobs) |-> Request(jobs[k])]
  BY <1>1 DEF Requests, Jobs
<1>5. Len(Requests) = Len(jobs)
  BY <1>1, <1>4
<1>6. Request(jobs'[Len(jobs) + 1]) = [name |-> n, stage |-> Served(s)]
  BY <1>2 DEF Request
<1>7. Append(Requests, [name |-> n, stage |-> Served(s)]) =
        [k \in 1..(Len(jobs) + 1) |->
            IF k = Len(jobs) + 1 THEN [name |-> n, stage |-> Served(s)] ELSE Request(jobs[k])]
  BY <1>1, <1>4, <1>5
<1>8. Jobs' = 1..(Len(jobs) + 1)
  BY <1>1, <1>2
<1>9. \A k \in 1..(Len(jobs) + 1) :
         k = Len(jobs) + 1 \/ (k # Len(jobs) + 1 /\ jobs'[k] = jobs[k])
  BY <1>1, <1>2
<1>10. Requests' = [k \in 1..(Len(jobs) + 1) |->
            IF k = Len(jobs) + 1 THEN [name |-> n, stage |-> Served(s)] ELSE Request(jobs[k])]
  BY <1>3, <1>6, <1>8, <1>9
<1> QED
  BY <1>5, <1>7, <1>10

-----------------------------------------------------------------------------

\* The pool's steps, in terms of Requests.
LEMMA PoolSteps ==
    ASSUME NEW r, NEW c, NEW n
    PROVE  /\ Pool!Request(c, n) <=>
              /\ asked[c] = 0 /\ Pool!Open(n) = {}
              /\ \/ /\ Cardinality(Pool!InStage("served")) < Limit
                    /\ Requests' = Append(Requests, [name |-> n, stage |-> "served"])
                 \/ /\ Cardinality(Pool!InStage("served")) >= Limit
                    /\ Requests' = Append(Requests, [name |-> n, stage |-> "queued"])
              /\ asked' = [asked EXCEPT ![c] = Len(Requests) + 1]
           /\ Pool!End(r) <=>
              /\ r \in Pool!InStage("served")
              /\ \/ /\ Pool!InStage("queued") = {}
                    /\ Requests' = [Requests EXCEPT ![r].stage = "ended"]
                 \/ \E q \in Pool!InStage("queued") :
                       /\ Pool!Oldest(q)
                       /\ Requests' = [Requests EXCEPT ![r].stage = "ended", ![q].stage = "served"]
              /\ UNCHANGED asked
           /\ Pool!Answer(r) <=>
              /\ r \in Pool!InStage("ended")
              /\ Requests' = [Requests EXCEPT ![r].stage = "answered"]
              /\ UNCHANGED asked
           /\ (UNCHANGED Pool!vars) <=> Requests' = Requests /\ UNCHANGED asked
<1>1. Requests = [j \in DOMAIN jobs |-> [name |-> jobs[j].name, stage |-> Served(jobs[j].stage)]]
  BY DEF Requests, Request
<1>2. Requests' = [j \in DOMAIN jobs' |-> [name |-> jobs'[j].name, stage |-> Served(jobs'[j].stage)]]
  BY DEF Requests, Request, Served
<1>3. \A S : Pool!Cardinality(S) = Cardinality(S)
  BY DEF Pool!Cardinality, Cardinality
<1> QED
  BY <1>1, <1>2, <1>3 DEF Pool!Request, Pool!End, Pool!Answer, Pool!vars

LEMMA ShareJoins ==
    ASSUME RefInv, NEW c \in Callers, NEW n \in Names, Share(c, n)
    PROVE  Pool!Join(c, n)
<1>1. inflight[n] \in Pool!Open(n)
  BY MappedSets DEF Share, RefInv, IndInv, OneForgePerName
<1> QED
  BY <1>1 DEF Share, Pool!Join, None

LEMMA StartRequests ==
    ASSUME RefInv, NEW c \in Callers, NEW n \in Names, Start(c, n)
    PROVE  Pool!Request(c, n)
<1>1. Types /\ Cardinality(Pool!InStage("served")) = running /\ running \in Nat
  BY MappedSets DEF RefInv, IndInv, Types, SlotsAccounted
<1>2. Pool!Open(n) = {}
  BY <1>1, MappedSets DEF Start, RefInv, IndInv, OneForgePerName
<1>3. CASE running < Limit
  <2>1. jobs' = Append(jobs, Job(n, "ready"))
    BY <1>3 DEF Start, Acquire
  <2>2. Requests' = Append(Requests, [name |-> n, stage |-> "served"]) /\ Len(Requests) = Len(jobs)
    BY <1>1, <2>1, AppendRequest, ServedStages DEF Stages
  <2> QED
    BY <1>1, <1>2, <1>3, <2>2, PoolSteps DEF Start, None
<1>4. CASE ~(running < Limit)
  <2>1. jobs' = Append(jobs, Job(n, "waiting"))
    BY <1>4 DEF Start, Acquire
  <2>2. Requests' = Append(Requests, [name |-> n, stage |-> "queued"]) /\ Len(Requests) = Len(jobs)
    BY <1>1, <2>1, AppendRequest, ServedStages DEF Stages
  <2>3. running >= Limit
    BY <1>1, <1>4, LimitAssumption
  <2> QED
    BY <1>1, <1>2, <2>2, <2>3, PoolSteps DEF Start, None
<1> QED
  BY <1>3, <1>4

LEMMA SettleAnswers ==
    ASSUME RefInv, Settle
    PROVE  \E r \in Jobs : Pool!Answer(r)
<1>1. Types /\ Head(micro) \in Jobs
  BY HeadsPlaced DEF RefInv, IndInv, Settle
<1>2. PICK r \in Jobs : r = Head(micro)
  BY <1>1
<1>3. r \in Pool!InStage("ended")
  BY <1>1, <1>2, MappedSets DEF Settle, InStage
<1>4. Requests' = [Requests EXCEPT ![r].stage = "answered"]
  BY <1>1, <1>2, MoveRequest, ServedStages DEF Settle, Stages
<1>5. Pool!Answer(r)
  BY <1>3, <1>4, PoolSteps DEF Settle
<1> QED
  BY <1>5

LEMMA GrantStutters ==
    ASSUME RefInv, Grant
    PROVE  UNCHANGED Pool!vars
<1>1. Types /\ Head(immediates) \in Jobs /\ jobs[Head(immediates)].stage = "granted"
  BY HeadsPlaced, GrantDue DEF RefInv, IndInv, Grant, InStage
<1>2. Requests' = [Requests EXCEPT ![Head(immediates)].stage = "served"]
  BY <1>1, MoveRequest, ServedStages DEF Grant, Stages
<1>3. Requests[Head(immediates)].stage = "served"
  BY <1>1, ServedStages DEF Requests, Request, Jobs, Stages
<1>4. Requests' = Requests
  BY <1>2, <1>3 DEF Requests, Request
<1> QED
  BY <1>4, PoolSteps DEF Grant

LEMMA ForgeEnds ==
    ASSUME RefInv, Forge
    PROVE  \E r \in Jobs : Pool!End(r)
<1>1. Types /\ Head(micro) \in Jobs /\ jobs[Head(micro)].stage = "ready"
  BY HeadsPlaced DEF RefInv, IndInv, Forge
<1>2. PICK s \in {"forged", "failed"} : Release(s)
  BY DEF Forge
<1>3. PICK r \in Jobs : r = Head(micro)
  BY <1>1
<1>4. r \in Pool!InStage("served") /\ Served(s) = "ended" /\ s \in Stages
  BY <1>1, <1>3, MappedSets, ServedStages DEF InStage, Holders, Stages
<1>5. CASE pending = <<>>
  <2>1. Requests' = [Requests EXCEPT ![r].stage = "ended"]
    BY <1>1, <1>2, <1>3, <1>4, <1>5, MoveRequest DEF Release
  <2>2. Pool!InStage("queued") = {}
    BY <1>1, <1>5, MappedSets DEF RefInv, IndInv, NoneForgotten
  <2>3. Pool!End(r)
    BY <1>4, <2>1, <2>2, PoolSteps DEF Forge
  <2> QED
    BY <2>3
<1>6. CASE pending # <<>>
  <2>1. PICK q \in Jobs : q = Head(pending)
    BY <1>6, HeadsPlaced DEF RefInv, InStage
  <2>2. q \in InStage("waiting") /\ Pool!Oldest(q) /\ q \in Pool!InStage("queued")
    BY <1>1, <1>6, <2>1, HeadIsOldest, MappedSets DEF Pool!Oldest
  <2>3. r # q
    BY <1>1, <1>3, <2>2 DEF InStage
  <2>4. PICK t \in Stages : t = "granted"
    BY DEF Stages
  <2>5. Restaged(jobs', jobs, r, s, q, t)
    BY <1>2, <1>3, <1>6, <2>1, <2>4 DEF Release, Restaged
  <2>6. Restaged(Requests', Requests, r, Served(s), q, Served(t))
    <3>1. Types /\ s \in Stages
      BY <1>1, <1>4
    <3> QED
      BY <2>3, <2>5, <3>1, MoveTwoRequests
  <2>7. Served(s) = "ended" /\ Served(t) = "served"
    BY <1>4, <2>4, ServedStages
  <2>8. Requests' = [Requests EXCEPT ![r].stage = "ended", ![q].stage = "served"]
    BY <2>6, <2>7 DEF Restaged
  <2>9. Pool!End(r)
    BY <1>4, <2>2, <2>8, PoolSteps DEF Forge
  <2> QED
    BY <2>9
<1> QED
  BY <1>5, <1>6

LEMMA StepsImplement ==
    ASSUME RefInv, [Next]_vars
    PROVE  [Pool!Next]_(Pool!vars)
<1>0. DOMAIN Requests = Jobs
  BY DEF Requests, Jobs
<1>1. ASSUME NEW c \in Callers, NEW n \in Names, Share(c, n) PROVE Pool!Next
  BY <1>1, ShareJoins DEF Pool!Next
<1>2. ASSUME NEW c \in Callers, NEW n \in Names, Start(c, n) PROVE Pool!Next
  BY <1>2, StartRequests DEF Pool!Next
<1>3. CASE Forge
  BY <1>0, <1>3, ForgeEnds DEF Pool!Next, Jobs
<1>4. CASE Settle
  BY <1>0, <1>4, SettleAnswers DEF Pool!Next, Jobs
<1>5. CASE Grant
  BY <1>5, GrantStutters
<1>6. CASE Turn
  BY <1>6, PoolSteps DEF Turn, Requests, Request, Served
<1>7. CASE UNCHANGED vars
  BY <1>7, PoolSteps DEF vars, Requests, Request, Served
<1> QED
  BY <1>1, <1>2, <1>3, <1>4, <1>5, <1>6, <1>7 DEF Next

\* What the pool promises is what the queue does: a call joins the open request of its name
\* or makes one, at most `limit` are served, and a slot passes to the oldest that waits.
THEOREM QueueImplementsPool == Spec => Pool!Spec
<1>1. Init => Pool!Init
  BY DEF Init, Pool!Init, None
<1>2. Init => RefInv
  BY InitInd, OrderedInit DEF RefInv
<1>3. RefInv /\ [Next]_vars => RefInv'
  BY NextInd, OrderedNext DEF RefInv
<1>4. RefInv /\ [Next]_vars => [Pool!Next]_(Pool!vars)
  BY StepsImplement
<1> QED
  BY <1>1, <1>2, <1>3, <1>4, PTL DEF Spec, Pool!Spec

=============================================================================
