--------------------------- MODULE SearchJobsProofs ---------------------------
(* Proofs about SearchJobs for any set of nodes, any number of ids and any cap. *)
(* ResultsWhole is not inductive by itself.  It rests on the discipline of the *)
(* epochs: no two runs hold the same epoch, none holds a later one than the    *)
(* job's, and the one run that holds the job's own epoch is in step with the   *)
(* rows, because it cleared them first.                                        *)
EXTENDS SearchJobs, FiniteSetTheorems, TLAPS

\* Epochs are handed out by the job: a run never holds one to come.
EpochsGiven == \A n \in Node : \A r \in runs[n] : r.epoch \in 1 .. job.epoch

OneRunPerEpoch ==
    \A m, n \in Node : \A q \in runs[m], r \in runs[n] :
        q.epoch = r.epoch => m = n /\ q = r

\* What the rows are while run r holds the job.
Synced(r) == /\ r.phase = "clear" => r.sent = 0
             /\ r.phase = "save" => Len(rows) = r.sent
             /\ r.phase = "report" => Len(rows) = Hits /\ r.sent = Hits

HolderInStep == \A n \in Node : \A r \in runs[n] : Accepted(r) => Synced(r)

\* Nothing is there before the job is.
NothingYet == job.status = "MISSING" =>
    job.epoch = 0 /\ rows = <<>> /\ \A n \in Node : runs[n] = {}

\* A job that runs has an epoch.
StartsAtOne == job.status = "RUNNING" => job.epoch # 0

IInv == /\ TypeOK
        /\ EpochsGiven
        /\ OneRunPerEpoch
        /\ HolderInStep
        /\ NothingYet
        /\ StartsAtOne
        /\ ResultsWhole

-----------------------------------------------------------------------------

LEMMA StartsTyped == Init => TypeOK
  BY SizesAreNaturals DEF Init, TypeOK, Job, Run, Terminal

LEMMA Starts == Init => IInv
<1>1. Init => EpochsGiven /\ OneRunPerEpoch /\ HolderInStep
  BY DEF Init, EpochsGiven, OneRunPerEpoch, HolderInStep
<1>2. Init => NothingYet /\ StartsAtOne /\ ResultsWhole
  BY DEF Init, NothingYet, StartsAtOne, ResultsWhole
<1> QED BY <1>1, <1>2, StartsTyped DEF IInv

\* A step of one run, whatever the call: the run leaves, stays or moves on.
LEMMA RunMoves ==
  ASSUME TypeOK, NEW n \in Node, NEW r \in runs[n], NEW s \in Run,
         \/ Becomes(n, r, s)
         \/ Leaves(n, r)
         \/ UNCHANGED runs
  PROVE  /\ runs' \in [Node -> SUBSET Run]
         /\ \A m \in Node : \A q \in runs'[m] :
              q \in runs[m] \/ (m = n /\ q = s)
  BY DEF TypeOK, Becomes, Leaves

LEMMA Typed1 ==
  ASSUME TypeOK, NEW n \in Node, NEW r \in runs[n],
         Work(n, r) \/ SaveFails(n, r) \/ Heartbeat(n, r) \/ Release(n, r)
  PROVE  TypeOK'
<1> USE SizesAreNaturals
<1>0. r \in Run
  BY DEF TypeOK
<1>1. CASE ClearResults(n, r)
  <2> DEFINE s == [r EXCEPT !.phase = "save"]
  <2>1. s \in Run
    BY <1>0 DEF Run, Phase
  <2>2. Becomes(n, r, s) \/ UNCHANGED runs
    BY <1>1 DEF ClearResults
  <2> HIDE DEF s
  <2>3. runs' \in [Node -> SUBSET Run]
    BY <2>1, <2>2, RunMoves
  <2> QED BY <1>1, <2>3 DEF ClearResults, TypeOK, Disturb
<1>2. CASE SaveChunk(n, r)
  <2> DEFINE s == [r EXCEPT !.sent = @ + 1]
  <2>1. s \in Run /\ r.sent + 1 \in 1 .. Hits
    BY <1>0, <1>2 DEF Run, Phase, SaveChunk
  <2>2. Becomes(n, r, s)
    BY <1>2 DEF SaveChunk
  <2> HIDE DEF s
  <2>3. runs' \in [Node -> SUBSET Run]
    BY <2>1, <2>2, RunMoves
  <2> QED BY <1>2, <2>1, <2>3 DEF SaveChunk, TypeOK
<1>3. CASE SaveReturns(n, r)
  <2> DEFINE s == [r EXCEPT !.phase = "report"]
  <2>1. s \in Run
    BY <1>0 DEF Run, Phase
  <2>2. Becomes(n, r, s)
    BY <1>3 DEF SaveReturns
  <2> HIDE DEF s
  <2>3. runs' \in [Node -> SUBSET Run]
    BY <2>1, <2>2, RunMoves
  <2> QED BY <1>3, <2>3 DEF SaveReturns, TypeOK
<1>4. CASE SaveFails(n, r)
  <2> DEFINE s == [r EXCEPT !.phase = "failed"]
  <2>1. s \in Run
    BY <1>0 DEF Run, Phase
  <2>2. Becomes(n, r, s)
    BY <1>4 DEF SaveFails
  <2> HIDE DEF s
  <2>3. runs' \in [Node -> SUBSET Run]
    BY <2>1, <2>2, RunMoves
  <2> QED BY <1>4, <2>3 DEF SaveFails, TypeOK, Disturb
<1>5. CASE UpdateJobStatus(n, r)
  <2>1. runs' \in [Node -> SUBSET Run]
    BY <1>0, <1>5, RunMoves DEF UpdateJobStatus
  <2>2. /\ job' \in Job
        /\ job'.status \in Terminal /\ job'.finish \in Instant
    <3>1. PICK t \in Instant :
            job' = [job EXCEPT !.status = IF r.phase = "report" THEN "SUCCESSFUL"
                                                                ELSE "FAILED",
                               !.count = IF r.phase = "report" THEN r.sent ELSE 0,
                               !.finish = t]
      BY <1>5 DEF UpdateJobStatus
    <3>2. job \in Job /\ r.sent \in Nat
      BY <1>0 DEF TypeOK, Run
    <3>3. CASE r.phase = "report"
      BY <3>1, <3>2, <3>3 DEF Job, Terminal
    <3>4. CASE r.phase # "report"
      BY <3>1, <3>2, <3>4 DEF Job, Terminal
    <3> QED BY <3>3, <3>4
  <2>3. rows' = rows /\ alive' = alive /\ handoffs' = handoffs
        /\ (UNCHANGED disturbances \/ Disturb)
    BY <1>5 DEF UpdateJobStatus
  <2> QED BY <2>1, <2>2, <2>3, AbsentIsNoInstant DEF TypeOK, Disturb
<1>6. CASE Refused(n, r)
  BY <1>0, <1>6, RunMoves DEF Refused, TypeOK
<1>7. CASE Heartbeat(n, r)
  BY <1>7 DEF Heartbeat, TypeOK, Job
<1>8. CASE Release(n, r)
  <2>1. runs' \in [Node -> SUBSET Run]
    BY <1>0, <1>8, RunMoves DEF Release
  <2>2. r.epoch \in Nat
    BY <1>0 DEF Run
  <2>3. job' \in Job /\ job'.status = job.status /\ job'.finish = job.finish
    BY <1>8 DEF Release, TypeOK, Job
  <2>4. handoffs' \subseteq Nat
    BY <1>8, <2>2 DEF Release, TypeOK
  <2>5. disturbances' \in 0 .. MaxDisturbances
    BY <1>8 DEF Release, Disturb, TypeOK
  <2> QED BY <1>8, <2>1, <2>3, <2>4, <2>5 DEF Release, TypeOK
<1> QED BY <1>1, <1>2, <1>3, <1>4, <1>5, <1>6, <1>7, <1>8 DEF Work

LEMMA ClaimedRow ==
  ASSUME TypeOK, Claimable
  PROVE  /\ Claimed \in Job /\ Claimed.status = "RUNNING"
         /\ Claimed.epoch = job.epoch + 1 /\ Claimed.finish = job.finish
         /\ Claimed.released = FALSE
         /\ Claimed.staleClaims = IF job.released THEN job.staleClaims
                                                  ELSE job.staleClaims + 1
<1> DEFINE count == IF job.released THEN job.staleClaims ELSE job.staleClaims + 1
           next == job.epoch + 1
           moved == [job EXCEPT !.epoch = next, !.staleClaims = count]
<1>1. job \in Job /\ job.status = "RUNNING"
  BY DEF TypeOK, Claimable
<1>2. count \in Nat /\ next \in Nat
  BY <1>1 DEF Job
<1>3. Claimed = [moved EXCEPT !.released = FALSE, !.fresh = TRUE]
  BY DEF Claimed
<1> HIDE DEF count, next
<1>4. /\ moved \in Job /\ moved.status = "RUNNING"
      /\ moved.epoch = next /\ moved.finish = job.finish
      /\ moved.staleClaims = count
  BY <1>1, <1>2 DEF Job
<1> HIDE DEF moved
<1>5. /\ Claimed \in Job /\ Claimed.status = "RUNNING"
      /\ Claimed.epoch = next /\ Claimed.finish = job.finish
      /\ Claimed.released = FALSE /\ Claimed.staleClaims = count
  BY <1>3, <1>4 DEF Job
<1> QED BY <1>5 DEF count, next

\* The run a claim starts.
NewRun == [epoch |-> Claimed.epoch, sent |-> 0,
           phase |-> IF Claimed.staleClaims > MaxStale THEN "failed" ELSE "clear"]

LEMMA NewRunTyped ==
  ASSUME TypeOK, Claimable
  PROVE  NewRun \in Run /\ NewRun.epoch = job.epoch + 1
         /\ NewRun.phase \in {"clear", "failed"} /\ NewRun.sent = 0
<1>1. Claimed.epoch \in Nat /\ Claimed.epoch = job.epoch + 1
  BY ClaimedRow DEF Job
<1> QED BY <1>1, SizesAreNaturals DEF NewRun, Run, Phase

LEMMA ClaimMoves ==
  ASSUME TypeOK, NEW n \in Node, ClaimStale(n)
  PROVE  /\ runs' \in [Node -> SUBSET Run]
         /\ \A m \in Node : \A q \in runs'[m] :
              q \in runs[m] \/ (m = n /\ q = NewRun)
<1>1. NewRun \in Run
  BY NewRunTyped DEF ClaimStale
<1>2. runs' = [runs EXCEPT ![n] = @ \cup {NewRun}] \/ UNCHANGED runs
  BY DEF ClaimStale, NewRun
<1> QED BY <1>1, <1>2 DEF TypeOK

LEMMA Typed2 == ASSUME TypeOK, [Next]_vars PROVE TypeOK'
<1> USE SizesAreNaturals
<1>1. ASSUME NEW n \in alive, CreateJob(n)
      PROVE  TypeOK'
  <2>1. job' \in Job /\ job'.status = "RUNNING" /\ job'.finish = job.finish
    BY <1>1 DEF CreateJob, TypeOK, Job
  <2>2. job.finish = Absent
    BY <1>1 DEF CreateJob, TypeOK, Terminal
  <2>3. runs' \in [Node -> SUBSET Run]
    BY <1>1 DEF CreateJob, TypeOK, Run, Phase
  <2> QED BY <1>1, <2>1, <2>2, <2>3 DEF CreateJob, TypeOK, Terminal
<1>2. ASSUME NEW n \in alive, ClaimStale(n)
      PROVE  TypeOK'
  <2>1. n \in Node
    BY DEF TypeOK
  <2>2. runs' \in [Node -> SUBSET Run]
    BY <1>2, <2>1, ClaimMoves
  <2>3. job' \in Job /\ job'.status = job.status /\ job'.finish = job.finish
    BY <1>2, ClaimedRow DEF ClaimStale, Claimable
  <2>4. disturbances' \in 0 .. MaxDisturbances
    BY <1>2 DEF ClaimStale, Disturb, TypeOK
  <2> QED BY <1>2, <2>2, <2>3, <2>4 DEF ClaimStale, TypeOK
<1>3. ASSUME NEW n \in alive, Stop(n)
      PROVE  TypeOK'
  BY <1>3 DEF Stop, TypeOK
<1>4. ASSUME NEW n \in alive, NEW r \in runs[n],
             Work(n, r) \/ SaveFails(n, r) \/ Heartbeat(n, r) \/ Release(n, r)
      PROVE  TypeOK'
  BY <1>4, Typed1 DEF TypeOK
<1>5. CASE GoesStale
  <2>1. job' \in Job /\ job'.status = job.status /\ job'.finish = job.finish
    BY <1>5 DEF GoesStale, TypeOK, Job
  <2>2. disturbances' \in 0 .. MaxDisturbances
    BY <1>5 DEF GoesStale, Disturb, TypeOK
  <2> QED BY <1>5, <2>1, <2>2 DEF GoesStale, TypeOK
<1>6. CASE Cancel
  <2>1. PICK t \in Instant :
          job' = IF job.status \in Terminal THEN job
                 ELSE [job EXCEPT !.status = "CANCELLED", !.finish = t]
    BY <1>6 DEF Cancel
  <2>2. CASE job.status \in Terminal
    BY <1>6, <2>1, <2>2 DEF Cancel, TypeOK
  <2>3. CASE job.status \notin Terminal
    <3>1. job' \in Job /\ job'.status \in Terminal /\ job'.finish \in Instant
      BY <2>1, <2>3 DEF TypeOK, Job, Terminal
    <3> QED BY <1>6, <3>1, AbsentIsNoInstant DEF Cancel, TypeOK
  <2> QED BY <2>2, <2>3
<1>7. CASE DeleteJob \/ ReapExpired
  <2>1. Removed
    BY <1>7 DEF DeleteJob, ReapExpired
  <2>2. job' \in Job /\ job'.status = "GONE"
    BY <2>1 DEF Removed, TypeOK, Job
  <2> QED BY <2>1, <2>2 DEF Removed, TypeOK
<1>8. CASE UNCHANGED vars
  BY <1>8 DEF vars, TypeOK
<1> QED BY <1>1, <1>2, <1>3, <1>4, <1>5, <1>6, <1>7, <1>8 DEF Next

-----------------------------------------------------------------------------

\* What every step does to the runs: one that is there was there, or is the
\* next state of one that was, or has the epoch the job just moved to.
LEMMA EpochsKept ==
  ASSUME IInv, [Next]_vars
  PROVE  EpochsGiven' /\ OneRunPerEpoch'
<1> USE DEF IInv
<1>1. ASSUME NEW n \in alive, CreateJob(n)
      PROVE  EpochsGiven' /\ OneRunPerEpoch'
  <2>1. \A m \in Node : runs[m] = {}
    BY <1>1 DEF CreateJob, NothingYet
  <2>2. job'.epoch = 1
    BY <1>1 DEF CreateJob, TypeOK, Job
  <2>3. \A m \in Node : \A q \in runs'[m] : m = n /\ q = [epoch |-> 1, phase |-> "save", sent |-> 0]
    BY <1>1, <2>1 DEF CreateJob, TypeOK
  <2> QED BY <2>2, <2>3 DEF EpochsGiven, OneRunPerEpoch
<1>2. ASSUME NEW n \in alive, ClaimStale(n)
      PROVE  EpochsGiven' /\ OneRunPerEpoch'
  <2>1. job'.epoch = job.epoch + 1 /\ NewRun.epoch = job.epoch + 1 /\ job.epoch \in Nat
    BY <1>2, ClaimedRow, NewRunTyped DEF ClaimStale, TypeOK, Job
  <2>2. \A m \in Node : \A q \in runs'[m] : q \in runs[m] \/ (m = n /\ q = NewRun)
    BY <1>2, ClaimMoves DEF TypeOK
  <2>3. \A m \in Node : \A q \in runs[m] : q.epoch \in 1 .. job.epoch
    BY DEF EpochsGiven
  <2> QED BY <2>1, <2>2, <2>3 DEF EpochsGiven, OneRunPerEpoch
<1>3. ASSUME NEW n \in alive, Stop(n)
      PROVE  EpochsGiven' /\ OneRunPerEpoch'
  <2>1. \A m \in Node : \A q \in runs'[m] : q \in runs[m]
    BY <1>3 DEF Stop, TypeOK
  <2> QED BY <1>3, <2>1 DEF Stop, EpochsGiven, OneRunPerEpoch
<1>4. ASSUME NEW n \in alive, NEW r \in runs[n],
             Work(n, r) \/ SaveFails(n, r) \/ Heartbeat(n, r) \/ Release(n, r)
      PROVE  EpochsGiven' /\ OneRunPerEpoch'
  <2>1. n \in Node /\ r \in Run
    BY DEF TypeOK
  <2>2. job'.epoch = job.epoch
    BY <1>4 DEF Work, ClearResults, SaveChunk, SaveReturns, UpdateJobStatus,
                Refused, SaveFails, Heartbeat, Release, TypeOK, Job
  <2>3. \/ \E s : s.epoch = r.epoch /\ Becomes(n, r, s)
        \/ Leaves(n, r)
        \/ UNCHANGED runs
    <3>1. /\ [r EXCEPT !.phase = "save"].epoch = r.epoch
          /\ [r EXCEPT !.sent = @ + 1].epoch = r.epoch
          /\ [r EXCEPT !.phase = "report"].epoch = r.epoch
          /\ [r EXCEPT !.phase = "failed"].epoch = r.epoch
      BY <2>1 DEF Run
    <3>2. \/ Becomes(n, r, [r EXCEPT !.phase = "save"])
          \/ Becomes(n, r, [r EXCEPT !.sent = @ + 1])
          \/ Becomes(n, r, [r EXCEPT !.phase = "report"])
          \/ Becomes(n, r, [r EXCEPT !.phase = "failed"])
          \/ Leaves(n, r)
          \/ UNCHANGED runs
      BY <1>4 DEF Work, ClearResults, SaveChunk, SaveReturns, UpdateJobStatus,
                  Refused, SaveFails, Heartbeat, Release
    <3> HIDE DEF IInv
    <3> QED BY <3>1, <3>2
  <2>4. \E s : /\ s.epoch = r.epoch
              /\ \A m \in Node : \A q \in runs'[m] :
                   \/ q \in runs[m] /\ ~(m = n /\ q = r)
                   \/ q = s /\ m = n
    BY <2>1, <2>3 DEF Becomes, Leaves, TypeOK
  <2> QED BY <2>1, <2>2, <2>4 DEF EpochsGiven, OneRunPerEpoch
<1>5. CASE GoesStale \/ Cancel \/ DeleteJob \/ ReapExpired \/ UNCHANGED vars
  <2>1. runs' = runs /\ job'.epoch = job.epoch
    <3>1. CASE Cancel
      BY <1>5, <3>1 DEF Cancel, TypeOK, Job
    <3>2. CASE GoesStale \/ DeleteJob \/ ReapExpired \/ UNCHANGED vars
      BY <3>2 DEF GoesStale, DeleteJob, ReapExpired, Removed, vars, TypeOK, Job
    <3> QED BY <1>5, <3>1, <3>2
  <2> QED BY <2>1 DEF EpochsGiven, OneRunPerEpoch
<1> QED BY <1>1, <1>2, <1>3, <1>4, <1>5 DEF Next

\* The rows change under the run that holds the job and under no other.
LEMMA RowsKept ==
  ASSUME IInv, [Next]_vars
  PROVE  HolderInStep' /\ NothingYet' /\ ResultsWhole'
<1> USE SizesAreNaturals DEF IInv
<1>0. EpochsGiven' /\ OneRunPerEpoch' /\ TypeOK'
  BY EpochsKept, Typed2
<1>1. ASSUME NEW n \in alive, CreateJob(n)
      PROVE  HolderInStep' /\ NothingYet' /\ ResultsWhole'
  <2>1. rows' = <<>> /\ job'.status = "RUNNING"
    BY <1>1 DEF CreateJob, NothingYet, TypeOK, Job
  <2>2. \A m \in Node : \A q \in runs'[m] : q.phase = "save" /\ q.sent = 0
    <3>1. \A m \in Node : runs[m] = {}
      BY <1>1 DEF CreateJob, NothingYet
    <3> QED BY <1>1, <3>1 DEF CreateJob, TypeOK
  <2> QED BY <2>1, <2>2 DEF HolderInStep, Synced, NothingYet, ResultsWhole
<1>2. ASSUME NEW n \in alive, ClaimStale(n)
      PROVE  HolderInStep' /\ NothingYet' /\ ResultsWhole'
  <2>1. /\ job'.epoch = job.epoch + 1 /\ job'.status = "RUNNING"
        /\ NewRun.phase \in {"clear", "failed"} /\ NewRun.sent = 0
        /\ job.epoch \in Nat
    BY <1>2, ClaimedRow, NewRunTyped DEF ClaimStale, TypeOK, Job
  <2>2. \A m \in Node : \A q \in runs'[m] : q \in runs[m] \/ q = NewRun
    BY <1>2, ClaimMoves DEF TypeOK
  <2>3. \A m \in Node : \A q \in runs[m] : q.epoch # job'.epoch
    BY <2>1 DEF EpochsGiven
  <2>4. HolderInStep'
    BY <2>1, <2>2, <2>3 DEF HolderInStep, Accepted, Synced
  <2> QED BY <1>2, <2>1, <2>4 DEF ClaimStale, NothingYet, ResultsWhole
<1>3. ASSUME NEW n \in alive, Stop(n)
      PROVE  HolderInStep' /\ NothingYet' /\ ResultsWhole'
  <2>1. \A m \in Node : \A q \in runs'[m] : q \in runs[m]
    BY <1>3 DEF Stop, TypeOK
  <2>2. job' = job /\ rows' = rows
    BY <1>3 DEF Stop
  <2>3. HolderInStep'
    BY <2>1, <2>2 DEF HolderInStep, Accepted, Synced
  <2>4. NothingYet'
    BY <2>1, <2>2 DEF NothingYet
  <2> QED BY <2>2, <2>3, <2>4 DEF ResultsWhole
<1>4. ASSUME NEW n \in alive, NEW r \in runs[n],
             Work(n, r) \/ SaveFails(n, r) \/ Heartbeat(n, r) \/ Release(n, r)
      PROVE  HolderInStep' /\ NothingYet' /\ ResultsWhole'
  <2>0. n \in Node /\ r \in Run /\ job \in Job /\ r.sent \in 0 .. Hits
    BY DEF TypeOK, Run
  <2>1. job.status # "MISSING" /\ job'.status # "MISSING"
    <3>1. job.status # "MISSING"
      BY <2>0 DEF NothingYet
    <3> QED BY <1>4, <2>0, <3>1 DEF Work, ClearResults, SaveChunk, SaveReturns,
           UpdateJobStatus, Refused, SaveFails, Heartbeat, Release, Job
  <2>2. NothingYet'
    BY <2>1 DEF NothingYet
  \* The others are not accepted: r holds the epoch.
  <2>3. ASSUME Accepted(r), NEW m \in Node, NEW q \in runs[m], Accepted(q)
        PROVE  m = n /\ q = r
    BY <2>0, <2>3 DEF Accepted, OneRunPerEpoch
  <2>4. CASE ClearResults(n, r)
    <3> DEFINE s == [r EXCEPT !.phase = "save"]
    <3>1. rows' = <<>> /\ job' = job /\ Accepted(r)
      BY <2>4 DEF ClearResults
    <3>2. \A m \in Node : \A q \in runs'[m] : q \in runs[m] \/ q = s
      BY <2>0, <2>4 DEF ClearResults, Becomes, TypeOK
    <3>3. r.phase = "clear" /\ s.phase = "save" /\ s.sent = r.sent
      BY <2>0, <2>4 DEF Run, ClearResults
    <3> HIDE DEF s
    <3>4. r.sent = 0
      BY <2>0, <3>1, <3>3 DEF HolderInStep, Synced
    <3>5. \A m \in Node : \A q \in runs'[m] : Accepted(q) => q = r \/ q = s
      BY <3>1, <3>2, <2>3
    <3> QED BY <2>2, <3>1, <3>3, <3>4, <3>5
            DEF HolderInStep, Accepted, Synced, ResultsWhole
  <2>5. CASE SaveChunk(n, r)
    <3> DEFINE s == [r EXCEPT !.sent = @ + 1]
    <3>1. /\ rows' = Append(rows, r.sent + 1) /\ job' = job
          /\ Accepted(r) /\ r.phase = "save"
      BY <2>5 DEF SaveChunk
    <3>2. \A m \in Node : \A q \in runs'[m] : (q \in runs[m] /\ ~(m = n /\ q = r)) \/ q = s
      BY <2>0, <2>5 DEF SaveChunk, Becomes, TypeOK
    <3>3. s.phase = "save" /\ s.sent = r.sent + 1
      BY <2>0, <2>5 DEF Run, SaveChunk
    <3> HIDE DEF s
    <3>4. Len(rows) = r.sent /\ rows \in Seq(1 .. Hits)
      BY <2>0, <3>1 DEF HolderInStep, Synced, TypeOK
    <3>5. \A m \in Node : \A q \in runs'[m] : Accepted(q) => q = s
      BY <3>1, <3>2, <2>3
    <3>6. Len(rows') = r.sent + 1 /\ \A i \in 1 .. Len(rows') : rows'[i] = i
      BY <2>0, <3>1, <3>4 DEF ResultsWhole
    <3>7. HolderInStep'
      BY <3>1, <3>3, <3>5, <3>6 DEF HolderInStep, Accepted, Synced
    <3> QED BY <2>2, <3>1, <3>6, <3>7 DEF Accepted, ResultsWhole
  <2>6. CASE SaveReturns(n, r)
    <3> DEFINE s == [r EXCEPT !.phase = "report"]
    <3>1. /\ rows' = rows /\ job' = job /\ Accepted(r)
          /\ r.phase = "save" /\ r.sent = Hits
      BY <2>6 DEF SaveReturns
    <3>2. \A m \in Node : \A q \in runs'[m] : q \in runs[m] \/ q = s
      BY <2>0, <2>6 DEF SaveReturns, Becomes, TypeOK
    <3>3. s.phase = "report" /\ s.sent = r.sent
      BY <2>0, <2>6 DEF Run, SaveReturns
    <3> HIDE DEF s
    <3>4. Len(rows) = Hits
      BY <2>0, <3>1 DEF HolderInStep, Synced
    <3>5. HolderInStep'
      BY <3>1, <3>2, <3>3, <3>4 DEF HolderInStep, Accepted, Synced
    <3> QED BY <2>2, <3>1, <3>5 DEF ResultsWhole
  <2>7. CASE SaveFails(n, r)
    <3> DEFINE s == [r EXCEPT !.phase = "failed"]
    <3>1. rows' = rows /\ job' = job
      BY <2>7 DEF SaveFails
    <3>2. \A m \in Node : \A q \in runs'[m] : q \in runs[m] \/ q = s
      BY <2>0, <2>7 DEF SaveFails, Becomes, TypeOK
    <3>3. s.phase = "failed"
      BY <2>0 DEF Run
    <3> HIDE DEF s
    <3>4. HolderInStep'
      BY <3>1, <3>2, <3>3 DEF HolderInStep, Accepted, Synced
    <3> QED BY <2>2, <3>1, <3>4 DEF ResultsWhole
  <2>8. CASE UpdateJobStatus(n, r)
    <3>1. /\ rows' = rows /\ job'.status # "RUNNING"
          /\ job'.status = "SUCCESSFUL" => r.phase = "report" /\ job'.count = r.sent
      BY <2>0, <2>8 DEF UpdateJobStatus, Job
    <3>2. r.phase = "report" => Len(rows) = Hits /\ r.sent = Hits
      BY <2>0, <2>8 DEF UpdateJobStatus, HolderInStep, Synced
    <3> QED BY <2>2, <3>1, <3>2 DEF HolderInStep, Accepted, ResultsWhole
  <2>9. CASE Refused(n, r) \/ Heartbeat(n, r) \/ Release(n, r)
    <3>1. /\ rows' = rows /\ job'.status = job.status
          /\ job'.epoch = job.epoch /\ job'.count = job.count
      BY <2>0, <2>9 DEF Refused, Heartbeat, Release, Job
    <3>2. \A m \in Node : \A q \in runs'[m] : q \in runs[m]
      BY <2>0, <2>9 DEF Refused, Heartbeat, Release, Leaves, TypeOK
    <3>3. HolderInStep'
      BY <3>1, <3>2 DEF HolderInStep, Accepted, Synced
    <3> QED BY <2>2, <3>1, <3>3 DEF ResultsWhole
  <2> QED BY <1>4, <2>4, <2>5, <2>6, <2>7, <2>8, <2>9 DEF Work
<1>5. CASE GoesStale \/ Cancel \/ UNCHANGED vars
  <2>1. /\ rows' = rows /\ runs' = runs
        /\ job'.status \in {job.status, "CANCELLED"}
        /\ job'.epoch = job.epoch /\ job'.count = job.count
    <3>1. CASE Cancel
      BY <3>1 DEF Cancel, TypeOK, Job, Terminal
    <3>2. CASE GoesStale \/ UNCHANGED vars
      BY <3>2 DEF GoesStale, vars, TypeOK, Job
    <3> QED BY <1>5, <3>1, <3>2
  <2>2. NothingYet'
    BY <1>5, <2>1 DEF NothingYet, GoesStale, Cancel, vars, Terminal
  <2> QED BY <2>1, <2>2 DEF HolderInStep, Accepted, Synced, ResultsWhole
<1>6. CASE DeleteJob \/ ReapExpired
  <2>1. rows' = <<>> /\ job'.status = "GONE"
    BY <1>6 DEF DeleteJob, ReapExpired, Removed, TypeOK, Job
  <2> QED BY <2>1 DEF HolderInStep, Accepted, NothingYet, ResultsWhole
<1> QED BY <1>1, <1>2, <1>3, <1>4, <1>5, <1>6 DEF Next

-----------------------------------------------------------------------------

LEMMA StartKept == ASSUME IInv, [Next]_vars PROVE StartsAtOne'
<1>0. job \in Job
  BY DEF IInv, TypeOK
<1>1. ASSUME NEW n \in alive, CreateJob(n) \/ ClaimStale(n) \/ Stop(n)
      PROVE  StartsAtOne'
  <2>1. CASE CreateJob(n)
    BY <1>0, <2>1 DEF CreateJob, StartsAtOne, Job
  <2>2. CASE ClaimStale(n)
    <3>1. job'.epoch = job.epoch + 1 /\ job.epoch \in Nat
      BY <1>0, <2>2, ClaimedRow DEF ClaimStale, IInv, Job
    <3> QED BY <3>1 DEF StartsAtOne
  <2>3. CASE Stop(n)
    BY <2>3 DEF Stop, IInv, StartsAtOne
  <2> QED BY <1>1, <2>1, <2>2, <2>3
<1>2. CASE /\ job'.epoch = job.epoch
           /\ job'.status = "RUNNING" => job.status = "RUNNING"
  BY <1>2 DEF IInv, StartsAtOne
<1>3. ASSUME NEW n \in alive, NEW r \in runs[n],
             Work(n, r) \/ SaveFails(n, r) \/ Heartbeat(n, r) \/ Release(n, r)
      PROVE  StartsAtOne'
  BY <1>0, <1>2, <1>3 DEF Work, ClearResults, SaveChunk, SaveReturns,
                UpdateJobStatus, Refused, SaveFails, Heartbeat, Release, Job
<1>4. CASE Cancel
  BY <1>0, <1>2, <1>4 DEF Cancel, Job
<1>5. CASE GoesStale \/ DeleteJob \/ ReapExpired \/ UNCHANGED vars
  BY <1>0, <1>2, <1>5 DEF GoesStale, DeleteJob, ReapExpired, Removed, vars, Job
<1> QED BY <1>1, <1>3, <1>4, <1>5 DEF Next

\* The strengthening is an invariant of the specification.
THEOREM Invariance == Spec => []IInv
<1>1. IInv /\ [Next]_vars => IInv'
  BY Typed2, EpochsKept, RowsKept, StartKept DEF IInv
<1> QED BY <1>1, Starts, PTL DEF Spec

\* The job's row, the results, the runs and the history keep their types, and a
\* job has a finish time exactly while it is terminal.
THEOREM Typed == Spec => []TypeOK
<1>1. IInv => TypeOK
  BY DEF IInv
<1> QED BY <1>1, Invariance, PTL

\* For any number of nodes and ids: a reader never sees an id twice or out of
\* place, and the results of a SUCCESSFUL job are the whole answer.
THEOREM WholeResults == Spec => []ResultsWhole
<1>1. IInv => ResultsWhole
  BY DEF IInv
<1> QED BY <1>1, Invariance, PTL

\* No call touches the outcome or the rows of a terminal job, short of removing it.
THEOREM FinalOutcome == Spec => TerminalIsFinal
<1>1. ASSUME TypeOK, [Next]_vars, job.status \in Terminal, job'.status # "GONE"
      PROVE  UNCHANGED <<job, rows>>
  <2>1. job.status \notin {"MISSING", "RUNNING"}
    BY <1>1 DEF Terminal
  <2>2. CASE Cancel
    BY <1>1, <2>2 DEF Cancel
  <2>3. CASE DeleteJob \/ ReapExpired
    BY <1>1, <2>3 DEF DeleteJob, ReapExpired, Removed, TypeOK, Job
  <2>4. CASE GoesStale \/ UNCHANGED vars
    BY <2>1, <2>4 DEF GoesStale, vars
  <2>5. ASSUME NEW n \in alive, CreateJob(n) \/ ClaimStale(n) \/ Stop(n)
        PROVE  UNCHANGED <<job, rows>>
    BY <2>1, <2>5 DEF CreateJob, ClaimStale, Claimable, Stop
  <2>6. ASSUME NEW n \in alive, NEW r \in runs[n],
               Work(n, r) \/ SaveFails(n, r) \/ Heartbeat(n, r) \/ Release(n, r)
        PROVE  UNCHANGED <<job, rows>>
    BY <2>1, <2>6 DEF Work, ClearResults, SaveChunk, SaveReturns, UpdateJobStatus,
                      Refused, SaveFails, Heartbeat, Release, Accepted
  <2> QED BY <1>1, <2>2, <2>3, <2>4, <2>5, <2>6 DEF Next
<1>2. TypeOK /\ [Next]_vars =>
        [job.status \in Terminal /\ job'.status # "GONE" => UNCHANGED <<job, rows>>]_vars
  BY <1>1
<1> QED BY <1>2, Typed, PTL DEF Spec, TerminalIsFinal

-----------------------------------------------------------------------------

\* The epochs up to e that ended without a hand-over.
Lost(e, h) == (1 .. e) \ (h \cup {e})

\* OnlyLossesCount with what it rests on: the row's mark and the history agree
\* about the current epoch.
HandoffInv == /\ handoffs \subseteq 1 .. job.epoch
              /\ job.released <=> job.epoch \in handoffs
              /\ OnlyLossesCount

LEMMA LostFinite ==
  ASSUME NEW e \in Nat, NEW h
  PROVE  IsFiniteSet(Lost(e, h))
<1>1. IsFiniteSet(1 .. e)
  BY FS_Interval
<1>2. Lost(e, h) \subseteq 1 .. e
  BY DEF Lost
<1> QED BY <1>1, <1>2, FS_Subset

\* Epoch e ends with a hand-over: no epoch more is lost.
LEMMA HandedOver ==
  ASSUME NEW e \in Nat, NEW h, h \subseteq 1 .. e, e \in h
  PROVE  Lost(e + 1, h) = Lost(e, h)
  BY DEF Lost

\* Epoch e ends without one: it is lost as well.
LEMMA LostOneMore ==
  ASSUME NEW e \in Nat \ {0}, NEW h, h \subseteq 1 .. e, e \notin h
  PROVE  Cardinality(Lost(e + 1, h)) = Cardinality(Lost(e, h)) + 1
<1>1. Lost(e + 1, h) = Lost(e, h) \cup {e} /\ e \notin Lost(e, h)
  BY DEF Lost
<1>2. IsFiniteSet(Lost(e, h))
  BY LostFinite
<1> QED BY <1>1, <1>2, FS_AddElement

LEMMA HandoffsKept ==
  ASSUME IInv, HandoffInv, [Next]_vars
  PROVE  HandoffInv'
<1>0. /\ job \in Job /\ job.epoch \in Nat /\ job.released \in BOOLEAN
      /\ job.staleClaims = Cardinality(Lost(job.epoch, handoffs))
  BY DEF IInv, TypeOK, Job, HandoffInv, OnlyLossesCount, Lost
<1>1. ASSUME NEW n \in alive, CreateJob(n)
      PROVE  HandoffInv'
  <2>1. /\ job.epoch = 0 /\ job'.epoch = 1 /\ job'.released = job.released
        /\ job'.staleClaims = job.staleClaims /\ handoffs' = handoffs
    BY <1>0, <1>1 DEF CreateJob, IInv, NothingYet, Job
  <2>2. handoffs = {} /\ ~job.released
    BY <2>1 DEF HandoffInv
  <2>3. Lost(1, {}) = {} /\ Lost(0, {}) = {}
    BY DEF Lost
  <2>4. (1 .. job'.epoch) \ (handoffs' \cup {job'.epoch}) = {}
    BY <2>1, <2>2, <2>3 DEF Lost
  <2>5. job'.staleClaims = Cardinality({})
    BY <1>0, <2>1, <2>2, <2>3
  <2> QED BY <2>1, <2>2, <2>4, <2>5 DEF HandoffInv, OnlyLossesCount
<1>2. ASSUME NEW n \in alive, ClaimStale(n)
      PROVE  HandoffInv'
  <2>1. /\ job'.epoch = job.epoch + 1 /\ job'.released = FALSE
        /\ job'.staleClaims = IF job.released THEN job.staleClaims
                                              ELSE job.staleClaims + 1
        /\ handoffs' = handoffs
    BY <1>2, ClaimedRow DEF ClaimStale, IInv
  <2>2. handoffs \subseteq 1 .. job.epoch /\ (job.released <=> job.epoch \in handoffs)
    BY DEF HandoffInv
  <2>3. job.epoch # 0
    BY <1>2 DEF ClaimStale, Claimable, IInv, StartsAtOne
  <2>4. job'.staleClaims = Cardinality(Lost(job'.epoch, handoffs'))
    <3>1. CASE job.released
      BY <1>0, <2>1, <2>2, <3>1, HandedOver
    <3>2. CASE ~job.released
      <4>1. Cardinality(Lost(job.epoch + 1, handoffs)) = Cardinality(Lost(job.epoch, handoffs)) + 1
        BY <1>0, <2>2, <2>3, <3>2, LostOneMore
      <4> QED BY <1>0, <2>1, <3>2, <4>1
    <3> QED BY <1>0, <3>1, <3>2
  <2>5. handoffs' \subseteq 1 .. job'.epoch /\ job'.epoch \notin handoffs'
    BY <1>0, <2>1, <2>2
  <2> QED BY <2>1, <2>4, <2>5 DEF HandoffInv, OnlyLossesCount, Lost
<1>3. ASSUME NEW n \in alive, NEW r \in runs[n], Release(n, r)
      PROVE  HandoffInv'
  <2>1. /\ r.epoch = job.epoch /\ job'.epoch = job.epoch /\ job'.released = TRUE
        /\ job'.staleClaims = job.staleClaims
        /\ handoffs' = handoffs \cup {job.epoch}
    BY <1>0, <1>3 DEF Release, Accepted, Job
  <2>2. r.epoch \in 1 .. job.epoch
    BY DEF IInv, TypeOK, EpochsGiven
  <2>3. Lost(job'.epoch, handoffs') = Lost(job.epoch, handoffs)
    BY <2>1 DEF Lost
  <2>4. job'.staleClaims = Cardinality(Lost(job'.epoch, handoffs'))
    BY <1>0, <2>1, <2>3
  <2>5. handoffs' \subseteq 1 .. job'.epoch /\ job'.epoch \in handoffs'
    BY <2>1, <2>2 DEF HandoffInv
  <2> QED BY <2>1, <2>4, <2>5 DEF HandoffInv, OnlyLossesCount, Lost
<1>4. CASE /\ job'.epoch = job.epoch /\ job'.released = job.released
           /\ job'.staleClaims = job.staleClaims /\ handoffs' = handoffs
  BY <1>4 DEF HandoffInv, OnlyLossesCount
<1>5. ASSUME NEW n \in alive, NEW r \in runs[n],
             Work(n, r) \/ SaveFails(n, r) \/ Heartbeat(n, r)
      PROVE  HandoffInv'
  BY <1>0, <1>4, <1>5 DEF Work, ClearResults, SaveChunk, SaveReturns,
                          UpdateJobStatus, Refused, SaveFails, Heartbeat, Job
<1>6. CASE Cancel
  BY <1>0, <1>4, <1>6 DEF Cancel, Job
<1>7. CASE GoesStale \/ DeleteJob \/ ReapExpired \/ UNCHANGED vars
  BY <1>0, <1>4, <1>7 DEF GoesStale, DeleteJob, ReapExpired, Removed, vars, Job
<1>8. ASSUME NEW n \in alive, Stop(n)
      PROVE  HandoffInv'
  BY <1>4, <1>8 DEF Stop
<1> QED BY <1>1, <1>2, <1>3, <1>5, <1>6, <1>7, <1>8 DEF Next

\* StaleClaims is exactly the number of epochs that ended without a Release, for
\* any number of nodes, releases and claims.
THEOREM LossesCounted == Spec => []OnlyLossesCount
<1>1. Init => HandoffInv
  <2>1. ASSUME Init PROVE (1 .. job.epoch) \ (handoffs \cup {job.epoch}) = {}
    BY <2>1 DEF Init
  <2>2. Init => OnlyLossesCount
    BY <2>1, FS_EmptySet DEF Init, OnlyLossesCount
  <2> QED BY <2>2 DEF Init, HandoffInv
<1>2. IInv /\ HandoffInv /\ [Next]_vars => HandoffInv'
  BY HandoffsKept
<1>3. HandoffInv => OnlyLossesCount
  BY DEF HandoffInv
<1> QED BY <1>1, <1>2, <1>3, Invariance, PTL DEF Spec
=============================================================================
