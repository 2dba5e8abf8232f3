------------------------------ MODULE SearchJobs ------------------------------
(* One asynchronous search job: AsyncSearchStore (search_store.go), as the     *)
(* interface states it and the conformance suite (spitest/asyncsearch.go)      *)
(* pins it down.  The job is a row with an epoch; an executor holds it under   *)
(* the epoch it created or claimed it with, streams the ids it finds into the  *)
(* job's results chunk by chunk, and reports the outcome.  Executors are       *)
(* external: a run below is one executor under one epoch, used the way the     *)
(* interface says the engine uses it.  Searching a fixed point in time finds   *)
(* the same Hits ids, in the same order, in every run.                         *)
EXTENDS Naturals, Sequences, FiniteSets

CONSTANTS Node,             \* the nodes that execute and claim
          Hits,             \* how many ids the search finds, a chunk for each
          Instant,          \* the finish times the engine may give
          MaxStale,         \* the engine's cap on lost attempts
          MaxDisturbances   \* bound: releases, late beats, lost answers

ASSUME SizesAreNaturals ==
    Hits \in Nat /\ MaxStale \in Nat /\ MaxDisturbances \in Nat

VARIABLES job,              \* the job's row
          rows,             \* its persisted result ids, in GetResultIDs order
          runs,             \* node -> its executions, one per epoch it holds
          alive,            \* the nodes that have not stopped
          handoffs,         \* history: the epochs given up by a Release
          disturbances

vars == <<job, rows, runs, alive, handoffs, disturbances>>

Terminal == {"SUCCESSFUL", "FAILED", "CANCELLED"}
Absent == "absent"          \* no finish time

ASSUME AbsentIsNoInstant == Absent \notin Instant

Job == [status: {"MISSING", "RUNNING", "GONE"} \cup Terminal, epoch: Nat,
        staleClaims: Nat, released: BOOLEAN, fresh: BOOLEAN, count: Nat,
        finish: Instant \cup {Absent}]

\* A run clears what earlier epochs left, saves, and reports; one whose
\* SaveResults failed, or that claimed past the cap, has a failure to report.
Phase == {"clear", "save", "report", "failed"}
Run == [epoch: Nat, phase: Phase, sent: 0 .. Hits]

Init == /\ job = [status |-> "MISSING", epoch |-> 0, staleClaims |-> 0,
                  released |-> FALSE, fresh |-> FALSE, count |-> 0,
                  finish |-> Absent]
        /\ rows = <<>>
        /\ runs = [n \in Node |-> {}]
        /\ alive = Node
        /\ handoffs = {}
        /\ disturbances = 0

Disturb == /\ disturbances < MaxDisturbances
           /\ disturbances' = disturbances + 1

\* Mutant: the fence looks at the epoch and not at the status.
AcceptedByEpoch(r) == job.status # "GONE" /\ r.epoch = job.epoch

\* The fence of every executor-side write: ErrNotFound, ErrAlreadyTerminal and
\* ErrStaleClaim otherwise.
Accepted(r) == job.status = "RUNNING" /\ r.epoch = job.epoch

Becomes(n, r, s) == runs' = [runs EXCEPT ![n] = (@ \ {r}) \cup {s}]
Leaves(n, r) == runs' = [runs EXCEPT ![n] = @ \ {r}]

-----------------------------------------------------------------------------

\* The store stamps the heartbeat and epoch 1 whatever the caller gives.
CreateJob(n) ==
    /\ job.status = "MISSING"
    /\ job' = [job EXCEPT !.status = "RUNNING", !.epoch = 1, !.fresh = TRUE]
    /\ runs' = [runs EXCEPT ![n] = {[epoch |-> 1, phase |-> "save", sent |-> 0]}]
    /\ UNCHANGED <<rows, alive, handoffs, disturbances>>

\* Idempotent at the epoch: when the answer is lost the run clears again.
ClearResults(n, r) ==
    /\ r.phase = "clear" /\ Accepted(r)
    /\ rows' = <<>>
    /\ \/ Becomes(n, r, [r EXCEPT !.phase = "save"]) /\ UNCHANGED disturbances
       \/ Disturb /\ UNCHANGED runs
    /\ UNCHANGED <<job, alive, handoffs>>

\* Mutant: the epoch is checked before the first chunk only.
SaveChunkUnfenced(n, r) ==
    /\ r.phase = "save" /\ r.sent < Hits
    /\ job.status = "RUNNING" /\ (r.sent = 0 => r.epoch = job.epoch)
    /\ rows' = Append(rows, r.sent + 1)
    /\ Becomes(n, r, [r EXCEPT !.sent = @ + 1])
    /\ UNCHANGED <<job, alive, handoffs, disturbances>>

\* One chunk of SaveResults; the fence holds at each chunk's boundary.
SaveChunk(n, r) ==
    /\ r.phase = "save" /\ r.sent < Hits /\ Accepted(r)
    /\ rows' = Append(rows, r.sent + 1)
    /\ Becomes(n, r, [r EXCEPT !.sent = @ + 1])
    /\ UNCHANGED <<job, alive, handoffs, disturbances>>

\* A nil return: everything was stored.  An empty sequence is fenced as well.
SaveReturns(n, r) ==
    /\ r.phase = "save" /\ r.sent = Hits /\ Accepted(r)
    /\ Becomes(n, r, [r EXCEPT !.phase = "report"])
    /\ UNCHANGED <<job, rows, alive, handoffs, disturbances>>

\* The call ends in an error: its context is cancelled or its answer is lost.
\* There is one SaveResults per epoch, so the run does not call it again.
SaveFails(n, r) ==
    /\ r.phase = "save"
    /\ Disturb
    /\ Becomes(n, r, [r EXCEPT !.phase = "failed"])
    /\ UNCHANGED <<job, rows, alive, handoffs>>

\* UpdateJobStatus of a run; when the answer is lost the run reports again.
UpdateJobStatus(n, r) ==
    /\ r.phase \in {"report", "failed"} /\ Accepted(r)
    /\ \E t \in Instant :
         job' = [job EXCEPT !.status = IF r.phase = "report" THEN "SUCCESSFUL"
                                                             ELSE "FAILED",
                            !.count = IF r.phase = "report" THEN r.sent ELSE 0,
                            !.finish = t]
    /\ \/ Leaves(n, r) /\ UNCHANGED disturbances
       \/ Disturb /\ UNCHANGED runs
    /\ UNCHANGED <<rows, alive, handoffs>>

\* A call of a run that is fenced off: it learns that it lost the job.
Refused(n, r) ==
    /\ ~Accepted(r)
    /\ Leaves(n, r)
    /\ UNCHANGED <<job, rows, alive, handoffs, disturbances>>

\* Mutant: a heartbeat takes the release back.
HeartbeatRevives(n, r) ==
    /\ Accepted(r)
    /\ job' = [job EXCEPT !.fresh = TRUE, !.released = FALSE]
    /\ UNCHANGED <<rows, runs, alive, handoffs, disturbances>>

\* Stamps the heartbeat; a released mark survives it.
Heartbeat(n, r) ==
    /\ Accepted(r)
    /\ job' = [job EXCEPT !.fresh = TRUE]
    /\ UNCHANGED <<rows, runs, alive, handoffs, disturbances>>

\* The executor hands the job over.  A lost answer leaves the run going on.
Release(n, r) ==
    /\ Accepted(r)
    /\ Disturb
    /\ job' = [job EXCEPT !.released = TRUE]
    /\ handoffs' = handoffs \cup {r.epoch}
    /\ Leaves(n, r) \/ UNCHANGED runs
    /\ UNCHANGED <<rows, alive>>

\* Heartbeats stop for longer than staleAfter: the executor is gone, or late.
Held == \E n \in Node : \E r \in runs[n] : Accepted(r)
GoesStale ==
    /\ job.status = "RUNNING" /\ job.fresh
    /\ job' = [job EXCEPT !.fresh = FALSE]
    /\ IF Held THEN Disturb ELSE UNCHANGED disturbances
    /\ UNCHANGED <<rows, runs, alive, handoffs>>

\* Mutant: a released job has to go stale as well.
ClaimableBoth == job.status = "RUNNING" /\ job.released /\ ~job.fresh

\* Only a claim of a job that went stale counts; any claim clears the mark.
Claimable == job.status = "RUNNING" /\ (job.released \/ ~job.fresh)
Claimed == [job EXCEPT !.epoch = @ + 1,
                       !.staleClaims = IF job.released THEN @ ELSE @ + 1,
                       !.released = FALSE,
                       !.fresh = TRUE]

\* The node starts a run under the new epoch, unless the reply is lost.
ClaimStale(n) ==
    /\ Claimable
    /\ job' = Claimed
    /\ \/ /\ runs' = [runs EXCEPT ![n] = @ \cup
                {[epoch |-> Claimed.epoch, sent |-> 0,
                  phase |-> IF Claimed.staleClaims > MaxStale THEN "failed"
                                                              ELSE "clear"]}]
          /\ UNCHANGED disturbances
       \/ Disturb /\ UNCHANGED runs
    /\ UNCHANGED <<rows, alive, handoffs>>

\* The client cancels: idempotent, and an earlier outcome stands.
Cancel ==
    /\ job.status \in {"RUNNING"} \cup Terminal
    /\ \E t \in Instant :
         job' = IF job.status \in Terminal THEN job
                ELSE [job EXCEPT !.status = "CANCELLED", !.finish = t]
    /\ UNCHANGED <<rows, runs, alive, handoffs, disturbances>>

Removed == /\ job' = [job EXCEPT !.status = "GONE"]
           /\ rows' = <<>>
           /\ UNCHANGED <<runs, alive, handoffs, disturbances>>

DeleteJob == job.status \in {"RUNNING"} \cup Terminal /\ Removed

\* Ages run from the finish time, so only a terminal job expires.
ReapExpired == job.status \in Terminal /\ Removed

\* A node dies with its runs; one node lives to claim.
Stop(n) ==
    /\ n \in alive /\ alive # {n}
    /\ alive' = alive \ {n}
    /\ runs' = [runs EXCEPT ![n] = {}]
    /\ UNCHANGED <<job, rows, handoffs, disturbances>>

\* What an executor does of itself, heartbeats and hand-overs aside.
Work(n, r) == \/ ClearResults(n, r) \/ SaveChunk(n, r) \/ SaveReturns(n, r)
              \/ UpdateJobStatus(n, r) \/ Refused(n, r)

Next == \/ \E n \in alive : CreateJob(n) \/ ClaimStale(n) \/ Stop(n)
        \/ \E n \in alive : \E r \in runs[n] :
             Work(n, r) \/ SaveFails(n, r) \/ Heartbeat(n, r) \/ Release(n, r)
        \/ GoesStale \/ Cancel \/ DeleteJob \/ ReapExpired

Spec == Init /\ [][Next]_vars

-----------------------------------------------------------------------------

\* A live executor goes on with the job it holds, or finds out that it has lost
\* it; nobody beats for a job nobody holds; a live node's claim loop comes round.
Fairness ==
    /\ WF_vars(\E n \in alive : \E r \in runs[n] : Work(n, r))
    /\ WF_vars(~Held /\ GoesStale)
    /\ WF_vars(\E n \in alive : ClaimStale(n))

FairSpec == Spec /\ Fairness

-----------------------------------------------------------------------------

\* The types; a job has a finish time exactly when it is terminal, or was when
\* it was removed (search_store.go:43-49).
TypeOK ==
    /\ job \in Job
    /\ job.status # "GONE" => (job.finish = Absent <=> job.status \notin Terminal)
    /\ rows \in Seq(1 .. Hits)
    /\ runs \in [Node -> SUBSET Run]
    /\ alive \subseteq Node
    /\ handoffs \subseteq Nat
    /\ disturbances \in 0 .. MaxDisturbances

\* However many executors wrote, were superseded in the middle of a chunk
\* stream, cleared and wrote again: what a reader sees is at any time a prefix
\* of the answer, no id twice and none out of place, and on a SUCCESSFUL job it
\* is the whole answer, as many rows as the job's ResultCount says.
ResultsWhole ==
    /\ \A i \in 1 .. Len(rows) : rows[i] = i
    /\ job.status = "SUCCESSFUL" => Len(rows) = Hits /\ job.count = Hits

\* A terminal status is written once: until the job is removed neither the
\* outcome nor the finish time nor a result row changes, whatever late report,
\* clear, chunk or cancel arrives.
TerminalIsFinal ==
    [][job.status \in Terminal /\ job'.status # "GONE" => UNCHANGED <<job, rows>>]_vars

\* StaleClaims counts exactly the epochs that ended without a Release: no
\* graceful hand-over, not even one followed by a stray heartbeat, moves the job
\* towards the cap, and no loss is forgotten.
OnlyLossesCount ==
    job.staleClaims = Cardinality((1 .. job.epoch) \ (handoffs \cup {job.epoch}))

\* Under the loops of the engine a job does not stay RUNNING: some executor
\* finishes it, whichever nodes stop and whatever answers are lost.
Finishes == (job.status = "RUNNING") ~> (job.status # "RUNNING")
=============================================================================
