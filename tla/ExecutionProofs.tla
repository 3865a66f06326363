-------------------------- MODULE ExecutionProofs --------------------------
(***************************************************************************)
(* Machine-checked proofs about Executions: a lease ends only when the     *)
(* process is over, shutdown kills what it can, and the jobs live the      *)
(* lives of ExecutionLife, for any jobs, identities, limits, rounds and    *)
(* failing signals.                                                        *)
(***************************************************************************)
EXTENDS Executions, TLAPS

-----------------------------------------------------------------------------
(* The inductive invariant. *)

Reasons == {"timeout", "output-limit", "io-error"}

JobState ==
  [identity : Identities \cup {None},
   status : {"exited", "cancelled", "spawn-error"} \cup Live \cup Reasons,
   reason : Reasons \cup {None}, held : BOOLEAN,
   child : {"none", "alive", "zombie", "reaped"}, kin : BOOLEAN, stopped : BOOLEAN,
   refused : BOOLEAN, kill_at : {"nil", "future", "past"},
   deadline : {"nil", "future", "past"}, eof : BOOLEAN, delivered : BOOLEAN]

Types ==
  /\ place \in [Jobs -> {"new", "active", "retired", "gone"}]
  /\ job \in [Jobs -> JobState]
  /\ reaping \in SUBSET In("retired")
  /\ rounds \in Nat
  /\ phase \in {"run", "stopping", "stopped", "failed"}

\* What a job is says whether it has a process: it holds the lease of one until
\* that is over, and is told only then.
Leased(r) ==
  /\ r.held => r.child # "none" /\ ~r.delivered /\ r.status # "pending"
  /\ ~r.held /\ r.child # "none" => r.child = "reaped" /\ r.stopped
  /\ r.status = "pending" => r.child = "none"
  /\ r.delivered => r.status \notin Live

\* And the list it is in says what it may be.
Listed(j) ==
  /\ place[j] = "new" => job[j] = NewJob(None)
  /\ place[j] = "retired" => job[j].held
  /\ place[j] = "gone" => ~job[j].held
  /\ place[j] = "active" /\ ~job[j].held /\ ~job[j].delivered => job[j].status = "pending"

\* One job of an identity is declared, and it has not started before the one it
\* replaced is gone.
Fences ==
  \A i, j \in Jobs : place[j] = "active" /\ job[i].identity = job[j].identity =>
    /\ place[i] = "active" => i = j
    /\ place[i] = "retired" => ~job[j].held

\* What stop-executions has tried to end.
Signalled(r) == r.stopped \/ r.refused \/ r.kill_at = "future"

Shut ==
  /\ phase = "run" => rounds = 0
  /\ phase # "run" => In("active") = {} /\ reaping = {}
  /\ phase # "run" /\ rounds = StopRounds => \A j \in In("retired") : Signalled(job[j])
  /\ phase = "failed" => rounds = StopRounds
  /\ phase = "stopped" => In("retired") = {}

IInv == Types /\ (\A j \in Jobs : Leased(job[j]) /\ Listed(j)) /\ Fences /\ Shut

-----------------------------------------------------------------------------
(* What the operations on a lease do to the job around it. *)

\* The process of r may have ended and been signalled; its lease stays.
Becomes(q, r) ==
  /\ q \in JobState
  /\ q.identity = r.identity /\ q.held = r.held /\ q.delivered = r.delivered
  /\ q.child = "none" <=> r.child = "none"
  /\ r.child = "reaped" => q.child = "reaped"
  /\ r.stopped => q.stopped

SameResult(q, r) == q.status = r.status /\ q.reason = r.reason

\* tomoe_exec_poll.
LEMMA PollRecord ==
  ASSUME NEW r \in JobState
  PROVE  LET q == exec_poll(r) IN
         Becomes(q, r) /\ SameResult(q, r) /\ (Signalled(r) => Signalled(q))
<1>1. CASE r.child = "zombie"
  BY <1>1 DEF exec_poll, JobState, Becomes, SameResult, Signalled
<1>2. CASE r.child # "zombie"
  BY <1>2 DEF exec_poll, Becomes, SameResult, Signalled
<1> QED BY <1>1, <1>2

\* A signal that was sent, or failed.
LEMMA SentRecord ==
  ASSUME NEW p \in JobState, NEW ok \in BOOLEAN
  PROVE  LET killed == [p EXCEPT !.eof = TRUE, !.refused = ~ok, !.stopped = ok]
             asked  == [p EXCEPT !.eof = TRUE, !.refused = ~ok,
                                 !.kill_at = IF ok THEN "future" ELSE "nil"]
         IN /\ ~p.stopped => Becomes(killed, p)
            /\ SameResult(killed, p) /\ Signalled(killed)
            /\ Becomes(asked, p) /\ SameResult(asked, p) /\ Signalled(asked)
<1>1. CASE ok
  BY <1>1 DEF JobState, Becomes, SameResult, Signalled
<1>2. CASE ~ok
  BY <1>2 DEF JobState, Becomes, SameResult, Signalled
<1> QED BY <1>1, <1>2

\* kill-execution signals a process that is leased, or it was signalled before.
LEMMA KillRecord ==
  ASSUME NEW r \in JobState, NEW ok \in BOOLEAN
  PROVE  LET q == kill_execution(r, ok) IN
         Becomes(q, r) /\ SameResult(q, r) /\ (r.held => Signalled(q))
<1> DEFINE p == exec_poll(r)
           q == kill_execution(r, ok)
<1>1. /\ Becomes(p, r) /\ SameResult(p, r)
      /\ p.kill_at = r.kill_at /\ p.stopped = r.stopped
  <2>1. p.kill_at = r.kill_at /\ p.stopped = r.stopped
    BY DEF exec_poll, JobState
  <2> QED BY <2>1, PollRecord
<1>2. r.kill_at \in {"nil", "future", "past"} /\ (r.kill_at = "past" => KillIsDue(r))
  BY DEF JobState, KillIsDue
<1>3. q = IF ~r.held \/ r.stopped THEN r
          ELSE IF ~KillIsDue(r) /\ r.kill_at # "nil" THEN p
          ELSE IF KillIsDue(r) THEN [p EXCEPT !.eof = TRUE, !.refused = ~ok, !.stopped = ok]
          ELSE [p EXCEPT !.eof = TRUE, !.refused = ~ok, !.kill_at = IF ok THEN "future" ELSE "nil"]
  BY DEF kill_execution
<1> HIDE DEF p, q
<1>4. CASE ~r.held \/ r.stopped
  BY <1>3, <1>4 DEF q, Becomes, SameResult, Signalled
<1>5. CASE ~(~r.held \/ r.stopped) /\ ~KillIsDue(r) /\ r.kill_at # "nil"
  BY <1>1, <1>2, <1>3, <1>5 DEF q, Signalled
<1>6. p \in JobState /\ (~ok) \in BOOLEAN
  BY <1>1 DEF Becomes
<1>7. CASE ~(~r.held \/ r.stopped) /\ KillIsDue(r)
  <2>1. q = [p EXCEPT !.eof = TRUE, !.refused = ~ok, !.stopped = ok]
    BY <1>3, <1>7
  <2>2. Becomes(q, p) /\ SameResult(q, p) /\ Signalled(q)
    <3>1. ~p.stopped
      BY <1>1, <1>7
    <3> QED BY <1>6, <2>1, <3>1, SentRecord
  <2> QED BY <1>1, <2>2 DEF q, Becomes, SameResult
<1>8. CASE ~(~r.held \/ r.stopped) /\ ~KillIsDue(r) /\ r.kill_at = "nil"
  <2>1. q = [p EXCEPT !.eof = TRUE, !.refused = ~ok, !.kill_at = IF ok THEN "future" ELSE "nil"]
    BY <1>3, <1>8
  <2>2. Becomes(q, p) /\ SameResult(q, p) /\ Signalled(q)
    BY <1>6, <2>1, SentRecord
  <2> QED BY <1>1, <2>2 DEF q, Becomes, SameResult
<1> QED BY <1>4, <1>5, <1>7, <1>8

\* Ending a job, for a reason.
LEMMA TerminatingRecord ==
  ASSUME NEW r \in JobState, NEW reason \in Reasons, NEW ok \in BOOLEAN
  PROVE  LET q == Terminating(r, reason, ok) IN
         Becomes(q, r) /\ q.status = "terminating" /\ q.reason = reason
<1> DEFINE s == [r EXCEPT !.status = "terminating", !.reason = reason]
<1>1. Becomes(s, r) /\ s.status = "terminating" /\ s.reason = reason
  BY DEF JobState, Becomes, Reasons, Live
<1> HIDE DEF s
<1>2. s \in JobState
  BY <1>1 DEF Becomes
<1>3. Becomes(kill_execution(s, ok), s) /\ SameResult(kill_execution(s, ok), s)
  BY <1>2, KillRecord
<1>4. Terminating(r, reason, ok) = kill_execution(s, ok)
  BY DEF Terminating, s
<1> QED BY <1>1, <1>3, <1>4 DEF Becomes, SameResult

\* Reading the pipes of a job that has started.
LEMMA DrainRecord ==
  ASSUME NEW r \in JobState, r.status # "pending", NEW outcome \in Drains(r), NEW ok \in BOOLEAN
  PROVE  LET q == drain_execution(r, outcome, ok) IN Becomes(q, r) /\ q.status # "pending"
<1>1. outcome \in {"some", "eof", "output-limit", "io-error"}
  BY DEF Drains, JobState
<1>2. CASE r.status # "running" \/ outcome = "some"
  BY <1>2 DEF drain_execution, Becomes
<1>3. CASE r.status = "running" /\ outcome = "eof"
  BY <1>3 DEF drain_execution, Becomes, JobState
<1>4. CASE r.status = "running" /\ outcome \in {"output-limit", "io-error"}
  <2>1. outcome \in Reasons /\ drain_execution(r, outcome, ok) = Terminating(r, outcome, ok)
    BY <1>4 DEF drain_execution, Reasons
  <2> QED BY <2>1, TerminatingRecord
<1> QED BY <1>1, <1>2, <1>3, <1>4

\* The end of poll-execution releases a job only when it is over.
LEMMA FinishRecord ==
  ASSUME NEW r \in JobState, r.status # "pending", r.held, ~r.delivered, r.child # "none",
         NEW ok \in BOOLEAN
  PROVE  LET q == finish_execution(r, ok) IN
         /\ q \in JobState /\ q.identity = r.identity /\ ~q.delivered /\ q.child # "none"
         /\ q.status # "pending"
         /\ ~q.held => q.child = "reaped" /\ q.stopped /\ q.status \notin Live
<1>1. CASE ~Finishes(r)
  BY <1>1 DEF finish_execution
<1>2. CASE Finishes(r)
  <2> DEFINE s == [r EXCEPT !.status = IF r.reason = None THEN "exited" ELSE r.reason]
             o == kill_execution(s, ok)
             q == finish_execution(r, ok)
  <2>1. Becomes(s, r) /\ s.status \in {"exited"} \cup Reasons
    BY DEF JobState, Becomes, Reasons
  <2>2. Becomes(o, s) /\ SameResult(o, s)
    <3> HIDE DEF s
    <3>1. s \in JobState
      BY <2>1 DEF Becomes
    <3> QED BY <3>1, KillRecord
  <2>3. q = IF o.stopped THEN [o EXCEPT !.held = FALSE] ELSE o
    BY <1>2 DEF finish_execution, release_execution
  <2> HIDE DEF s, o, q
  <2>4. /\ o \in JobState /\ o.identity = r.identity /\ ~o.delivered /\ o.child = "reaped"
        /\ o.status \in {"exited"} \cup Reasons /\ o.held
    BY <1>2, <2>1, <2>2 DEF Becomes, SameResult, Finishes
  <2>5. o.status # "pending" /\ o.status \notin Live
    BY <2>4 DEF Live, Reasons
  <2>6. CASE o.stopped
    <3>1. q = [o EXCEPT !.held = FALSE]
      BY <2>3, <2>6
    <3>2. q \in JobState
      BY <2>4, <3>1 DEF JobState
    <3>3. /\ q.identity = o.identity /\ q.delivered = o.delivered /\ q.child = o.child
          /\ q.status = o.status /\ q.stopped = o.stopped
      BY <2>4, <3>1 DEF JobState
    <3> QED BY <2>4, <2>5, <2>6, <3>2, <3>3 DEF q
  <2>7. CASE ~o.stopped
    BY <2>3, <2>4, <2>5, <2>7 DEF q
  <2> QED BY <2>6, <2>7
<1> QED BY <1>1, <1>2

\* poll-execution of a job that has a process.
LEMMA PollExecutionRecord ==
  ASSUME NEW r \in JobState, r.status # "pending", r.held, ~r.delivered, r.child # "none",
         NEW outcome \in Drains(r), NEW ok \in BOOLEAN
  PROVE  LET q == poll_execution(r, outcome, ok) IN
         /\ q \in JobState /\ q.identity = r.identity /\ ~q.delivered /\ q.child # "none"
         /\ q.status # "pending"
         /\ ~q.held => q.child = "reaped" /\ q.stopped /\ q.status \notin Live
<1> DEFINE a == drain_execution(r, outcome, ok)
           b == IF a.status = "terminating" THEN kill_execution(a, ok) ELSE a
           c == exec_poll(b)
           d == IF TimesOut(c) THEN Terminating(c, "timeout", ok) ELSE c
<1>1. Becomes(a, r) /\ a.status # "pending"
  BY DrainRecord
<1>2. poll_execution(r, outcome, ok) = finish_execution(d, ok)
  BY DEF poll_execution
<1> HIDE DEF a
<1>3. Becomes(b, r) /\ b.status # "pending"
  <2>1. CASE a.status = "terminating"
    <3>1. a \in JobState
      BY <1>1 DEF Becomes
    <3>2. Becomes(kill_execution(a, ok), a) /\ SameResult(kill_execution(a, ok), a)
      BY <3>1, KillRecord
    <3> QED BY <1>1, <2>1, <3>2 DEF Becomes, SameResult
  <2>2. CASE a.status # "terminating"
    BY <1>1, <2>2
  <2> QED BY <2>1, <2>2
<1> HIDE DEF b
<1>4. Becomes(c, r) /\ c.status # "pending"
  <2>1. Becomes(c, b) /\ SameResult(c, b)
    BY <1>3, PollRecord DEF Becomes
  <2> HIDE DEF c
  <2> QED BY <1>3, <2>1 DEF Becomes, SameResult
<1> HIDE DEF c
<1>5. Becomes(d, r) /\ d.status # "pending"
  <2>1. CASE TimesOut(c)
    <3>1. c \in JobState /\ "timeout" \in Reasons
      BY <1>4 DEF Becomes, Reasons
    <3>2. /\ Becomes(Terminating(c, "timeout", ok), c)
          /\ Terminating(c, "timeout", ok).status = "terminating"
      BY <3>1, TerminatingRecord
    <3> QED BY <1>4, <2>1, <3>2 DEF Becomes
  <2>2. CASE ~TimesOut(c)
    BY <1>4, <2>2
  <2> QED BY <2>1, <2>2
<1> HIDE DEF d
<1>6. d \in JobState /\ d.held /\ ~d.delivered /\ d.child # "none" /\ d.identity = r.identity
  BY <1>5 DEF Becomes
<1> QED BY <1>2, <1>5, <1>6, FinishRecord

-----------------------------------------------------------------------------
(* Steps of one job. *)

LEMMA BecomesLeased ==
  ASSUME NEW r, NEW q, Leased(r), Becomes(q, r), SameResult(q, r)
  PROVE  Leased(q)
BY DEF Leased, Becomes, SameResult

\* A step that changes the job j alone, and may release it when it is retired,
\* keeps the invariant, if it starts j only when no job it replaces is left.
LEMMA OneKeeps ==
  ASSUME IInv, NEW j \in Jobs, NEW r \in JobState, NEW p \in {"new", "active", "retired", "gone"},
         job' = [job EXCEPT ![j] = r], place' = [place EXCEPT ![j] = p],
         r.identity = job[j].identity, Leased(r),
         p = "new" => r = NewJob(None),
         p = "retired" => r.held,
         p = "gone" => ~r.held,
         p = "active" /\ ~r.held /\ ~r.delivered => r.status = "pending",
         p = place[j] \/ (place[j] = "retired" /\ p = "gone" /\ j \notin reaping'),
         reaping' \in SUBSET reaping, UNCHANGED <<rounds, phase>>,
         p = "active" /\ r.held =>
           job[j].held \/ \A i \in In("retired") : job[i].identity # job[j].identity,
         phase # "run" /\ rounds = StopRounds /\ p = "retired" /\ Signalled(job[j]) => Signalled(r)
  PROVE  IInv'
<1>1. \A i \in Jobs : /\ job'[i] = IF i = j THEN r ELSE job[i]
                      /\ place'[i] = IF i = j THEN p ELSE place[i]
  BY DEF IInv, Types
<1>2. Types'
  BY <1>1 DEF IInv, Types, In
<1>3. \A i \in Jobs : Leased(job[i])' /\ Listed(i)'
  <2> SUFFICES ASSUME NEW i \in Jobs PROVE Leased(job'[i]) /\ Listed(i)'
    OBVIOUS
  <2>1. CASE i = j
    <3>1. job'[i] = r /\ place'[i] = p
      BY <1>1, <2>1
    <3>2. /\ p = "new" => job'[i] = NewJob(None)'
          /\ p = "retired" => job'[i].held
          /\ p = "gone" => ~job'[i].held
          /\ p = "active" /\ ~job'[i].held /\ ~job'[i].delivered => job'[i].status = "pending"
      BY <3>1
    <3> QED BY <3>1, <3>2 DEF Listed
  <2>2. CASE i # j
    <3>1. job'[i] = job[i] /\ place'[i] = place[i] /\ NewJob(None)' = NewJob(None)
      BY <1>1, <2>2
    <3>2. Leased(job[i]) /\ Listed(i)
      BY DEF IInv
    <3> QED BY <3>1, <3>2 DEF Listed
  <2> QED BY <2>1, <2>2
<1>4. Fences'
  <2> SUFFICES ASSUME NEW i \in Jobs, NEW k \in Jobs,
                      place'[k] = "active", job'[i].identity = job'[k].identity
               PROVE  /\ place'[i] = "active" => i = k
                      /\ place'[i] = "retired" => ~job'[k].held
    BY DEF Fences
  <2>1. place[k] = "active" /\ job[i].identity = job[k].identity
    BY <1>1
  <2>2. /\ place'[i] = "active" => place[i] = "active"
        /\ place'[i] = "retired" => place[i] = "retired"
    BY <1>1
  <2>3. job'[k].held => job[k].held \/ place[i] # "retired"
    BY <1>1, <2>1 DEF In
  <2> QED BY <2>1, <2>2, <2>3 DEF IInv, Fences
<1>5. Shut'
  BY <1>1 DEF IInv, Shut, In
<1> QED BY <1>2, <1>3, <1>4, <1>5 DEF IInv

\* The lives of the jobs, of a step that keeps what an extension can tell.
LEMMA OneLives ==
  ASSUME IInv, NEW j \in Jobs, NEW r \in JobState,
         job' = [job EXCEPT ![j] = r], place' = place,
         r.identity = job[j].identity, r.held = job[j].held, r.delivered = job[j].delivered
  PROVE  UNCHANGED Life!vars
<1>1. \A i \in Jobs : /\ job'[i].identity = job[i].identity
                      /\ job'[i].held = job[i].held /\ job'[i].delivered = job[i].delivered
  BY DEF IInv, Types
<1>2. stage' = stage
  BY <1>1 DEF stage, Stage
<1>3. [i \in Jobs |-> job[i].identity]' = [i \in Jobs |-> job[i].identity]
  BY <1>1
<1> QED BY <1>2, <1>3 DEF Life!vars

\* The kernel and the clock.
LEMMA EnvironmentKeeps ==
  ASSUME IInv, Environment
  PROVE  IInv' /\ UNCHANGED Life!vars
<1>1. PICK j \in Jobs : \/ LeaderExits(j) \/ Forks(j) \/ KinExits(j)
                        \/ DeadlinePasses(j) \/ SecondPasses(j)
  BY DEF Environment
<1> DEFINE r == job[j]
           q == job'[j]
<1>2. r \in JobState /\ Leased(r) /\ Listed(j) /\ place[j] \in {"new", "active", "retired", "gone"}
  BY DEF IInv, Types
<1>3. /\ place' = place /\ UNCHANGED <<reaping, rounds, phase>>
      /\ Becomes(q, r) /\ SameResult(q, r) /\ job' = [job EXCEPT ![j] = q]
      /\ place[j] # "new"
      /\ phase # "run" /\ rounds = StopRounds /\ Signalled(r) => Signalled(q)
  <2> job \in [Jobs -> JobState]
    BY DEF IInv, Types
  <2>1. CASE LeaderExits(j)
    <3>1. r.child = "alive" /\ Kernel(j, Exited(r))
      BY <2>1 DEF LeaderExits
    <3>2. q = [r EXCEPT !.child = "zombie"]
      BY <3>1 DEF Kernel, Exited
    <3>3. Becomes(q, r) /\ SameResult(q, r) /\ (Signalled(r) => Signalled(q))
      BY <1>2, <3>1, <3>2 DEF JobState, Becomes, SameResult, Signalled
    <3>4. place[j] # "new"
      BY <1>2, <3>1 DEF Listed, NewJob
    <3> QED BY <3>1, <3>3, <3>4 DEF Kernel
  <2>2. CASE Forks(j)
    <3>1. r.child = "alive" /\ Kernel(j, Forked(r))
      BY <2>2 DEF Forks, MayFork
    <3>2. q = [r EXCEPT !.kin = TRUE]
      BY <3>1 DEF Kernel, Forked
    <3>3. Becomes(q, r) /\ SameResult(q, r) /\ (Signalled(r) => Signalled(q))
      BY <1>2, <3>2 DEF JobState, Becomes, SameResult, Signalled
    <3>4. place[j] # "new"
      BY <1>2, <3>1 DEF Listed, NewJob
    <3> QED BY <3>1, <3>3, <3>4 DEF Kernel
  <2>3. CASE KinExits(j)
    <3>1. r.kin /\ Kernel(j, Orphaned(r))
      BY <2>3 DEF KinExits
    <3>2. q = [r EXCEPT !.kin = FALSE]
      BY <3>1 DEF Kernel, Orphaned
    <3>3. Becomes(q, r) /\ SameResult(q, r) /\ (Signalled(r) => Signalled(q))
      BY <1>2, <3>2 DEF JobState, Becomes, SameResult, Signalled
    <3>4. place[j] # "new"
      BY <1>2, <3>1 DEF Listed, NewJob
    <3> QED BY <3>1, <3>3, <3>4 DEF Kernel
  <2>4. CASE DeadlinePasses(j)
    <3>1. r.held /\ Kernel(j, [r EXCEPT !.deadline = "past"])
      BY <2>4 DEF DeadlinePasses
    <3>2. q = [r EXCEPT !.deadline = "past"]
      BY <3>1 DEF Kernel
    <3>3. Becomes(q, r) /\ SameResult(q, r) /\ (Signalled(r) => Signalled(q))
      BY <1>2, <3>2 DEF JobState, Becomes, SameResult, Signalled
    <3>4. place[j] # "new"
      BY <1>2, <3>1 DEF Listed, NewJob
    <3> QED BY <3>1, <3>3, <3>4 DEF Kernel
  <2>5. CASE SecondPasses(j)
    <3>1. /\ r.held /\ Kernel(j, [r EXCEPT !.kill_at = "past"])
          /\ phase = "run" \/ rounds # StopRounds
      BY <2>5, ExecutionAssumption DEF SecondPasses, IInv, Types
    <3>2. q = [r EXCEPT !.kill_at = "past"]
      BY <3>1 DEF Kernel
    <3>3. Becomes(q, r) /\ SameResult(q, r)
      BY <1>2, <3>2 DEF JobState, Becomes, SameResult
    <3>4. place[j] # "new"
      BY <1>2, <3>1 DEF Listed, NewJob
    <3> QED BY <3>1, <3>3, <3>4 DEF Kernel
  <2> QED BY <1>1, <2>1, <2>2, <2>3, <2>4, <2>5
<1> HIDE DEF q
<1>4. q \in JobState /\ q.identity = r.identity /\ q.held = r.held /\ q.delivered = r.delivered /\ q.status = r.status
  BY <1>3 DEF Becomes, SameResult
<1>5. Leased(q)
  BY <1>2, <1>3, BecomesLeased
<1>6. place' = [place EXCEPT ![j] = place[j]]
  BY <1>3 DEF IInv, Types
<1>7. IInv'
  BY <1>2, <1>3, <1>4, <1>5, <1>6, OneKeeps DEF Listed
<1>8. UNCHANGED Life!vars
  BY <1>3, <1>4, OneLives
<1> QED BY <1>7, <1>8

-----------------------------------------------------------------------------
(* One turn of reap-executions and of service-executions. *)

\* The lives, of a step that changes what an extension can tell of one job.
LEMMA StageOf ==
  ASSUME IInv, NEW j \in Jobs, NEW r \in JobState, NEW p \in {"new", "active", "retired", "gone"},
         job' = [job EXCEPT ![j] = r], place' = [place EXCEPT ![j] = p],
         r.identity = job[j].identity
  PROVE  /\ stage' = [stage EXCEPT ![j] = stage'[j]]
         /\ UNCHANGED [i \in Jobs |-> job[i].identity]
<1>1. \A i \in Jobs : /\ job'[i] = IF i = j THEN r ELSE job[i]
                      /\ place'[i] = IF i = j THEN p ELSE place[i]
  BY DEF IInv, Types
<1>2. \A i \in Jobs \ {j} : stage'[i] = stage[i]
  BY <1>1 DEF stage
<1>3. stage' = [i \in Jobs |-> stage'[i]] /\ stage = [i \in Jobs |-> stage[i]]
  BY DEF stage
<1>4. stage' = [stage EXCEPT ![j] = stage'[j]]
  BY <1>2, <1>3
<1> QED BY <1>1, <1>4

\* A retired job is released when it is over.
LEMMA ReapKeeps ==
  ASSUME IInv, Reap
  PROVE  IInv' /\ [Life!Next]_Life!vars
<1>1. PICK j \in reaping, ok \in StopResults : reap_execution(j, ok) /\ reaping' = reaping \ {j}
  BY DEF Reap
<1> DEFINE a == kill_execution(job[j], ok)
           r == exec_poll(a)
           over == r.child = "reaped" /\ r.stopped
           q == IF over THEN release_execution(r) ELSE r
           p == IF over THEN "gone" ELSE "retired"
<1>2. /\ j \in Jobs /\ place[j] = "retired" /\ ok \in BOOLEAN
      /\ job[j] \in JobState /\ job[j].held /\ Leased(job[j])
  BY DEF IInv, Types, In, Listed, StopResults
<1>3. Becomes(r, job[j]) /\ SameResult(r, job[j])
  <2>1. Becomes(a, job[j]) /\ SameResult(a, job[j])
    BY <1>2, KillRecord
  <2> HIDE DEF a
  <2>2. a \in JobState
    BY <2>1 DEF Becomes
  <2>3. Becomes(r, a) /\ SameResult(r, a)
    BY <2>2, PollRecord
  <2> HIDE DEF r
  <2> QED BY <2>1, <2>3 DEF Becomes, SameResult
<1>4. /\ job' = [job EXCEPT ![j] = q] /\ place' = [place EXCEPT ![j] = p]
      /\ phase = "run" /\ UNCHANGED <<rounds, phase>>
  BY <1>1 DEF Reap, reap_execution
<1> HIDE DEF r
<1>5. /\ q \in JobState /\ q.identity = job[j].identity /\ ~q.delivered /\ q.status = r.status
      /\ q.child = r.child /\ q.stopped = r.stopped /\ q.held = ~over
  <2>1. r \in JobState /\ r.held /\ ~r.delivered /\ r.identity = job[j].identity
    BY <1>2, <1>3 DEF Becomes, Leased
  <2>2. CASE over
    <3>1. q = [r EXCEPT !.held = FALSE]
      BY <2>2 DEF release_execution
    <3> QED BY <2>1, <2>2, <3>1 DEF JobState
  <2>3. CASE ~over
    BY <2>1, <2>3
  <2> QED BY <2>2, <2>3
<1> HIDE DEF q
<1>6. Leased(q)
  BY <1>2, <1>3, <1>5 DEF Leased, Becomes, SameResult
<1>7. p \in {"new", "active", "retired", "gone"} /\ p # "new" /\ p # "active" /\ (p = "gone" <=> over)
  OBVIOUS
<1> HIDE DEF over, p
<1>8. IInv'
  <2>1. p = "retired" => q.held
    BY <1>5, <1>7
  <2>2. p = "gone" => ~q.held
    BY <1>5, <1>7
  <2>3. p = place[j] \/ (place[j] = "retired" /\ p = "gone" /\ j \notin reaping')
    BY <1>1, <1>2, <1>7
  <2> QED BY <1>1, <1>2, <1>4, <1>5, <1>6, <1>7, <2>1, <2>2, <2>3, OneKeeps
<1>9. [Life!Next]_Life!vars
  <2>1. /\ stage' = [stage EXCEPT ![j] = stage'[j]] /\ UNCHANGED [i \in Jobs |-> job[i].identity]
        /\ stage = [i \in Jobs |-> stage[i]]
    BY <1>2, <1>4, <1>5, <1>7, StageOf DEF stage
  <2>2. stage[j] = "withdrawn" /\ stage'[j] = Stage(p, job'[j])
    BY <1>2, <1>4 DEF stage, Stage, IInv, Types
  <2>3. CASE over
    <3>1. stage'[j] = "gone"
      BY <1>7, <2>2, <2>3 DEF Stage
    <3>2. stage' = [i \in Jobs |-> IF i \in {j} THEN "gone" ELSE stage[i]]
      BY <2>1, <3>1
    <3>3. Life!Release({j})
      BY <1>2, <2>1, <2>2, <3>2 DEF Life!Release
    <3> QED BY <1>2, <3>3 DEF Life!Next
  <2>4. CASE ~over
    <3>1. p = "retired"
      BY <1>7, <2>4 DEF p, over
    <3>2. stage'[j] = stage[j]
      BY <2>2, <3>1 DEF Stage
    <3> QED BY <2>1, <3>2 DEF Life!vars
  <2> QED BY <2>3, <2>4
<1> QED BY <1>8, <1>9

\* deliver-execution, of what can be delivered.
Told(r) == [r EXCEPT !.delivered = Deliverable(r)]

\* What poll-execution may make of a declared job.  It is started, or told, only
\* when no job it replaces is left.
LEMMA PolledRecord ==
  ASSUME IInv, NEW j \in Jobs, place[j] = "active", NEW r \in Polled(j), NEW q, q = Told(r)
  PROVE
         /\ q \in JobState /\ q.identity = job[j].identity /\ Leased(q)
         /\ ~q.held /\ ~q.delivered => q.status = "pending"
         /\ \/ q.held = job[j].held /\ q.delivered = job[j].delivered
            \/ /\ ~job[j].delivered /\ (q.held <=> ~q.delivered)
               /\ \A i \in In("retired") : job[i].identity # job[j].identity
<1> DEFINE o == job[j]
           Alone == \A i \in In("retired") : job[i].identity # job[j].identity
<1>1. o \in JobState /\ Leased(o) /\ (~o.held /\ ~o.delivered => o.status = "pending")
  BY DEF IInv, Types, Listed
<1>2. ASSUME r \in JobState
      PROVE  /\ q \in JobState /\ q.identity = r.identity /\ q.held = r.held /\ q.status = r.status
             /\ q.child = r.child /\ q.stopped = r.stopped /\ q.delivered = Deliverable(r)
  <2>1. Deliverable(r) \in BOOLEAN
    BY DEF Deliverable
  <2> HIDE DEF Deliverable
  <2> QED BY <1>2, <2>1 DEF Told, JobState
<1>3. CASE r = o
  <2>1. Deliverable(o) = o.delivered
    BY <1>1 DEF Deliverable, IsTerminal, Leased, Live, JobState
  <2> QED BY <1>1, <1>2, <1>3, <2>1 DEF Leased
<1>4. ASSUME NEW s \in JobState, s.identity = o.identity, s.held, ~s.delivered, s.status # "pending",
             s.child # "none", ~o.delivered, Alone,
             r \in {poll_execution(s, out, ok) : out \in Drains(s), ok \in StopResults}
      PROVE  /\ q \in JobState /\ q.identity = o.identity /\ Leased(q)
             /\ ~q.held /\ ~q.delivered => q.status = "pending"
             /\ ~o.delivered /\ (q.held <=> ~q.delivered) /\ Alone
  <2>1. PICK out \in Drains(s), ok \in StopResults : r = poll_execution(s, out, ok)
    BY <1>4
  <2>2. ok \in BOOLEAN
    BY DEF StopResults
  <2>3. /\ r \in JobState /\ r.identity = s.identity /\ ~r.delivered /\ r.child # "none"
        /\ r.status # "pending"
        /\ ~r.held => r.child = "reaped" /\ r.stopped /\ r.status \notin Live
    BY <1>4, <2>1, <2>2, PollExecutionRecord
  <2>4. r.held \in BOOLEAN
    BY <2>3 DEF JobState
  <2>5. Deliverable(r) <=> ~r.held
    BY <2>3, <2>4 DEF Deliverable, IsTerminal
  <2>6. /\ q \in JobState /\ q.identity = o.identity /\ q.held = r.held /\ q.status = r.status
        /\ q.child = r.child /\ q.stopped = r.stopped /\ q.delivered = Deliverable(r)
    BY <1>2, <1>4, <2>3
  <2>7. Leased(q)
    BY <2>3, <2>5, <2>6 DEF Leased
  <2>8. q.held <=> ~q.delivered
    BY <2>5, <2>6
  <2> QED BY <1>4, <2>6, <2>7, <2>8
<1>5. CASE ~Fenced(j) /\ o.status = "pending"
  <2>1. Alone /\ ~o.held /\ ~o.delivered
    BY <1>1, <1>5 DEF Fenced, Leased, Live
  <2>2. PICK s \in {start_execution(o, out) : out \in {"error", "alive", "zombie"}} :
          r \in IF s.held THEN {poll_execution(s, out, ok) : out \in Drains(s), ok \in StopResults}
                ELSE {s}
    BY <1>5 DEF Polled
  <2>3. PICK out \in {"error", "alive", "zombie"} : s = start_execution(o, out)
    BY <2>2
  <2>4. CASE out = "error"
    <3>1. s = [o EXCEPT !.status = "spawn-error"]
      BY <2>3, <2>4 DEF start_execution
    <3>2. /\ s \in JobState /\ ~s.held /\ s.identity = o.identity /\ s.child = "none"
          /\ s.status = "spawn-error"
      BY <1>1, <1>5, <2>1, <3>1 DEF JobState, Leased
    <3>3. r = s /\ Deliverable(r) = TRUE
      BY <2>2, <3>2 DEF Deliverable, IsTerminal, Live
    <3>4. /\ q \in JobState /\ q.identity = o.identity /\ ~q.held /\ q.child = "none"
          /\ q.status = "spawn-error" /\ q.delivered
      BY <1>2, <3>2, <3>3
    <3> QED BY <2>1, <3>4 DEF Leased, Live
  <2>5. CASE out # "error"
    <3>1. s = [o EXCEPT !.held = TRUE, !.child = out, !.status = "running", !.deadline = "future"]
      BY <2>3, <2>5 DEF start_execution
    <3>2. s \in JobState
      BY <1>1, <2>3, <2>5, <3>1 DEF JobState, Live
    <3>3. /\ s.identity = o.identity /\ s.held /\ ~s.delivered /\ s.status # "pending"
          /\ s.child # "none"
      BY <1>1, <2>1, <2>5, <3>1 DEF JobState
    <3> QED BY <1>4, <2>1, <2>2, <3>2, <3>3
  <2> QED BY <2>4, <2>5
<1>6. CASE ~Fenced(j) /\ o.status # "pending" /\ o.held
  <2>1. r \in {poll_execution(o, out, ok) : out \in Drains(o), ok \in StopResults}
    BY <1>6 DEF Polled
  <2>2. Alone
    BY <1>6 DEF IInv, Fences, In
  <2>3. ~o.delivered /\ o.child # "none"
    BY <1>1, <1>6 DEF Leased
  <2> HIDE DEF o, Alone
  <2>4. /\ q \in JobState /\ q.identity = o.identity /\ Leased(q)
        /\ ~q.held /\ ~q.delivered => q.status = "pending"
        /\ ~o.delivered /\ (q.held <=> ~q.delivered) /\ Alone
    BY <1>1, <1>4, <1>6, <2>1, <2>2, <2>3
  <2> QED BY <2>4 DEF o, Alone
<1>7. CASE Fenced(j) \/ (o.status # "pending" /\ ~o.held)
  <2>1. r = o
    BY <1>7 DEF Polled
  <2> QED BY <1>3, <2>1
<1> QED BY <1>5, <1>6, <1>7

\* A step that touches no job.
LEMMA QuietKeeps ==
  ASSUME IInv, UNCHANGED <<place, job, rounds, phase>>, reaping' \in SUBSET In("retired"),
         phase # "run" => reaping' = {}
  PROVE  IInv' /\ UNCHANGED Life!vars
<1>1. stage' = stage /\ UNCHANGED [j \in Jobs |-> job[j].identity]
  BY DEF stage
<1>2. NewJob(None)' = NewJob(None)
  OBVIOUS
<1> QED BY <1>1, <1>2 DEF Life!vars, IInv, Types, Listed, Fences, Shut, In

\* A declared job is polled, and told when it is over.
LEMMA ServiceKeeps ==
  ASSUME IInv, Service
  PROVE  IInv' /\ [Life!Next]_Life!vars
<1> DEFINE j == Head(pass)
<1>1. UNCHANGED <<place, reaping, rounds, phase>> /\ phase = "run" /\ reaping = {}
  BY DEF Service
<1>2. CASE place[j] # "active" \/ j \notin Jobs
  <2>1. job' = job
    <3>1. CASE place[j] # "active"
      BY <3>1 DEF Service
    <3>2. CASE place[j] = "active" /\ j \notin Jobs
      <4>1. PICK r : job' = [job EXCEPT ![j] = r]
        BY <3>2 DEF Service
      <4>2. job = [i \in Jobs |-> job[i]]
        BY DEF IInv, Types
      <4> HIDE DEF j
      <4> QED BY <3>2, <4>1, <4>2
    <3> QED BY <1>2, <3>1, <3>2
  <2> QED BY <1>1, <2>1, QuietKeeps
<1>3. CASE place[j] = "active" /\ j \in Jobs
  <2>1. PICK r \in Polled(j) : job' = [job EXCEPT ![j] = Told(r)]
    BY <1>3 DEF Service, Told
  <2> DEFINE q == Told(r)
             o == job[j]
  <2>2. /\ q \in JobState /\ q.identity = o.identity /\ Leased(q)
        /\ ~q.held /\ ~q.delivered => q.status = "pending"
        /\ \/ q.held = o.held /\ q.delivered = o.delivered
           \/ /\ ~o.delivered /\ (q.held <=> ~q.delivered)
              /\ \A i \in In("retired") : job[i].identity # o.identity
    BY <1>3, PolledRecord
  <2> HIDE DEF j, q
  <2>3. job' = [job EXCEPT ![j] = q] /\ place' = [place EXCEPT ![j] = "active"]
    BY <1>1, <1>3, <2>1 DEF IInv, Types, q
  <2>4. IInv'
    <3>1. q.held => o.held \/ \A i \in In("retired") : job[i].identity # job[j].identity
      BY <2>2
    <3> QED BY <1>1, <1>3, <2>2, <2>3, <3>1, OneKeeps
  <2>5. CASE q.held = o.held /\ q.delivered = o.delivered
    BY <1>1, <1>3, <2>2, <2>3, <2>4, <2>5, OneLives
  <2>6. CASE /\ ~o.delivered /\ (q.held <=> ~q.delivered)
             /\ \A i \in In("retired") : job[i].identity # o.identity
    <3>1. /\ stage' = [stage EXCEPT ![j] = stage'[j]]
          /\ UNCHANGED [i \in Jobs |-> job[i].identity]
      BY <1>3, <2>2, <2>3, StageOf
    <3>2. stage[j] = IF o.held THEN "running" ELSE "declared"
      BY <1>3, <2>6 DEF stage, Stage
    <3>3. stage'[j] = IF q.delivered THEN "told" ELSE "running"
      <4>1. job'[j] = q /\ place'[j] = "active"
        BY <1>3, <2>3 DEF IInv, Types
      <4> QED BY <1>3, <2>6, <4>1 DEF stage, Stage
    <3>4. Life!Free(j)
      <4> SUFFICES ASSUME NEW i \in Jobs, Life!Occupies(i), job[i].identity = o.identity
                   PROVE  i = j
        BY <1>3 DEF Life!Free
      <4>1. stage[i] \in {"running", "withdrawn"}
        BY DEF Life!Occupies
      <4>2. place[i] \in {"active", "retired"}
        BY <4>1 DEF stage, Stage, IInv, Types
      <4>3. place[i] # "retired"
        BY <2>6 DEF In
      <4> QED BY <1>3, <4>2, <4>3 DEF IInv, Fences
    <3>5. CASE q.delivered
      <4>1. Life!Tell(j)
        BY <3>1, <3>2, <3>3, <3>4, <3>5 DEF Life!Tell
      <4> QED BY <1>3, <2>4, <4>1 DEF Life!Next
    <3>6. CASE ~q.delivered /\ ~o.held
      <4>1. Life!Start(j)
        BY <3>1, <3>2, <3>3, <3>4, <3>6 DEF Life!Start
      <4> QED BY <1>3, <2>4, <4>1 DEF Life!Next
    <3>7. CASE ~q.delivered /\ o.held
      <4>1. stage' = stage
        BY <3>1, <3>2, <3>3, <3>7 DEF stage
      <4> QED BY <2>4, <3>1, <4>1 DEF Life!vars
    <3> QED BY <3>5, <3>6, <3>7
  <2> QED BY <2>2, <2>5, <2>6
<1> QED BY <1>2, <1>3

-----------------------------------------------------------------------------
(* Steps that replace declarations. *)

\* A job that is retired.
LEMMA RetireRecord ==
  ASSUME NEW r \in JobState, Leased(r), r.held, NEW ok \in BOOLEAN
  PROVE  LET q == retire_execution(r, ok) IN
         q \in JobState /\ q.identity = r.identity /\ q.held /\ Leased(q)
<1> DEFINE s == [r EXCEPT !.status = "cancelled"]
<1>1. /\ s \in JobState /\ s.identity = r.identity /\ s.held = r.held /\ s.delivered = r.delivered
      /\ s.child = r.child /\ s.stopped = r.stopped /\ s.status = "cancelled"
  BY DEF JobState
<1> HIDE DEF s
<1>2. Becomes(kill_execution(s, ok), s) /\ SameResult(kill_execution(s, ok), s)
  BY <1>1, KillRecord
<1>3. retire_execution(r, ok) = kill_execution(s, ok)
  BY DEF retire_execution, s
<1>4. Leased(s)
  BY <1>1 DEF Leased
<1> QED BY <1>1, <1>2, <1>3, <1>4, BecomesLeased DEF Becomes

Dropped(keep)  == In("active") \ keep
Retiring(keep) == {j \in Dropped(keep) : job[j].held}

\* What a step that keeps some declared jobs and declares new ones makes of j.
Replaces(keep, fresh, of, ok, j) ==
  /\ place'[j] = CASE j \in keep \cup fresh           -> "active"
                   [] j \in Retiring(keep)            -> "retired"
                   [] j \in Dropped(keep) \ Retiring(keep) -> "gone"
                   [] OTHER                           -> place[j]
  /\ job'[j] = CASE j \in fresh          -> NewJob(of[j])
                 [] j \in Retiring(keep) -> retire_execution(job[j], ok)
                 [] OTHER                -> job[j]

\* Such a step keeps the invariant, and is a Redeclare of the lives.
LEMMA ReplaceKeeps ==
  ASSUME IInv, NEW keep \in SUBSET In("active"), NEW fresh \in SUBSET In("new"), NEW ok \in BOOLEAN,
         NEW of \in [fresh -> Identities],
         \A i, j \in fresh : i # j => of[i] # of[j],
         \A i \in fresh, j \in keep : of[i] # job[j].identity,
         place' = [j \in Jobs |-> place'[j]], job' = [j \in Jobs |-> job'[j]],
         \A j \in Jobs : Replaces(keep, fresh, of, ok, j),
         reaping = {}, reaping' = {}, rounds' = rounds, phase' \in {"run", "stopping"}
  PROVE  /\ Types' /\ (\A j \in Jobs : Leased(job[j])' /\ Listed(j)') /\ Fences'
         /\ Life!Redeclare(Dropped(keep), fresh)
<1>1. ASSUME NEW j \in Jobs
      PROVE  /\ place'[j] \in {"new", "active", "retired", "gone"} /\ job'[j] \in JobState
             /\ Leased(job'[j]) /\ Listed(j)'
             /\ place'[j] = "active" <=> j \in keep \cup fresh
             /\ j \in fresh => job'[j] = NewJob(of[j])
             /\ j \notin fresh => job'[j].identity = job[j].identity
             /\ j \in keep => job'[j] = job[j]
             /\ place'[j] = "retired" => j \notin fresh /\ (place[j] = "retired" \/ j \in Retiring(keep))
             /\ stage'[j] = IF j \in fresh THEN "declared"
                            ELSE IF j \in Dropped(keep) THEN Life!Withdrawn(stage[j]) ELSE stage[j]
  <2>1. /\ job[j] \in JobState /\ Leased(job[j]) /\ Listed(j) /\ Replaces(keep, fresh, of, ok, j)
        /\ place[j] \in {"new", "active", "retired", "gone"}
        /\ stage[j] = Stage(place[j], job[j]) /\ stage'[j] = Stage(place'[j], job'[j])
    BY DEF IInv, Types, stage
  <2>2. CASE j \in fresh
    <3> j \in fresh /\ Replaces(keep, fresh, of, ok, j)
      BY <2>1, <2>2
    <3>1. place'[j] = "active" /\ j \notin keep
      <4>1. place[j] = "new" /\ j \notin keep
        BY DEF In
      <4>2. place'[j] = CASE j \in keep \cup fresh           -> "active"
                          [] j \in Retiring(keep)            -> "retired"
                          [] j \in Dropped(keep) \ Retiring(keep) -> "gone"
                          [] OTHER                           -> place[j]
        BY DEF Replaces
      <4>3. j \notin Dropped(keep) /\ j \notin Retiring(keep) /\ j \in keep \cup fresh
        BY <4>1 DEF Dropped, Retiring, In
      <4> QED BY <4>1, <4>2, <4>3
    <3>2. job'[j] = NewJob(of[j])
      <4>1. j \notin Retiring(keep)
        BY DEF Dropped, Retiring, In
      <4>2. job'[j] = CASE j \in fresh          -> NewJob(of[j])
                        [] j \in Retiring(keep) -> retire_execution(job[j], ok)
                        [] OTHER                -> job[j]
        BY DEF Replaces
      <4> QED BY <4>1, <4>2
    <3>3. /\ NewJob(of[j]) \in JobState /\ NewJob(of[j]).status = "pending"
          /\ ~NewJob(of[j]).held /\ ~NewJob(of[j]).delivered /\ NewJob(of[j]).child = "none"
      BY <2>2 DEF NewJob, JobState, Live
    <3> QED BY <2>1, <2>2, <3>1, <3>2, <3>3 DEF Leased, Listed, Stage, Live
  <2>3. CASE j \in keep
    <3>1. /\ place[j] = "active" /\ j \notin fresh /\ j \notin Dropped(keep)
          /\ place'[j] = "active" /\ job'[j] = job[j]
      BY <2>1, <2>3 DEF Replaces, In, Dropped, Retiring
    <3> QED BY <2>1, <2>3, <3>1 DEF Listed
  <2>4. CASE j \in Retiring(keep)
    <3>1. /\ place[j] = "active" /\ j \notin fresh /\ j \notin keep /\ j \in Dropped(keep)
          /\ job[j].held
          /\ place'[j] = "retired" /\ job'[j] = retire_execution(job[j], ok)
      BY <2>1, <2>4 DEF Replaces, In, Dropped, Retiring
    <3>2. /\ job'[j] \in JobState /\ job'[j].identity = job[j].identity /\ job'[j].held
          /\ Leased(job'[j])
      BY <2>1, <3>1, RetireRecord
    <3>3. stage[j] = "running" /\ stage'[j] = "withdrawn"
      BY <2>1, <3>1 DEF Stage, Leased
    <3> QED BY <2>4, <3>1, <3>2, <3>3 DEF Listed, Life!Withdrawn
  <2>5. CASE j \in Dropped(keep) \ Retiring(keep)
    <3>1. /\ place[j] = "active" /\ j \notin fresh /\ j \notin keep /\ ~job[j].held
          /\ place'[j] = "gone" /\ job'[j] = job[j]
      BY <2>1, <2>5 DEF Replaces, In, Dropped, Retiring
    <3>2. stage[j] \in {"declared", "told"} /\ stage'[j] = "gone"
      BY <2>1, <3>1 DEF Stage
    <3> QED BY <2>1, <2>5, <3>1, <3>2 DEF Listed, Life!Withdrawn
  <2>6. CASE j \notin keep \cup fresh \cup Dropped(keep)
    <3>1. /\ place[j] # "active" /\ place'[j] = place[j] /\ job'[j] = job[j]
          /\ j \notin Retiring(keep)
      BY <2>1, <2>6 DEF Replaces, In, Dropped, Retiring
    <3> QED BY <2>1, <2>6, <3>1 DEF Listed
  <2> QED BY <2>2, <2>3, <2>4, <2>5, <2>6
<1>2. Types'
  BY <1>1 DEF IInv, Types
<1>3. Fences'
  <2> SUFFICES ASSUME NEW i \in Jobs, NEW k \in Jobs,
                      place'[k] = "active", job'[i].identity = job'[k].identity
               PROVE  /\ place'[i] = "active" => i = k
                      /\ place'[i] = "retired" => ~job'[k].held
    BY DEF Fences
  <2>1. k \in keep \cup fresh
    BY <1>1
  <2>2. \A j \in fresh : job'[j].identity = of[j] /\ ~job'[j].held
    BY <1>1 DEF NewJob, In
  <2>3. CASE place'[i] = "active"
    <3>1. i \in keep \cup fresh
      BY <1>1, <2>3
    <3>2. i \in keep /\ k \in keep => i = k
      BY <1>1 DEF IInv, Fences, In
    <3> QED BY <1>1, <2>1, <2>2, <2>3, <3>1, <3>2
  <2>4. CASE place'[i] = "retired"
    <3>1. k \in keep => ~job[k].held
      <4> SUFFICES ASSUME k \in keep PROVE ~job[k].held
        OBVIOUS
      <4>1. place[k] = "active" /\ job[i].identity = job[k].identity
        BY <1>1, <2>4 DEF In
      <4>2. i # k /\ place[i] \in {"active", "retired"}
        BY <1>1, <2>4 DEF Retiring, Dropped, In
      <4> QED BY <4>1, <4>2 DEF IInv, Fences
    <3> QED BY <1>1, <2>1, <2>2, <2>4, <3>1
  <2> QED BY <2>3, <2>4
<1>4. Life!Redeclare(Dropped(keep), fresh)
  <2>1. \A j \in fresh : stage[j] = "none"
    BY DEF stage, Stage, In
  <2>2. \A j \in Dropped(keep) : stage[j] \in {"declared", "running", "told"}
    BY DEF stage, Stage, In, Dropped
  <2>3. stage' = [j \in Jobs |-> CASE j \in fresh         -> "declared"
                                   [] j \in Dropped(keep) -> Life!Withdrawn(stage[j])
                                   [] OTHER               -> stage[j]]
    <3>1. fresh \cap Dropped(keep) = {}
      BY DEF Dropped, In
    <3>2. stage' = [j \in Jobs |-> stage'[j]]
      BY DEF stage
    <3>3. \A j \in Jobs : stage'[j] = CASE j \in fresh     -> "declared"
                                   [] j \in Dropped(keep) -> Life!Withdrawn(stage[j])
                                   [] OTHER               -> stage[j]
      BY <1>1, <3>1
    <3> HIDE DEF stage
    <3> QED BY <3>2, <3>3
  <2>4. [j \in Jobs |-> job[j].identity]' =
          [j \in Jobs |-> IF j \in fresh THEN of[j] ELSE [i \in Jobs |-> job[i].identity][j]]
    BY <1>1 DEF NewJob
  <2> QED BY <2>1, <2>2, <2>3, <2>4 DEF Life!Redeclare
<1> QED BY <1>1, <1>2, <1>3, <1>4

\* A commit installs the declared jobs.
LEMMA TransactKeeps ==
  ASSUME IInv, Transact
  PROVE  IInv' /\ [Life!Next]_Life!vars
<1>1. PICK keep \in SUBSET In("active"), fresh \in SUBSET In("new"), ok \in StopResults :
        install_executions(keep, fresh, ok)
  BY DEF Transact
<1> DEFINE retiring == {j \in In("active") \ keep : job[j].held}
<1>2. PICK of \in [fresh -> Identities] :
        /\ \A j, k \in fresh : j # k => of[j] # of[k]
        /\ \A j \in fresh, k \in keep : of[j] # job[k].identity
        /\ job' = [j \in Jobs |-> CASE j \in fresh -> NewJob(of[j])
                                    [] j \in retiring -> retire_execution(job[j], ok)
                                    [] OTHER -> job[j]]
  BY <1>1 DEF install_executions
<1>3. place' = [j \in Jobs |-> CASE j \in keep \cup fresh -> "active"
                                 [] j \in retiring -> "retired"
                                 [] place[j] = "active" /\ j \notin keep \cup retiring -> "gone"
                                 [] OTHER -> place[j]]
  BY <1>1 DEF install_executions
<1>4. retiring = Retiring(keep) /\ ok \in BOOLEAN
  BY DEF Retiring, Dropped, StopResults
<1> HIDE DEF retiring
<1>5. ASSUME NEW j \in Jobs PROVE Replaces(keep, fresh, of, ok, j)
  <2>1. j \in Dropped(keep) \ Retiring(keep) <=> place[j] = "active" /\ j \notin keep \cup retiring
    BY <1>4 DEF Dropped, In
  <2>2. place'[j] = CASE j \in keep \cup fresh -> "active"
                      [] j \in Retiring(keep) -> "retired"
                      [] j \in Dropped(keep) \ Retiring(keep) -> "gone"
                      [] OTHER -> place[j]
    BY <1>3, <1>4, <2>1
  <2>3. job'[j] = CASE j \in fresh -> NewJob(of[j])
                    [] j \in Retiring(keep) -> retire_execution(job[j], ok)
                    [] OTHER -> job[j]
    BY <1>2, <1>4
  <2> QED BY <2>2, <2>3 DEF Replaces
<1>6. place' = [j \in Jobs |-> place'[j]] /\ job' = [j \in Jobs |-> job'[j]]
  BY <1>2, <1>3
<1>7. phase = "run" /\ reaping = {} /\ UNCHANGED <<reaping, rounds, phase>>
  BY DEF Transact
<1>8. /\ Types' /\ (\A j \in Jobs : Leased(job[j])' /\ Listed(j)') /\ Fences'
      /\ Life!Redeclare(Dropped(keep), fresh)
  BY <1>2, <1>4, <1>5, <1>6, <1>7, ReplaceKeeps DEF IInv, Shut
<1>9. Shut'
  BY <1>7 DEF IInv, Shut
<1>10. Dropped(keep) \in SUBSET Jobs /\ fresh \in SUBSET Jobs
  BY DEF Dropped, In
<1> QED BY <1>8, <1>9, <1>10 DEF IInv, Life!Next

\* Shutdown retires every declared job.
LEMMA StopKeeps ==
  ASSUME IInv, Stop
  PROVE  IInv' /\ [Life!Next]_Life!vars
<1>1. PICK ok \in StopResults :
        job' = [j \in Jobs |-> IF place[j] = "active" /\ job[j].held
                               THEN retire_execution(job[j], ok) ELSE job[j]]
  BY DEF Stop
<1>2. /\ place' = [j \in Jobs |-> IF place[j] = "active"
                                  THEN IF job[j].held THEN "retired" ELSE "gone"
                                  ELSE place[j]]
      /\ phase = "run" /\ phase' = "stopping" /\ reaping = {} /\ UNCHANGED <<reaping, rounds>>
  BY DEF Stop
<1>3. PICK of : of \in [{} -> Identities]
  <2>1. [x \in {} |-> None] \in [{} -> Identities]
    OBVIOUS
  <2> QED BY <2>1
<1>4. ASSUME NEW j \in Jobs PROVE Replaces({}, {}, of, ok, j)
  <2>1. /\ j \in Dropped({}) <=> place[j] = "active"
        /\ j \in Retiring({}) <=> place[j] = "active" /\ job[j].held
    BY DEF Dropped, Retiring, In
  <2>2. place'[j] = CASE j \in {} \cup {} -> "active"
                      [] j \in Retiring({}) -> "retired"
                      [] j \in Dropped({}) \ Retiring({}) -> "gone"
                      [] OTHER -> place[j]
    BY <1>2, <2>1
  <2>3. job'[j] = CASE j \in {} -> NewJob(of[j])
                    [] j \in Retiring({}) -> retire_execution(job[j], ok)
                    [] OTHER -> job[j]
    BY <1>1, <2>1
  <2> QED BY <2>2, <2>3 DEF Replaces
<1>5. place' = [j \in Jobs |-> place'[j]] /\ job' = [j \in Jobs |-> job'[j]] /\ ok \in BOOLEAN
  BY <1>1, <1>2 DEF StopResults
<1>6. /\ Types' /\ (\A j \in Jobs : Leased(job[j])' /\ Listed(j)') /\ Fences'
      /\ Life!Redeclare(Dropped({}), {})
  BY <1>2, <1>3, <1>4, <1>5, ReplaceKeeps DEF IInv, Shut
<1>7. Shut'
  <2>1. rounds' = 0 /\ StopRounds # 0
    BY <1>2, ExecutionAssumption DEF IInv, Shut
  <2>2. In("active")' = {}
    BY <1>2 DEF In
  <2> QED BY <1>2, <2>1, <2>2 DEF Shut
<1>8. Dropped({}) \in SUBSET Jobs
  BY DEF Dropped, In
<1> QED BY <1>6, <1>7, <1>8 DEF IInv, Life!Next

\* A round of shutdown signals every process, and releases those that are over.
LEMMA StopRoundKeeps ==
  ASSUME IInv, StopRound
  PROVE  IInv' /\ [Life!Next]_Life!vars
<1> DEFINE due == [j \in Jobs |-> IF rounds >= TermRounds /\ job[j].kill_at = "future"
                                  THEN [job[j] EXCEPT !.kill_at = "past"] ELSE job[j]]
<1>1. PICK ok \in StopResults :
        LET r == [j \in Jobs |-> exec_poll(kill_execution(due[j], ok))]
            over == {j \in In("retired") : r[j].child = "reaped" /\ r[j].stopped}
        IN /\ job' = [j \in Jobs |-> CASE j \in over -> release_execution(r[j])
                                       [] j \in In("retired") \ over -> r[j]
                                       [] OTHER -> job[j]]
           /\ place' = [j \in Jobs |-> IF j \in over THEN "gone" ELSE place[j]]
  BY DEF StopRound
<1> DEFINE r == [j \in Jobs |-> exec_poll(kill_execution(due[j], ok))]
           over == {j \in In("retired") : r[j].child = "reaped" /\ r[j].stopped}
<1>2. ASSUME NEW j \in In("retired")
      PROVE  /\ j \in Jobs /\ Becomes(r[j], job[j]) /\ SameResult(r[j], job[j]) /\ Signalled(r[j])
  <2>1. j \in Jobs /\ job[j] \in JobState /\ job[j].held
    BY DEF In, IInv, Types, Listed
  <2>2. /\ due[j] \in JobState /\ Becomes(due[j], job[j]) /\ SameResult(due[j], job[j])
        /\ due[j].held
    <3>1. due[j] = job[j] \/ due[j] = [job[j] EXCEPT !.kill_at = "past"]
      BY <2>1
    <3> HIDE DEF due
    <3>2. CASE due[j] = job[j]
      BY <2>1, <3>2 DEF Becomes, SameResult
    <3>3. CASE due[j] = [job[j] EXCEPT !.kill_at = "past"]
      BY <2>1, <3>3 DEF JobState, Becomes, SameResult
    <3> QED BY <3>1, <3>2, <3>3
  <2> DEFINE k == kill_execution(due[j], ok)
  <2>3. r[j] = exec_poll(k) /\ ok \in BOOLEAN
    BY <2>1 DEF StopResults
  <2> HIDE DEF due, r
  <2>4. Becomes(k, due[j]) /\ SameResult(k, due[j]) /\ Signalled(k)
    BY <2>2, <2>3, KillRecord
  <2> HIDE DEF k
  <2>5. k \in JobState
    BY <2>4 DEF Becomes
  <2>6. Becomes(r[j], k) /\ SameResult(r[j], k) /\ Signalled(r[j])
    BY <2>3, <2>4, <2>5, PollRecord
  <2> QED BY <2>1, <2>2, <2>4, <2>6 DEF Becomes, SameResult
<1> HIDE DEF r
<1>3. /\ phase = "stopping" /\ UNCHANGED <<reaping, phase>> /\ rounds' = rounds + 1 /\ reaping = {}
      /\ In("active") = {} /\ over \in SUBSET In("retired")
  BY DEF StopRound, IInv, Shut
<1>4. ASSUME NEW j \in Jobs
      PROVE  /\ job'[j] \in JobState /\ Leased(job'[j]) /\ job'[j].identity = job[j].identity
             /\ place'[j] = IF j \in over THEN "gone" ELSE place[j]
             /\ Listed(j)'
             /\ j \in In("retired") \ over => Signalled(job'[j])
  <2>1. job[j] \in JobState /\ Leased(job[j]) /\ Listed(j) /\ place[j] # "active"
    BY <1>3 DEF IInv, Types, In
  <2>2. place'[j] = IF j \in over THEN "gone" ELSE place[j]
    BY <1>1 DEF r
  <2>3. job'[j] = CASE j \in over -> release_execution(r[j])
                    [] j \in In("retired") \ over -> r[j]
                    [] OTHER -> job[j]
    BY <1>1 DEF r
  <2>4. CASE j \in In("retired")
    <3>1. /\ r[j] \in JobState /\ Leased(r[j]) /\ r[j].identity = job[j].identity /\ r[j].held
          /\ ~r[j].delivered /\ r[j].status # "pending" /\ Signalled(r[j])
      <4>1. Leased(r[j])
        BY <1>2, <2>1, <2>4, BecomesLeased
      <4>2. r[j].held
        BY <1>2, <2>1, <2>4 DEF Becomes, Listed, In
      <4> QED BY <1>2, <2>4, <4>1, <4>2 DEF Becomes, Leased
    <3>2. CASE j \in over
      <4>1. job'[j] = [r[j] EXCEPT !.held = FALSE]
        BY <2>3, <3>2 DEF release_execution
      <4>2. /\ job'[j] \in JobState /\ ~job'[j].held /\ job'[j].child = "reaped" /\ job'[j].stopped
            /\ ~job'[j].delivered /\ job'[j].status # "pending"
            /\ job'[j].identity = job[j].identity
        <5>1. r[j].child = "reaped" /\ r[j].stopped
          BY <3>2
        <5> QED BY <3>1, <4>1, <5>1 DEF JobState
      <4>3. place'[j] = "gone"
        BY <2>2, <3>2
      <4> QED BY <2>2, <3>2, <4>2, <4>3 DEF Leased, Listed
    <3>3. CASE j \notin over
      <4>1. job'[j] = r[j] /\ place'[j] = "retired"
        BY <2>2, <2>3, <2>4, <3>3 DEF In
      <4> QED BY <2>2, <3>1, <4>1 DEF Listed
    <3> QED BY <3>2, <3>3
  <2>5. CASE j \notin In("retired")
    <3>1. job'[j] = job[j] /\ place'[j] = place[j] /\ NewJob(None)' = NewJob(None)
      BY <2>2, <2>3, <2>5
    <3> QED BY <2>1, <2>2, <2>5, <3>1 DEF Listed
  <2> QED BY <2>4, <2>5
<1>5. Types'
  <2>1. job' \in [Jobs -> JobState] /\ place' \in [Jobs -> {"new", "active", "retired", "gone"}]
    BY <1>1, <1>4 DEF IInv, Types
  <2> QED BY <1>3, <2>1 DEF IInv, Types
<1>6. Fences'
  BY <1>3, <1>4 DEF Fences, In
<1>7. Shut'
  BY <1>3, <1>4 DEF Shut, In
<1>8. Life!Release(over)
  <2>1. \A j \in over : stage[j] = "withdrawn"
    BY DEF stage, Stage, In
  <2>2. \A j \in Jobs : stage'[j] = IF j \in over THEN "gone" ELSE stage[j]
    <3> SUFFICES ASSUME NEW j \in Jobs PROVE stage'[j] = IF j \in over THEN "gone" ELSE stage[j]
      OBVIOUS
    <3>1. stage'[j] = Stage(place'[j], job'[j]) /\ stage[j] = Stage(place[j], job[j])
      BY DEF stage
    <3>2. CASE j \in over
      BY <1>4, <3>1, <3>2 DEF Stage
    <3>3. CASE j \notin over /\ place[j] = "retired"
      BY <1>4, <3>1, <3>3 DEF Stage
    <3>4. CASE j \notin over /\ place[j] # "retired"
      <4>1. job'[j] = job[j]
        BY <1>1, <3>4 DEF r, In
      <4> QED BY <1>4, <3>1, <3>4, <4>1
    <3> QED BY <3>2, <3>3, <3>4
  <2>3. stage' = [j \in Jobs |-> IF j \in over THEN "gone" ELSE stage[j]]
    <3>1. stage' = [j \in Jobs |-> stage'[j]]
      BY DEF stage
    <3> HIDE DEF stage
    <3> QED BY <2>2, <3>1
  <2>4. UNCHANGED [j \in Jobs |-> job[j].identity]
    BY <1>4
  <2> QED BY <2>1, <2>3, <2>4 DEF Life!Release
<1>9. over \in SUBSET Jobs
  BY <1>3 DEF In
<1> QED BY <1>4, <1>5, <1>6, <1>7, <1>8, <1>9 DEF IInv, Life!Next

\* Nothing is left to shut down, or no round is.
LEMMA StopDoneKeeps ==
  ASSUME IInv, StopDone
  PROVE  IInv' /\ [Life!Next]_Life!vars
<1>1. /\ UNCHANGED <<place, job, reaping, rounds>> /\ phase = "stopping"
      /\ In("retired") = {} \/ rounds = StopRounds
      /\ phase' = IF In("retired") = {} THEN "stopped" ELSE "failed"
  BY DEF StopDone
<1>2. Types' /\ (\A j \in Jobs : Leased(job[j])' /\ Listed(j)') /\ Fences'
  BY <1>1 DEF IInv, Types, Listed, Fences, In
<1>3. Shut'
  BY <1>1 DEF IInv, Shut, In
<1>4. UNCHANGED Life!vars
  BY <1>1 DEF Life!vars, stage
<1> QED BY <1>2, <1>3, <1>4 DEF IInv

-----------------------------------------------------------------------------
(* The whole specification. *)

LEMMA InitKeeps ==
  ASSUME Init
  PROVE  IInv /\ Life!Init
<1>1. \A j \in Jobs : place[j] = "new" /\ job[j] = NewJob(None)
  BY DEF Init
<1>2. /\ NewJob(None) \in JobState /\ Leased(NewJob(None)) /\ ~NewJob(None).held
      /\ NewJob(None).identity = None
  BY DEF NewJob, JobState, Leased, Live
<1>3. Types
  <2>1. In("retired") = {} /\ reaping = {} /\ rounds \in Nat /\ phase = "run"
    BY <1>1 DEF Init, In
  <2>2. place \in [Jobs -> {"new", "active", "retired", "gone"}] /\ job \in [Jobs -> JobState]
    BY <1>2 DEF Init
  <2> QED BY <2>1, <2>2 DEF Types
<1>4. \A j \in Jobs : Leased(job[j]) /\ Listed(j)
  BY <1>1, <1>2 DEF Listed
<1>5. Fences
  BY <1>1 DEF Fences
<1>6. Shut
  BY DEF Init, Shut
<1>7. Life!Init
  <2>1. \A j \in Jobs : Stage(place[j], job[j]) = "none"
    BY <1>1 DEF Stage
  <2>2. stage = [j \in Jobs |-> "none"]
    BY <2>1 DEF stage
  <2>3. [j \in Jobs |-> job[j].identity] = [j \in Jobs |-> None]
    BY <1>1, <1>2
  <2> QED BY <2>2, <2>3 DEF Life!Init
<1> QED BY <1>3, <1>4, <1>5, <1>6, <1>7 DEF IInv

LEMMA NextKeeps ==
  ASSUME IInv, [Next]_vars
  PROVE  IInv' /\ [Life!Next]_Life!vars
<1>1. CASE Transact
  BY <1>1, TransactKeeps
<1>2. CASE StartPass
  <2>1. UNCHANGED <<place, job, rounds, phase>> /\ reaping' \in SUBSET In("retired") /\ phase = "run"
    BY <1>2 DEF StartPass
  <2> QED BY <2>1, QuietKeeps
<1>3. CASE Reap
  BY <1>3, ReapKeeps
<1>4. CASE Service
  BY <1>4, ServiceKeeps
<1>5. CASE Yield
  <2>1. UNCHANGED <<place, job, rounds, phase>> /\ reaping' \in SUBSET In("retired") /\ phase = "run"
    BY <1>5 DEF Yield, IInv, Types
  <2> QED BY <2>1, QuietKeeps
<1>6. CASE Stop
  BY <1>6, StopKeeps
<1>7. CASE StopRound
  BY <1>7, StopRoundKeeps
<1>8. CASE StopDone
  BY <1>8, StopDoneKeeps
<1>9. CASE Environment
  BY <1>9, EnvironmentKeeps
<1>10. CASE UNCHANGED vars
  <2>1. /\ UNCHANGED <<place, job, rounds, phase>> /\ reaping' \in SUBSET In("retired")
        /\ phase # "run" => reaping' = {}
    BY <1>10 DEF vars, IInv, Types, Shut
  <2> QED BY <2>1, QuietKeeps
<1> QED BY <1>1, <1>2, <1>3, <1>4, <1>5, <1>6, <1>7, <1>8, <1>9, <1>10 DEF Next, ServicePass, Shutdown

LEMMA SpecKeeps == Spec => []IInv
<1>1. Init => IInv
  BY InitKeeps
<1>2. IInv /\ [Next]_vars => IInv'
  BY NextKeeps
<1> QED BY <1>1, <1>2, PTL DEF Spec

\* A lease ends only with a leader that was reaped and a group that was sent
\* SIGKILL, on every path out of executions.lisp.
THEOREM LeasesEndWithTheProcess == Spec => []ReleasedMeansOver
<1>1. IInv => ReleasedMeansOver
  <2> SUFFICES ASSUME IInv, NEW j \in Jobs
               PROVE  /\ job[j].held <=> job[j].child # "none" /\ place[j] \in {"active", "retired"}
                                          /\ ~job[j].delivered
                      /\ ~job[j].held /\ job[j].child # "none" => job[j].child = "reaped" /\ job[j].stopped
    BY DEF ReleasedMeansOver
  <2>1. /\ Leased(job[j]) /\ Listed(j) /\ job[j] \in JobState
        /\ place[j] \in {"new", "active", "retired", "gone"}
    BY DEF IInv, Types
  <2>2. place[j] = "new" => ~job[j].held /\ job[j].child = "none"
    BY <2>1 DEF Listed, NewJob
  <2>3. job[j].held \in BOOLEAN /\ job[j].delivered \in BOOLEAN
    BY <2>1 DEF JobState
  <2> QED BY <2>1, <2>2, <2>3 DEF Leased, Listed
<1> QED BY <1>1, SpecKeeps, PTL

\* stop-executions ends with every process sent SIGKILL, but those whose signals
\* the kernel refused or whose last second it did not live to see.
THEOREM ShutdownKills == Spec => []ShutdownKillsEverything
<1>1. IInv => ShutdownKillsEverything
  <2> SUFFICES ASSUME IInv, phase \in {"stopped", "failed"}, NEW j \in Jobs
               PROVE  /\ job[j].held => Signalled(job[j])
                      /\ phase = "stopped" => ~job[j].held
    BY DEF ShutdownKillsEverything, Signalled
  <2>1. job[j].held => place[j] = "retired"
    <3>1. Listed(j) /\ place[j] \in {"new", "active", "retired", "gone"} /\ place[j] # "active"
      BY DEF IInv, Types, Shut, In
    <3>2. ~NewJob(None).held
      BY DEF NewJob
    <3> QED BY <3>1, <3>2 DEF Listed
  <2> QED BY <2>1 DEF IInv, Shut, In
<1> QED BY <1>1, SpecKeeps, PTL

\* The jobs of executions.lisp live the lives ExecutionLife allows: every step
\* of the detailed specification is one of the abstract one, or changes nothing
\* an extension can tell.
THEOREM JobsLiveTheirLives == Spec => ImplementsLife
<1>1. Init => Life!Init
  BY InitKeeps
<1>2. IInv /\ [Next]_vars => [Life!Next]_Life!vars
  BY NextKeeps
<1> QED BY <1>1, <1>2, SpecKeeps, PTL DEF Spec, ImplementsLife, Life!Spec

-----------------------------------------------------------------------------
(* What the lives promise. *)

identity == [j \in Jobs |-> job[j].identity]

\* No two processes of one identity exist: the one a new declaration replaced
\* is gone before the other starts.
OneOccupies ==
  \A i, j \in Jobs : Life!Occupies(i) /\ Life!Occupies(j) /\ identity[i] = identity[j] => i = j

\* The fence of service-executions holds of every life, and so of every job:
\* two commands declared under one name never run at a time.
THEOREM OneProcessPerIdentity == Spec => []OneOccupies
<1>1. Life!Init => OneOccupies
  BY DEF Life!Init, Life!Occupies, OneOccupies
<1>2. ASSUME OneOccupies, [Life!Next]_Life!vars PROVE OneOccupies'
  <2>1. CASE UNCHANGED Life!vars
    <3>1. stage' = stage /\ identity' = identity
      BY <2>1 DEF identity, Life!vars
    <3> QED BY <1>2, <3>1 DEF OneOccupies, Life!Occupies
  <2>2. ASSUME NEW dropped \in SUBSET Jobs, NEW fresh \in SUBSET Jobs, Life!Redeclare(dropped, fresh)
        PROVE  OneOccupies'
    <3>1. stage' = [j \in Jobs |-> CASE j \in fresh   -> "declared"
                                   [] j \in dropped -> Life!Withdrawn(stage[j])
                                   [] OTHER         -> stage[j]]
      BY <2>2 DEF Life!Redeclare
    <3>2. \A j \in Jobs : Life!Occupies(j)' =>
            Life!Occupies(j) /\ identity'[j] = identity[j]
      <4> SUFFICES ASSUME NEW j \in Jobs, stage'[j] \in {"running", "withdrawn"}
                   PROVE  Life!Occupies(j) /\ identity'[j] = identity[j]
        BY DEF Life!Occupies
      <4>1. stage'[j] = CASE j \in fresh   -> "declared"
                          [] j \in dropped -> Life!Withdrawn(stage[j])
                          [] OTHER         -> stage[j]
        BY <3>1
      <4>2. j \notin fresh
        <5>1. ~(j \in fresh /\ j \in dropped)
          BY <2>2 DEF Life!Redeclare
        <5> QED BY <4>1, <5>1
      <4>3. Life!Occupies(j)
        BY <4>1, <4>2 DEF Life!Occupies, Life!Withdrawn
      <4>4. identity'[j] = identity[j]
        BY <2>2, <4>2 DEF identity, Life!Redeclare
      <4> QED BY <4>3, <4>4
    <3> QED BY <1>2, <3>2 DEF OneOccupies
  <2>3. ASSUME NEW j \in Jobs, Life!Start(j) PROVE OneOccupies'
    <3>1. identity' = identity /\ Life!Free(j) /\ stage' = [stage EXCEPT ![j] = "running"]
      BY <2>3 DEF identity, Life!Start
    <3>2. \A k \in Jobs : k # j /\ Life!Occupies(k)' => Life!Occupies(k)
      BY <3>1 DEF Life!Occupies
    <3>3. \A k \in Jobs : Life!Occupies(k) /\ identity[k] = identity[j] => k = j
      BY <3>1 DEF identity, Life!Free
    <3> QED BY <1>2, <3>1, <3>2, <3>3 DEF OneOccupies
  <2>4. ASSUME NEW j \in Jobs, Life!Tell(j) PROVE OneOccupies'
    <3>1. identity' = identity /\ stage' = [stage EXCEPT ![j] = "told"]
      BY <2>4 DEF identity, Life!Tell
    <3>2. \A k \in Jobs : Life!Occupies(k)' => Life!Occupies(k)
      BY <3>1 DEF Life!Occupies
    <3> QED BY <1>2, <3>1, <3>2 DEF OneOccupies
  <2>5. ASSUME NEW over \in SUBSET Jobs, Life!Release(over) PROVE OneOccupies'
    <3>1. identity' = identity /\ stage' = [j \in Jobs |-> IF j \in over THEN "gone" ELSE stage[j]]
      BY <2>5 DEF identity, Life!Release
    <3>2. \A k \in Jobs : Life!Occupies(k)' => Life!Occupies(k)
      BY <3>1 DEF Life!Occupies
    <3> QED BY <1>2, <3>1, <3>2 DEF OneOccupies
  <2> QED BY <1>2, <2>1, <2>2, <2>3, <2>4, <2>5 DEF Life!Next
<1>3. Life!Spec => []OneOccupies
  BY <1>1, <1>2, PTL DEF Life!Spec
<1> QED BY <1>3, JobsLiveTheirLives DEF ImplementsLife
=============================================================================
