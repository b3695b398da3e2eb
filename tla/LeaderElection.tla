--------------------------- MODULE LeaderElection ---------------------------
(***************************************************************************)
(* lib/leaderelection: the election for one claim.  Candidates keep a      *)
(* lease record in an annotation of the claim; they read it, and write it  *)
(* with the API server's optimistic concurrency.  A candidate takes the    *)
(* lease over when it has seen the same record for LeaseDuration; a leader *)
(* gives up when it could not renew for RenewDeadline, when its TermLimit  *)
(* has passed, or when the task is over, and then rests.                   *)
(*                                                                         *)
(* Time is counted in ticks.  Every API call takes at most MaxCall ticks;  *)
(* apart from that, code that can run does not let time pass.  The record  *)
(* differs from write to write (it carries RenewTime), so "the record I    *)
(* know is the current one" is a Boolean, and so is "the object I read is  *)
(* still the current version".  Ages stop counting at the value at which   *)
(* the code no longer tells them apart.                                    *)
(***************************************************************************)
EXTENDS Integers, FiniteSets

CONSTANTS
  Candidates,     \* the controllers that want the claim's lease
  LeaseDuration, RenewDeadline, RetryPeriod, TermLimit,
  MaxCall,        \* bound: ticks an API call takes
  MaxFaults,      \* bound: failed calls and crashes
  TaskEnds,       \* whether the task may end while somebody leads or waits
  Nobody,         \* holder of the empty record
  Gone            \* holder of a record written by a process that has died

\* The first three conjuncts are NewLeaderElector's checks (JitterFactor 1.2).
ASSUME TimingAssumption ==
  /\ LeaseDuration \in Nat /\ RenewDeadline \in Nat /\ RetryPeriod \in Nat \ {0}
  /\ LeaseDuration > RenewDeadline
  /\ 10 * RenewDeadline > 12 * RetryPeriod
  /\ TermLimit \in Nat /\ MaxCall \in Nat /\ MaxFaults \in Nat
  /\ TaskEnds \in BOOLEAN
  /\ Nobody # Gone /\ {Nobody, Gone} \cap Candidates = {}

VARIABLES
  holder,  \* HolderIdentity in the record on the claim
  faults,  \* faults so far
  mode,    \* mode[k]: off, acquire(), renew() or the rest after leading
  pc,      \* pc[k]: where tryAcquireOrRenew is, or the head of renew()'s loop
  final,   \* final[k]: the poll of renew() has timed out, this is the last try
  known,   \* known[k]: observedRecord is the current record
  fresh,   \* fresh[k]: the claim object k read is the current version
  old,     \* old[k]: the observed record had expired when the try began
  seenAge, \* seenAge[k]: ticks since observedTime
  call,    \* call[k]: ticks since the API call in progress began
  timer,   \* timer[k]: ticks since the last try, the poll or the rest began
  term     \* term[k]: ticks since k began to lead

vars == <<holder, faults, mode, pc, final, known, fresh, old, seenAge, call,
          timer, term>>

Modes == {"off", "acquire", "lead", "rest"}
Pcs == {"idle", "get", "update", "written", "head"}
Rest == LeaseDuration + RetryPeriod
\* The largest value of timer that matters in each mode.
Horizon(m) == CASE m = "off" -> 0
                [] m = "acquire" -> RetryPeriod
                [] m = "lead" -> RenewDeadline
                [] m = "rest" -> Rest

\* The types; a timer is set for what it times, and the clock of the term limit
\* runs only while its candidate leads (Run, leaderelection.go:124-135).
TypeOK ==
  /\ holder \in Candidates \cup {Nobody, Gone}
  /\ faults \in 0 .. MaxFaults
  /\ mode \in [Candidates -> Modes]
  /\ pc \in [Candidates -> Pcs]
  /\ final \in [Candidates -> BOOLEAN]
  /\ known \in [Candidates -> BOOLEAN]
  /\ fresh \in [Candidates -> BOOLEAN]
  /\ old \in [Candidates -> BOOLEAN]
  /\ seenAge \in [Candidates -> 0 .. LeaseDuration]
  /\ call \in [Candidates -> 0 .. MaxCall]
  /\ timer \in [Candidates -> 0 .. Rest]
  /\ term \in [Candidates -> 0 .. TermLimit + 1]
  /\ \A k \in Candidates :
       timer[k] <= Horizon(mode[k]) /\ (mode[k] # "lead" => term[k] = 0)

Init ==
  /\ holder = Nobody
  /\ faults = 0
  /\ mode = [k \in Candidates |-> "off"]
  /\ pc = [k \in Candidates |-> "idle"]
  /\ final = [k \in Candidates |-> FALSE]
  /\ known = [k \in Candidates |-> FALSE]
  /\ fresh = [k \in Candidates |-> FALSE]
  /\ old = [k \in Candidates |-> FALSE]
  /\ seenAge = [k \in Candidates |-> 0]
  /\ call = [k \in Candidates |-> 0]
  /\ timer = [k \in Candidates |-> 0]
  /\ term = [k \in Candidates |-> 0]

Fault == faults < MaxFaults /\ faults' = faults + 1
Set(f, k, v) == f' = [f EXCEPT ![k] = v]

\* k is in mode m, between two tries.
Between(k, m) == mode[k] = m /\ pc[k] = "idle"

\* k leaves the election (or a mode of it): nothing of the elector survives
\* but the timer, which starts from 0.
Leave(k, m) ==
  /\ Set(mode, k, m) /\ Set(pc, k, "idle") /\ Set(final, k, FALSE)
  /\ Set(known, k, FALSE) /\ Set(fresh, k, FALSE) /\ Set(old, k, FALSE)
  /\ Set(seenAge, k, 0) /\ Set(call, k, 0) /\ Set(timer, k, 0)
  /\ Set(term, k, 0)

----------------------------------------------------------------------------
\* A new LeaderElector: its observedRecord is the empty record, observed at
\* the zero time.  acquire() tries at once.
StartElection(k) ==
  /\ mode[k] = "off"
  /\ Set(mode, k, "acquire")
  /\ Set(known, k, holder = Nobody)
  /\ Set(seenAge, k, LeaseDuration)
  /\ Set(timer, k, RetryPeriod)
  /\ UNCHANGED <<holder, faults, pc, final, fresh, old, call, term>>

\* acquire() hears that the task succeeded.
AcquireOver(k) ==
  /\ TaskEnds
  /\ Between(k, "acquire")
  /\ Leave(k, "off")
  /\ UNCHANGED <<holder, faults>>

\* tryAcquireOrRenew begins: in acquire() after RetryPeriod (jittered), in
\* renew() when the poll ticks, and one last time when the poll times out.
StartTry(k) ==
  /\ pc[k] = "idle"
  /\ mode[k] \in {"acquire", "lead"}
  /\ timer[k] >= RetryPeriod
  /\ Set(pc, k, "get")
  /\ Set(call, k, 0)
  /\ Set(old, k, seenAge[k] >= LeaseDuration)
  /\ Set(final, k, mode[k] = "lead" /\ timer[k] >= RenewDeadline)
  /\ UNCHANGED <<holder, faults, mode, known, fresh, seenAge, timer, term>>

\* The try returns false.  acquire() waits for the next one; the poll of
\* renew() goes on, or ends renew().
TryFailed(k) ==
  IF final[k]
  THEN Leave(k, "rest")
  ELSE /\ Set(pc, k, "idle") /\ Set(fresh, k, FALSE) /\ Set(old, k, FALSE)
       /\ Set(call, k, 0)
       /\ Set(timer, k, IF mode[k] = "acquire" THEN 0 ELSE timer[k])
       /\ UNCHANGED <<mode, final, known, seenAge, term>>

\* Get fails.
GetFails(k) ==
  /\ pc[k] = "get"
  /\ Fault
  /\ TryFailed(k)
  /\ UNCHANGED holder

\* Mutant: the expiry is judged without comparing the record just read with
\* the observed one.
MayWriteStale(k) == holder = k \/ old[k]

\* Mutant: a lease that has expired is not taken over.
MayWriteNeverExpired(k) == holder \in {k, Nobody}

\* The lease may be written: it is mine, or I have known the record for
\* LeaseDuration.
MayWrite(k) == holder = k \/ (known[k] /\ old[k])

\* Get returns; a record not seen before restarts the clock.
GetAndWrite(k) ==
  /\ pc[k] = "get"
  /\ MayWrite(k)
  /\ Set(pc, k, "update")
  /\ Set(call, k, 0)
  /\ Set(fresh, k, TRUE)
  /\ Set(known, k, TRUE)
  /\ Set(seenAge, k, IF known[k] THEN seenAge[k] ELSE 0)
  /\ UNCHANGED <<holder, faults, mode, final, old, timer, term>>

\* "lock is held by ... and has not yet expired"
GetAndLose(k) ==
  /\ pc[k] = "get"
  /\ ~MayWrite(k)
  /\ IF final[k]
     THEN Leave(k, "rest")
     ELSE /\ Set(pc, k, "idle") /\ Set(old, k, FALSE) /\ Set(call, k, 0)
          /\ Set(known, k, TRUE)
          /\ Set(seenAge, k, IF known[k] THEN seenAge[k] ELSE 0)
          /\ Set(timer, k, IF mode[k] = "acquire" THEN 0 ELSE timer[k])
          /\ UNCHANGED <<mode, final, fresh, term>>
  /\ UNCHANGED <<holder, faults>>

\* The API server applies the Update of an object that is still current.
\* Every other candidate's copy and observed record are now out of date.
Write(k) ==
  /\ pc[k] = "update"
  /\ fresh[k]
  /\ holder' = k
  /\ Set(pc, k, "written")
  /\ known' = [j \in Candidates |-> FALSE]
  /\ fresh' = [j \in Candidates |-> FALSE]
  /\ UNCHANGED <<faults, mode, final, old, seenAge, call, timer, term>>

\* The Update is refused: the object changed, or the call fails.
UpdateFails(k) ==
  /\ pc[k] = "update"
  /\ IF fresh[k] THEN Fault ELSE UNCHANGED faults
  /\ TryFailed(k)
  /\ UNCHANGED holder

\* The answer to an applied Update is lost.
AnswerLost(k) ==
  /\ pc[k] = "written"
  /\ Fault
  /\ TryFailed(k)
  /\ UNCHANGED holder

\* The answer arrives: acquire() is done, or the poll of renew() is.
Written(k) ==
  /\ pc[k] = "written"
  /\ Set(mode, k, "lead")
  /\ Set(pc, k, "head") /\ Set(final, k, FALSE) /\ Set(old, k, FALSE)
  /\ Set(call, k, 0) /\ Set(seenAge, k, 0) /\ Set(timer, k, 0)
  /\ UNCHANGED <<holder, faults, known, fresh, term>>

\* Mutant: the term limit is not looked at.
RenewAgainNoLimit(k) ==
  /\ pc[k] = "head"
  /\ Set(pc, k, "idle")
  /\ UNCHANGED <<holder, faults, mode, final, known, fresh, old, seenAge, call,
                 timer, term>>

\* renew() polls again, unless a result of the task or the end of the term is
\* waiting.  A term that ends this very tick may be noticed or not.
RenewAgain(k) ==
  /\ pc[k] = "head"
  /\ term[k] <= TermLimit
  /\ Set(pc, k, "idle")
  /\ UNCHANGED <<holder, faults, mode, final, known, fresh, old, seenAge, call,
                 timer, term>>

GiveUp(k) ==
  /\ pc[k] = "head"
  /\ TaskEnds \/ term[k] >= TermLimit
  /\ Leave(k, "rest")
  /\ UNCHANGED <<holder, faults>>

\* The rest after leading is over; the elector is dropped.
RestOver(k) ==
  /\ mode[k] = "rest"
  /\ timer[k] = Rest
  /\ Leave(k, "off")
  /\ UNCHANGED <<holder, faults>>

\* The process dies; its identity is never used again.
Crash(k) ==
  /\ mode[k] # "off"
  /\ Fault
  /\ Leave(k, "off")
  /\ holder' = IF holder = k THEN Gone ELSE holder

\* Time may not pass while a call has taken MaxCall, renew() is at the head of
\* its loop, its poll has timed out, or a rest has ended.
Urgent(k) ==
  \/ pc[k] # "idle" /\ call[k] >= MaxCall
  \/ pc[k] = "head"
  \/ Between(k, "lead") /\ timer[k] >= RenewDeadline
  \/ mode[k] = "rest" /\ timer[k] >= Rest

Count(n, max) == IF n < max THEN n + 1 ELSE n

\* Mutant: the timer is started before acquire().
TermRunningEarly(k) == mode[k] \in {"acquire", "lead"}

\* The term limit's timer, started when acquire() has returned, is running.
TermRunning(k) == mode[k] = "lead"

Tick ==
  /\ \A k \in Candidates : ~Urgent(k)
  /\ seenAge' = [k \in Candidates |->
                   IF mode[k] \in {"acquire", "lead"}
                   THEN Count(seenAge[k], LeaseDuration) ELSE 0]
  /\ call' = [k \in Candidates |->
                IF pc[k] # "idle" THEN call[k] + 1 ELSE 0]
  /\ timer' = [k \in Candidates |-> Count(timer[k], Horizon(mode[k]))]
  /\ term' = [k \in Candidates |->
                IF TermRunning(k) THEN Count(term[k], TermLimit + 1) ELSE 0]
  /\ UNCHANGED <<holder, faults, mode, pc, final, known, fresh, old>>

Try(k) ==
  \/ GetFails(k) \/ GetAndWrite(k) \/ GetAndLose(k)
  \/ Write(k) \/ UpdateFails(k) \/ AnswerLost(k) \/ Written(k)
  \/ RenewAgain(k) \/ GiveUp(k)

Next ==
  \/ Tick
  \/ \E k \in Candidates :
       \/ StartElection(k) \/ AcquireOver(k) \/ StartTry(k) \/ Try(k)
       \/ RestOver(k) \/ Crash(k)

Spec == Init /\ [][Next]_vars

\* Time goes on, calls return, retries happen.  A candidate need not start.
Fairness ==
  /\ WF_vars(Tick)
  /\ \A k \in Candidates :
       WF_vars(StartTry(k)) /\ WF_vars(Try(k)) /\ WF_vars(RestOver(k))

FairSpec == Spec /\ Fairness

----------------------------------------------------------------------------
\* "help ensure only one provisioner (the leader) is trying to provision a
\* volume for the pvc at a time" (leaderelection.go:19-20): at most one
\* candidate is between the end of acquire() and the end of renew().
OneLeader ==
  \A j, k \in Candidates : mode[j] = "lead" /\ mode[k] = "lead" => j = k

\* A candidate does not wait for the lease in vain, also when its holder died
\* or gave up: somebody gets to lead, unless the wait is called off.
LeaderEmerges ==
  \A k \in Candidates :
    mode[k] = "acquire"
      ~> mode[k] # "acquire" \/ \E j \in Candidates : mode[j] = "lead"

\* "TermLimit is the maximum duration that a leader may remain the leader"
\* (leaderelection.go:77-80): a leader stops to lead, also when its task hangs
\* and every renewal succeeds, or they fail and succeed in turn.
LeadershipEnds == \A k \in Candidates : mode[k] = "lead" ~> mode[k] # "lead"
=============================================================================
