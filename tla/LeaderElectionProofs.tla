------------------------ MODULE LeaderElectionProofs ------------------------
(***************************************************************************)
(* For any number of candidates, any durations and any faults: the types   *)
(* of LeaderElection, and at most one leader if the lease outlasts the     *)
(* deadline for renewing it by five calls.                                 *)
(***************************************************************************)
EXTENDS LeaderElection, TLAPS

----------------------------------------------------------------------------
(* Types.                                                                   *)

\* The durations compare as the names say.
LEMMA Durations ==
  /\ LeaseDuration \in Nat /\ RenewDeadline \in Nat /\ RetryPeriod \in Nat
  /\ TermLimit \in Nat /\ MaxCall \in Nat /\ MaxFaults \in Nat /\ Rest \in Nat
  /\ 0 < RetryPeriod /\ RetryPeriod < RenewDeadline
  /\ RenewDeadline < LeaseDuration /\ RenewDeadline <= Rest /\ RetryPeriod <= Rest
BY TimingAssumption DEF Rest

\* The horizon of each mode.
LEMMA Horizons ==
  /\ Horizon("off") = 0 /\ Horizon("acquire") = RetryPeriod
  /\ Horizon("lead") = RenewDeadline /\ Horizon("rest") = Rest
  /\ \A m \in Modes : Horizon(m) \in 0 .. Rest
BY Durations DEF Horizon, Modes

\* A counter that stops at max.
LEMMA CountTo ==
  ASSUME NEW max \in Nat, NEW n \in 0 .. max
  PROVE  Count(n, max) \in 0 .. max
BY DEF Count

\* A candidate that leaves the election, or begins the rest.
LEMMA LeaveTyped ==
  ASSUME TypeOK, NEW k \in Candidates, NEW m \in Modes, Leave(k, m),
         holder' \in Candidates \cup {Nobody, Gone}, faults' \in 0 .. MaxFaults
  PROVE  TypeOK'
<1>1. /\ mode' \in [Candidates -> Modes] /\ pc' \in [Candidates -> Pcs]
      /\ final' \in [Candidates -> BOOLEAN] /\ known' \in [Candidates -> BOOLEAN]
      /\ fresh' \in [Candidates -> BOOLEAN] /\ old' \in [Candidates -> BOOLEAN]
  BY DEF TypeOK, Leave, Set, Pcs
<1>2. /\ seenAge' \in [Candidates -> 0 .. LeaseDuration]
      /\ call' \in [Candidates -> 0 .. MaxCall]
      /\ timer' \in [Candidates -> 0 .. Rest]
      /\ term' \in [Candidates -> 0 .. TermLimit + 1]
  BY Durations DEF TypeOK, Leave, Set
<1>3. ASSUME NEW j \in Candidates PROVE timer'[j] <= Horizon(mode'[j])
  BY Horizons, Durations DEF TypeOK, Leave, Set
<1>4. ASSUME NEW j \in Candidates, mode'[j] # "lead" PROVE term'[j] = 0
  BY <1>4 DEF TypeOK, Leave, Set
<1> QED
  BY <1>1, <1>2, <1>3, <1>4 DEF TypeOK

\* A try that fails.
LEMMA TryFailedTyped ==
  ASSUME TypeOK, NEW k \in Candidates, TryFailed(k),
         holder' = holder, faults' \in 0 .. MaxFaults
  PROVE  TypeOK'
<1>1. CASE final[k]
  BY <1>1, LeaveTyped DEF TryFailed, TypeOK, Modes
<1>2. CASE ~final[k]
  <2>0. fresh' \in [Candidates -> BOOLEAN] /\ old' \in [Candidates -> BOOLEAN]
    BY <1>2 DEF TryFailed, TypeOK, Set
  <2>1. pc' \in [Candidates -> Pcs] /\ call' \in [Candidates -> 0 .. MaxCall]
    BY <1>2, Durations DEF TryFailed, TypeOK, Set, Pcs
  <2>2. timer' \in [Candidates -> 0 .. Rest]
    BY <1>2, Durations DEF TryFailed, TypeOK, Set
  <2>3. ASSUME NEW j \in Candidates PROVE timer'[j] <= Horizon(mode'[j])
    BY <1>2, Horizons, Durations DEF TryFailed, TypeOK, Set
  <2> QED
    BY <1>2, <2>0, <2>1, <2>2, <2>3 DEF TryFailed, TypeOK
<1> QED
  BY <1>1, <1>2

\* Every step keeps the types.
LEMMA TypeStep ==
  ASSUME TypeOK, [Next]_vars
  PROVE  TypeOK'
<1>f. Fault => faults' \in 0 .. MaxFaults
  BY Durations DEF Fault, TypeOK
<1>1. CASE Tick
  <2>1. ASSUME NEW k \in Candidates
        PROVE  /\ seenAge'[k] \in 0 .. LeaseDuration
               /\ call'[k] \in 0 .. MaxCall
               /\ timer'[k] \in 0 .. Rest /\ timer'[k] <= Horizon(mode[k])
               /\ term'[k] \in 0 .. TermLimit + 1
               /\ mode[k] # "lead" => term'[k] = 0
    <3>1. /\ seenAge[k] \in 0 .. LeaseDuration /\ call[k] \in 0 .. MaxCall
          /\ timer[k] \in 0 .. Horizon(mode[k]) /\ term[k] \in 0 .. TermLimit + 1
          /\ Horizon(mode[k]) \in 0 .. Rest
      BY Horizons, Durations DEF TypeOK
    <3>2. seenAge'[k] \in 0 .. LeaseDuration
      <4>1. seenAge'[k] \in {0, Count(seenAge[k], LeaseDuration)}
        BY <1>1 DEF Tick
      <4>2. LeaseDuration \in Nat
        BY Durations
      <4>3. Count(seenAge[k], LeaseDuration) \in 0 .. LeaseDuration
        BY <3>1, <4>2, CountTo
      <4> QED
        BY <4>1, <4>2, <4>3
    <3>3. call'[k] \in 0 .. MaxCall
      BY <1>1, <3>1, Durations DEF Tick, Urgent
    <3>4. timer'[k] \in 0 .. Horizon(mode[k])
      BY <1>1, <3>1, CountTo, Durations DEF Tick
    <3>5. term'[k] \in 0 .. TermLimit + 1
      BY <1>1, <3>1, CountTo, Durations DEF Tick
    <3>6. mode[k] # "lead" => term'[k] = 0
      BY <1>1 DEF Tick, TermRunning
    <3> QED
      BY <3>1, <3>2, <3>3, <3>4, <3>5, <3>6, Durations
  <2>2. /\ seenAge' = [k \in Candidates |-> seenAge'[k]]
        /\ call' = [k \in Candidates |-> call'[k]]
        /\ timer' = [k \in Candidates |-> timer'[k]]
        /\ term' = [k \in Candidates |-> term'[k]]
    BY <1>1 DEF Tick
  <2>3. /\ seenAge' \in [Candidates -> 0 .. LeaseDuration]
        /\ call' \in [Candidates -> 0 .. MaxCall]
        /\ timer' \in [Candidates -> 0 .. Rest]
        /\ term' \in [Candidates -> 0 .. TermLimit + 1]
    BY <2>1, <2>2
  <2> QED
    BY <1>1, <2>1, <2>3 DEF Tick, TypeOK
<1>2. ASSUME NEW k \in Candidates, StartElection(k)
      PROVE  TypeOK'
  <2>1. ASSUME NEW j \in Candidates PROVE timer'[j] <= Horizon(mode'[j])
    BY <1>2, Horizons, Durations DEF StartElection, TypeOK, Set
  <2>2. mode' \in [Candidates -> Modes] /\ known' \in [Candidates -> BOOLEAN]
    BY <1>2 DEF StartElection, TypeOK, Set, Modes
  <2>3. seenAge' \in [Candidates -> 0 .. LeaseDuration] /\ timer' \in [Candidates -> 0 .. Rest]
    BY <1>2, Durations DEF StartElection, TypeOK, Set
  <2>4. ASSUME NEW j \in Candidates, mode'[j] # "lead" PROVE term'[j] = 0
    BY <1>2, <2>4 DEF StartElection, TypeOK, Set
  <2> QED
    BY <1>2, <2>1, <2>2, <2>3, <2>4 DEF StartElection, TypeOK
<1>3. ASSUME NEW k \in Candidates, AcquireOver(k) \/ GiveUp(k) \/ RestOver(k)
      PROVE  TypeOK'
  <2>1. Leave(k, "off") \/ Leave(k, "rest")
    BY <1>3 DEF AcquireOver, GiveUp, RestOver
  <2>2. holder' = holder /\ faults' = faults
    BY <1>3 DEF AcquireOver, GiveUp, RestOver
  <2> QED
    BY <2>1, <2>2, LeaveTyped DEF TypeOK, Modes
<1>4. ASSUME NEW k \in Candidates, StartTry(k)
      PROVE  TypeOK'
  <2>1. pc' \in [Candidates -> Pcs] /\ call' \in [Candidates -> 0 .. MaxCall]
    BY <1>4, Durations DEF StartTry, TypeOK, Set, Pcs
  <2>2. old' \in [Candidates -> BOOLEAN] /\ final' \in [Candidates -> BOOLEAN]
    BY <1>4 DEF StartTry, TypeOK, Set
  <2> QED
    BY <1>4, <2>1, <2>2 DEF StartTry, TypeOK
<1>5. ASSUME NEW k \in Candidates, GetFails(k) \/ UpdateFails(k) \/ AnswerLost(k)
      PROVE  TypeOK'
  <2>1. TryFailed(k) /\ holder' = holder
    BY <1>5 DEF GetFails, UpdateFails, AnswerLost
  <2>2. faults' \in 0 .. MaxFaults
    BY <1>5, <1>f DEF GetFails, UpdateFails, AnswerLost, TypeOK
  <2> QED
    BY <2>1, <2>2, TryFailedTyped
<1>6. ASSUME NEW k \in Candidates, GetAndWrite(k)
      PROVE  TypeOK'
  <2>1. pc' \in [Candidates -> Pcs] /\ call' \in [Candidates -> 0 .. MaxCall]
    BY <1>6, Durations DEF GetAndWrite, TypeOK, Set, Pcs
  <2>2. fresh' \in [Candidates -> BOOLEAN] /\ known' \in [Candidates -> BOOLEAN]
    BY <1>6 DEF GetAndWrite, TypeOK, Set
  <2>3. seenAge' \in [Candidates -> 0 .. LeaseDuration]
    BY <1>6, Durations DEF GetAndWrite, TypeOK, Set
  <2> QED
    BY <1>6, <2>1, <2>2, <2>3 DEF GetAndWrite, TypeOK
<1>7. ASSUME NEW k \in Candidates, GetAndLose(k)
      PROVE  TypeOK'
  <2>1. CASE final[k]
    BY <1>7, <2>1, LeaveTyped DEF GetAndLose, TypeOK, Modes
  <2>2. CASE ~final[k]
    <3>1. pc' \in [Candidates -> Pcs] /\ call' \in [Candidates -> 0 .. MaxCall]
      BY <1>7, <2>2, Durations DEF GetAndLose, TypeOK, Set, Pcs
    <3>2. old' \in [Candidates -> BOOLEAN] /\ known' \in [Candidates -> BOOLEAN]
      BY <1>7, <2>2 DEF GetAndLose, TypeOK, Set
    <3>3. /\ seenAge' \in [Candidates -> 0 .. LeaseDuration]
          /\ timer' \in [Candidates -> 0 .. Rest]
      BY <1>7, <2>2, Durations DEF GetAndLose, TypeOK, Set
    <3>4. ASSUME NEW j \in Candidates PROVE timer'[j] <= Horizon(mode'[j])
      BY <1>7, <2>2, Horizons, Durations DEF GetAndLose, TypeOK, Set
    <3> QED
      BY <1>7, <2>2, <3>1, <3>2, <3>3, <3>4 DEF GetAndLose, TypeOK
  <2> QED
    BY <2>1, <2>2
<1>8. ASSUME NEW k \in Candidates, Write(k)
      PROVE  TypeOK'
  <2>1. pc' \in [Candidates -> Pcs]
    BY <1>8 DEF Write, TypeOK, Set, Pcs
  <2> QED
    BY <1>8, <2>1 DEF Write, TypeOK
<1>9. ASSUME NEW k \in Candidates, Written(k)
      PROVE  TypeOK'
  <2>1. pc' \in [Candidates -> Pcs] /\ mode' \in [Candidates -> Modes]
    BY <1>9 DEF Written, TypeOK, Set, Pcs, Modes
  <2>2. final' \in [Candidates -> BOOLEAN] /\ old' \in [Candidates -> BOOLEAN]
    BY <1>9 DEF Written, TypeOK, Set
  <2>3. /\ seenAge' \in [Candidates -> 0 .. LeaseDuration]
        /\ timer' \in [Candidates -> 0 .. Rest]
        /\ call' \in [Candidates -> 0 .. MaxCall]
    BY <1>9, Durations DEF Written, TypeOK, Set
  <2>4. ASSUME NEW j \in Candidates PROVE timer'[j] <= Horizon(mode'[j])
    BY <1>9, Horizons, Durations DEF Written, TypeOK, Set
  <2>5. ASSUME NEW j \in Candidates, mode'[j] # "lead" PROVE term'[j] = 0
    BY <1>9, <2>5 DEF Written, TypeOK, Set
  <2> QED
    BY <1>9, <2>1, <2>2, <2>3, <2>4, <2>5 DEF Written, TypeOK
<1>10. ASSUME NEW k \in Candidates, RenewAgain(k)
       PROVE  TypeOK'
  <2>1. pc' \in [Candidates -> Pcs]
    BY <1>10 DEF RenewAgain, TypeOK, Set, Pcs
  <2> QED
    BY <1>10, <2>1 DEF RenewAgain, TypeOK
<1>11. ASSUME NEW k \in Candidates, Crash(k)
       PROVE  TypeOK'
  BY <1>11, <1>f, LeaveTyped DEF Crash, TypeOK, Modes
<1>12. CASE UNCHANGED vars
  BY <1>12 DEF vars, TypeOK
<1> QED
  BY <1>1, <1>2, <1>3, <1>4, <1>5, <1>6, <1>7, <1>8, <1>9, <1>10, <1>11, <1>12
  DEF Next, Try

\* The state keeps its types; in particular no call takes longer than MaxCall,
\* no leader lets more than RenewDeadline pass unnoticed, and the term limit
\* does not run while its candidate waits for the lease.
THEOREM TypeCorrect == Spec => []TypeOK
<1>1. Init => TypeOK
  BY Horizons, Durations DEF Init, TypeOK, Modes, Pcs
<1>2. TypeOK /\ [Next]_vars => TypeOK'
  BY TypeStep
<1> QED
  BY <1>1, <1>2, PTL DEF Spec

----------------------------------------------------------------------------
(* The invariant.  The record on the claim names the leader, and also the   *)
(* candidate whose write was applied and whose answer is on its way.        *)

Leads(k) == mode[k] = "lead" \/ pc[k] = "written"

HolderLeads == \A k \in Candidates : Leads(k) => holder = k

\* Only acquire() and renew() try.
TriesInElection ==
  \A k \in Candidates : pc[k] # "idle" => mode[k] \in {"acquire", "lead"}

\* A candidate that may write although the lease is not its own has known the
\* record for LeaseDuration.
Waited ==
  \A j \in Candidates :
    /\ pc[j] = "get" /\ old[j] /\ known[j] => seenAge[j] = LeaseDuration
    /\ pc[j] = "update" /\ fresh[j] /\ holder # j
         => known[j] /\ seenAge[j] = LeaseDuration

\* How long a leader goes on for at most if it writes no more: until its
\* deadline, and for the time of the two tries, of two calls each, that may
\* be made after it.  The first of them begins before the deadline.
Overtime == IF MaxCall = 0 THEN 0 ELSE 4 * MaxCall - 1
Remaining(at, last, t, c) ==
  IF at = "written" THEN MaxCall - c + RenewDeadline + Overtime
  ELSE IF last THEN IF at = "get" THEN 2 * MaxCall - c ELSE MaxCall - c
  ELSE IF t < RenewDeadline THEN RenewDeadline - t + Overtime
  ELSE IF at = "get" THEN 4 * MaxCall - c
  ELSE IF at = "update" THEN 3 * MaxCall - c
  ELSE 2 * MaxCall
Left(k) == Remaining(pc[k], final[k], timer[k], call[k])

\* Whoever knows the leader's record will not have waited for LeaseDuration
\* before the leader has stopped.
LeaseLasts ==
  \A k, j \in Candidates :
    Leads(k) /\ j # k /\ known[j] => seenAge[j] + Left(k) < LeaseDuration

\* Only a try is the last one.
FinalTries ==
  \A k \in Candidates : final[k] => pc[k] \in {"get", "update", "written"}

LeaseInv ==
  TriesInElection /\ FinalTries /\ HolderLeads /\ Waited /\ LeaseLasts

\* The lease outlasts the deadline by the time of five calls.
LeaseLongEnough == LeaseDuration >= RenewDeadline + 5 * MaxCall

----------------------------------------------------------------------------
(* The proof of OneLeader.                                                  *)

\* What is left of a leadership is never negative, and less than a lease.
LEMMA RemainingBound ==
  ASSUME LeaseLongEnough, NEW at, NEW last, NEW t \in Nat, NEW c \in 0 .. MaxCall
  PROVE  /\ Remaining(at, last, t, c) \in Nat
         /\ Remaining(at, last, t, c) < LeaseDuration
<1>1. /\ Overtime \in Nat /\ Overtime <= 4 * MaxCall
      /\ MaxCall + RenewDeadline + Overtime < LeaseDuration
      /\ 4 * MaxCall < LeaseDuration
  BY Durations DEF Overtime, LeaseLongEnough
<1> QED
  BY <1>1, Durations DEF Remaining

\* The same for a candidate, before and after a step.
LEMMA LeftBound ==
  ASSUME LeaseLongEnough, TypeOK, TypeOK', NEW k \in Candidates
  PROVE  /\ Left(k) \in Nat /\ Left(k) < LeaseDuration
         /\ Left(k)' \in Nat /\ Left(k)' < LeaseDuration
<1>1. /\ call[k] \in 0 .. MaxCall /\ timer[k] \in Nat
      /\ call'[k] \in 0 .. MaxCall /\ timer'[k] \in Nat
  BY Durations DEF TypeOK
<1> QED
  BY <1>1, RemainingBound DEF Left

\* The candidates other than k do nothing.
Others(k) ==
  \A j \in Candidates \ {k} :
    /\ mode'[j] = mode[j] /\ pc'[j] = pc[j] /\ final'[j] = final[j]
    /\ known'[j] = known[j] /\ fresh'[j] = fresh[j] /\ old'[j] = old[j]
    /\ seenAge'[j] = seenAge[j] /\ call'[j] = call[j] /\ timer'[j] = timer[j]

\* What a step of k alone has to respect: a leadership does not begin and is
\* not prolonged, a record that was known does not get older, a new one is new.
LEMMA StepOfOne ==
  ASSUME LeaseLongEnough, TypeOK, TypeOK', LeaseInv, NEW k \in Candidates, Others(k),
         holder' = holder \/ (holder = k /\ holder' \notin Candidates),
         pc'[k] # "idle" => mode'[k] \in {"acquire", "lead"},
         final'[k] => pc'[k] \in {"get", "update", "written"},
         pc'[k] = "get" /\ old'[k] /\ known'[k] => seenAge'[k] = LeaseDuration,
         pc'[k] = "update" /\ fresh'[k] /\ holder' # k
           => known'[k] /\ seenAge'[k] = LeaseDuration,
         Leads(k)' => Leads(k) /\ holder' = holder /\ Left(k)' <= Left(k),
         known'[k] => \/ known[k] /\ seenAge'[k] = seenAge[k]
                      \/ seenAge'[k] = 0
                      \/ holder \notin Candidates
  PROVE  LeaseInv'
<1> USE DEF LeaseInv
<1>1. \A j \in Candidates : j # k => (Leads(j)' <=> Leads(j)) /\ Left(j)' = Left(j)
  BY DEF Others, Leads, Left
<1>2. TriesInElection'
  BY DEF TriesInElection, Others
<1>3. FinalTries'
  BY DEF FinalTries, Others
<1>4. HolderLeads'
  BY <1>1 DEF HolderLeads
<1>5. Waited'
  BY DEF Waited, Others
<1>6. ASSUME NEW i \in Candidates, NEW j \in Candidates, Leads(i)', j # i, known'[j]
      PROVE  seenAge'[j] + Left(i)' < LeaseDuration
  <2>1. Leads(i) /\ holder = i
    BY <1>1, <1>6 DEF HolderLeads
  <2>2. Left(i) \in Nat /\ Left(i) < LeaseDuration /\ Left(i)' \in Nat /\ Left(i)' <= Left(i)
    BY <1>1, <1>6, LeftBound
  <2>3. CASE known[j] /\ seenAge'[j] = seenAge[j]
    <3>1. seenAge[j] + Left(i) < LeaseDuration /\ seenAge[j] \in Nat
      BY <1>6, <2>1, <2>3 DEF LeaseLasts, TypeOK
    <3> QED
      BY <2>2, <2>3, <3>1, Durations
  <2>4. CASE seenAge'[j] = 0
    BY <2>2, <2>4, Durations
  <2> QED
    BY <1>6, <2>1, <2>3, <2>4 DEF Others
<1>7. LeaseLasts'
  BY <1>6 DEF LeaseLasts
<1> QED
  BY <1>2, <1>3, <1>4, <1>5, <1>7

\* A step that changes the state of k only.
LEMMA LeaveOthers ==
  ASSUME TypeOK, NEW k \in Candidates, NEW m, Leave(k, m)
  PROVE  /\ Others(k)
         /\ mode'[k] = m /\ pc'[k] = "idle" /\ ~final'[k] /\ ~known'[k] /\ ~fresh'[k]
BY DEF TypeOK, Leave, Set, Others

\* A candidate that leaves does not lead.
LEMMA LeaveKeeps ==
  ASSUME LeaseLongEnough, TypeOK, TypeOK', LeaseInv, NEW k \in Candidates,
         NEW m \in {"off", "rest"}, Leave(k, m),
         holder' = holder \/ (holder = k /\ holder' \notin Candidates)
  PROVE  LeaseInv'
<1>1. ~Leads(k)'
  BY LeaveOthers DEF Leads
<1> QED
  BY <1>1, LeaveOthers, StepOfOne

\* Numbers of a candidate.
LEMMA Ages ==
  ASSUME TypeOK, NEW k \in Candidates
  PROVE  /\ call[k] \in 0 .. MaxCall /\ timer[k] \in Nat
         /\ mode[k] = "lead" => timer[k] <= RenewDeadline
         /\ seenAge[k] \in 0 .. LeaseDuration
BY Horizons, Durations DEF TypeOK

\* After a try that failed there is time for at most one more.
LEMMA TryFailedKeeps ==
  ASSUME LeaseLongEnough, TypeOK, TypeOK', LeaseInv, NEW k \in Candidates,
         pc[k] \in {"get", "update", "written"}, TryFailed(k), holder' = holder
  PROVE  LeaseInv'
<1>1. CASE final[k]
  BY <1>1, LeaveKeeps DEF TryFailed
<1>2. CASE ~final[k]
  <2>1. /\ Others(k)
        /\ mode'[k] = mode[k] /\ pc'[k] = "idle" /\ ~final'[k]
        /\ known'[k] = known[k] /\ seenAge'[k] = seenAge[k]
        /\ timer'[k] = IF mode[k] = "acquire" THEN 0 ELSE timer[k]
    BY <1>2 DEF TypeOK, TryFailed, Set, Others
  <2>2. Leads(k)' => Leads(k) /\ Left(k)' <= Left(k)
    <3> SUFFICES ASSUME mode[k] = "lead"
                 PROVE  Left(k)' <= Left(k)
      BY <2>1 DEF Leads
    <3>1. Overtime \in Nat /\ 2 * MaxCall <= RenewDeadline + Overtime
      BY Durations DEF Overtime
    <3> QED
      BY <1>2, <2>1, <3>1, Ages, Durations DEF Left, Remaining
  <2> QED
    BY <2>1, <2>2, StepOfOne
<1> QED
  BY <1>1, <1>2

\* The write of a candidate that does not lead finds no leader: it has known
\* the record for longer than a leader may go on.
LEMMA WriteKeeps ==
  ASSUME LeaseLongEnough, TypeOK, TypeOK', LeaseInv, NEW k \in Candidates, Write(k)
  PROVE  LeaseInv'
<1> USE DEF LeaseInv
<1>1. ASSUME NEW i \in Candidates, Leads(i) PROVE i = k
  <2> SUFFICES ASSUME i # k PROVE FALSE
    OBVIOUS
  <2>1. holder = i /\ known[k] /\ seenAge[k] = LeaseDuration
    BY <1>1 DEF HolderLeads, Waited, Write
  <2>2. seenAge[k] + Left(i) < LeaseDuration
    BY <1>1, <2>1 DEF LeaseLasts
  <2> QED
    BY <2>1, <2>2, LeftBound, Durations
<1>2. /\ \A j \in Candidates : ~known'[j] /\ ~fresh'[j]
      /\ holder' = k /\ pc'[k] = "written" /\ mode' = mode /\ final' = final
      /\ \A j \in Candidates \ {k} : pc'[j] = pc[j]
  BY DEF Write, TypeOK, Set
<1>3. HolderLeads'
  BY <1>1, <1>2 DEF HolderLeads, Leads
<1>4. TriesInElection'
  BY <1>2 DEF TriesInElection, Write
<1>5. FinalTries' /\ Waited' /\ LeaseLasts'
  BY <1>2 DEF FinalTries, Waited, LeaseLasts
<1> QED
  BY <1>3, <1>4, <1>5

\* As time goes on, what is left of a leadership shrinks as the age of the
\* record grows.
LEMMA TickKeeps ==
  ASSUME LeaseLongEnough, TypeOK, TypeOK', LeaseInv, Tick
  PROVE  LeaseInv'
<1> USE DEF LeaseInv
<1>1. TriesInElection' /\ FinalTries' /\ HolderLeads'
  BY DEF Tick, TriesInElection, FinalTries, HolderLeads, Leads
<1>2. ASSUME NEW j \in Candidates
      PROVE  /\ seenAge[j] \in Nat /\ seenAge'[j] \in Nat
             /\ seenAge'[j] <= seenAge[j] + 1
             /\ mode[j] \in {"acquire", "lead"} /\ seenAge[j] = LeaseDuration
                  => seenAge'[j] = LeaseDuration
  BY Ages, Durations DEF Tick, Count
<1>3. Waited'
  BY <1>2 DEF Tick, Waited, TriesInElection
<1>4. ASSUME NEW k \in Candidates, Leads(k)
      PROVE  Left(k)' <= Left(k) - 1
  <2>1. ~Urgent(k) /\ pc'[k] = pc[k] /\ final'[k] = final[k]
    BY DEF Tick
  <2>2. /\ pc[k] \in Pcs /\ pc[k] # "head"
        /\ pc[k] # "idle" => call[k] < MaxCall /\ call'[k] = call[k] + 1
        /\ pc[k] = "idle" => mode[k] = "lead" /\ timer[k] < RenewDeadline /\ ~final[k]
    BY <1>4, <2>1, Ages, Durations DEF Tick, Urgent, Between, Leads, FinalTries, TypeOK
  <2>3. mode[k] = "lead" => timer'[k] = IF timer[k] < RenewDeadline THEN timer[k] + 1
                                         ELSE timer[k]
    BY Horizons DEF Tick, Count
  <2>4. Overtime = IF MaxCall = 0 THEN 0 ELSE 4 * MaxCall - 1
    BY DEF Overtime
  <2>5. CASE pc[k] = "written"
    BY <2>1, <2>2, <2>4, <2>5, Ages, Durations DEF Left, Remaining
  <2>6. CASE pc[k] # "written"
    <3>1. mode[k] = "lead" /\ pc[k] \in {"idle", "get", "update"}
      BY <1>4, <2>2, <2>6 DEF Leads, Pcs
    <3>2. CASE pc[k] = "idle"
      BY <2>1, <2>2, <2>3, <2>4, <3>1, <3>2, Ages, Durations DEF Left, Remaining
    <3>3. CASE pc[k] = "get"
      BY <2>1, <2>2, <2>3, <2>4, <3>1, <3>3, Ages, Durations DEF Left, Remaining
    <3>4. CASE pc[k] = "update"
      BY <2>1, <2>2, <2>3, <2>4, <3>1, <3>4, Ages, Durations DEF Left, Remaining
    <3> QED
      BY <3>1, <3>2, <3>3, <3>4
  <2> QED
    BY <2>5, <2>6
<1>5. ASSUME NEW k \in Candidates, NEW j \in Candidates, Leads(k)', j # k, known'[j]
      PROVE  seenAge'[j] + Left(k)' < LeaseDuration
  <2>1. Leads(k) /\ known[j]
    BY <1>5 DEF Tick, Leads
  <2>2. seenAge[j] + Left(k) < LeaseDuration
    BY <1>5, <2>1 DEF LeaseLasts
  <2> QED
    BY <1>2, <1>4, <2>1, <2>2, LeftBound, Durations
<1>6. LeaseLasts'
  BY <1>5 DEF LeaseLasts
<1> QED
  BY <1>1, <1>3, <1>6

\* Every step keeps the invariant.
LEMMA LeaseStep ==
  ASSUME LeaseLongEnough, TypeOK, LeaseInv, [Next]_vars
  PROVE  LeaseInv'
<1>0. TypeOK'
  BY TypeStep
<1>t. Overtime \in Nat
  BY Durations DEF Overtime
<1>1. CASE Tick
  BY <1>0, <1>1, TickKeeps
<1>2. ASSUME NEW k \in Candidates, StartElection(k)
      PROVE  LeaseInv'
  <2>1. /\ Others(k) /\ holder' = holder /\ mode'[k] = "acquire"
        /\ pc'[k] = "idle" /\ ~final'[k] /\ known'[k] = (holder = Nobody)
    <3>1. pc[k] = "idle" /\ ~final[k]
      BY <1>2 DEF StartElection, LeaseInv, TriesInElection, FinalTries
    <3> QED
      BY <1>2, <3>1 DEF StartElection, TypeOK, Set, Others
  <2>2. ~Leads(k)' /\ Nobody \notin Candidates
    BY <2>1, TimingAssumption DEF Leads
  <2> QED
    BY <1>0, <2>1, <2>2, StepOfOne
<1>3. ASSUME NEW k \in Candidates, AcquireOver(k) \/ GiveUp(k) \/ RestOver(k)
      PROVE  LeaseInv'
  BY <1>0, <1>3, LeaveKeeps DEF AcquireOver, GiveUp, RestOver
<1>4. ASSUME NEW k \in Candidates, StartTry(k)
      PROVE  LeaseInv'
  <2>1. /\ Others(k) /\ holder' = holder /\ mode'[k] = mode[k]
        /\ pc[k] = "idle" /\ pc'[k] = "get" /\ mode[k] \in {"acquire", "lead"}
        /\ known'[k] = known[k] /\ seenAge'[k] = seenAge[k]
        /\ call'[k] = 0 /\ timer'[k] = timer[k]
        /\ old'[k] => seenAge[k] >= LeaseDuration
        /\ mode[k] = "lead" => (final'[k] <=> timer[k] >= RenewDeadline)
    BY <1>4 DEF StartTry, TypeOK, Set, Others
  <2>2. ~final[k]
    BY <2>1 DEF LeaseInv, FinalTries
  <2>3. Leads(k)' => Leads(k) /\ Left(k)' <= Left(k)
    BY <1>t, <2>1, <2>2, Ages, Durations DEF Leads, Left, Remaining
  <2>4. old'[k] => seenAge'[k] = LeaseDuration
    BY <2>1, Ages, Durations
  <2> QED
    BY <1>0, <2>1, <2>3, <2>4, StepOfOne
<1>5. ASSUME NEW k \in Candidates, GetFails(k) \/ UpdateFails(k) \/ AnswerLost(k)
      PROVE  LeaseInv'
  BY <1>0, <1>5, TryFailedKeeps DEF GetFails, UpdateFails, AnswerLost
<1>6. ASSUME NEW k \in Candidates, GetAndWrite(k)
      PROVE  LeaseInv'
  <2>1. /\ Others(k) /\ holder' = holder /\ mode'[k] = mode[k]
        /\ pc[k] = "get" /\ pc'[k] = "update" /\ final'[k] = final[k]
        /\ call'[k] = 0 /\ timer'[k] = timer[k] /\ known'[k]
        /\ seenAge'[k] = IF known[k] THEN seenAge[k] ELSE 0
    BY <1>6 DEF GetAndWrite, TypeOK, Set, Others
  <2>2. holder # k => known[k] /\ seenAge[k] = LeaseDuration
    BY <1>6 DEF GetAndWrite, MayWrite, LeaseInv, Waited
  <2>3. Leads(k)' => Leads(k) /\ Left(k)' <= Left(k)
    BY <1>t, <2>1, Ages, Durations DEF Leads, Left, Remaining
  <2>4. mode[k] \in {"acquire", "lead"}
    BY <2>1 DEF LeaseInv, TriesInElection
  <2> QED
    BY <1>0, <2>1, <2>2, <2>3, <2>4, StepOfOne
<1>7. ASSUME NEW k \in Candidates, GetAndLose(k)
      PROVE  LeaseInv'
  <2>1. CASE final[k]
    BY <1>0, <1>7, <2>1, LeaveKeeps DEF GetAndLose
  <2>2. CASE ~final[k]
    <3>1. /\ Others(k) /\ holder' = holder /\ mode'[k] = mode[k]
          /\ pc'[k] = "idle" /\ ~final'[k]
          /\ seenAge'[k] = IF known[k] THEN seenAge[k] ELSE 0
      BY <1>7, <2>2 DEF GetAndLose, TypeOK, Set, Others
    <3>2. ~Leads(k)'
      BY <1>7, <3>1 DEF GetAndLose, MayWrite, LeaseInv, HolderLeads, Leads
    <3> QED
      BY <1>0, <3>1, <3>2, StepOfOne DEF TypeOK
  <2> QED
    BY <2>1, <2>2
<1>8. ASSUME NEW k \in Candidates, Write(k)
      PROVE  LeaseInv'
  BY <1>0, <1>8, WriteKeeps
<1>9. ASSUME NEW k \in Candidates, Written(k)
      PROVE  LeaseInv'
  <2>1. /\ Others(k) /\ holder' = holder /\ mode'[k] = "lead"
        /\ pc[k] = "written" /\ pc'[k] = "head" /\ ~final'[k]
        /\ timer'[k] = 0 /\ seenAge'[k] = 0
    BY <1>9 DEF Written, TypeOK, Set, Others
  <2>2. Leads(k) /\ Left(k)' <= Left(k)
    BY <1>t, <2>1, Ages, Durations DEF Leads, Left, Remaining
  <2> QED
    BY <1>0, <2>1, <2>2, StepOfOne
<1>10. ASSUME NEW k \in Candidates, RenewAgain(k)
       PROVE  LeaseInv'
  <2>1. /\ Others(k) /\ holder' = holder /\ mode'[k] = mode[k]
        /\ pc[k] = "head" /\ pc'[k] = "idle" /\ final'[k] = final[k]
        /\ timer'[k] = timer[k] /\ call'[k] = call[k]
        /\ seenAge'[k] = seenAge[k] /\ known'[k] = known[k]
    BY <1>10 DEF RenewAgain, TypeOK, Set, Others
  <2>2. ~final[k]
    BY <2>1 DEF LeaseInv, FinalTries
  <2>3. Leads(k)' => Leads(k) /\ Left(k)' <= Left(k)
    BY <1>0, <1>t, <2>1, <2>2, Ages, Durations DEF Leads, Left, Remaining
  <2> QED
    BY <1>0, <2>1, <2>2, <2>3, StepOfOne
<1>11. ASSUME NEW k \in Candidates, Crash(k)
       PROVE  LeaseInv'
  <2>1. Gone \notin Candidates
    BY TimingAssumption
  <2> QED
    BY <1>0, <1>11, <2>1, LeaveKeeps DEF Crash
<1>12. CASE UNCHANGED vars
  BY <1>12 DEF vars, LeaseInv, TriesInElection, FinalTries, HolderLeads, Waited,
     LeaseLasts, Leads, Left
<1> QED
  BY <1>1, <1>2, <1>3, <1>4, <1>5, <1>6, <1>7, <1>8, <1>9, <1>10, <1>11, <1>12
  DEF Next, Try

\* "only one provisioner (the leader) is trying to provision a volume for the
\* pvc at a time" (leaderelection.go:19-20): for any number of candidates,
\* failed calls, lost answers and crashes, if an API call never takes longer
\* than a fifth of what LeaseDuration exceeds RenewDeadline by.
THEOREM OneLeaderAlways ==
  ASSUME LeaseLongEnough
  PROVE  Spec => []OneLeader
<1>1. Init => LeaseInv
  BY DEF Init, LeaseInv, TriesInElection, FinalTries, HolderLeads, Waited,
     LeaseLasts, Leads
<1>2. TypeOK /\ LeaseInv /\ [Next]_vars => LeaseInv'
  BY LeaseStep
<1>3. LeaseInv => OneLeader
  BY DEF LeaseInv, HolderLeads, OneLeader, Leads
<1> QED
  BY <1>1, <1>2, <1>3, TypeCorrect, PTL DEF Spec
=============================================================================
