---------------------- MODULE WatchProvisioningProofs ----------------------
(***************************************************************************)
(* For any number of updates, failed attempts and ends of same-named       *)
(* claims, and whether watches work or not: the types of                   *)
(* WatchProvisioning, and that acquire() gives up only if there is nothing *)
(* left to do, or a claim of the same name came to its end.                *)
(***************************************************************************)
EXTENDS WatchProvisioning, TLAPS

----------------------------------------------------------------------------
(* OverExplained is not inductive: what the elector is told must be right on *)
(* its whole way, in the queues of the watches, in the relay's hands and in *)
(* the watcher's.                                                           *)

\* What event e reports is the case, and will stay so.
Happened(e) ==
  /\ e \in {"volume", "deleted"} => claim # "pending"
  /\ e = "ProvisioningSucceeded" => result
  /\ e = "namesake" => namesakes > 0

QueuesTrue == \A w \in Watches : \A n \in DOMAIN queue[w] : Happened(queue[w][n])
RelayTrue == \A e \in Events : relay = Sending(e) => Happened(e)
WatcherTrue ==
  watcher = Sending("succeeded") => claim # "pending" \/ result \/ namesakes > 0

OverInv == TypeOK /\ QueuesTrue /\ RelayTrue /\ WatcherTrue /\ OverExplained

\* A message that is sent, and what the states of a goroutine are not.
LEMMA Messages ==
  /\ \A e, f : Sending(e) = Sending(f) => e = f
  /\ \A e : /\ Sending(e) # Waiting /\ Sending(e) # Ended
            /\ Sending(e).pc = "send" /\ Sending(e).msg = e
  /\ Waiting # Ended /\ Waiting.pc = "select" /\ Ended.pc = "ended"
BY DEF Sending, Waiting, Ended

\* No events.
LEMMA NoEventsTyped ==
  NoEvents \in [Watches -> Seq(Events)] /\ \A w \in Watches : NoEvents[w] = <<>>
BY DEF NoEvents

\* The types of the queues when an event is delivered; nothing else is added.
LEMMA Delivered ==
  ASSUME TypeOK, QueuesTrue, NEW w \in Watches, NEW e \in Events, Deliver(w, e),
         Happened(e)', claim # "pending" => claim' # "pending", result => result',
         namesakes > 0 => namesakes' > 0
  PROVE  queue' \in [Watches -> Seq(Events)] /\ QueuesTrue'
<1>1. CASE queue' = queue
  BY <1>1 DEF TypeOK, QueuesTrue, Happened
<1>2. CASE queue' = [queue EXCEPT ![w] = Append(queue[w], e)]
  <2>1. queue[w] \in Seq(Events)
    BY DEF TypeOK
  <2>2. queue' = [queue EXCEPT ![w] = Append(queue[w], e)]
    BY <1>2
  <2>3. queue' \in [Watches -> Seq(Events)]
    BY <2>1, <2>2 DEF TypeOK
  <2>4. ASSUME NEW v \in Watches, NEW n \in DOMAIN queue'[v]
        PROVE  Happened(queue[v][n])'
    <3>1. CASE v # w
      BY <2>2, <2>4, <3>1 DEF TypeOK, QueuesTrue, Happened
    <3>2. CASE v = w
      <4>1. queue'[v] = Append(queue[w], e)
        BY <2>2, <3>2 DEF TypeOK
      <4>2. n \in 1 .. Len(queue[w]) + 1
        BY <2>1, <2>4, <4>1
      <4>3. CASE n = Len(queue[w]) + 1
        BY <2>1, <4>1, <4>3
      <4>4. CASE n # Len(queue[w]) + 1
        <5>1. n \in DOMAIN queue[w] /\ queue'[v][n] = queue[w][n]
          BY <2>1, <4>1, <4>2, <4>4
        <5> QED
          BY <5>1 DEF QueuesTrue, Happened
      <4> QED
        BY <4>3, <4>4
    <3> QED
      BY <3>1, <3>2
  <2> QED
    BY <2>3, <2>4 DEF QueuesTrue
<1> QED
  BY <1>1, <1>2 DEF Deliver

\* What was true stays true.
LEMMA TruthStays ==
  ASSUME TypeOK, claim # "pending" => claim' # "pending", result => result',
         namesakes > 0 => namesakes' > 0, relay' = relay, watcher' = watcher, over' = over,
         RelayTrue, WatcherTrue, OverExplained
  PROVE  RelayTrue' /\ WatcherTrue' /\ OverExplained'
BY DEF RelayTrue, WatcherTrue, OverExplained, Happened

\* Every step keeps the invariant.
LEMMA OverStep ==
  ASSUME OverInv, [Next]_vars
  PROVE  OverInv'
<1> USE DEF OverInv
<1>g. UnchangedGoroutines => UNCHANGED <<open, relay, watcher, stopPVC, elector, over, stopCh>>
  BY DEF UnchangedGoroutines, electorVars
<1>1. CASE UpdateClaim
  <2>1. Happened("update")' /\ "update" \in Events /\ "pvc" \in Watches
    BY DEF Happened, Events, Watches
  <2>2. claim' = claim /\ result' = result /\ namesakes' = namesakes /\ updates' \in 0 .. MaxUpdates
    BY <1>1, BoundsAssumption DEF UpdateClaim, TypeOK
  <2>3. queue' \in [Watches -> Seq(Events)] /\ QueuesTrue'
    BY <1>1, <2>1, <2>2, Delivered DEF UpdateClaim
  <2>4. RelayTrue' /\ WatcherTrue' /\ OverExplained'
    BY <1>1, <1>g, <2>2, TruthStays DEF UpdateClaim
  <2> QED
    BY <1>1, <1>g, <2>2, <2>3, <2>4 DEF UpdateClaim, TypeOK
<1>2. CASE FinishClaim \/ DeleteClaim
  <2>1. /\ Happened("volume")' /\ Happened("deleted")' /\ claim' \in {"done", "gone"}
        /\ {"volume", "deleted"} \subseteq Events /\ "pvc" \in Watches
    BY <1>2 DEF FinishClaim, DeleteClaim, Happened, Events, Watches
  <2>2. queue' \in [Watches -> Seq(Events)] /\ QueuesTrue'
    BY <1>2, <2>1, Delivered DEF FinishClaim, DeleteClaim
  <2>3. RelayTrue' /\ WatcherTrue' /\ OverExplained'
    BY <1>2, <1>g, <2>1, TruthStays DEF FinishClaim, DeleteClaim
  <2> QED
    BY <1>2, <1>g, <2>1, <2>2, <2>3 DEF FinishClaim, DeleteClaim, TypeOK
<1>3. CASE AttemptSucceeds
  <2>1. /\ Happened("ProvisioningSucceeded")' /\ "ProvisioningSucceeded" \in Events
        /\ "succeeded" \in Watches
    BY <1>3 DEF AttemptSucceeds, Happened, Events, Watches
  <2>2. queue' \in [Watches -> Seq(Events)] /\ QueuesTrue'
    BY <1>3, <2>1, Delivered DEF AttemptSucceeds
  <2>3. RelayTrue' /\ WatcherTrue' /\ OverExplained'
    BY <1>3, <1>g, TruthStays DEF AttemptSucceeds
  <2> QED
    BY <1>3, <1>g, <2>2, <2>3 DEF AttemptSucceeds, TypeOK
<1>4. CASE AttemptFails
  <2>1. /\ Happened("ProvisioningFailed")' /\ "ProvisioningFailed" \in Events
        /\ "failed" \in Watches
    BY DEF Happened, Events, Watches
  <2>2. claim' = claim /\ result' = result /\ namesakes' = namesakes /\ failures' \in 0 .. MaxFailures
    BY <1>4, BoundsAssumption DEF AttemptFails, TypeOK
  <2>3. queue' \in [Watches -> Seq(Events)] /\ QueuesTrue'
    BY <1>4, <2>1, <2>2, Delivered DEF AttemptFails
  <2>4. RelayTrue' /\ WatcherTrue' /\ OverExplained'
    BY <1>4, <1>g, <2>2, TruthStays DEF AttemptFails
  <2> QED
    BY <1>4, <1>g, <2>2, <2>3, <2>4 DEF AttemptFails, TypeOK
<1>15. CASE NamesakeEnds
  <2>1. "namesake" \in Events /\ "pvc" \in Watches
    BY DEF Events, Watches
  <2>2. /\ claim' = claim /\ result' = result
        /\ namesakes' \in 0 .. MaxNamesakes /\ namesakes' > 0
    BY <1>15, BoundsAssumption DEF NamesakeEnds, TypeOK
  <2>3. queue' \in [Watches -> Seq(Events)] /\ QueuesTrue'
    <3>1. Happened("namesake")'
      BY <2>2 DEF Happened
    <3> QED
      BY <1>15, <2>1, <2>2, <3>1, Delivered DEF NamesakeEnds
  <2>4. RelayTrue' /\ WatcherTrue' /\ OverExplained'
    BY <1>15, <1>g, <2>2, TruthStays DEF NamesakeEnds
  <2> QED
    BY <1>15, <1>g, <2>2, <2>3, <2>4 DEF NamesakeEnds, TypeOK
<1>a. UNCHANGED apiVars => UNCHANGED <<claim, result, updates, failures, namesakes>>
  BY DEF apiVars
<1>e. UNCHANGED electorVars => UNCHANGED <<elector, over, stopCh>>
  BY DEF electorVars
<1>r. UNCHANGED relayVars => UNCHANGED <<queue, open, relay>>
  BY DEF relayVars
<1>5. ASSUME NEW w \in Watches, CloseWatch(w)
      PROVE  OverInv'
  <2>1. queue' = [queue EXCEPT ![w] = <<>>] /\ queue' \in [Watches -> Seq(Events)]
    BY <1>5 DEF CloseWatch, TypeOK
  <2>2. QueuesTrue'
    BY <1>5, <1>a, <2>1 DEF CloseWatch, TypeOK, QueuesTrue, Happened
  <2>3. RelayTrue' /\ WatcherTrue' /\ OverExplained'
    BY <1>5, <1>a, <1>e, TruthStays DEF CloseWatch
  <2> QED
    BY <1>5, <1>a, <1>e, <2>1, <2>2, <2>3 DEF CloseWatch, TypeOK
<1>16. CASE RefreshCache
  <2>1. PICK n \in DOMAIN queue["pvc"] :
          queue' = [queue EXCEPT !["pvc"] = SubSeq(@, n + 1, Len(@))]
    BY <1>16 DEF RefreshCache
  <2> DEFINE q == queue["pvc"]
             r == SubSeq(q, n + 1, Len(q))
  <2>2. "pvc" \in Watches /\ q \in Seq(Events) /\ n \in 1 .. Len(q)
    BY DEF TypeOK, Watches
  <2>3. /\ r \in Seq(Events)
        /\ \A m \in DOMAIN r : m + n \in DOMAIN q /\ r[m] = q[m + n]
    BY <2>2
  <2>4. queue' = [queue EXCEPT !["pvc"] = r]
    BY <2>1
  <2>5. UNCHANGED <<claim, result, updates, failures, namesakes>>
    BY <1>16, <1>a DEF RefreshCache
  <2>6. ASSUME NEW v \in Watches, NEW m \in DOMAIN queue'[v]
        PROVE  Happened(queue[v][m])'
    <3> HIDE DEF r
    <3>1. CASE v # "pvc"
      BY <2>2, <2>4, <2>5, <2>6, <3>1 DEF TypeOK, QueuesTrue, Happened
    <3>2. CASE v = "pvc"
      <4>1. queue'[v] = r
        BY <2>2, <2>4, <3>2 DEF TypeOK
      <4>2. m + n \in DOMAIN q /\ queue'[v][m] = q[m + n]
        BY <2>3, <2>6, <4>1
      <4> QED
        BY <2>2, <2>5, <4>2 DEF QueuesTrue, Happened
    <3> QED
      BY <3>1, <3>2
  <2>7. queue' \in [Watches -> Seq(Events)] /\ QueuesTrue'
    <3> HIDE DEF r
    <3> QED
      BY <2>2, <2>3, <2>4, <2>6 DEF TypeOK, QueuesTrue
  <2>8. RelayTrue' /\ WatcherTrue' /\ OverExplained'
    BY <1>16, <1>g, <2>5, TruthStays DEF RefreshCache
  <2> QED
    BY <1>16, <1>g, <2>5, <2>7, <2>8 DEF RefreshCache, TypeOK
<1>6. ASSUME NEW w \in Watches, RelayTakes(w)
      PROVE  OverInv'
  <2> DEFINE e == Head(queue[w])
  <2>1. queue[w] \in Seq(Events) /\ queue[w] # <<>>
    BY <1>6 DEF RelayTakes, TypeOK
  <2>2. e \in Events /\ Happened(e) /\ Tail(queue[w]) \in Seq(Events)
    <3>1. 1 \in DOMAIN queue[w] /\ e = queue[w][1]
      BY <2>1
    <3> QED
      BY <2>1, <3>1 DEF QueuesTrue
  <2>3. queue' = [queue EXCEPT ![w] = Tail(queue[w])] /\ relay' = Sending(e)
    BY <1>6 DEF RelayTakes
  <2> HIDE DEF e
  <2>4. ASSUME NEW v \in Watches, NEW n \in DOMAIN queue'[v]
        PROVE  Happened(queue[v][n])'
    <3>1. Happened(queue'[v][n])
      <4>1. CASE v # w
        BY <2>3, <2>4, <4>1 DEF TypeOK, QueuesTrue
      <4>2. CASE v = w
        <5>1. queue'[v] = Tail(queue[w])
          BY <2>3, <4>2 DEF TypeOK
        <5>2. n + 1 \in DOMAIN queue[w] /\ queue'[v][n] = queue[w][n + 1]
          BY <2>1, <2>4, <5>1
        <5> QED
          BY <5>2 DEF QueuesTrue
      <4> QED
        BY <4>1, <4>2
    <3> QED
      BY <1>6, <1>a, <3>1 DEF RelayTakes, Happened
  <2>5. RelayTrue'
    BY <1>6, <1>a, <2>2, <2>3, Messages DEF RelayTakes, RelayTrue, Happened
  <2>6. queue' \in [Watches -> Seq(Events)] /\ QueuesTrue'
    BY <2>2, <2>3, <2>4 DEF TypeOK, QueuesTrue
  <2> QED
    BY <1>6, <1>a, <1>e, <2>2, <2>3, <2>5, <2>6, Messages
    DEF RelayTakes, TypeOK, WatcherTrue, OverExplained
<1>7. CASE RelayEnds
  <2>1. QueuesTrue' /\ queue' \in [Watches -> Seq(Events)]
    BY <1>7, NoEventsTyped DEF RelayEnds, QueuesTrue
  <2>2. RelayTrue'
    BY <1>7, Messages DEF RelayEnds, RelayTrue
  <2> QED
    BY <1>7, <1>a, <1>e, <2>1, <2>2 DEF RelayEnds, TypeOK, WatcherTrue, OverExplained
<1>8. CASE WatcherTakes
  <2>1. PICK e \in Events : relay = Sending(e)
    BY <1>8, Messages DEF WatcherTakes, TypeOK
  <2>2. watcher' = WatcherState(e) /\ relay' = Waiting /\ Happened(e)
    BY <1>8, <2>1, Messages DEF WatcherTakes, RelayTrue
  <2>3. watcher' \in {Waiting, Sending("succeeded"), Sending("failed")}
    BY <2>2 DEF WatcherState, Events
  <2>4. watcher' = Sending("succeeded") => claim # "pending" \/ result \/ namesakes > 0
    BY <2>2, Messages DEF WatcherState, Events, Happened
  <2>5. RelayTrue'
    BY <2>2, Messages DEF RelayTrue
  <2> QED
    BY <1>8, <1>a, <1>e, <2>2, <2>3, <2>4, <2>5, Messages
    DEF WatcherTakes, TypeOK, QueuesTrue, Happened, WatcherTrue, OverExplained
<1>9. CASE WatcherEnds
  BY <1>9, <1>a, <1>r, <1>e, Messages
  DEF WatcherEnds, TypeOK, QueuesTrue, Happened, RelayTrue, WatcherTrue, OverExplained
<1>10. CASE StartLock
  <2>1. UNCHANGED <<claim, result, updates, failures, namesakes, over, stopCh, stopPVC>>
    BY <1>10, <1>a DEF StartLock
  <2>2. CASE queue' = NoEvents /\ UNCHANGED <<relay, watcher, open>>
    <3>1. queue' \in [Watches -> Seq(Events)] /\ QueuesTrue'
      BY <2>2, NoEventsTyped DEF QueuesTrue
    <3> QED
      BY <1>10, <2>1, <2>2, <3>1
      DEF StartLock, TypeOK, Happened, RelayTrue, WatcherTrue, OverExplained
  <2>3. CASE relay' = Waiting /\ watcher' = Waiting /\ open' = Watches /\ queue' = queue
    BY <1>10, <2>1, <2>3, Messages
    DEF StartLock, TypeOK, QueuesTrue, Happened, RelayTrue, WatcherTrue, OverExplained
  <2> QED
    BY <1>10, <2>2, <2>3 DEF StartLock
<1>11. CASE AcquireHearsSuccess
  BY <1>11, <1>a, <1>r, Messages
  DEF AcquireHearsSuccess, Received, TypeOK, QueuesTrue, Happened, RelayTrue,
      WatcherTrue, OverExplained
<1>12. CASE AcquireTries
  BY <1>12, <1>a, <1>r, Messages
  DEF AcquireTries, Received, NothingReceived, TypeOK, QueuesTrue, Happened, RelayTrue,
      WatcherTrue, OverExplained
<1>13. CASE RenewHears \/ RenewEnds \/ RestOver
  <2>1. watcher' = watcher \/ watcher' = Waiting
    BY <1>13 DEF RenewHears, RenewEnds, RestOver, Received
  <2>2. /\ UNCHANGED <<claim, result, updates, failures, namesakes, queue, open, relay,
                       stopPVC, over>>
        /\ elector' \in {"rest", "ended"} /\ stopCh' \in BOOLEAN
    BY <1>13, <1>a, <1>r DEF RenewHears, RenewEnds, RestOver, TypeOK
  <2> QED
    BY <2>1, <2>2, Messages
    DEF TypeOK, QueuesTrue, Happened, RelayTrue, WatcherTrue, OverExplained
<1>14. CASE UNCHANGED vars
  BY <1>14, <1>a, <1>r, <1>e
  DEF vars, TypeOK, QueuesTrue, Happened, RelayTrue, WatcherTrue, OverExplained
<1> QED
  BY <1>1, <1>2, <1>3, <1>4, <1>5, <1>6, <1>7, <1>8, <1>9, <1>10, <1>11, <1>12,
     <1>13, <1>14, <1>15, <1>16 DEF Next, Api, Relay, Lock

\* Nothing is on its way at first.
LEMMA OverInit == Init => OverInv
<1> SUFFICES ASSUME Init PROVE OverInv
  OBVIOUS
<1>1. TypeOK
  <2>1. /\ updates \in 0 .. MaxUpdates /\ failures \in 0 .. MaxFailures
        /\ namesakes \in 0 .. MaxNamesakes
    BY BoundsAssumption DEF Init
  <2> QED
    BY <2>1, NoEventsTyped DEF Init, TypeOK
<1>2. QueuesTrue
  BY NoEventsTyped DEF Init, QueuesTrue
<1>3. RelayTrue /\ WatcherTrue /\ OverExplained
  BY Messages DEF Init, RelayTrue, WatcherTrue, OverExplained
<1> QED
  BY <1>1, <1>2, <1>3 DEF OverInv

\* The state keeps its types: whatever the watches deliver, the elector is
\* told of a success or a failure only (controller.go:1035-1080), and when
\* watchPVC's goroutine has returned its watches are stopped (1110-1112).
THEOREM TypeCorrect == Spec => []TypeOK
<1>1. OverInv /\ [Next]_vars => OverInv'
  BY OverStep
<1>2. OverInv => TypeOK
  BY DEF OverInv
<1> QED
  BY <1>1, <1>2, OverInit, PTL DEF Spec

\* A candidate stops waiting for the lease only when the claim needs no volume
\* any more, an attempt succeeded, or a claim of the same name in another
\* namespace came to its end, however late the news arrive over the two
\* channels (controller.go:1034-1074, 1115-1138).
THEOREM OverAlwaysExplained == Spec => []OverExplained
<1>1. OverInv /\ [Next]_vars => OverInv'
  BY OverStep
<1>2. OverInv => OverExplained
  BY DEF OverInv
<1> QED
  BY <1>1, <1>2, OverInit, PTL DEF Spec

\* "Else, there must have been a success so just proceed"
\* (controller.go:810-812) holds of a cluster where no other namespace has a
\* claim of this name that ends while it is watched: nothing but the selector
\* by name (1084) can make it false.
THEOREM OverRightForUniqueNames ==
  ASSUME MaxNamesakes = 0
  PROVE  Spec => []OverIsRight
<1>1. OverInv /\ [Next]_vars => OverInv'
  BY OverStep
<1>2. OverInv => OverIsRight
  BY DEF OverInv, OverExplained, OverIsRight, TypeOK
<1> QED
  BY <1>1, <1>2, OverInit, PTL DEF Spec
=============================================================================
