-------------------------- MODULE WatchProvisioning --------------------------
(***************************************************************************)
(* One lock operation of lib/controller/controller.go                      *)
(* (lockProvisionClaimOperation) with the two goroutines that tell its     *)
(* leader elector how provisioning goes: watchPVC's (the relay) takes the  *)
(* events of three API watches and sends them to watchProvisioning's (the  *)
(* watcher), which sends the results of provisioning attempts to acquire() *)
(* or renew().  Both channels are unbuffered: a send waits for a receiver, *)
(* and the elector receives only at the head of its loops, and not any     *)
(* more after Run returned.                                                *)
(*                                                                         *)
(* Results come from any replica's attempt.  Clocks, and the lease itself, *)
(* are in module LeaderElection: here a try to acquire or renew may fail   *)
(* or succeed, and a term may end at any time.                             *)
(***************************************************************************)
EXTENDS Integers, Sequences

CONSTANTS
  MaxUpdates,   \* bound: updates of the claim that change nothing of interest
  MaxFailures,  \* bound: ProvisioningFailed events
  MaxNamesakes, \* bound: ends of claims of the same name in other namespaces
  WatchesFail   \* whether the API server may refuse or close a watch

ASSUME BoundsAssumption ==
  /\ MaxUpdates \in Nat /\ MaxFailures \in Nat /\ MaxNamesakes \in Nat
  /\ WatchesFail \in BOOLEAN

Watches == {"pvc", "failed", "succeeded"}
\* What the watches deliver: updates of the claim that leave it without a
\* volume and asking for this provisioner, or not; its deletion; the two
\* events; and that a claim of the same name in another namespace is bound,
\* deleted or not ours.
Events == {"update", "volume", "deleted", "ProvisioningFailed",
           "ProvisioningSucceeded", "namesake"}

VARIABLES
  claim,    \* the claim on the API server: "pending", "done" or "gone"
  result,   \* a ProvisioningSucceeded event was recorded
  updates,  \* updates so far
  failures, \* ProvisioningFailed events so far
  namesakes, \* ends of same-named claims so far
  queue,    \* queue[w]: the events watch w has not delivered yet; before the
            \* lock operation, queue["pvc"] is what happened since the version
            \* of the claim in the informer's cache
  open,     \* the watches that are open
  relay,    \* watchPVC's goroutine: at its select, sending, or ended
  watcher,  \* watchProvisioning's goroutine: likewise
  elector,  \* Run: acquire(), renew(), the rest after leading, or over
  over,     \* acquire() ended because it heard of a success
  stopCh,   \* stopCh is closed
  stopPVC   \* stopWatchPVC is closed

apiVars == <<claim, result, updates, failures, namesakes>>
relayVars == <<queue, open, relay>>
electorVars == <<elector, over, stopCh>>
vars == <<apiVars, relayVars, watcher, stopPVC, electorVars>>

Ended == [pc |-> "ended", msg |-> "none"]
Waiting == [pc |-> "select", msg |-> "none"]
Sending(m) == [pc |-> "send", msg |-> m]
NoEvents == [w \in Watches |-> <<>>]

\* The types; and however watchPVC's goroutine returns, it has stopped its
\* three watches (the deferred calls, controller.go:1110-1112).
TypeOK ==
  /\ claim \in {"pending", "done", "gone"}
  /\ result \in BOOLEAN
  /\ updates \in 0 .. MaxUpdates
  /\ failures \in 0 .. MaxFailures
  /\ namesakes \in 0 .. MaxNamesakes
  /\ queue \in [Watches -> Seq(Events)]
  /\ open \in SUBSET Watches
  /\ relay = Ended => open = {}
  /\ relay \in {Ended, Waiting} \cup {Sending(e) : e \in Events}
  /\ watcher \in {Ended, Waiting, Sending("succeeded"), Sending("failed")}
  /\ elector \in {"off", "acquire", "lead", "rest", "ended"}
  /\ over \in BOOLEAN
  /\ stopCh \in BOOLEAN
  /\ stopPVC \in BOOLEAN

Init ==
  /\ claim = "pending"
  /\ result = FALSE
  /\ updates = 0
  /\ failures = 0
  /\ namesakes = 0
  /\ queue = NoEvents
  /\ open = {}
  /\ relay = Ended
  /\ watcher = Ended
  /\ elector = "off"
  /\ over = FALSE
  /\ stopCh = FALSE
  /\ stopPVC = FALSE

----------------------------------------------------------------------------
(* The API server.                                                          *)

\* An event for watch w, if it is open or will be opened from a version that
\* is older than the event.
Deliver(w, e) ==
  queue' = IF w \in open \/ (w = "pvc" /\ elector = "off")
           THEN [queue EXCEPT ![w] = Append(@, e)]
           ELSE queue

UnchangedGoroutines == UNCHANGED <<open, relay, watcher, stopPVC, electorVars>>

\* A lease is written into the claim, or something else nobody waits for.
UpdateClaim ==
  /\ claim = "pending"
  /\ updates < MaxUpdates
  /\ updates' = updates + 1
  /\ Deliver("pvc", "update")
  /\ UNCHANGED <<claim, result, failures, namesakes>>
  /\ UnchangedGoroutines

\* The claim is bound, or modified not to ask for this provisioner.
FinishClaim ==
  /\ claim = "pending"
  /\ claim' = "done"
  /\ Deliver("pvc", "volume")
  /\ UNCHANGED <<result, updates, failures, namesakes>>
  /\ UnchangedGoroutines

DeleteClaim ==
  /\ claim # "gone"
  /\ claim' = "gone"
  /\ Deliver("pvc", "deleted")
  /\ UNCHANGED <<result, updates, failures, namesakes>>
  /\ UnchangedGoroutines

\* A replica's attempt ends.
AttemptSucceeds ==
  /\ ~result
  /\ result' = TRUE
  /\ Deliver("succeeded", "ProvisioningSucceeded")
  /\ UNCHANGED <<claim, updates, failures, namesakes>>
  /\ UnchangedGoroutines

AttemptFails ==
  /\ failures < MaxFailures
  /\ failures' = failures + 1
  /\ Deliver("failed", "ProvisioningFailed")
  /\ UNCHANGED <<claim, result, updates, namesakes>>
  /\ UnchangedGoroutines

\* A claim of the same name in another namespace is bound, deleted or modified
\* not to ask for this provisioner: the watch on the claim is on all
\* namespaces and selects by name only.
NamesakeEnds ==
  /\ namesakes < MaxNamesakes
  /\ namesakes' = namesakes + 1
  /\ Deliver("pvc", "namesake")
  /\ UNCHANGED <<claim, result, updates, failures>>
  /\ UnchangedGoroutines

\* Before the operation the claims' informer may still see an update of the
\* claim: its cached version is then newer than all that came before.
RefreshCache ==
  /\ elector = "off"
  /\ \E n \in DOMAIN queue["pvc"] :
       /\ queue["pvc"][n] = "update"
       /\ queue' = [queue EXCEPT !["pvc"] = SubSeq(@, n + 1, Len(@))]
  /\ UNCHANGED apiVars
  /\ UnchangedGoroutines

\* The API server closes a watch.
CloseWatch(w) ==
  /\ WatchesFail
  /\ w \in open
  /\ open' = open \ {w}
  /\ queue' = [queue EXCEPT ![w] = <<>>]
  /\ UNCHANGED <<apiVars, relay, watcher, stopPVC, electorVars>>

----------------------------------------------------------------------------
(* watchPVC's goroutine.                                                    *)

RelayTakes(w) ==
  /\ relay = Waiting
  /\ queue[w] # <<>>
  /\ relay' = Sending(Head(queue[w]))
  /\ queue' = [queue EXCEPT ![w] = Tail(@)]
  /\ UNCHANGED <<apiVars, open, watcher, stopPVC, electorVars>>

\* Mutant: a forgotten deferred Stop.
RelayEndsLeak ==
  /\ relay = Waiting
  /\ stopPVC \/ open # Watches
  /\ relay' = Ended
  /\ open' = open \cap {"failed"}
  /\ queue' = NoEvents
  /\ UNCHANGED <<apiVars, watcher, stopPVC, electorVars>>

\* It is told to stop, or finds a watch closed: it closes its channel, which
\* the watcher sees as relay = Ended, and stops the watches.
RelayEnds ==
  /\ relay = Waiting
  /\ stopPVC \/ open # Watches
  /\ relay' = Ended
  /\ open' = {}
  /\ queue' = NoEvents
  /\ UNCHANGED <<apiVars, watcher, stopPVC, electorVars>>

----------------------------------------------------------------------------
(* watchProvisioning's goroutine.                                           *)

\* Mutant: an update is taken for the end of the task.
WatcherStateAnyUpdate(e) ==
  CASE e \in {"volume", "deleted", "update", "ProvisioningSucceeded",
               "namesake"} -> Sending("succeeded")
    [] e = "ProvisioningFailed" -> Sending("failed")

\* Mutant: the deletion of the claim is not looked at.
WatcherStateNoDelete(e) ==
  CASE e \in {"volume", "ProvisioningSucceeded", "namesake"} ->
         Sending("succeeded")
    [] e = "ProvisioningFailed" -> Sending("failed")
    [] e \in {"deleted", "update"} -> Waiting

\* What an event makes of the watcher, which compares neither namespace nor
\* UID of the claim it is about with its own.
WatcherState(e) ==
  CASE e \in {"volume", "deleted", "ProvisioningSucceeded", "namesake"} ->
         Sending("succeeded")
    [] e = "ProvisioningFailed" -> Sending("failed")
    [] e = "update" -> Waiting

\* The relay's send meets the watcher's select.  (Once the relay has closed
\* its channel the watcher receives empty events, which change nothing: it
\* goes round its loop until stopCh is closed.)
WatcherTakes ==
  /\ watcher = Waiting
  /\ relay.pc = "send"
  /\ watcher' = WatcherState(relay.msg)
  /\ relay' = Waiting
  /\ UNCHANGED <<apiVars, queue, open, stopPVC, electorVars>>

\* Mutant: the relay is not told.
WatcherEndsAlone ==
  /\ watcher = Waiting
  /\ stopCh
  /\ watcher' = Ended
  /\ UNCHANGED <<apiVars, relayVars, stopPVC, electorVars>>

WatcherEnds ==
  /\ watcher = Waiting
  /\ stopCh
  /\ watcher' = Ended
  /\ stopPVC' = TRUE
  /\ UNCHANGED <<apiVars, relayVars, electorVars>>

----------------------------------------------------------------------------
(* lockProvisionClaimOperation and the elector.                             *)

\* The watches are opened, that on the claim from the cached version (it is
\* sent what happened since) and those on events from now on; or one of them
\* cannot be: then there are no goroutines and Run is given a nil channel.
StartLock ==
  /\ elector = "off"
  /\ elector' = "acquire"
  /\ \/ /\ relay' = Waiting /\ watcher' = Waiting /\ open' = Watches
        /\ UNCHANGED queue
     \/ WatchesFail /\ queue' = NoEvents /\ UNCHANGED <<relay, watcher, open>>
  /\ UNCHANGED <<apiVars, over, stopCh, stopPVC>>

\* The elector's select on the task channel: res was received, or there was
\* nobody to receive from.
Received(res) == watcher = Sending(res) /\ watcher' = Waiting
NothingReceived == watcher.pc # "send" /\ UNCHANGED watcher

\* A round of acquire(): a success ends it; after a failure, or if nothing is
\* there, it tries to acquire, which works only while the claim exists.
AcquireHearsSuccess ==
  /\ elector = "acquire"
  /\ Received("succeeded")
  /\ over' = TRUE
  /\ elector' = "ended"
  /\ stopCh' = TRUE
  /\ UNCHANGED <<apiVars, relayVars, stopPVC>>

AcquireTries ==
  /\ elector = "acquire"
  /\ Received("failed") \/ NothingReceived
  /\ \/ claim # "gone" /\ elector' = "lead"
     \/ UNCHANGED elector
  /\ UNCHANGED <<apiVars, relayVars, stopPVC, over, stopCh>>

\* A round of renew() ends the leadership: any result is there.
RenewHears ==
  /\ elector = "lead"
  /\ \E res \in {"succeeded", "failed"} : Received(res)
  /\ elector' = "rest"
  /\ stopCh' = TRUE
  /\ UNCHANGED <<apiVars, relayVars, stopPVC, over>>

\* The term is over or the lease is lost.
RenewEnds ==
  /\ elector = "lead"
  /\ elector' = "rest"
  /\ stopCh' = TRUE
  /\ UNCHANGED <<apiVars, relayVars, watcher, stopPVC, over>>

RestOver ==
  /\ elector = "rest"
  /\ elector' = "ended"
  /\ UNCHANGED <<apiVars, relayVars, watcher, stopPVC, over, stopCh>>

----------------------------------------------------------------------------
Api ==
  \/ UpdateClaim \/ FinishClaim \/ DeleteClaim
  \/ AttemptSucceeds \/ AttemptFails
  \/ NamesakeEnds \/ RefreshCache
  \/ \E w \in Watches : CloseWatch(w)

Relay == RelayEnds \/ \E w \in Watches : RelayTakes(w)

Lock ==
  \/ StartLock \/ AcquireHearsSuccess \/ AcquireTries
  \/ RenewHears \/ RenewEnds \/ RestOver

Next == Api \/ Relay \/ WatcherTakes \/ WatcherEnds \/ Lock

Spec == Init /\ [][Next]_vars

\* Goroutines that can go on do.  A select takes each case that stays ready
\* some time (its choice is random).  The elector goes round its loops, terms
\* end, but nobody need get the lease.  API server and users owe nothing.
Fairness ==
  /\ \A w \in Watches : WF_vars(RelayTakes(w))
  /\ WF_vars(RelayEnds) /\ WF_vars(WatcherTakes) /\ WF_vars(WatcherEnds)
  /\ WF_vars(AcquireHearsSuccess) /\ WF_vars(AcquireTries /\ Received("failed"))
  /\ WF_vars(RenewEnds) /\ WF_vars(RestOver)

FairSpec == Spec /\ Fairness

----------------------------------------------------------------------------
\* acquire() gives up waiting only if the claim needs no volume any more, some
\* replica announced one, or a claim of the same name in another namespace came
\* to its end (controller.go:363, 1084); failures, and updates of the claim such
\* as the lease annotations of others, do not end it.
OverExplained == over => claim # "pending" \/ result \/ namesakes > 0

\* "Else, there must have been a success so just proceed"
\* (controller.go:810-812), a success of "provisioning attempts for the given
\* claim" or its being "modified to no longer need provisioning" (1017-1019).
OverIsRight == over => claim # "pending" \/ result

\* A replica that waits for the lease learns that there is nothing left to
\* do, through two unbuffered channels, and unless a watch failed ends its
\* operation without the lease (controller.go:1035-1080, 1112-1138).
ResultNoticed ==
  elector = "acquire" /\ open = Watches /\ claim # "pending"
    ~> elector # "acquire" \/ open # Watches

\* When the operation is over its goroutines and watches end for good, unless
\* one of the two waits for ever to send an event or a result that came too
\* late (controller.go:1048); none of them is left running, not even after the
\* relay closed its channel, which makes the watcher go round its loop.
GoroutinesEnd ==
  elector = "ended" ~> [](\/ watcher = Ended /\ relay = Ended /\ open = {}
                          \/ watcher.pc = "send"
                          \/ relay.pc = "send")
=============================================================================
