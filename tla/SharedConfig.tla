---------------------------- MODULE SharedConfig ----------------------------
(***************************************************************************)
(* The configuration every Provision works with.  getConfiguration returns *)
(* the Data map of the ConfigMap in the informer's cache, not a copy.      *)
(* Provision writes the parameters of the claim's StorageClass into that   *)
(* map, one by one, then replaces the list of network spaces by those that *)
(* answer, and reads the map while it creates the volume.  A new map comes *)
(* only with a new object from the API server.  At the end NFS's getServer *)
(* hands out an address of the first network space in the list, in turn:   *)
(* the turns are one more map all calls share.  Operations of one replica  *)
(* run concurrently; the writes of one map are modelled as if Go allowed   *)
(* them to be concurrent (its runtime may also end the process).           *)
(***************************************************************************)
EXTENDS Integers

CONSTANTS
  Workers,      \* goroutines in Provision
  Keys, Values, \* of the plain settings
  Spaces,       \* network spaces; their list is one more setting
  Default,      \* Default: what the ConfigMap says, a function on Keys
  Classes,      \* StorageClasses
  Params,       \* Params[c]: the parameters of class c, a function on some Keys
  ClassSpaces,  \* ClassSpaces[c]: the network spaces it names, if any
  Addresses,    \* how many IP addresses each network space has
  MaxServed,    \* bound: addresses handed out
  MaxMaps,      \* bound: ConfigMap objects ever received
  MaxOutages    \* bound: how often a network space stops answering

ASSUME ConstantsAssumption ==
  /\ Default \in [Keys -> Values]
  /\ Spaces # {} /\ Classes # {}
  /\ \A c \in Classes : /\ DOMAIN Params[c] \subseteq Keys
                        /\ \A k \in DOMAIN Params[c] : Params[c][k] \in Values
                        /\ ClassSpaces[c] \subseteq Spaces
  /\ Addresses \in Nat \ {0}
  /\ MaxServed \in Nat /\ MaxMaps \in Nat \ {0} /\ MaxOutages \in Nat

Maps == 1 .. MaxMaps
\* What is read of a map: the settings and the network spaces.
Contents == [conf : [Keys -> Values], spaces : SUBSET Spaces]

VARIABLES
  heap,     \* heap[m]: the contents of map m
  current,  \* the map in the cache
  down,     \* the network spaces that do not answer
  outages,  \* outages so far
  turn,     \* networkspacesIps: the counter of each space, -1 before the first
  served,   \* history: how many addresses getServer handed out
  load,     \* history: how often it handed out each address of each space
  lost,     \* history: how often it overwrote a counter that had changed
  op,       \* op[w]: the call worker w is in
  created   \* history: class and settings of the volume created last

serverVars == <<turn, served, load, lost>>
vars == <<heap, current, down, outages, serverVars, op, created>>

Turns == Nat \cup {-1}
Pcs == {"idle", "override", "validate", "store", "create", "server", "address"}
\* map: config; todo: the parameters yet to be written; valid: validnwlist;
\* space, seen: the network space of getServer and its counter as read
Calls == [pc : Pcs, class : Classes, map : Maps, todo : SUBSET Keys,
          valid : SUBSET Spaces, space : Spaces, seen : Turns]
NoSpace == CHOOSE s \in Spaces : TRUE
NoCall == [pc |-> "idle", class |-> CHOOSE c \in Classes : TRUE, map |-> 1,
           todo |-> {}, valid |-> {}, space |-> NoSpace, seen |-> -1]

TypeOK ==
  /\ heap \in [Maps -> Contents]
  /\ current \in Maps
  /\ down \in SUBSET Spaces
  /\ outages \in 0 .. MaxOutages
  /\ turn \in [Spaces -> Turns]
  /\ served \in 0 .. MaxServed
  /\ load \in [Spaces -> [0 .. Addresses - 1 -> Nat]]
  /\ lost \in Nat
  /\ op \in [Workers -> Calls]
  /\ created \subseteq [class : Classes, conf : [Keys -> Values]]

Init ==
  /\ heap = [m \in Maps |-> [conf |-> Default, spaces |-> Spaces]]
  /\ current = 1
  /\ down = {} /\ outages = 0
  /\ turn = [s \in Spaces |-> -1] /\ served = 0 /\ lost = 0
  /\ load = [s \in Spaces |-> [a \in 0 .. Addresses - 1 |-> 0]]
  /\ op = [w \in Workers |-> NoCall]
  /\ created = {}

At(w, pc) == op[w].pc = pc

----------------------------------------------------------------------------
\* The reflector receives the ConfigMap again and stores the new object.
Reload ==
  /\ current < MaxMaps
  /\ current' = current + 1
  /\ UNCHANGED <<heap, down, outages, serverVars, op, created>>

\* A network space, or the call that asks for it, fails for a while.
Outage(s) ==
  /\ s \notin down
  /\ outages < MaxOutages
  /\ outages' = outages + 1
  /\ down' = down \cup {s}
  /\ UNCHANGED <<heap, current, serverVars, op, created>>

Repair(s) ==
  /\ s \in down
  /\ down' = down \ {s}
  /\ UNCHANGED <<heap, current, outages, serverVars, op, created>>

\* Provision is called with the cached map.
StartProvision(w, c) ==
  /\ At(w, "idle")
  /\ op' = [op EXCEPT ![w] = [pc |-> "override", class |-> c, map |-> current,
                              todo |-> DOMAIN Params[c], valid |-> {},
                              space |-> NoSpace, seen |-> -1]]
  /\ UNCHANGED <<heap, current, down, outages, serverVars, created>>

\* Mutant: the key is stored instead of the value.
OverrideWithKey(w, k) ==
  /\ At(w, "override")
  /\ k \in op[w].todo
  /\ heap' = [heap EXCEPT ![op[w].map].conf[k] = k]
  /\ op' = [op EXCEPT ![w].todo = @ \ {k}]
  /\ UNCHANGED <<current, down, outages, serverVars, created>>

\* One round of "override default config with storage class config".
Override(w, k) ==
  /\ At(w, "override")
  /\ k \in op[w].todo
  /\ heap' = [heap EXCEPT ![op[w].map].conf[k] = Params[op[w].class][k]]
  /\ op' = [op EXCEPT ![w].todo = @ \ {k}]
  /\ UNCHANGED <<current, down, outages, serverVars, created>>

\* One more round writes the class's network spaces, if it names any (Go visits
\* the parameters in any order; here this one comes last).
OverrideSpaces(w) ==
  /\ At(w, "override")
  /\ op[w].todo = {}
  /\ heap' = IF ClassSpaces[op[w].class] = {} THEN heap
             ELSE [heap EXCEPT ![op[w].map].spaces = ClassSpaces[op[w].class]]
  /\ op' = [op EXCEPT ![w].pc = "validate"]
  /\ UNCHANGED <<current, down, outages, serverVars, created>>

\* Mutant: that no network space is left is not an error.
OneTimeValidationEmpty(w) ==
  /\ At(w, "validate")
  /\ op' = [op EXCEPT ![w].pc = "store", ![w].valid = heap[op[w].map].spaces \ down]
  /\ UNCHANGED <<heap, current, down, outages, serverVars, created>>

\* OneTimeValidation keeps the network spaces that answer; it is an error if
\* none does.
OneTimeValidation(w) ==
  LET valid == heap[op[w].map].spaces \ down
  IN  /\ At(w, "validate")
      /\ op' = [op EXCEPT ![w] = IF valid = {} THEN NoCall
                                 ELSE [@ EXCEPT !.pc = "store", !.valid = valid]]
      /\ UNCHANGED <<heap, current, down, outages, serverVars, created>>

\* The list of valid network spaces is written back.
StoreSpaces(w) ==
  /\ At(w, "store")
  /\ heap' = [heap EXCEPT ![op[w].map].spaces = op[w].valid]
  /\ op' = [op EXCEPT ![w].pc = "create"]
  /\ UNCHANGED <<current, down, outages, serverVars, created>>

\* The volume is created with the settings the map has by now.
CreateVolume(w) ==
  /\ At(w, "create")
  /\ created' = {[class |-> op[w].class, conf |-> heap[op[w].map].conf]}
  /\ op' = [op EXCEPT ![w].pc = "server"]
  /\ UNCHANGED <<heap, current, down, outages, serverVars>>

\* The first of a list of network spaces; all lists keep the same order.
First(S) == CHOOSE s \in S : TRUE

\* getServer gets the addresses of the first network space and reads its
\* counter.
GetServer(w) ==
  LET s == First(heap[op[w].map].spaces)
  IN  /\ At(w, "server")
      /\ s \notin down
      /\ served < MaxServed
      /\ served' = served + 1
      /\ op' = [op EXCEPT ![w] = [@ EXCEPT !.pc = "address", !.space = s,
                                          !.seen = turn[s]]]
      /\ UNCHANGED <<heap, current, down, outages, turn, load, lost, created>>

\* The network space cannot be read, or the bound is reached.
GetServerFails(w) ==
  /\ At(w, "server")
  /\ \/ First(heap[op[w].map].spaces) \in down
     \/ served = MaxServed
  /\ op' = [op EXCEPT ![w] = NoCall]
  /\ UNCHANGED <<heap, current, down, outages, serverVars, created>>

\* The counter as the index of an address: a space without one counts as 0.
Index(seen) == (IF seen = -1 THEN 0 ELSE seen) % Addresses

\* Mutant: a counter that is there is not written back.
NextAddressStuck(w) ==
  LET s == op[w].space
  IN  /\ At(w, "address")
      /\ turn' = [turn EXCEPT ![s] = IF @ = -1 THEN 0 ELSE @]
      /\ load' = [load EXCEPT ![s][Index(op[w].seen)] = @ + 1]
      /\ op' = [op EXCEPT ![w] = NoCall]
      /\ UNCHANGED <<heap, current, down, outages, served, lost, created>>

\* The counter is written back, or set to 0 the first time, and the address
\* the one that was read points to is returned.
NextAddress(w) ==
  LET s == op[w].space
  IN  /\ At(w, "address")
      /\ turn' = [turn EXCEPT ![s] = op[w].seen + 1]
      /\ lost' = IF turn[s] = op[w].seen THEN lost ELSE lost + 1
      /\ load' = [load EXCEPT ![s][Index(op[w].seen)] = @ + 1]
      /\ op' = [op EXCEPT ![w] = NoCall]
      /\ UNCHANGED <<heap, current, down, outages, served, created>>

Next ==
  \/ Reload
  \/ \E s \in Spaces : Outage(s) \/ Repair(s)
  \/ \E w \in Workers :
       \/ \E c \in Classes : StartProvision(w, c)
       \/ \E k \in Keys : Override(w, k)
       \/ OverrideSpaces(w) \/ OneTimeValidation(w) \/ StoreSpaces(w)
       \/ CreateVolume(w)
       \/ GetServer(w) \/ GetServerFails(w) \/ NextAddress(w)

Spec == Init /\ [][Next]_vars

----------------------------------------------------------------------------
(* Properties.                                                              *)

\* The shared list of network spaces shrinks with every outage and is never
\* refilled by Provision, but no interleaving of calls empties it
\* (nfs/provision.go:196-200, iscsi/provision.go:155-162).
SpacesLeft == \A m \in Maps : heap[m].spaces # {}

\* "returning ip in round robin fashion" (nfs/provision.go:314): one address
\* of a network space is handed out at most twice more often than another,
\* the first call not moving the counter on (nfs/provision.go:312), and two
\* more for every update of the counter that concurrent calls lost.
AddressesBalanced ==
  \A s \in Spaces : \A a, b \in 0 .. Addresses - 1 :
    load[s][a] - load[s][b] <= 2 + 2 * lost

\* A volume is created with the parameters of its own StorageClass
\* (nfs/provision.go:191-194).
OwnParametersUsed ==
  \A v \in created : \A k \in DOMAIN Params[v.class] :
    v.conf[k] = Params[v.class][k]
=============================================================================
