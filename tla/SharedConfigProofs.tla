------------------------- MODULE SharedConfigProofs -------------------------
(***************************************************************************)
(* For any number of workers, classes, outages and addresses: the types of *)
(* SharedConfig, that concurrent calls never empty the shared list of      *)
(* network spaces, and how evenly they hand out the addresses of one.      *)
(***************************************************************************)
EXTENDS SharedConfig, TLAPS

----------------------------------------------------------------------------
(* SpacesLeft is not inductive: a list that is about to be written back     *)
(* must not be empty either, and only parameters of the class are written.  *)

CallsOK ==
  \A w \in Workers :
    /\ op[w].pc = "store" => op[w].valid # {}
    /\ op[w].todo \subseteq DOMAIN Params[op[w].class]

SpacesInv == TypeOK /\ CallsOK /\ SpacesLeft

\* A worker without a call is well formed.
LEMMA NoCallOK == NoCall \in Calls /\ NoCall.pc = "idle" /\ NoCall.todo = {}
<1>1. (CHOOSE c \in Classes : TRUE) \in Classes
  BY ConstantsAssumption, Zenon
<1>2. 1 \in Maps /\ -1 \in Turns
  BY ConstantsAssumption DEF Maps, Turns
<1>3. NoSpace \in Spaces
  BY ConstantsAssumption, Zenon DEF NoSpace
<1> QED
  BY <1>1, <1>2, <1>3 DEF NoCall, Calls, Pcs

\* The first map lists all network spaces and no call is under way.
LEMMA SpacesInit == Init => SpacesInv
BY ConstantsAssumption, NoCallOK
DEF Init, SpacesInv, TypeOK, CallsOK, SpacesLeft, Maps, Contents, Turns

\* Writing a list of network spaces that is not empty.
LEMMA WriteSpaces ==
  ASSUME heap \in [Maps -> Contents], SpacesLeft,
         NEW m \in Maps, NEW X \in SUBSET Spaces, X # {},
         heap' = [heap EXCEPT ![m].spaces = X]
  PROVE  heap' \in [Maps -> Contents] /\ SpacesLeft'
<1> DEFINE new == [heap[m] EXCEPT !.spaces = X]
<1>1. new \in Contents /\ new.spaces = X
  BY DEF Contents
<1>2. heap' = [heap EXCEPT ![m] = new]
  OBVIOUS
<1> HIDE DEF new
<1> QED
  BY <1>1, <1>2 DEF SpacesLeft

\* Writing a setting.
LEMMA WriteSetting ==
  ASSUME heap \in [Maps -> Contents], SpacesLeft,
         NEW m \in Maps, NEW k \in Keys, NEW v \in Values,
         heap' = [heap EXCEPT ![m].conf[k] = v]
  PROVE  heap' \in [Maps -> Contents] /\ SpacesLeft'
<1> DEFINE new == [heap[m] EXCEPT !.conf = [heap[m].conf EXCEPT ![k] = v]]
<1>1. new \in Contents /\ new.spaces = heap[m].spaces
  BY DEF Contents
<1>2. heap' = [heap EXCEPT ![m] = new]
  OBVIOUS
<1> HIDE DEF new
<1> QED
  BY <1>1, <1>2 DEF SpacesLeft

\* One of several counters goes up.
LEMMA CountUp ==
  ASSUME NEW D, NEW f \in [D -> Nat], NEW i \in D
  PROVE  [f EXCEPT ![i] = @ + 1] \in [D -> Nat]
OBVIOUS

\* A call moves on to another step.
LEMMA MoveOn ==
  ASSUME TypeOK, CallsOK, NEW w \in Workers, NEW pc \in Pcs \ {"store"},
         op' = [op EXCEPT ![w].pc = pc]
  PROVE  op' \in [Workers -> Calls] /\ CallsOK'
<1> DEFINE next == [op[w] EXCEPT !.pc = pc]
<1>1. op[w] \in Calls
  BY DEF TypeOK
<1>2. /\ next \in Calls /\ next.pc = pc
      /\ next.todo = op[w].todo /\ next.class = op[w].class
  BY <1>1 DEF Calls
<1>3. op' = [op EXCEPT ![w] = next]
  OBVIOUS
<1> HIDE DEF next
<1> QED
  BY <1>2, <1>3 DEF TypeOK, CallsOK

\* A write to the heap leaves no list of network spaces empty, and no call
\* that is about to store a list has an empty one.
LEMMA SpacesStep ==
  ASSUME SpacesInv, [Next]_vars
  PROVE  SpacesInv'
<1> USE DEF SpacesInv, CallsOK, SpacesLeft
<1>0. UNCHANGED serverVars => /\ turn' = turn /\ served' = served
                              /\ load' = load /\ lost' = lost
  BY DEF serverVars
<1>1. CASE Reload
  <2>1. current' \in Maps
    BY <1>1, ConstantsAssumption DEF Reload, TypeOK, Maps
  <2> QED
    BY <1>0, <1>1, <2>1 DEF Reload, TypeOK
<1>2. ASSUME NEW s \in Spaces, Outage(s) \/ Repair(s)
      PROVE  SpacesInv'
  <2>1. outages' \in 0 .. MaxOutages /\ down' \in SUBSET Spaces
    BY <1>2, ConstantsAssumption DEF Outage, Repair, TypeOK
  <2> QED
    BY <1>0, <1>2, <2>1 DEF Outage, Repair, TypeOK
<1>3. ASSUME NEW w \in Workers, NEW c \in Classes, StartProvision(w, c)
      PROVE  SpacesInv'
  <2>1. DOMAIN Params[c] \in SUBSET Keys
    BY ConstantsAssumption
  <2>2. NoSpace \in Spaces /\ -1 \in Turns
    BY NoCallOK DEF NoCall, Calls
  <2> QED
    BY <1>0, <1>3, <2>1, <2>2 DEF StartProvision, At, TypeOK, Calls, Pcs
<1>4. ASSUME NEW w \in Workers, NEW k \in Keys, Override(w, k)
      PROVE  SpacesInv'
  <2>1. op[w] \in Calls /\ k \in DOMAIN Params[op[w].class]
    BY <1>4 DEF Override, TypeOK
  <2>2. Params[op[w].class][k] \in Values
    BY <2>1, ConstantsAssumption DEF Calls
  <2>3. heap' \in [Maps -> Contents] /\ SpacesLeft'
    BY <1>4, <2>1, <2>2, WriteSetting DEF Override, TypeOK, Calls
  <2>4. op' \in [Workers -> Calls] /\ CallsOK'
    BY <1>4, <2>1 DEF Override, At, TypeOK, Calls
  <2> QED
    BY <1>0, <1>4, <2>3, <2>4 DEF Override, TypeOK
<1>5. ASSUME NEW w \in Workers, OverrideSpaces(w)
      PROVE  SpacesInv'
  <2>1. op[w].map \in Maps /\ ClassSpaces[op[w].class] \in SUBSET Spaces
    BY <1>5, ConstantsAssumption DEF TypeOK, Calls
  <2>2. heap' \in [Maps -> Contents] /\ SpacesLeft'
    <3>1. CASE ClassSpaces[op[w].class] = {}
      BY <1>5, <3>1 DEF OverrideSpaces, TypeOK
    <3>2. CASE ClassSpaces[op[w].class] # {}
      BY <1>5, <2>1, <3>2, WriteSpaces DEF OverrideSpaces, TypeOK
    <3> QED
      BY <3>1, <3>2
  <2>3. op' \in [Workers -> Calls] /\ CallsOK'
    BY <1>5, MoveOn DEF OverrideSpaces, Pcs
  <2> QED
    BY <1>0, <1>5, <2>2, <2>3 DEF OverrideSpaces, TypeOK
<1>6. ASSUME NEW w \in Workers, OneTimeValidation(w)
      PROVE  SpacesInv'
  <2> DEFINE valid == heap[op[w].map].spaces \ down
  <2>1. valid \in SUBSET Spaces
    BY DEF TypeOK, Calls, Contents
  <2>2. CASE valid = {}
    BY <1>0, <1>6, <2>2, NoCallOK DEF OneTimeValidation, TypeOK
  <2>3. CASE valid # {}
    <3> DEFINE next == [op[w] EXCEPT !.pc = "store", !.valid = valid]
    <3>1. op[w] \in Calls
      BY DEF TypeOK
    <3>2. /\ next \in Calls /\ next.valid # {}
          /\ next.todo = op[w].todo /\ next.class = op[w].class
      BY <2>1, <2>3, <3>1 DEF Calls, Pcs
    <3>3. op' = [op EXCEPT ![w] = next]
      BY <1>6, <2>3 DEF OneTimeValidation
    <3> HIDE DEF next, valid
    <3> QED
      BY <1>0, <1>6, <3>2, <3>3 DEF OneTimeValidation, TypeOK
  <2> QED
    BY <2>2, <2>3
<1>7. ASSUME NEW w \in Workers, StoreSpaces(w)
      PROVE  SpacesInv'
  <2>1. op[w].map \in Maps /\ op[w].valid \in SUBSET Spaces /\ op[w].valid # {}
    BY <1>7 DEF StoreSpaces, At, TypeOK, Calls
  <2>2. heap' \in [Maps -> Contents] /\ SpacesLeft'
    BY <1>7, <2>1, WriteSpaces DEF StoreSpaces, TypeOK
  <2>3. op' \in [Workers -> Calls] /\ CallsOK'
    BY <1>7, MoveOn DEF StoreSpaces, Pcs
  <2> QED
    BY <1>0, <1>7, <2>2, <2>3 DEF StoreSpaces, TypeOK
<1>8. ASSUME NEW w \in Workers, CreateVolume(w)
      PROVE  SpacesInv'
  <2>1. heap[op[w].map].conf \in [Keys -> Values] /\ op[w].class \in Classes
    BY DEF TypeOK, Calls, Contents
  <2>2. op' \in [Workers -> Calls] /\ CallsOK'
    BY <1>8, MoveOn DEF CreateVolume, Pcs
  <2> QED
    BY <1>0, <1>8, <2>1, <2>2 DEF CreateVolume, TypeOK
<1>9. CASE UNCHANGED vars
  BY <1>0, <1>9 DEF vars, TypeOK
<1>10. ASSUME NEW w \in Workers, GetServer(w)
       PROVE  SpacesInv'
  <2> DEFINE s == First(heap[op[w].map].spaces)
             next == [op[w] EXCEPT !.pc = "address", !.space = s, !.seen = turn[s]]
  <2>1. op[w] \in Calls /\ heap[op[w].map].spaces \in SUBSET Spaces
    BY DEF TypeOK, Calls, Contents
  <2>2. heap[op[w].map].spaces # {}
    BY <2>1 DEF Calls
  <2>3. s \in Spaces
    BY <2>1, <2>2, Zenon DEF First
  <2> HIDE DEF s
  <2>4. turn[s] \in Turns
    BY <2>3 DEF TypeOK
  <2>5. next \in Calls /\ next.todo = op[w].todo /\ next.class = op[w].class
        /\ next.pc = "address"
    BY <2>1, <2>3, <2>4 DEF Calls, Pcs
  <2>6. op' = [op EXCEPT ![w] = next]
    BY <1>10 DEF GetServer, s
  <2> HIDE DEF next
  <2>7. served' \in 0 .. MaxServed
    BY <1>10, ConstantsAssumption DEF GetServer, TypeOK
  <2> QED
    BY <1>10, <2>5, <2>6, <2>7 DEF GetServer, TypeOK
<1>11. ASSUME NEW w \in Workers, GetServerFails(w)
       PROVE  SpacesInv'
  BY <1>0, <1>11, NoCallOK DEF GetServerFails, TypeOK
<1>12. ASSUME NEW w \in Workers, NextAddress(w)
       PROVE  SpacesInv'
  <2> DEFINE s == op[w].space
             seen == op[w].seen
  <2>1. s \in Spaces /\ seen \in Turns
    BY DEF TypeOK, Calls
  <2>2. turn' \in [Spaces -> Turns] /\ lost' \in Nat
    BY <1>12, <2>1 DEF NextAddress, TypeOK, Turns
  <2>3. Index(seen) \in 0 .. Addresses - 1
    BY <2>1, ConstantsAssumption DEF Index, Turns
  <2>4. load' \in [Spaces -> [0 .. Addresses - 1 -> Nat]]
    <3> DEFINE line == [load[s] EXCEPT ![Index(seen)] = @ + 1]
    <3>0. load[s] \in [0 .. Addresses - 1 -> Nat]
      BY <2>1 DEF TypeOK
    <3>1. line \in [0 .. Addresses - 1 -> Nat]
      BY <2>3, <3>0, CountUp
    <3>2. load' = [load EXCEPT ![s] = line]
      BY <1>12 DEF NextAddress
    <3> HIDE DEF line
    <3> QED
      BY <2>1, <3>1, <3>2 DEF TypeOK
  <2> QED
    BY <1>12, <2>2, <2>4, NoCallOK DEF NextAddress, TypeOK
<1> QED
  BY <1>1, <1>2, <1>3, <1>4, <1>5, <1>6, <1>7, <1>8, <1>9, <1>10, <1>11, <1>12
  DEF Next

\* The write-back of the validated list (nfs/provision.go:200,
\* iscsi/provision.go:162) never leaves a map without a network space.
THEOREM SpacesAlwaysLeft == Spec => []SpacesLeft
<1>1. Init => SpacesInv
  BY SpacesInit
<1>2. SpacesInv /\ [Next]_vars => SpacesInv'
  BY SpacesStep
<1>3. SpacesInv => SpacesLeft
  BY DEF SpacesInv
<1> QED
  BY <1>1, <1>2, <1>3, PTL DEF Spec

\* Every map, counter and call keeps its type.
THEOREM TypeCorrect == Spec => []TypeOK
<1>1. Init => SpacesInv
  BY SpacesInit
<1>2. SpacesInv /\ [Next]_vars => SpacesInv'
  BY SpacesStep
<1>3. SpacesInv => TypeOK
  BY DEF SpacesInv
<1> QED
  BY <1>1, <1>2, <1>3, PTL DEF Spec

----------------------------------------------------------------------------
(* What one address has been handed out more often than another is, up to   *)
(* the updates that were lost, given by the counter: the addresses below it *)
(* had their turn in this round, and the first one had the turn that did    *)
(* not move the counter on.                                                 *)

Excess(t, a) ==
  IF t = -1 THEN 0
  ELSE (IF a < t % Addresses THEN 1 ELSE 0) + (IF a = 0 THEN 1 ELSE 0)

BalanceInv ==
  \A s \in Spaces : \A a, b \in 0 .. Addresses - 1 :
    load[s][a] - load[s][b] <= Excess(turn[s], a) - Excess(turn[s], b) + 2 * lost

\* Division with remainder.
LEMMA Division ==
  ASSUME NEW n \in Nat \ {0}, NEW t \in Nat
  PROVE  t % n \in 0 .. n - 1 /\ \E q \in Int : t = q * n + (t % n)
<1>1. t \div n \in Int
  OBVIOUS
<1>2. t = (t \div n) * n + (t % n)
  BY SMTT(60)
<1>3. t % n \in 0 .. n - 1
  OBVIOUS
<1> QED
  BY <1>1, <1>2, <1>3

\* The remainder is unique.
LEMMA Remainder ==
  ASSUME NEW n \in Nat \ {0}, NEW q \in Int, NEW r \in 0 .. n - 1,
         NEW u \in Int, u = q * n + r
  PROVE  u % n = r
OBVIOUS

\* Counting up by one moves the remainder on by one, and around.
LEMMA RemainderOfNext ==
  ASSUME NEW n \in Nat \ {0}, NEW t \in Nat
  PROVE  (t + 1) % n = IF t % n = n - 1 THEN 0 ELSE (t % n) + 1
<1>1. PICK q \in Int : t = q * n + (t % n)
  BY Division
<1>2. PICK r \in 0 .. n - 1 : r = t % n
  BY Division
<1>3. PICK u \in Int : u = t + 1
  OBVIOUS
<1>4. CASE r = n - 1
  <2>1. PICK p \in Int : p = q + 1
    OBVIOUS
  <2>2. p * n = q * n + n
    BY <2>1
  <2>3. u = p * n + 0 /\ 0 \in 0 .. n - 1
    BY <1>1, <1>2, <1>3, <1>4, <2>2
  <2>4. u % n = 0
    BY <2>3
  <2> QED
    BY <1>2, <1>3, <1>4, <2>4
<1>5. CASE r # n - 1
  <2>1. PICK e \in 0 .. n - 1 : e = r + 1
    BY <1>5
  <2>2. u = q * n + e
    <3>1. PICK m \in Int : m = q * n
      OBVIOUS
    <3>2. t = m + r
      BY <1>1, <1>2, <3>1
    <3>3. u = m + e
      BY <1>3, <2>1, <3>2
    <3> QED
      BY <3>1, <3>3
  <2>3. u % n = e
    BY <2>2, Remainder
  <2> QED
    BY <1>2, <1>3, <1>5, <2>1, <2>3
<1> QED
  BY <1>4, <1>5

\* The difference between two addresses is at most 2, and at most 2 larger for
\* one value of the counter than for another.
LEMMA ExcessBounds ==
  ASSUME NEW t \in Turns, NEW u \in Turns,
         NEW a \in 0 .. Addresses - 1, NEW b \in 0 .. Addresses - 1
  PROVE  /\ Excess(t, a) \in 0 .. 2
         /\ Excess(t, a) - Excess(t, b) <= 2
         /\ Excess(t, a) - Excess(t, b) <= Excess(u, a) - Excess(u, b) + 2
BY ConstantsAssumption DEF Excess, Turns

Hit(t, a) == IF a = Index(t) THEN 1 ELSE 0

\* The counter moves on as the address it points to is handed out.
LEMMA ExcessMoves ==
  ASSUME NEW t \in Turns,
         NEW a \in 0 .. Addresses - 1, NEW b \in 0 .. Addresses - 1
  PROVE  /\ t + 1 \in Turns
         /\ Excess(t + 1, a) - Excess(t + 1, b)
              = Excess(t, a) - Excess(t, b) + Hit(t, a) - Hit(t, b)
<1> USE ConstantsAssumption
<1>1. CASE t = -1
  <2>1. 0 % Addresses = 0
    OBVIOUS
  <2> QED
    BY <1>1, <2>1 DEF Excess, Hit, Index, Turns
<1>2. CASE t \in Nat
  <2>1. PICK r \in 0 .. Addresses - 1 : r = t % Addresses
    BY <1>2, Division
  <2>2. (t + 1) % Addresses = IF r = Addresses - 1 THEN 0 ELSE r + 1
    BY <1>2, <2>1, RemainderOfNext
  <2>3. t # -1 /\ t + 1 # -1 /\ t + 1 \in Turns
    BY <1>2 DEF Turns
  <2>4. Index(t) = r
    BY <2>1, <2>3 DEF Index
  <2>5. PICK next \in 0 .. Addresses - 1 :
          /\ next = (t + 1) % Addresses
          /\ next = IF r = Addresses - 1 THEN 0 ELSE r + 1
    BY <2>2
  <2>6. ASSUME NEW x \in 0 .. Addresses - 1
        PROVE  \E f \in 0 .. 1 :
                 /\ Excess(t, x) = (IF x < r THEN 1 ELSE 0) + f
                 /\ Excess(t + 1, x) = (IF x < next THEN 1 ELSE 0) + f
                 /\ Hit(t, x) = IF x = r THEN 1 ELSE 0
                 /\ f = IF x = 0 THEN 1 ELSE 0
    BY <2>1, <2>3, <2>4, <2>5 DEF Excess, Hit
  <2>7. ASSUME NEW x \in 0 .. Addresses - 1
        PROVE  Excess(t + 1, x) - Excess(t, x) - Hit(t, x)
                 = IF r = Addresses - 1 THEN -1 ELSE 0
    BY <2>5, <2>6
  <2>8. /\ Excess(t, a) \in Int /\ Excess(t, b) \in Int
        /\ Excess(t + 1, a) \in Int /\ Excess(t + 1, b) \in Int
        /\ Hit(t, a) \in Int /\ Hit(t, b) \in Int
    BY <2>6
  <2>9. PICK d \in Int : /\ Excess(t + 1, a) - Excess(t, a) - Hit(t, a) = d
                         /\ Excess(t + 1, b) - Excess(t, b) - Hit(t, b) = d
    BY <2>7
  <2> QED
    BY <2>3, <2>8, <2>9
<1> QED
  BY <1>1, <1>2 DEF Turns

\* getServer keeps the balance, and a lost update costs at most 2.
LEMMA BalanceStep ==
  ASSUME TypeOK, TypeOK', BalanceInv, [Next]_vars
  PROVE  BalanceInv'
<1>1. CASE UNCHANGED <<turn, load, lost>>
  BY <1>1 DEF BalanceInv
<1>2. ASSUME NEW w \in Workers, NextAddress(w)
      PROVE  BalanceInv'
  <2> SUFFICES ASSUME NEW s \in Spaces,
                      NEW a \in 0 .. Addresses - 1, NEW b \in 0 .. Addresses - 1
               PROVE  load'[s][a] - load'[s][b]
                        <= Excess(turn'[s], a) - Excess(turn'[s], b) + 2 * lost'
    BY DEF BalanceInv
  <2>1. PICK t \in Turns : t = op[w].seen
    BY DEF TypeOK, Calls
  <2>2. turn[s] \in Turns /\ lost \in Nat /\ lost' \in Nat /\ lost <= lost'
    BY <1>2 DEF TypeOK, NextAddress
  <2>3. load[s][a] \in Nat /\ load[s][b] \in Nat
    BY DEF TypeOK
  <2>4. load[s][a] - load[s][b] <= Excess(turn[s], a) - Excess(turn[s], b) + 2 * lost
    BY DEF BalanceInv
  <2>5. CASE op[w].space # s
    <3>1. load'[s] = load[s] /\ turn'[s] = turn[s]
      BY <1>2, <2>5 DEF NextAddress, TypeOK
    <3>2. Excess(turn[s], a) \in Int /\ Excess(turn[s], b) \in Int
      BY <2>2, ExcessBounds
    <3> QED
      BY <2>2, <2>3, <2>4, <3>1, <3>2
  <2>6. CASE op[w].space = s
    <3>1. turn'[s] = t + 1
      BY <1>2, <2>1, <2>6 DEF NextAddress, TypeOK
    <3>2. load'[s] = [load[s] EXCEPT ![Index(t)] = @ + 1]
      BY <1>2, <2>1, <2>6 DEF NextAddress, TypeOK
    <3>3. load'[s][a] = load[s][a] + Hit(t, a) /\ load'[s][b] = load[s][b] + Hit(t, b)
      <4>1. load[s] \in [0 .. Addresses - 1 -> Nat]
        BY DEF TypeOK
      <4>2. ASSUME NEW x \in 0 .. Addresses - 1
            PROVE  load'[s][x] = load[s][x] + Hit(t, x)
        <5>1. load[s][x] \in Nat
          BY <4>1
        <5>2. CASE x = Index(t)
          BY <3>2, <4>1, <5>1, <5>2 DEF Hit
        <5>3. CASE x # Index(t)
          BY <3>2, <4>1, <5>1, <5>3 DEF Hit
        <5> QED
          BY <5>2, <5>3
      <4> QED
        BY <4>2
    <3>4. lost' = IF turn[s] = t THEN lost ELSE lost + 1
      BY <1>2, <2>1, <2>6 DEF NextAddress
    <3>5. Hit(t, a) \in Int /\ Hit(t, b) \in Int
      BY DEF Hit
    <3>6. t + 1 \in Turns /\ Excess(t + 1, a) - Excess(t + 1, b)
            = Excess(t, a) - Excess(t, b) + Hit(t, a) - Hit(t, b)
      BY ExcessMoves
    <3>7. /\ Excess(t, a) \in Int /\ Excess(t, b) \in Int
          /\ Excess(turn[s], a) \in Int /\ Excess(turn[s], b) \in Int
          /\ Excess(turn[s], a) - Excess(turn[s], b)
               <= Excess(t, a) - Excess(t, b) + 2
      BY <2>2, ExcessBounds
    <3>8. Excess(t + 1, a) \in Int /\ Excess(t + 1, b) \in Int
      BY <3>6, ExcessBounds
    <3>9. CASE turn[s] = t
      BY <2>2, <2>3, <2>4, <3>1, <3>3, <3>4, <3>5, <3>6, <3>7, <3>8, <3>9
    <3>10. CASE turn[s] # t
      BY <2>2, <2>3, <2>4, <3>1, <3>3, <3>4, <3>5, <3>6, <3>7, <3>8, <3>10
    <3> QED
      BY <3>9, <3>10
  <2> QED
    BY <2>5, <2>6
<1> QED
  BY <1>1, <1>2
  DEF Next, Reload, Outage, Repair, StartProvision, Override, OverrideSpaces,
      OneTimeValidation, StoreSpaces, CreateVolume, GetServer, GetServerFails,
      vars, serverVars

\* getServer's counter (nfs/provision.go:305-318) balances the addresses of a
\* network space to within 2, and 2 more for each update that another call
\* overwrote.
THEOREM BalancedAlways == Spec => []AddressesBalanced
<1>1. Init => BalanceInv
  BY ConstantsAssumption DEF Init, BalanceInv, Excess
<1>2. TypeOK /\ TypeOK' /\ BalanceInv /\ [Next]_vars => BalanceInv'
  BY BalanceStep
<1>3. TypeOK /\ BalanceInv => AddressesBalanced
  <2> SUFFICES ASSUME TypeOK, BalanceInv, NEW s \in Spaces,
                      NEW a \in 0 .. Addresses - 1, NEW b \in 0 .. Addresses - 1
               PROVE  load[s][a] - load[s][b] <= 2 + 2 * lost
    BY DEF AddressesBalanced
  <2>1. load[s][a] \in Nat /\ load[s][b] \in Nat /\ lost \in Nat /\ turn[s] \in Turns
    BY DEF TypeOK
  <2>2. /\ Excess(turn[s], a) \in Int /\ Excess(turn[s], b) \in Int
        /\ Excess(turn[s], a) - Excess(turn[s], b) <= 2
    BY <2>1, ExcessBounds
  <2>3. load[s][a] - load[s][b] <= Excess(turn[s], a) - Excess(turn[s], b) + 2 * lost
    BY DEF BalanceInv
  <2> QED
    BY <2>1, <2>2, <2>3
<1> QED
  BY <1>1, <1>2, <1>3, TypeCorrect, PTL DEF Spec
=============================================================================
