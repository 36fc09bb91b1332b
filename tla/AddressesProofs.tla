--------------------------- MODULE AddressesProofs ---------------------------
(***************************************************************************)
(* AddressesInv is inductive, so a default written while no other request    *)
(* runs is the only one and lasts, for any number of requests and addresses. *)
(***************************************************************************)
EXTENDS Addresses, TLAPS

\* No address, no request.
LEMMA InitInv == Init => AddressesInv
  <1> SUFFICES ASSUME Init PROVE AddressesInv
    OBVIOUS
  <1> USE DEF Init
  <1>1. TypeOK
    <2>1. Idle \in Request
      BY DEF Request, IdleRequest, Idle
    <2>2. request \in [Workers -> Request] /\ lock \in [Ids -> Workers \cup {None}]
      BY <2>1
    <2>3. created \in 0..Cap
      BY CapAssumption
    <2> QED
      BY <2>2, <2>3 DEF TypeOK
  <1>2. UndisturbedRunAlone /\ HeirIsAnother
    BY DEF UndisturbedRunAlone, HeirIsAnother, InFlight, Idle
  <1>3. OneDefaultOnceSettled /\ DefaultKeptOnceSettled
    BY DEF OneDefaultOnceSettled, DefaultKeptOnceSettled
  <1> QED
    BY <1>1, <1>2, <1>3 DEF AddressesInv

\* The step of a request tells its shape.
LEMMA RequestKinds ==
    ASSUME NEW r \in Request
    PROVE  /\ r = Idle <=> r.step = "idle"
           /\ r.step \in {"unset", "lock", "write"} => r \in WriteRequest
           /\ r.step \in {"delete", "promote"} => r \in DeleteRequest
           /\ r.step = "renew" => r \in PromoteRequest
  <1>1. CASE r \in IdleRequest
    BY <1>1 DEF IdleRequest, Idle
  <1>2. CASE r \in WriteRequest
    BY <1>2 DEF WriteRequest, Idle
  <1>3. CASE r \in DeleteRequest
    BY <1>3 DEF DeleteRequest, Idle
  <1>4. CASE r \in PromoteRequest
    BY <1>4 DEF PromoteRequest, Idle
  <1> QED
    BY <1>1, <1>2, <1>3, <1>4 DEF Request

\* What is said of a request that is not the first of its name.
Another(r) == r.step = "renew" => r.next # r.address

\* What a worker has at hand, as a constant of the step.
LEMMA RequestFacts ==
    ASSUME AddressesInv, NEW w \in Workers
    PROVE  /\ request[w] \in Request
           /\ Another(request[w])
           /\ w \in InFlight \ disturbed => InFlight = {w} /\ Sound(request[w])
  BY DEF AddressesInv, TypeOK, HeirIsAnother, UndisturbedRunAlone, Another

\* A worker that is served is at work unless it is sent off.
LEMMA ServeFacts ==
    ASSUME AddressesInv, NEW w \in Workers, NEW r \in Request, Another(r), Serve(w, r)
    PROVE  /\ request' \in [Workers -> Request]
           /\ \A v \in Workers : request'[v] = IF v = w THEN r ELSE request[v]
           /\ InFlight' = IF r = Idle THEN InFlight \ {w} ELSE InFlight \cup {w}
           /\ HeirIsAnother'
  <1>1. /\ request' \in [Workers -> Request]
        /\ \A v \in Workers : request'[v] = IF v = w THEN r ELSE request[v]
    BY DEF AddressesInv, TypeOK, Serve
  <1>2. InFlight' = IF r = Idle THEN InFlight \ {w} ELSE InFlight \cup {w}
    BY <1>1 DEF InFlight
  <1>3. HeirIsAnother'
    BY <1>1 DEF AddressesInv, HeirIsAnother, Another
  <1> QED
    BY <1>1, <1>2, <1>3

\* Rows and history as they were.
LEMMA RowsKept ==
    ASSUME AddressesInv, UNCHANGED <<rows, history>>
    PROVE  OneDefaultOnceSettled' /\ DefaultKeptOnceSettled'
  BY DEF AddressesInv, OneDefaultOnceSettled, DefaultKeptOnceSettled, rows, history

\* A request begins: alone, or beside others that it disturbs and is disturbed by.
LEMMA TakeUpInv ==
    ASSUME AddressesInv, NEW w \in Workers, NEW r \in Request,
           r.step \notin {"idle", "renew"}, Sound(r), TakeUp(w, r)
    PROVE  AddressesInv'
  <1>1. /\ request' \in [Workers -> Request]
        /\ \A v \in Workers : request'[v] = IF v = w THEN r ELSE request[v]
        /\ InFlight' = InFlight \cup {w}
        /\ HeirIsAnother'
    BY ServeFacts, RequestKinds DEF TakeUp, Another
  <1>2. InFlight \subseteq Workers
    BY DEF InFlight
  <1>3. TypeOK'
    BY <1>1, <1>2 DEF AddressesInv, TypeOK, TakeUp, rows, history
  <1>4. UndisturbedRunAlone'
    <2>1. CASE InFlight = {}
      <3>1. disturbed' = {} /\ InFlight' = {w} /\ request'[w] = r
        BY <1>1, <2>1 DEF TakeUp
      <3>2. Sound(r)'
        BY DEF Sound, TakeUp, rows
      <3> QED
        BY <3>1, <3>2 DEF UndisturbedRunAlone, Sound
    <2>2. CASE InFlight # {}
      BY <1>1, <2>2 DEF UndisturbedRunAlone, TakeUp
    <2> QED
      BY <2>1, <2>2
  <1>5. OneDefaultOnceSettled' /\ DefaultKeptOnceSettled'
    BY RowsKept DEF TakeUp
  <1> QED
    BY <1>1, <1>3, <1>4, <1>5 DEF AddressesInv

\* A request goes on and no row changes.
LEMMA GoOnInv ==
    ASSUME AddressesInv, NEW w \in Workers, NEW r \in Request, w \in InFlight,
           r.step # "idle", Another(r), w \notin disturbed => Sound(r), Serve(w, r),
           lock' \in [Ids -> Workers \cup {None}], UNCHANGED <<rows, history, disturbed>>
    PROVE  AddressesInv'
  <1>1. /\ request' \in [Workers -> Request]
        /\ \A v \in Workers : request'[v] = IF v = w THEN r ELSE request[v]
        /\ InFlight' = InFlight
        /\ HeirIsAnother'
    <2>1. r # Idle /\ InFlight \cup {w} = InFlight
      BY RequestKinds
    <2> QED
      BY <2>1, ServeFacts
  <1>2. TypeOK'
    BY <1>1 DEF AddressesInv, TypeOK, rows, history
  <1>3. UndisturbedRunAlone'
    <2>1. disturbed' \subseteq InFlight'
      BY <1>1 DEF AddressesInv, UndisturbedRunAlone
    <2>2. ASSUME NEW v \in InFlight' \ disturbed'
          PROVE  InFlight' = {v} /\ Sound(request[v])'
      <3>1. InFlight = {v} /\ v = w
        BY <1>1, <2>2 DEF AddressesInv, UndisturbedRunAlone
      <3>2. Sound(r) /\ request'[v] = r
        BY <1>1, <2>2, <3>1
      <3>3. Sound(r)'
        BY <3>2 DEF Sound, rows
      <3> QED
        BY <1>1, <3>1, <3>2, <3>3 DEF Sound
    <2> QED
      BY <2>1, <2>2 DEF UndisturbedRunAlone
  <1>4. OneDefaultOnceSettled' /\ DefaultKeptOnceSettled'
    BY RowsKept
  <1> QED
    BY <1>1, <1>2, <1>3, <1>4 DEF AddressesInv

\* A request ends: nobody was undisturbed beside it.
LEMMA FinishInv ==
    ASSUME AddressesInv, NEW w \in Workers, w \in InFlight, EndTransaction(w),
           addresses' \subseteq Ids, defaults' \subseteq addresses', created' \in 0..Cap,
           renounced' \in BOOLEAN, settled' \in BOOLEAN,
           OneDefaultOnceSettled', DefaultKeptOnceSettled'
    PROVE  AddressesInv'
  <1>0. Idle \in Request /\ Another(Idle)
    BY DEF Request, IdleRequest, Idle, Another
  <1>1. /\ request' \in [Workers -> Request]
        /\ InFlight' = InFlight \ {w}
        /\ \A v \in Workers : request'[v] = IF v = w THEN Idle ELSE request[v]
        /\ HeirIsAnother'
    BY <1>0, ServeFacts DEF EndTransaction
  <1>2. lock' \in [Ids -> Workers \cup {None}]
    BY DEF AddressesInv, TypeOK, EndTransaction
  <1>3. TypeOK'
    BY <1>1, <1>2 DEF AddressesInv, TypeOK, EndTransaction
  <1>4. UndisturbedRunAlone'
    <2>1. disturbed' \subseteq InFlight'
      BY <1>1 DEF AddressesInv, UndisturbedRunAlone, EndTransaction
    <2>2. ASSUME NEW v \in InFlight' \ disturbed'
          PROVE  FALSE
      <3>1. v # w /\ v \in InFlight \ disturbed
        BY <1>1, <2>2 DEF EndTransaction
      <3> QED
        BY <3>1 DEF AddressesInv, UndisturbedRunAlone
    <2> QED
      BY <2>1, <2>2 DEF UndisturbedRunAlone
  <1> QED
    BY <1>1, <1>3, <1>4 DEF AddressesInv

-----------------------------------------------------------------------------
\* The requests as they are taken up.
LEMMA ReadsInv ==
    ASSUME AddressesInv, NEW w \in Workers,
           \/ Create(w)
           \/ \E a \in Ids : Update(w, a) \/ SetDefault(w, a) \/ Delete(w, a)
    PROVE  AddressesInv'
  <1>1. ASSUME NEW a \in Ids \cup {0}, NEW f \in Flags,
               a = 0 /\ addresses = {} => f = "yes", TakeUp(w, Unsetting(a, f))
        PROVE  AddressesInv'
    <2>1. Unsetting(a, f) \in Request /\ Unsetting(a, f).step \notin {"idle", "renew"}
      BY DEF Unsetting, Request, WriteRequest
    <2>2. Sound(Unsetting(a, f))
      BY <1>1 DEF Unsetting, Sound, Flags
    <2> QED
      BY <1>1, <2>1, <2>2, TakeUpInv
  <1>2. CASE Create(w)
    BY <1>1, <1>2 DEF Create, FirstIsDefault, Flags
  <1>3. ASSUME NEW a \in Ids, Update(w, a) \/ SetDefault(w, a)
        PROVE  AddressesInv'
    <2>1. a # 0
      BY CapAssumption DEF Ids
    <2> QED
      BY <1>1, <1>3, <2>1 DEF Update, SetDefault, Flags
  <1>4. ASSUME NEW a \in Ids, Delete(w, a)
        PROVE  AddressesInv'
    <2> DEFINE r == [step |-> "delete", address |-> a, was |-> a \in defaults]
    <2>1. r \in Request /\ r.step \notin {"idle", "renew"}
      BY DEF Request, DeleteRequest
    <2>2. Sound(r)
      BY DEF Sound
    <2>3. TakeUp(w, r)
      BY <1>4 DEF Delete
    <2> HIDE DEF r
    <2> QED
      BY <2>1, <2>2, <2>3, TakeUpInv
  <1> QED
    BY <1>2, <1>3, <1>4

\* A worker with a step to do is at work.
LEMMA AtWork ==
    ASSUME AddressesInv, NEW w \in Workers, request[w].step # "idle"
    PROVE  w \in InFlight
  BY DEF InFlight, Idle

\* The two statements that unset.
LEMMA UnsetInv ==
    ASSUME AddressesInv, NEW w \in Workers, FindDefaults(w) \/ UnsetDefaults(w)
    PROVE  AddressesInv'
  <1>1. PICK q \in Request : q = request[w]
    BY RequestFacts
  <1>2. q \in WriteRequest /\ q.step \in {"unset", "lock"} /\ w \in InFlight
    BY <1>1, RequestKinds, AtWork DEF FindDefaults, UnsetDefaults
  <1>3. w \notin disturbed => Sound(q)
    BY <1>1, <1>2, RequestFacts
  <1>4. defaults \in SUBSET Ids /\ lock \in [Ids -> Workers \cup {None}]
    BY DEF AddressesInv, TypeOK
  <1>5. CASE FindDefaults(w)
    <2> DEFINE r == [step |-> "lock", address |-> q.address, flag |-> q.flag,
                     snapshot |-> defaults, unset |-> {}]
    <2>1. r \in Request /\ r.step # "idle" /\ Another(r)
      BY <1>2, <1>4 DEF Request, WriteRequest, Another
    <2>2. w \notin disturbed => Sound(r)
      BY <1>2, <1>3 DEF Sound
    <2>3. Serve(w, r) /\ UNCHANGED <<rows, lock, history, disturbed>>
      BY <1>1, <1>5 DEF FindDefaults
    <2> HIDE DEF r
    <2> QED
      BY <1>2, <1>4, <2>1, <2>2, <2>3, GoOnInv
  <1>6. CASE UnsetDefaults(w)
    <2> DEFINE u == q.snapshot \cap defaults
               r == [step |-> "write", address |-> q.address, flag |-> q.flag,
                     snapshot |-> q.snapshot, unset |-> u]
    <2>1. r \in Request /\ r.step # "idle" /\ Another(r)
      BY <1>2, <1>4 DEF Request, WriteRequest, Another
    <2>2. w \notin disturbed => Sound(r)
      BY <1>1, <1>2, <1>3, <1>6 DEF Sound, UnsetDefaults
    <2>3. Serve(w, r) /\ UNCHANGED <<rows, history, disturbed>>
      BY <1>1, <1>6 DEF UnsetDefaults
    <2>4. lock' \in [Ids -> Workers \cup {None}]
      BY <1>4, <1>6 DEF UnsetDefaults, Lock
    <2> HIDE DEF r
    <2> QED
      BY <1>2, <2>1, <2>2, <2>3, <2>4, GoOnInv
  <1> QED
    BY <1>5, <1>6

\* A settled end means that the request ran alone on what it had read.
LEMMA SettledEnd ==
    ASSUME AddressesInv, NEW w \in Workers, NEW f, Note(w, f)
    PROVE  /\ settled' \in BOOLEAN
           /\ settled' /\ w \in InFlight => Sound(request[w])
           /\ settled' /\ f # "yes" => settled
  <1>1. settled' = (w \notin disturbed /\ (settled \/ f = "yes"))
    BY DEF Note
  <1>2. settled \in BOOLEAN
    BY DEF AddressesInv, TypeOK
  <1> QED
    BY <1>1, <1>2, RequestFacts

\* The write of an address, new or old.
LEMMA WriteInv ==
    ASSUME AddressesInv, NEW w \in Workers, InsertAddress(w) \/ WriteAddress(w)
    PROVE  AddressesInv'
  <1>1. PICK q \in Request : q = request[w]
    BY RequestFacts
  <1>2. q \in WriteRequest /\ q.step = "write" /\ w \in InFlight
    BY <1>1, RequestKinds, AtWork DEF InsertAddress, WriteAddress
  <1>3. Note(w, q.flag) /\ EndTransaction(w)
    BY <1>1 DEF InsertAddress, WriteAddress
  <1>4. /\ settled' \in BOOLEAN
        /\ settled' => Sound(q)
        /\ settled' /\ q.flag # "yes" => settled
    BY <1>1, <1>2, <1>3, SettledEnd
  <1>5. settled' => q.unset = IF q.flag = "yes" THEN defaults ELSE {}
    BY <1>2, <1>4 DEF Sound
  <1> USE DEF AddressesInv
  <1>6. CASE InsertAddress(w)
    <2> DEFINE new == created + 1
    <2>1. /\ q.address = 0 /\ created < Cap /\ created' = new
          /\ addresses' = addresses \cup {new}
          /\ defaults' = (defaults \ q.unset) \cup (IF q.flag = "yes" THEN {new} ELSE {})
          /\ renounced' = (renounced /\ q.flag # "yes")
      BY <1>1, <1>6 DEF InsertAddress
    <2>2. new \in Ids /\ created' \in 0..Cap
      BY <2>1, CapAssumption DEF TypeOK, Ids
    <2>3. addresses' \subseteq Ids /\ defaults' \subseteq addresses'
      BY <2>1, <2>2 DEF TypeOK
    <2>4. renounced' \in BOOLEAN
      BY <2>1 DEF TypeOK
    <2> HIDE DEF new
    <2>5. CASE settled' /\ q.flag = "yes"
      <3>1. defaults' = {new}
        BY <1>5, <2>1, <2>5
      <3>2. OneDefaultOnceSettled' /\ DefaultKeptOnceSettled'
        BY <3>1 DEF OneDefaultOnceSettled, DefaultKeptOnceSettled
      <3> QED
        BY <1>2, <1>3, <1>4, <2>2, <2>3, <2>4, <3>2, FinishInv
    <2>6. CASE settled' /\ q.flag # "yes"
      <3>1. settled /\ addresses # {} /\ defaults' = defaults /\ renounced' = renounced
        BY <1>2, <1>4, <1>5, <2>1, <2>6 DEF Sound, TypeOK
      <3>2. OneDefaultOnceSettled' /\ DefaultKeptOnceSettled'
        BY <3>1 DEF OneDefaultOnceSettled, DefaultKeptOnceSettled
      <3> QED
        BY <1>2, <1>3, <1>4, <2>2, <2>3, <2>4, <3>2, FinishInv
    <2>7. CASE ~settled'
      <3>1. OneDefaultOnceSettled' /\ DefaultKeptOnceSettled'
        BY <2>7 DEF OneDefaultOnceSettled, DefaultKeptOnceSettled
      <3> QED
        BY <1>2, <1>3, <1>4, <2>2, <2>3, <2>4, <3>1, FinishInv
    <2> QED
      BY <2>5, <2>6, <2>7
  <1>7. CASE WriteAddress(w)
    <2>1. /\ q.address \in addresses
          /\ UNCHANGED <<addresses, created>>
          /\ defaults' = CASE q.flag = "yes" -> (defaults \ q.unset) \cup {q.address}
                           [] q.flag = "no" -> defaults \ {q.address}
                           [] OTHER -> defaults
          /\ renounced' = CASE q.flag = "yes" -> FALSE
                            [] q.flag = "no" -> renounced \/ q.address \in defaults
                            [] OTHER -> renounced
      BY <1>1, <1>7 DEF WriteAddress
    <2>2. addresses' \subseteq Ids /\ defaults' \subseteq addresses' /\ created' \in 0..Cap
      BY <2>1 DEF TypeOK
    <2>3. renounced' \in BOOLEAN
      BY <2>1 DEF TypeOK
    <2>4. OneDefaultOnceSettled' /\ DefaultKeptOnceSettled'
      <3> SUFFICES ASSUME settled'
                   PROVE  OneDefaultOnceSettled' /\ DefaultKeptOnceSettled'
        BY DEF OneDefaultOnceSettled, DefaultKeptOnceSettled
      <3>1. CASE q.flag = "yes"
        <4>1. defaults' = {q.address}
          BY <1>5, <2>1, <3>1
        <4> QED
          BY <4>1 DEF OneDefaultOnceSettled, DefaultKeptOnceSettled
      <3>2. CASE q.flag = "no"
        <4>1. settled /\ defaults' = defaults \ {q.address}
                /\ (renounced' <=> renounced \/ q.address \in defaults)
          BY <1>4, <2>1, <3>2
        <4>2. OneDefaultOnceSettled'
          BY <4>1 DEF OneDefaultOnceSettled
        <4>3. ~renounced' => ~renounced /\ defaults' = defaults
          BY <4>1
        <4>4. DefaultKeptOnceSettled'
          BY <2>1, <4>1, <4>3 DEF DefaultKeptOnceSettled
        <4> QED
          BY <4>2, <4>4
      <3>3. CASE q.flag = "keep"
        <4>1. settled /\ defaults' = defaults /\ (~renounced' => ~renounced)
          BY <1>4, <2>1, <3>3
        <4>2. OneDefaultOnceSettled'
          BY <4>1 DEF OneDefaultOnceSettled
        <4>3. DefaultKeptOnceSettled'
          BY <2>1, <4>1 DEF DefaultKeptOnceSettled
        <4> QED
          BY <4>2, <4>3
      <3> QED
        BY <1>2, <3>1, <3>2, <3>3 DEF WriteRequest, Flags
    <2> QED
      BY <1>2, <1>3, <1>4, <2>2, <2>3, <2>4, FinishInv
  <1> QED
    BY <1>6, <1>7

\* The delete: at once, or as a transaction that still looks for an heir.
LEMMA DeleteRowInv ==
    ASSUME AddressesInv, NEW w \in Workers, DeleteRow(w)
    PROVE  AddressesInv'
  <1>1. PICK q \in Request : q = request[w]
    BY RequestFacts
  <1>2. q \in DeleteRequest /\ q.step = "delete" /\ w \in InFlight
    BY <1>1, RequestKinds, AtWork DEF DeleteRow
  <1>3. lock \in [Ids -> Workers \cup {None}]
    BY DEF AddressesInv, TypeOK
  <1>4. CASE q.was
    <2> DEFINE r == [step |-> "promote", address |-> q.address, was |-> TRUE]
    <2>1. r \in Request /\ r.step # "idle" /\ Another(r)
      BY <1>2 DEF Request, DeleteRequest, Another
    <2>2. w \notin disturbed => Sound(r)
      BY <1>1, <1>2, <1>4, RequestFacts DEF Sound
    <2>3. Serve(w, r) /\ UNCHANGED <<rows, history, disturbed>>
      BY <1>1, <1>4 DEF DeleteRow, rows, history
    <2>4. lock' \in [Ids -> Workers \cup {None}]
      BY <1>1, <1>3, <1>4 DEF DeleteRow, Lock
    <2> HIDE DEF r
    <2> QED
      BY <1>2, <2>1, <2>2, <2>3, <2>4, GoOnInv
  <1>5. CASE ~q.was
    <2>1. /\ addresses' = addresses \ {q.address} /\ defaults' = defaults \ {q.address}
          /\ Note(w, "keep") /\ EndTransaction(w) /\ UNCHANGED <<created, renounced>>
      BY <1>1, <1>5 DEF DeleteRow
    <2>2. /\ settled' \in BOOLEAN
          /\ settled' => Sound(q) /\ settled
      BY <1>1, <1>2, <2>1, SettledEnd
    <2>3. settled' => settled /\ defaults' = defaults
      BY <1>2, <1>5, <2>1, <2>2 DEF Sound
    <2>4. OneDefaultOnceSettled' /\ DefaultKeptOnceSettled'
      BY <2>1, <2>3 DEF AddressesInv, OneDefaultOnceSettled, DefaultKeptOnceSettled
    <2>5. /\ addresses' \subseteq Ids /\ defaults' \subseteq addresses'
          /\ created' \in 0..Cap /\ renounced' \in BOOLEAN
      BY <2>1 DEF AddressesInv, TypeOK
    <2> QED
      BY <1>2, <2>1, <2>2, <2>4, <2>5, FinishInv
  <1> QED
    BY <1>4, <1>5

\* The heir is found, there is none, or it is written.
LEMMA PromoteInv ==
    ASSUME AddressesInv, NEW w \in Workers,
           FindNewest(w) \/ DeleteLast(w) \/ PromoteNewest(w)
    PROVE  AddressesInv'
  <1>1. PICK q \in Request : q = request[w]
    BY RequestFacts
  <1>2. q.step \in {"promote", "renew"} /\ w \in InFlight
    BY <1>1, AtWork DEF FindNewest, DeleteLast, PromoteNewest
  <1>3. w \notin disturbed => Sound(q)
    BY <1>1, <1>2, RequestFacts
  <1>4. CASE FindNewest(w)
    <2>1. q \in DeleteRequest /\ q.step = "promote"
      BY <1>1, <1>4, RequestKinds DEF FindNewest
    <2>2. PICK n \in Remaining(q.address) :
            Serve(w, [step |-> "renew", address |-> q.address, next |-> n])
      BY <1>1, <1>4 DEF FindNewest
    <2> DEFINE r == [step |-> "renew", address |-> q.address, next |-> n]
    <2>3. n \in Ids /\ n # q.address
      BY <2>2 DEF Remaining, AddressesInv, TypeOK
    <2>4. r \in Request /\ r.step # "idle" /\ Another(r)
      BY <2>1, <2>3 DEF Request, DeleteRequest, PromoteRequest, Another
    <2>5. w \notin disturbed => Sound(r)
      BY <1>3, <2>1 DEF Sound
    <2>6. UNCHANGED <<rows, history, disturbed>> /\ lock' \in [Ids -> Workers \cup {None}]
      BY <1>4 DEF FindNewest, AddressesInv, TypeOK
    <2>7. Serve(w, r)
      BY <2>2
    <2> HIDE DEF r
    <2> QED
      BY <1>2, <2>4, <2>5, <2>6, <2>7, GoOnInv
  <1>5. CASE DeleteLast(w)
    <2>1. /\ Remaining(q.address) = {} /\ addresses' = addresses \ {q.address}
          /\ defaults' = defaults \ {q.address} /\ renounced' = FALSE
          /\ Note(w, "keep") /\ EndTransaction(w) /\ UNCHANGED created
      BY <1>1, <1>5 DEF DeleteLast
    <2>2. settled' \in BOOLEAN /\ (settled' => settled)
      BY <1>2, <2>1, SettledEnd
    <2>3. addresses' = {}
      BY <2>1 DEF Remaining
    <2>4. OneDefaultOnceSettled' /\ DefaultKeptOnceSettled'
      BY <2>1, <2>2, <2>3 DEF AddressesInv, OneDefaultOnceSettled, DefaultKeptOnceSettled
    <2>5. /\ addresses' \subseteq Ids /\ defaults' \subseteq addresses' /\ created' \in 0..Cap
      BY <2>1 DEF AddressesInv, TypeOK
    <2> QED
      BY <1>2, <2>1, <2>2, <2>4, <2>5, FinishInv
  <1>6. CASE PromoteNewest(w)
    <2>1. /\ q.step = "renew" /\ q.next \in addresses
          /\ addresses' = addresses \ {q.address}
          /\ defaults' = (defaults \ {q.address}) \cup {q.next} /\ renounced' = FALSE
          /\ Note(w, "keep") /\ EndTransaction(w) /\ UNCHANGED created
      BY <1>1, <1>6 DEF PromoteNewest
    <2>2. q.next # q.address
      BY <1>1, <2>1, RequestFacts DEF Another
    <2>3. /\ settled' \in BOOLEAN
          /\ settled' => settled /\ Sound(q)
      BY <1>1, <1>2, <2>1, SettledEnd
    <2>4. settled' => defaults' = {q.next}
      <3>1. settled' => q.address \in defaults /\ \A a \in defaults : a = q.address
        BY <2>1, <2>3 DEF Sound, AddressesInv, OneDefaultOnceSettled
      <3> QED
        BY <2>1, <3>1
    <2>5. OneDefaultOnceSettled' /\ DefaultKeptOnceSettled'
      BY <2>4 DEF OneDefaultOnceSettled, DefaultKeptOnceSettled
    <2>6. /\ addresses' \subseteq Ids /\ defaults' \subseteq addresses' /\ created' \in 0..Cap
      BY <2>1, <2>2 DEF AddressesInv, TypeOK
    <2> QED
      BY <1>2, <2>1, <2>3, <2>5, <2>6, FinishInv
  <1> QED
    BY <1>4, <1>5, <1>6

\* A transaction that is rolled back leaves the rows.
LEMMA AbandonInv ==
    ASSUME AddressesInv, NEW w \in Workers, Abandon(w)
    PROVE  AddressesInv'
  <1>1. w \in InFlight
    BY DEF Abandon, InFlight
  <1>2. OneDefaultOnceSettled' /\ DefaultKeptOnceSettled'
    BY RowsKept DEF Abandon
  <1>3. /\ addresses' \subseteq Ids /\ defaults' \subseteq addresses' /\ created' \in 0..Cap
        /\ renounced' \in BOOLEAN /\ settled' \in BOOLEAN
    BY DEF Abandon, rows, history, AddressesInv, TypeOK
  <1> QED
    BY <1>1, <1>2, <1>3, FinishInv DEF Abandon

\* Every step preserves the invariant.
LEMMA NextInv == AddressesInv /\ [Next]_vars => AddressesInv'
  <1> SUFFICES ASSUME AddressesInv, [Next]_vars PROVE AddressesInv'
    OBVIOUS
  <1>1. CASE UNCHANGED vars
    BY <1>1 DEF vars, rows, history, AddressesInv, TypeOK, UndisturbedRunAlone, InFlight,
                Sound, HeirIsAnother, OneDefaultOnceSettled, DefaultKeptOnceSettled
  <1>2. ASSUME NEW w \in Workers,
               \/ Create(w)
               \/ \E a \in Ids : Update(w, a) \/ SetDefault(w, a) \/ Delete(w, a)
               \/ FindDefaults(w) \/ UnsetDefaults(w) \/ InsertAddress(w) \/ WriteAddress(w)
               \/ DeleteRow(w) \/ FindNewest(w) \/ DeleteLast(w) \/ PromoteNewest(w)
               \/ Abandon(w)
        PROVE  AddressesInv'
    BY <1>2, ReadsInv, UnsetInv, WriteInv, DeleteRowInv, PromoteInv, AbandonInv
  <1> QED
    BY <1>1, <1>2 DEF Next

\* The invariant holds throughout: a request that no other ran beside acts on rows that
\* are still as it read them.
THEOREM AddressesCorrect == Spec => []AddressesInv
  BY InitInv, NextInv, PTL DEF Spec

\* A default written while no other request ran is the only one.
THEOREM OneDefault == Spec => []OneDefaultOnceSettled
  <1>1. AddressesInv => OneDefaultOnceSettled
    BY DEF AddressesInv
  <1> QED
    BY <1>1, AddressesCorrect, PTL

\* From then on only an update takes the last default away.
THEOREM DefaultKept == Spec => []DefaultKeptOnceSettled
  <1>1. AddressesInv => DefaultKeptOnceSettled
    BY DEF AddressesInv
  <1> QED
    BY <1>1, AddressesCorrect, PTL
=============================================================================
