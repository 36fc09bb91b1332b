------------------------------ MODULE Addresses ------------------------------
(***************************************************************************)
(* The saved addresses of one customer and which of them is the default:     *)
(* addresses.service.ts over the rows of `addresses'.                        *)
(*                                                                           *)
(* Every operation reads outside a transaction and writes inside one.  The   *)
(* transactions run at READ COMMITTED: a statement works on the rows that    *)
(* were committed when it began, waits for those another transaction has     *)
(* written, and looks at them again once that one has ended.  What a         *)
(* transaction writes shows when it commits, which is here one step with its *)
(* last statement.                                                           *)
(***************************************************************************)
EXTENDS Naturals, FiniteSets, Requests

CONSTANTS
    Cap,            \* bound: addresses ever created; they are numbered as created
    None

Ids == 1..Cap

ASSUME CapAssumption == Cap \in Nat
ASSUME NoneAssumption == None \notin Workers

VARIABLES
    addresses,      \* rows of the customer
    defaults,       \* those with isDefault
    created,        \* how many were ever created
    lock,           \* lock[a]: the worker whose open transaction has written row a
    renounced,      \* history: the last default was unset by an update that names none
    disturbed,      \* history: requests that another one ran beside
    settled         \* history: since no request ran beside another, and one wrote a default

rows == <<addresses, defaults, created>>
history == <<renounced, settled>>
vars == <<rows, lock, history, disturbed, request>>

-----------------------------------------------------------------------------
Flags == {"yes", "no", "keep"}       \* what becomes of isDefault of the row written

\* address 0 is one to be created.  snapshot: the defaults that an unset statement saw;
\* unset: those it has written.
WriteRequest == [step : {"unset", "lock", "write"}, address : Ids \cup {0}, flag : Flags,
                 snapshot : SUBSET Ids, unset : SUBSET Ids]
\* was: the row was the default when it was read.
DeleteRequest == [step : {"delete", "promote"}, address : Ids, was : BOOLEAN]
PromoteRequest == [step : {"renew"}, address : Ids, next : Ids]
Request == IdleRequest \cup WriteRequest \cup DeleteRequest \cup PromoteRequest

\* Shape of the state.
TypeOK ==
    /\ addresses \subseteq Ids
    /\ defaults \subseteq addresses
    /\ created \in 0..Cap
    /\ lock \in [Ids -> Workers \cup {None}]
    /\ renounced \in BOOLEAN
    /\ request \in [Workers -> Request]
    /\ disturbed \subseteq Workers
    /\ settled \in BOOLEAN

Init ==
    /\ addresses = {}
    /\ defaults = {}
    /\ created = 0
    /\ lock = [a \in Ids |-> None]
    /\ renounced = FALSE
    /\ request = [w \in Workers |-> Idle]
    /\ disturbed = {}
    /\ settled = TRUE

-----------------------------------------------------------------------------
InFlight == {w \in Workers : request[w] # Idle}


TakeUp(w, r) ==
    /\ request[w] = Idle
    /\ Serve(w, r)
    /\ disturbed' = IF InFlight = {} THEN {} ELSE InFlight \cup {w}
    /\ UNCHANGED <<rows, lock, history>>

\* The end of a transaction.
EndTransaction(w) ==
    /\ Serve(w, Idle)
    /\ disturbed' = disturbed \ {w}
    /\ lock' = [a \in Ids |-> IF lock[a] = w THEN None ELSE lock[a]]

\* What a write of w means for the history: alone, a new default puts things right.
Note(w, f) == settled' = (w \notin disturbed /\ (settled \/ f = "yes"))

Lock(w, S) == lock' = [a \in Ids |-> IF a \in S THEN w ELSE lock[a]]
Free(w, a) == lock[a] \in {None, w}

\* MUTANT of Unsetting: the other defaults are left alone.
WritingOnly(a, f) ==
    [step |-> "write", address |-> a, flag |-> f, snapshot |-> {}, unset |-> {}]

\* A transaction that writes a default first unsets those there are.
Unsetting(a, f) ==
    [step |-> IF f = "yes" THEN "unset" ELSE "write", address |-> a, flag |-> f,
     snapshot |-> {}, unset |-> {}]

-----------------------------------------------------------------------------
(* The reads *)

\* MUTANT of FirstIsDefault: an address is the default only when asked to be.
AskedIsDefault(f) == f

\* The count is taken before the transaction.
FirstIsDefault(f) == IF addresses = {} THEN "yes" ELSE f

Create(w) == \E f \in {"yes", "no"} : TakeUp(w, Unsetting(0, FirstIsDefault(f)))

Update(w, a) == a \in addresses /\ \E f \in Flags : TakeUp(w, Unsetting(a, f))

SetDefault(w, a) == a \in addresses /\ TakeUp(w, Unsetting(a, "yes"))

Delete(w, a) ==
    /\ a \in addresses
    /\ TakeUp(w, [step |-> "delete", address |-> a, was |-> a \in defaults])

-----------------------------------------------------------------------------
(* The transactions of create, update and setDefault *)

\* updateMany finds the rows it is to write, ...
FindDefaults(w) ==
    LET r == request[w] IN
    /\ r.step = "unset"
    /\ Serve(w, [step |-> "lock", address |-> r.address, flag |-> r.flag,
                 snapshot |-> defaults, unset |-> {}])
    /\ UNCHANGED <<rows, lock, history, disturbed>>

\* ... waits for them and writes those that are still there and still defaults.  It
\* locks them one by one; whom that makes wait for each other, Abandon sorts out.
UnsetDefaults(w) ==
    LET r == request[w]
        unset == r.snapshot \cap defaults IN
    /\ r.step = "lock"
    /\ \A a \in r.snapshot : Free(w, a)
    /\ Lock(w, unset)
    /\ Serve(w, [step |-> "write", address |-> r.address, flag |-> r.flag,
                 snapshot |-> r.snapshot, unset |-> unset])
    /\ UNCHANGED <<rows, history, disturbed>>

InsertAddress(w) ==
    LET r == request[w]
        new == created + 1 IN
    /\ r.step = "write" /\ r.address = 0
    /\ created < Cap
    /\ created' = new
    /\ addresses' = addresses \cup {new}
    /\ defaults' = (defaults \ r.unset) \cup (IF r.flag = "yes" THEN {new} ELSE {})
    /\ renounced' = (renounced /\ r.flag # "yes")
    /\ Note(w, r.flag)
    /\ EndTransaction(w)

\* A row that is gone by now is an error (Abandon).
WriteAddress(w) ==
    LET r == request[w] IN
    /\ r.step = "write" /\ r.address \in addresses
    /\ Free(w, r.address)
    /\ defaults' = CASE r.flag = "yes" -> (defaults \ r.unset) \cup {r.address}
                     [] r.flag = "no" -> defaults \ {r.address}
                     [] OTHER -> defaults
    /\ renounced' = CASE r.flag = "yes" -> FALSE
                      [] r.flag = "no" -> renounced \/ r.address \in defaults
                      [] OTHER -> renounced
    /\ Note(w, r.flag)
    /\ EndTransaction(w)
    /\ UNCHANGED <<addresses, created>>

-----------------------------------------------------------------------------
(* The transaction of delete *)

\* The row read before tells whether there is more to do.
DeleteRow(w) ==
    LET r == request[w] IN
    /\ r.step = "delete"
    /\ r.address \in addresses /\ Free(w, r.address)
    /\ IF r.was
       THEN /\ Lock(w, {r.address})
            /\ Serve(w, [step |-> "promote", address |-> r.address, was |-> TRUE])
            /\ UNCHANGED <<addresses, defaults, settled, disturbed>>
       ELSE /\ addresses' = addresses \ {r.address}
            /\ defaults' = defaults \ {r.address}
            /\ Note(w, "keep")
            /\ EndTransaction(w)
    /\ UNCHANGED <<created, renounced>>

Remaining(a) == addresses \ {a}

\* findFirst, newest first.
FindNewest(w) ==
    LET r == request[w] IN
    /\ r.step = "promote"
    /\ Remaining(r.address) # {}
    /\ \E n \in Remaining(r.address) :
        /\ \A a \in Remaining(r.address) : a <= n
        /\ Serve(w, [step |-> "renew", address |-> r.address, next |-> n])
    /\ UNCHANGED <<rows, lock, history, disturbed>>

DeleteLast(w) ==
    LET r == request[w] IN
    /\ r.step = "promote"
    /\ Remaining(r.address) = {}
    /\ addresses' = addresses \ {r.address}
    /\ defaults' = defaults \ {r.address}
    /\ renounced' = FALSE
    /\ Note(w, "keep")
    /\ EndTransaction(w)
    /\ UNCHANGED created

PromoteNewest(w) ==
    LET r == request[w] IN
    /\ r.step = "renew"
    /\ r.next \in addresses /\ Free(w, r.next)
    /\ addresses' = addresses \ {r.address}
    /\ defaults' = (defaults \ {r.address}) \cup {r.next}
    /\ renounced' = FALSE
    /\ Note(w, "keep")
    /\ EndTransaction(w)
    /\ UNCHANGED created

-----------------------------------------------------------------------------
\* A row is not found, a call throws, a deadlock is broken or the process dies: the
\* transaction is rolled back.
Abandon(w) ==
    /\ request[w] # Idle
    /\ EndTransaction(w)
    /\ UNCHANGED <<rows, history>>

Next ==
    \E w \in Workers :
        \/ Create(w)
        \/ \E a \in Ids : Update(w, a) \/ SetDefault(w, a) \/ Delete(w, a)
        \/ FindDefaults(w) \/ UnsetDefaults(w) \/ InsertAddress(w) \/ WriteAddress(w)
        \/ DeleteRow(w) \/ FindNewest(w) \/ DeleteLast(w) \/ PromoteNewest(w)
        \/ Abandon(w)

Spec == Init /\ [][Next]_vars

-----------------------------------------------------------------------------
(* Properties *)

\* Overlaps may leave a customer several defaults or none, and more overlaps still
\* more.  Yet a default that is written while no other request runs is the only one,
\* whatever it found, and stays so until requests overlap again
\* (docs/customer-accounts.md 2.2).
OneDefaultOnceSettled == settled => \A a, b \in defaults : a = b

\* From then on a customer who has addresses has a default, unless an update took it
\* away: the first address is one, and the newest inherits.
DefaultKeptOnceSettled == settled /\ addresses # {} /\ ~renounced => defaults # {}

(* What the proof needs besides. *)

\* What a request has read or promised is still so.
Sound(r) ==
    /\ r.step = "lock" => r.snapshot = defaults
    /\ r.step = "write" => r.unset = IF r.flag = "yes" THEN defaults ELSE {}
    /\ r.step \in {"unset", "lock"} => r.flag = "yes"
    /\ r.step = "write" /\ r.address = 0 /\ r.flag # "yes" => addresses # {}
    /\ r.step = "delete" => (r.was <=> r.address \in defaults)
    /\ r.step \in {"promote", "renew"} => r.address \in defaults

\* A request that is not disturbed runs alone and on what it has read.
UndisturbedRunAlone ==
    /\ disturbed \subseteq InFlight
    /\ \A w \in InFlight \ disturbed : InFlight = {w} /\ Sound(request[w])

HeirIsAnother ==
    \A w \in Workers : request[w].step = "renew" => request[w].next # request[w].address

\* The inductive invariant behind the two.
AddressesInv ==
    /\ TypeOK
    /\ UndisturbedRunAlone
    /\ HeirIsAnother
    /\ OneDefaultOnceSettled
    /\ DefaultKeptOnceSettled
=============================================================================
