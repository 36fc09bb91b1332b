------------------------------ MODULE PhoneOtp ------------------------------
(***************************************************************************)
(* Codes sent to one phone number: sendOtp and verifyOtp of                  *)
(* verification.service.ts over the rows of `phone_verifications'.  Numbers  *)
(* share no row.  How a checkout uses up the token that verifyOtp issues is  *)
(* the module Checkout; here it is one step.                                 *)
(*                                                                           *)
(* Limits are checked by a read and kept by a later write, each a statement  *)
(* of its own.  A request takes the time once, with its first read.          *)
(***************************************************************************)
EXTENDS Naturals, FiniteSets, Requests

CONSTANTS
    Rows,           \* rows of `phone_verifications', each created once
    Cooldown,       \* RESEND_COOLDOWN_MS
    Hour,           \* the window of the hourly limit
    HourlyLimit,    \* codes in it
    OtpTtl,         \* OTP_TTL_MS
    TokenTtl,       \* TOKEN_TTL_MS
    MaxAttempts,    \* MAX_ATTEMPTS
    Horizon,        \* bound: the clock stops here
    TriesCap,       \* bound: wrong tries of one code
    MaxParallel     \* bound: requests served at the same time

ASSUME TimesAssumption ==
    /\ Cooldown \in Nat /\ Hour \in Nat /\ OtpTtl \in Nat /\ TokenTtl \in Nat
    /\ HourlyLimit \in Nat /\ MaxAttempts \in Nat
    /\ Horizon \in Nat /\ TriesCap \in Nat /\ MaxParallel \in Nat \ {0}

ASSUME FiniteAssumption == IsFiniteSet(Rows) /\ IsFiniteSet(Workers)

VARIABLES
    now,
    sent,           \* rows created
    row,            \* row[i]: meaningful once sent
    tries,          \* history, tries[i]: wrong codes answered for row i
    entered,        \* history, entered[i]: when the code of row i was first accepted
    parallel        \* requests served at the same time in this behaviour

rows == <<sent, row>>
history == <<tries, entered>>
vars == <<now, rows, history, request, parallel>>

-----------------------------------------------------------------------------
\* expires: of the code, and once it was verified of the token.
Row == [created : Nat, expires : Nat, attempts : Nat, verified : BOOLEAN, consumed : BOOLEAN]

SendRequest == [step : {"count", "insert"}, at : Nat]
WrongRequest == [step : {"wrong"}, row : Rows, attempts : Nat]
RightRequest == [step : {"right"}, row : Rows, at : Nat]
Request == IdleRequest \cup SendRequest \cup WrongRequest \cup RightRequest

\* Shape of the state.
TypeOK ==
    /\ now \in 0..Horizon
    /\ sent \subseteq Rows
    /\ row \in [Rows -> Row]
    /\ tries \in [Rows -> Nat]
    /\ entered \in [Rows -> Nat]
    /\ request \in [Workers -> Request]
    /\ parallel \in 1..MaxParallel

Init ==
    /\ now = 0
    /\ sent = {}
    /\ row = [i \in Rows |-> [created |-> 0, expires |-> 0, attempts |-> 0,
                              verified |-> FALSE, consumed |-> FALSE]]
    /\ tries = [i \in Rows |-> 0]
    /\ entered = [i \in Rows |-> 0]
    /\ request = [w \in Workers |-> Idle]
    /\ parallel \in 1..MaxParallel

-----------------------------------------------------------------------------
Ready(w) == /\ request[w] = Idle
            /\ Cardinality({v \in Workers : request[v] # Idle}) < parallel

Tick ==
    /\ now < Horizon
    /\ now' = now + 1
    /\ UNCHANGED <<rows, history, request, parallel>>

-----------------------------------------------------------------------------
(* sendOtp *)

\* MUTANT of CooledDown: looks at codes that are not verified yet.
UnverifiedCooledDown ==
    \A i \in sent : ~row[i].verified => row[i].created + Cooldown <= now

\* The latest row is the one to look at, so all of them are old enough.
CooledDown == \A i \in sent : row[i].created + Cooldown <= now

SendOtp(w) ==
    /\ Ready(w)
    /\ CooledDown
    /\ Serve(w, [step |-> "count", at |-> now])
    /\ UNCHANGED <<now, rows, history, parallel>>

\* MUTANT of UnderHourlyLimit: off by one.
AtHourlyLimit(at) == Cardinality({i \in sent : row[i].created + Hour >= at}) <= HourlyLimit

UnderHourlyLimit(at) == Cardinality({i \in sent : row[i].created + Hour >= at}) < HourlyLimit

CountLastHour(w) ==
    /\ request[w].step = "count"
    /\ UnderHourlyLimit(request[w].at)
    /\ Serve(w, [step |-> "insert", at |-> request[w].at])
    /\ UNCHANGED <<now, rows, history, parallel>>

\* createdAt is the database's clock, expiresAt is counted from the request's.
InsertCode(w) ==
    /\ request[w].step = "insert"
    /\ \E i \in Rows \ sent :
        /\ sent' = sent \cup {i}
        /\ row' = [row EXCEPT ![i] =
                     [created |-> now, expires |-> request[w].at + OtpTtl,
                      attempts |-> 0, verified |-> FALSE, consumed |-> FALSE]]
    /\ Finish(w)
    /\ UNCHANGED <<now, history, parallel>>

-----------------------------------------------------------------------------
(* verifyOtp *)

\* The rows that "latest unconsumed" may mean: createdAt may be the same.
Latest ==
    {i \in sent : /\ ~row[i].consumed
                  /\ \A j \in sent : ~row[j].consumed => row[j].created <= row[i].created}

\* MUTANTS of Enterable: the limit of tries is off by one; expiry is not looked at.
EnterableOnceMore(i) == row[i].expires >= now /\ row[i].attempts <= MaxAttempts
EnterableForever(i) == row[i].attempts < MaxAttempts

Enterable(i) == row[i].expires >= now /\ row[i].attempts < MaxAttempts

\* The row is read and the code compared.
EnterWrong(w) ==
    /\ Ready(w)
    /\ \E i \in Latest :
        /\ Enterable(i)
        /\ tries[i] < TriesCap
        /\ Serve(w, [step |-> "wrong", row |-> i, attempts |-> row[i].attempts])
    /\ UNCHANGED <<now, rows, history, parallel>>

EnterRight(w) ==
    /\ Ready(w)
    /\ \E i \in Latest :
        /\ Enterable(i)
        /\ Serve(w, [step |-> "right", row |-> i, at |-> now])
    /\ UNCHANGED <<now, rows, history, parallel>>

\* One more than was read is written.
CountWrong(w) ==
    LET r == request[w] IN
    /\ r.step = "wrong"
    /\ row' = [row EXCEPT ![r.row] =
                 [created |-> @.created, expires |-> @.expires, attempts |-> r.attempts + 1,
                  verified |-> @.verified, consumed |-> @.consumed]]
    /\ tries' = [tries EXCEPT ![r.row] = @ + 1]
    /\ Finish(w)
    /\ UNCHANGED <<now, sent, entered, parallel>>

\* A token is issued in place of the one before, and the row lives on for it.
IssueToken(w) ==
    LET r == request[w] IN
    /\ r.step = "right"
    /\ row' = [row EXCEPT ![r.row] =
                 [created |-> @.created, expires |-> r.at + TokenTtl, attempts |-> @.attempts,
                  verified |-> TRUE, consumed |-> @.consumed]]
    /\ entered' = IF row[r.row].verified THEN entered
                  ELSE [entered EXCEPT ![r.row] = r.at]
    /\ Finish(w)
    /\ UNCHANGED <<now, sent, tries, parallel>>

-----------------------------------------------------------------------------
\* validateAndConsumeToken for an order that is placed.
ConsumeToken(i) ==
    /\ i \in sent
    /\ row[i].verified /\ ~row[i].consumed /\ row[i].expires >= now
    /\ row' = [row EXCEPT ![i] =
                 [created |-> @.created, expires |-> @.expires, attempts |-> @.attempts,
                  verified |-> @.verified, consumed |-> TRUE]]
    /\ UNCHANGED <<now, sent, history, request, parallel>>

\* A check refuses, a call throws, the process dies.
Abandon(w) ==
    /\ request[w] # Idle
    /\ Finish(w)
    /\ UNCHANGED <<now, rows, history, parallel>>

Next ==
    \/ Tick
    \/ \E w \in Workers :
        \/ SendOtp(w) \/ CountLastHour(w) \/ InsertCode(w)
        \/ EnterWrong(w) \/ EnterRight(w) \/ CountWrong(w) \/ IssueToken(w)
        \/ Abandon(w)
    \/ \E i \in Rows : ConsumeToken(i)

Spec == Init /\ [][Next]_vars

-----------------------------------------------------------------------------
(* Properties *)

SentWithin(t) == {i \in sent : t <= row[i].created /\ row[i].created <= t + Hour}

\* No hour sees more codes than the limit and, beyond it, one for each other
\* request served at the time; served one at a time, never more than the limit
\* (sendOtp, "max 5 OTPs per hour per phone").
OverSentByInFlight ==
    \A t \in 0..Horizon : Cardinality(SentWithin(t)) + 1 <= HourlyLimit + parallel

\* Requests served one at a time send codes at least the cooldown apart, though
\* the row is dated later than the clock its check read (sendOtp).
SpacedSerially ==
    parallel = 1 => \A i, j \in sent :
        i # j => \/ row[i].created + Cooldown <= row[j].created
                 \/ row[j].created + Cooldown <= row[i].created

\* Requests served one at a time count every wrong code, over verification, expiry,
\* consumption and the return of an older row as the latest one, and stop at the
\* limit (verifyOtp, verify-phone-verification.ts 206).
TriesCountedSerially ==
    parallel = 1 => \A i \in Rows : tries[i] = row[i].attempts /\ tries[i] <= MaxAttempts

\* A code is accepted for the first time only while it is fresh, however many
\* requests enter it at once and whenever their updates arrive: only an acceptance
\* prolongs the row (verifyOtp, "5 minutes for OTP entry").
FirstEntryInTime ==
    \A i \in sent : row[i].verified => entered[i] <= row[i].created + OtpTtl

(* What the proof needs besides. *)

\* Before it is verified a row expires with its code.
UnverifiedExpires ==
    \A i \in sent : ~row[i].verified => row[i].expires <= row[i].created + OtpTtl

\* A request that waits read the clock before now.
RequestsArePast ==
    \A w \in Workers :
        /\ request[w].step \in {"count", "insert"} => request[w].at <= now
        /\ request[w].step \in {"wrong", "right"} => request[w].row \in sent

\* A right code that waits to be accepted was entered in time, unless the row has
\* been verified by another meanwhile.
RightInTime ==
    \A w \in Workers : request[w].step = "right" =>
        LET i == request[w].row IN
        row[i].verified \/ request[w].at <= row[i].created + OtpTtl

\* No row counts more tries than there were or than the limit.
AttemptsAreTries ==
    /\ \A i \in Rows : row[i].attempts <= tries[i] /\ row[i].attempts <= MaxAttempts
    /\ \A w \in Workers : request[w].step = "wrong" =>
         /\ request[w].attempts <= tries[request[w].row]
         /\ request[w].attempts < MaxAttempts

\* Behind OverSentByInFlight: a request about to insert has seen fewer codes than the
\* limit, and no more requests are about to than are served at once.
Busy == {w \in Workers : request[w] # Idle}
Inserting == {w \in Workers : request[w].step = "insert"}

InsertsAreBounded ==
    /\ Cardinality(Busy) <= parallel
    /\ \A t \in 0..Horizon :
        /\ Cardinality(SentWithin(t)) + 1 <= HourlyLimit + parallel
        /\ Inserting # {} /\ now <= t + Hour
             => Cardinality(SentWithin(t)) + Cardinality(Inserting) + 1 <= HourlyLimit + parallel

\* Behind the serial properties: what request r has read of the rows is still so.
Fresh(r) ==
    /\ r.step \in {"count", "insert"} => \A i \in sent : row[i].created + Cooldown <= r.at
    /\ r.step = "wrong" => r.attempts = row[r.row].attempts

LoneRequestIsFresh ==
    parallel = 1 =>
        /\ \A v, w \in Workers : request[v] # Idle /\ request[w] # Idle => v = w
        /\ \A w \in Workers : Fresh(request[w])
        /\ \A i \in Rows : tries[i] = row[i].attempts /\ (i \notin sent => tries[i] = 0)

\* The inductive invariant behind FirstEntryInTime: rows and waiting requests agree
\* on what was sent and when.
OtpInv ==
    /\ TypeOK
    /\ UnverifiedExpires
    /\ RequestsArePast
    /\ RightInTime
    /\ AttemptsAreTries
    /\ FirstEntryInTime
=============================================================================
