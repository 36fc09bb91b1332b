--------------------------- MODULE PhoneOtpProofs ---------------------------
(***************************************************************************)
(* OtpInv is inductive, so a code is accepted for the first time only while  *)
(* it is fresh, for any number of rows and requests and any limits.          *)
(*                                                                           *)
(* The row's expiry is prolonged by an acceptance and by nothing else, so a  *)
(* row that is not verified expires with its code (UnverifiedExpires), and a *)
(* request that read it in that state entered the code in time (RightInTime).*)
(* The hourly limit is exceeded at most by the requests served beside each   *)
(* other (InsertsAreBounded), and what holds while requests are served one   *)
(* at a time follows from LoneRequestIsFresh.                                *)
(***************************************************************************)
EXTENDS PhoneOtp, FiniteSetTheorems, TLAPS

\* No row is sent and no request waits at first.
LEMMA InitInv == Init => OtpInv
  <1> SUFFICES ASSUME Init PROVE OtpInv
    OBVIOUS
  <1> USE TimesAssumption DEF Init
  <1>1. TypeOK
    BY DEF TypeOK, Row, Request, IdleRequest, Idle
  <1>2. UnverifiedExpires /\ FirstEntryInTime
    BY DEF UnverifiedExpires, FirstEntryInTime
  <1>3. RequestsArePast /\ RightInTime /\ AttemptsAreTries
    BY DEF RequestsArePast, RightInTime, AttemptsAreTries, Idle
  <1> QED
    BY <1>1, <1>2, <1>3 DEF OtpInv

\* Each step name belongs to one kind of request.
LEMMA RequestKinds ==
    ASSUME NEW r \in Request
    PROVE  /\ r.step \in {"count", "insert"} => r \in SendRequest
           /\ r.step = "wrong" => r \in WrongRequest
           /\ r.step = "right" => r \in RightRequest
  BY DEF Request, IdleRequest, SendRequest, WrongRequest, RightRequest

\* What a request may remember of the rows as they are now.
Consistent(r) ==
    /\ r \in Request
    /\ r.step \in {"count", "insert"} => r.at <= now
    /\ r.step \in {"wrong", "right"} => r.row \in sent
    /\ r.step = "right" => row[r.row].verified \/ r.at <= row[r.row].created + OtpTtl
    /\ r.step = "wrong" => r.attempts <= tries[r.row] /\ r.attempts < MaxAttempts

\* A request that begins, goes on or ends and writes no row.
LEMMA RequestInv ==
    ASSUME OtpInv, NEW w \in Workers, NEW r, Consistent(r), Serve(w, r),
           UNCHANGED <<now, rows, history, parallel>>
    PROVE  OtpInv'
  <1> USE DEF OtpInv, Serve, rows, history
  <1>1. TypeOK'
    BY DEF TypeOK, Consistent
  <1>2. (UnverifiedExpires /\ FirstEntryInTime)'
    BY DEF UnverifiedExpires, FirstEntryInTime
  <1>3. \A v \in Workers : request'[v] = IF v = w THEN r ELSE request[v]
    BY DEF TypeOK
  <1>4. (RequestsArePast /\ RightInTime)'
    BY <1>3 DEF RequestsArePast, RightInTime, Consistent
  <1>5. AttemptsAreTries'
    BY <1>3 DEF AttemptsAreTries, Consistent
  <1> QED
    BY <1>1, <1>2, <1>4, <1>5

\* A request that waits for nothing is consistent with any rows.
LEMMA IdleIsConsistent == Consistent(Idle)
  BY DEF Consistent, Idle, Request, IdleRequest

\* Both halves of a request that write no row, and a request that is given up.
LEMMA ReadingInv ==
    ASSUME OtpInv, NEW w \in Workers,
           SendOtp(w) \/ CountLastHour(w) \/ EnterWrong(w) \/ EnterRight(w) \/ Abandon(w)
    PROVE  OtpInv'
  <1> USE TimesAssumption
  <1>1. TypeOK /\ request[w] \in Request /\ now \in Nat
    BY DEF OtpInv, TypeOK
  <1>2. CASE SendOtp(w)
    <2>1. Consistent([step |-> "count", at |-> now])
      BY <1>1 DEF Consistent, Request, SendRequest
    <2> QED
      BY <1>2, <2>1, RequestInv DEF SendOtp
  <1>3. CASE CountLastHour(w)
    <2>1. request[w] \in SendRequest /\ request[w].at <= now
      BY <1>1, <1>3, RequestKinds DEF CountLastHour, OtpInv, RequestsArePast
    <2>2. Consistent([step |-> "insert", at |-> request[w].at])
      BY <2>1 DEF Consistent, Request, SendRequest
    <2> QED
      BY <1>3, <2>2, RequestInv DEF CountLastHour
  <1>4. CASE EnterWrong(w)
    <2>1. PICK i \in Latest :
            /\ Enterable(i)
            /\ Serve(w, [step |-> "wrong", row |-> i, attempts |-> row[i].attempts])
      BY <1>4 DEF EnterWrong
    <2>2. i \in sent /\ i \in Rows /\ row[i].attempts \in Nat
      BY <1>1 DEF Latest, TypeOK, Row
    <2>3. row[i].attempts <= tries[i] /\ row[i].attempts < MaxAttempts
      BY <2>1, <2>2 DEF Enterable, OtpInv, AttemptsAreTries
    <2>4. Consistent([step |-> "wrong", row |-> i, attempts |-> row[i].attempts])
      BY <2>2, <2>3 DEF Consistent, Request, WrongRequest
    <2> QED
      BY <1>4, <2>1, <2>4, RequestInv DEF EnterWrong
  <1>5. CASE EnterRight(w)
    <2>1. PICK i \in Latest :
            Enterable(i) /\ Serve(w, [step |-> "right", row |-> i, at |-> now])
      BY <1>5 DEF EnterRight
    <2>2. i \in sent /\ i \in Rows /\ row[i] \in Row
      BY <1>1 DEF Latest, TypeOK
    <2>3. row[i].verified \/ now <= row[i].created + OtpTtl
      BY <1>1, <2>1, <2>2 DEF Enterable, OtpInv, UnverifiedExpires, Row
    <2>4. Consistent([step |-> "right", row |-> i, at |-> now])
      BY <1>1, <2>2, <2>3 DEF Consistent, Request, RightRequest
    <2> QED
      BY <1>5, <2>1, <2>4, RequestInv DEF EnterRight
  <1>6. CASE Abandon(w)
    BY <1>6, IdleIsConsistent, RequestInv DEF Abandon, Finish
  <1> QED
    BY <1>2, <1>3, <1>4, <1>5, <1>6

\* A row that was never sent appears; no waiting request knows it.
LEMMA InsertCodeInv ==
    ASSUME OtpInv, NEW w \in Workers, InsertCode(w)
    PROVE  OtpInv'
  <1> USE TimesAssumption DEF OtpInv
  <1>1. PICK i \in Rows \ sent :
          /\ sent' = sent \cup {i}
          /\ row' = [row EXCEPT ![i] =
                       [created |-> now, expires |-> request[w].at + OtpTtl,
                        attempts |-> 0, verified |-> FALSE, consumed |-> FALSE]]
    BY DEF InsertCode
  <1>2. request[w].at \in Nat /\ request[w].at <= now /\ now \in Nat
    BY RequestKinds DEF InsertCode, TypeOK, SendRequest, RequestsArePast
  <1>3. \A v \in Workers : request'[v] = IF v = w THEN Idle ELSE request[v]
    BY DEF InsertCode, Finish, Serve, TypeOK
  <1>4. TypeOK'
    BY <1>1, <1>2 DEF InsertCode, Finish, Serve, Idle, history, TypeOK, Row, Request, IdleRequest
  <1>5. \A j \in sent : j \in Rows /\ row'[j] = row[j]
    BY <1>1 DEF TypeOK
  <1>6. row'[i] = [created |-> now, expires |-> request[w].at + OtpTtl,
                   attempts |-> 0, verified |-> FALSE, consumed |-> FALSE]
    BY <1>1 DEF TypeOK
  <1>7. UnverifiedExpires'
    BY <1>1, <1>2, <1>5, <1>6 DEF UnverifiedExpires
  <1>8. FirstEntryInTime'
    BY <1>1, <1>5, <1>6 DEF FirstEntryInTime, InsertCode, history
  <1>9. RequestsArePast'
    BY <1>1, <1>3 DEF RequestsArePast, InsertCode, Idle
  <1>10. RightInTime'
    BY <1>3, <1>5 DEF RightInTime, RequestsArePast, Idle
  <1>11. AttemptsAreTries'
    <2>1. \A j \in Rows : tries[j] \in Nat /\ (j # i => row'[j] = row[j])
      BY <1>1 DEF TypeOK
    <2>2. \A j \in Rows : row'[j].attempts <= tries'[j] /\ row'[j].attempts <= MaxAttempts
      BY <1>6, <2>1 DEF AttemptsAreTries, InsertCode, history
    <2>3. \A v \in Workers : request'[v].step = "wrong" =>
            /\ request'[v].attempts <= tries'[request'[v].row]
            /\ request'[v].attempts < MaxAttempts
      BY <1>3 DEF AttemptsAreTries, InsertCode, history, Idle
    <2> QED
      BY <2>2, <2>3 DEF AttemptsAreTries
  <1> QED
    BY <1>4, <1>7, <1>8, <1>9, <1>10, <1>11

\* One more try than was read, whatever other requests wrote meanwhile.
LEMMA CountWrongInv ==
    ASSUME OtpInv, NEW w \in Workers, CountWrong(w)
    PROVE  OtpInv'
  <1> USE TimesAssumption DEF OtpInv
  <1>1. request[w] \in WrongRequest
    BY RequestKinds DEF CountWrong, TypeOK
  <1>2. PICK i \in Rows, n \in Nat : i = request[w].row /\ n = request[w].attempts
    BY <1>1 DEF WrongRequest
  <1>3. i \in sent /\ n <= tries[i] /\ n < MaxAttempts
    BY <1>2 DEF CountWrong, RequestsArePast, AttemptsAreTries
  <1>4. row[i] \in Row /\ tries[i] \in Nat
    BY DEF TypeOK
  <1>5. /\ row' = [row EXCEPT ![i] =
                     [created |-> row[i].created, expires |-> row[i].expires, attempts |-> n + 1,
                      verified |-> row[i].verified, consumed |-> row[i].consumed]]
        /\ tries' = [tries EXCEPT ![i] = tries[i] + 1]
        /\ UNCHANGED <<now, sent, entered, parallel>>
    BY <1>2 DEF CountWrong, TypeOK
  <1>6. \A v \in Workers : request'[v] = IF v = w THEN Idle ELSE request[v]
    BY DEF CountWrong, Finish, Serve, TypeOK
  <1>7. request' \in [Workers -> Request]
    BY DEF CountWrong, Finish, Serve, Idle, TypeOK, Request, IdleRequest
  <1>8. row' \in [Rows -> Row] /\ tries' \in [Rows -> Nat]
    BY <1>4, <1>5 DEF TypeOK, Row
  <1>9. TypeOK'
    BY <1>5, <1>7, <1>8 DEF TypeOK
  <1>10. \A j \in Rows : /\ row'[j].created = row[j].created
                         /\ row'[j].expires = row[j].expires
                         /\ row'[j].verified = row[j].verified
                         /\ tries'[j] >= tries[j]
    BY <1>5, <1>4 DEF TypeOK
  <1>11. (UnverifiedExpires /\ FirstEntryInTime)'
    BY <1>5, <1>10 DEF UnverifiedExpires, FirstEntryInTime, TypeOK
  <1>12. RequestsArePast'
    BY <1>5, <1>6 DEF RequestsArePast, Idle
  <1>13. RightInTime'
    BY <1>6, <1>10 DEF RightInTime, RequestsArePast, TypeOK, Idle
  <1>14. \A j \in Rows : row'[j].attempts <= tries'[j] /\ row'[j].attempts <= MaxAttempts
    <2>1. \A j \in Rows : j # i => row'[j] = row[j] /\ tries'[j] = tries[j]
      BY <1>5 DEF TypeOK
    <2>2. row'[i].attempts = n + 1 /\ tries'[i] = tries[i] + 1
      BY <1>5 DEF TypeOK
    <2> QED
      BY <1>3, <1>4, <2>1, <2>2 DEF AttemptsAreTries
  <1>15. ASSUME NEW v \in Workers, request'[v].step = "wrong"
         PROVE  request'[v].attempts <= tries'[request'[v].row] /\ request'[v].attempts < MaxAttempts
    <2>1. request'[v] = request[v] /\ request[v] \in Request
      BY <1>6, <1>15 DEF Idle, TypeOK
    <2>2. request[v] \in WrongRequest
      BY <1>15, <2>1, RequestKinds
    <2>3. PICK j \in Rows, m \in Nat : j = request[v].row /\ m = request[v].attempts
      BY <2>2 DEF WrongRequest
    <2>4. m <= tries[j] /\ m < MaxAttempts
      BY <1>15, <2>1, <2>3 DEF AttemptsAreTries
    <2>5. tries'[j] \in Nat /\ tries[j] \in Nat /\ tries'[j] >= tries[j]
      BY <1>8, <1>10 DEF TypeOK
    <2> QED
      BY <2>1, <2>3, <2>4, <2>5
  <1> QED
    BY <1>9, <1>11, <1>12, <1>13, <1>14, <1>15 DEF AttemptsAreTries

\* The row that a right code was entered for is prolonged.
LEMMA IssueTokenInv ==
    ASSUME OtpInv, NEW w \in Workers, IssueToken(w)
    PROVE  OtpInv'
  <1> USE TimesAssumption DEF OtpInv
  <1>1. request[w] \in RightRequest
    BY RequestKinds DEF IssueToken, TypeOK
  <1>2. PICK i \in Rows, at \in Nat : i = request[w].row /\ at = request[w].at
    BY <1>1 DEF RightRequest
  <1>3. i \in sent /\ (row[i].verified \/ at <= row[i].created + OtpTtl)
    BY <1>2 DEF IssueToken, RequestsArePast, RightInTime
  <1>4. row[i] \in Row
    BY DEF TypeOK
  <1>5. /\ row' = [row EXCEPT ![i] =
                     [created |-> row[i].created, expires |-> at + TokenTtl,
                      attempts |-> row[i].attempts, verified |-> TRUE,
                      consumed |-> row[i].consumed]]
        /\ entered' = IF row[i].verified THEN entered ELSE [entered EXCEPT ![i] = at]
        /\ UNCHANGED <<now, sent, tries, parallel>>
    BY <1>2 DEF IssueToken, TypeOK
  <1>6. \A v \in Workers : request'[v] = IF v = w THEN Idle ELSE request[v]
    BY DEF IssueToken, Finish, Serve, TypeOK
  <1>7. request' \in [Workers -> Request]
    BY DEF IssueToken, Finish, Serve, Idle, TypeOK, Request, IdleRequest
  <1>8. row' \in [Rows -> Row] /\ entered' \in [Rows -> Nat]
    BY <1>4, <1>5 DEF TypeOK, Row
  <1>9. TypeOK'
    BY <1>5, <1>7, <1>8 DEF TypeOK
  <1>10. \A j \in Rows : /\ j # i => row'[j] = row[j] /\ entered'[j] = entered[j]
                         /\ row'[j].created = row[j].created
                         /\ row'[j].attempts = row[j].attempts
                         /\ row[j].verified => row'[j].verified
    BY <1>4, <1>5 DEF TypeOK
  <1>11. row'[i].verified
    BY <1>5 DEF TypeOK
  <1>12. UnverifiedExpires'
    BY <1>5, <1>10, <1>11 DEF UnverifiedExpires, TypeOK
  <1>13. FirstEntryInTime'
    <2>1. entered'[i] <= row'[i].created + OtpTtl
      BY <1>3, <1>4, <1>5, <1>10 DEF FirstEntryInTime, TypeOK
    <2> QED
      BY <1>5, <1>10, <2>1 DEF FirstEntryInTime, TypeOK
  <1>14. RequestsArePast'
    BY <1>5, <1>6 DEF RequestsArePast, Idle
  <1>15. RightInTime'
    BY <1>6, <1>10 DEF RightInTime, RequestsArePast, TypeOK, Idle
  <1>16. AttemptsAreTries'
    BY <1>5, <1>6, <1>10 DEF AttemptsAreTries, Idle
  <1> QED
    BY <1>9, <1>12, <1>13, <1>14, <1>15, <1>16

\* A consumed row keeps its times and tries.
LEMMA ConsumeTokenInv ==
    ASSUME OtpInv, NEW i \in Rows, ConsumeToken(i)
    PROVE  OtpInv'
  <1> USE TimesAssumption DEF OtpInv
  <1>1. row[i] \in Row
    BY DEF TypeOK
  <1>2. row' \in [Rows -> Row]
    BY <1>1 DEF ConsumeToken, TypeOK, Row
  <1>3. \A j \in Rows : /\ row'[j].created = row[j].created
                        /\ row'[j].expires = row[j].expires
                        /\ row'[j].attempts = row[j].attempts
                        /\ row'[j].verified = row[j].verified
    BY <1>1 DEF ConsumeToken, TypeOK
  <1>4. UNCHANGED <<now, sent, tries, entered, request, parallel>>
    BY DEF ConsumeToken, history
  <1>5. TypeOK'
    BY <1>2, <1>4 DEF TypeOK
  <1>6. (UnverifiedExpires /\ FirstEntryInTime)'
    BY <1>3, <1>4 DEF UnverifiedExpires, FirstEntryInTime, TypeOK
  <1>7. (RequestsArePast /\ RightInTime)'
    BY <1>3, <1>4 DEF RequestsArePast, RightInTime, TypeOK
  <1>8. AttemptsAreTries'
    BY <1>3, <1>4 DEF AttemptsAreTries
  <1> QED
    BY <1>5, <1>6, <1>7, <1>8

\* Time passes for requests that read the clock before.
LEMMA TickInv ==
    ASSUME OtpInv, Tick
    PROVE  OtpInv'
  <1> USE TimesAssumption DEF OtpInv, Tick, rows, history
  <1>1. TypeOK'
    BY DEF TypeOK
  <1>2. (UnverifiedExpires /\ FirstEntryInTime)'
    BY DEF UnverifiedExpires, FirstEntryInTime
  <1>3. RequestsArePast'
    <2> SUFFICES ASSUME NEW w \in Workers
                 PROVE  /\ request[w].step \in {"count", "insert"} => request[w].at <= now + 1
                        /\ request[w].step \in {"wrong", "right"} => request[w].row \in sent
      BY DEF RequestsArePast
    <2>1. request[w].step \in {"count", "insert"} => request[w].at \in Nat /\ request[w].at <= now
      BY RequestKinds DEF TypeOK, SendRequest, RequestsArePast
    <2> QED
      BY <2>1 DEF TypeOK, RequestsArePast
  <1>4. (RightInTime /\ AttemptsAreTries)'
    BY DEF RightInTime, AttemptsAreTries
  <1> QED
    BY <1>1, <1>2, <1>3, <1>4

LEMMA NextInv == OtpInv /\ [Next]_vars => OtpInv'
  <1> SUFFICES ASSUME OtpInv, [Next]_vars PROVE OtpInv'
    OBVIOUS
  <1>1. CASE Tick
    BY <1>1, TickInv
  <1>2. ASSUME NEW w \in Workers,
               \/ SendOtp(w) \/ CountLastHour(w) \/ InsertCode(w)
               \/ EnterWrong(w) \/ EnterRight(w) \/ CountWrong(w) \/ IssueToken(w)
               \/ Abandon(w)
        PROVE  OtpInv'
    BY <1>2, ReadingInv, InsertCodeInv, CountWrongInv, IssueTokenInv
  <1>3. ASSUME NEW i \in Rows, ConsumeToken(i) PROVE OtpInv'
    BY <1>3, ConsumeTokenInv
  <1>4. CASE UNCHANGED vars
    BY <1>4 DEF vars, rows, history, OtpInv, TypeOK, UnverifiedExpires, RequestsArePast,
                RightInTime, AttemptsAreTries, FirstEntryInTime
  <1> QED
    BY <1>1, <1>2, <1>3, <1>4 DEF Next

\* Rows and waiting requests agree, in every behaviour, on what was sent, when, and
\* how often it was tried (verifyOtp's read and update, verification.service.ts).
THEOREM OtpCorrect == Spec => []OtpInv
  <1> QED
    BY InitInv, NextInv, PTL DEF Spec

\* A code is accepted for the first time only in the five minutes it is meant to be
\* entered in, whatever the other requests for the number do (verifyOtp).
THEOREM CodesAreEnteredInTime == Spec => []FirstEntryInTime
  <1>1. OtpInv => FirstEntryInTime
    BY DEF OtpInv
  <1> QED
    BY <1>1, OtpCorrect, PTL

-----------------------------------------------------------------------------
(* How far the hourly limit is overrun *)

\* Rows and requests are finitely many.
LEMMA Finite ==
    /\ \A S \in SUBSET Workers : IsFiniteSet(S) /\ Cardinality(S) \in Nat
    /\ \A S \in SUBSET Rows : IsFiniteSet(S) /\ Cardinality(S) \in Nat
  BY FiniteAssumption, FS_Subset, FS_CardinalityType

LEMMA BusyAndInserting ==
    /\ Busy \subseteq Workers /\ Inserting \subseteq Busy
    /\ Cardinality(Busy) \in Nat /\ Cardinality(Inserting) \in Nat
    /\ Cardinality(Inserting) <= Cardinality(Busy)
    /\ \A t \in 0..Horizon : TypeOK => Cardinality(SentWithin(t)) \in Nat
  <1>1. Busy \subseteq Workers /\ Inserting \subseteq Busy
    BY DEF Busy, Inserting, Idle
  <1>2. IsFiniteSet(Busy) /\ Cardinality(Busy) \in Nat /\ Cardinality(Inserting) \in Nat
    BY <1>1, Finite
  <1>3. Cardinality(Inserting) <= Cardinality(Busy)
    BY <1>1, <1>2, FS_Subset
  <1>4. ASSUME TypeOK, NEW t \in 0..Horizon PROVE Cardinality(SentWithin(t)) \in Nat
    <2>1. SentWithin(t) \subseteq Rows
      BY <1>4 DEF SentWithin, TypeOK
    <2> QED
      BY <2>1, Finite
  <1> QED
    BY <1>1, <1>2, <1>3, <1>4

\* A step after which no more rows are dated, no more requests under way and no
\* more of them about to insert.
LEMMA NoneMoreInserting ==
    ASSUME TypeOK, InsertsAreBounded, now' \in Nat, now <= now', UNCHANGED parallel,
           Busy' \subseteq Busy, Inserting' \subseteq Inserting,
           \A t \in 0..Horizon : SentWithin(t)' = SentWithin(t)
    PROVE  InsertsAreBounded'
  <1>1. /\ Cardinality(Busy') <= Cardinality(Busy) /\ Cardinality(Busy') \in Nat
        /\ Cardinality(Inserting') <= Cardinality(Inserting) /\ Cardinality(Inserting') \in Nat
    BY BusyAndInserting, Finite, FS_Subset
  <1>2. Cardinality(Busy) \in Nat /\ Cardinality(Inserting) \in Nat
    BY BusyAndInserting
  <1>3. parallel \in Nat /\ HourlyLimit \in Nat /\ Hour \in Nat /\ now \in Nat
    BY TimesAssumption DEF TypeOK
  <1>4. Cardinality(Busy') <= parallel'
    BY <1>1, <1>2, <1>3 DEF InsertsAreBounded
  <1>5. ASSUME NEW t \in 0..Horizon
        PROVE  /\ Cardinality(SentWithin(t)') + 1 <= HourlyLimit + parallel'
               /\ Inserting' # {} /\ now' <= t + Hour =>
                    Cardinality(SentWithin(t)') + Cardinality(Inserting') + 1
                      <= HourlyLimit + parallel'
    <2>1. Cardinality(SentWithin(t)) \in Nat /\ t \in Nat
      BY BusyAndInserting, TimesAssumption
    <2>2. now' <= t + Hour => now <= t + Hour
      BY <1>3, <2>1
    <2>3. Inserting' # {} => Inserting # {}
      OBVIOUS
    <2> QED
      BY <1>1, <1>2, <1>3, <2>1, <2>2, <2>3 DEF InsertsAreBounded
  <1> QED
    BY <1>4, <1>5 DEF InsertsAreBounded

\* A request that is taken up takes a free slot and is not about to insert.
LEMMA TakenUpBounded ==
    ASSUME TypeOK, InsertsAreBounded, NEW w \in Workers, Ready(w), NEW r,
           r.step # "insert", Serve(w, r), UNCHANGED <<now, rows, parallel>>
    PROVE  InsertsAreBounded'
  <1>1. /\ Busy' \subseteq Busy \cup {w} /\ Inserting' \subseteq Inserting
        /\ Cardinality(Busy) < parallel
    BY DEF Busy, Inserting, Serve, Ready, TypeOK
  <1>2. \A t : SentWithin(t)' = SentWithin(t)
    BY DEF SentWithin, rows
  <1>3. /\ Cardinality(Busy') <= Cardinality(Busy) + 1
        /\ Cardinality(Busy') \in Nat /\ Cardinality(Busy) \in Nat
    <2>1. IsFiniteSet(Busy) /\ Busy \cup {w} \in SUBSET Workers
      BY BusyAndInserting, Finite
    <2>2. /\ IsFiniteSet(Busy \cup {w}) /\ Cardinality(Busy \cup {w}) \in Nat
          /\ Cardinality(Busy) \in Nat
      BY <2>1, Finite, BusyAndInserting
    <2>3. Cardinality(Busy') <= Cardinality(Busy \cup {w}) /\ Cardinality(Busy') \in Nat
      BY <1>1, <2>1, <2>2, FS_Subset, FS_CardinalityType
    <2>4. Cardinality(Busy \cup {w}) <= Cardinality(Busy) + 1
      BY <2>1, <2>2, FS_AddElement
    <2> QED
      BY <2>2, <2>3, <2>4
  <1>4. parallel \in Nat /\ HourlyLimit \in Nat /\ Cardinality(Inserting) \in Nat
        /\ Cardinality(Inserting') \in Nat /\ Cardinality(Inserting') <= Cardinality(Inserting)
    BY <1>1, BusyAndInserting, Finite, FS_Subset, TimesAssumption DEF TypeOK
  <1>5. Cardinality(Busy') <= parallel'
    BY <1>1, <1>3, <1>4
  <1>6. ASSUME NEW t \in 0..Horizon
        PROVE  /\ Cardinality(SentWithin(t)') + 1 <= HourlyLimit + parallel'
               /\ Inserting' # {} /\ now' <= t + Hour =>
                    Cardinality(SentWithin(t)') + Cardinality(Inserting') + 1
                      <= HourlyLimit + parallel'
    <2>1. Cardinality(SentWithin(t)) \in Nat /\ SentWithin(t)' = SentWithin(t)
      BY <1>2, BusyAndInserting
    <2>2. Inserting' # {} => Inserting # {}
      BY <1>1
    <2> QED
      BY <1>4, <2>1, <2>2 DEF InsertsAreBounded
  <1> QED
    BY <1>5, <1>6 DEF InsertsAreBounded

\* A request that has counted fewer codes than the limit is about to insert, beside no
\* more than are served at once.
LEMMA CountBounded ==
    ASSUME OtpInv, InsertsAreBounded, NEW w \in Workers, CountLastHour(w)
    PROVE  InsertsAreBounded'
  <1> DEFINE r == [step |-> "insert", at |-> request[w].at]
  <1>1. /\ TypeOK /\ UNCHANGED <<now, rows, parallel>> /\ request' = [request EXCEPT ![w] = r]
        /\ request[w].step = "count" /\ UnderHourlyLimit(request[w].at)
    BY DEF CountLastHour, OtpInv, Serve
  <1>2. request[w].at \in Nat /\ request[w].at <= now
    BY <1>1, RequestKinds DEF OtpInv, TypeOK, SendRequest, RequestsArePast
  <1>3. Busy' = Busy /\ (\A t : SentWithin(t)' = SentWithin(t))
    BY <1>1 DEF Busy, Idle, TypeOK, SentWithin, rows
  <1>4. /\ parallel \in Nat /\ HourlyLimit \in Nat /\ Hour \in Nat /\ now \in Nat
        /\ Cardinality(Busy) \in Nat /\ Cardinality(Inserting') \in Nat
        /\ Cardinality(Inserting') <= parallel
    <2>1. Inserting' \subseteq Busy /\ IsFiniteSet(Busy) /\ Busy \subseteq Workers
      BY <1>3, BusyAndInserting, Finite DEF Busy, Inserting, Idle
    <2>2. /\ Cardinality(Inserting') <= Cardinality(Busy)
          /\ Cardinality(Busy) \in Nat /\ Cardinality(Inserting') \in Nat
      BY <2>1, FS_Subset, FS_CardinalityType
    <2> QED
      BY <1>1, <2>2, TimesAssumption DEF TypeOK, InsertsAreBounded
  <1>5. ASSUME NEW t \in 0..Horizon, now <= t + Hour
        PROVE  Cardinality(SentWithin(t)) + 1 <= HourlyLimit
    <2> DEFINE S == {i \in sent : row[i].created + Hour >= request[w].at}
    <2>1. SentWithin(t) \subseteq S
      <3> SUFFICES ASSUME NEW i \in SentWithin(t) PROVE i \in S
        OBVIOUS
      <3>1. i \in sent /\ t <= row[i].created /\ row[i].created \in Nat
        BY <1>1 DEF SentWithin, TypeOK, Row
      <3> QED
        BY <1>2, <1>4, <1>5, <3>1
    <2>2. S \subseteq Rows
      BY <1>1 DEF TypeOK
    <2>3. IsFiniteSet(S) /\ Cardinality(S) \in Nat
      BY <2>2, Finite
    <2>4. Cardinality(SentWithin(t)) <= Cardinality(S) /\ Cardinality(SentWithin(t)) \in Nat
      BY <2>1, <2>3, FS_Subset, FS_CardinalityType
    <2>5. Cardinality(S) < HourlyLimit
      BY <1>1 DEF UnderHourlyLimit
    <2> QED
      BY <1>4, <2>3, <2>4, <2>5
  <1>6. ASSUME NEW t \in 0..Horizon
        PROVE  /\ Cardinality(SentWithin(t)') + 1 <= HourlyLimit + parallel'
               /\ Inserting' # {} /\ now' <= t + Hour =>
                    Cardinality(SentWithin(t)') + Cardinality(Inserting') + 1
                      <= HourlyLimit + parallel'
    <2>1. Cardinality(SentWithin(t)) \in Nat /\ SentWithin(t)' = SentWithin(t)
      BY <1>1, <1>3, BusyAndInserting
    <2>2. Cardinality(SentWithin(t)) + 1 <= HourlyLimit + parallel
      BY DEF InsertsAreBounded
    <2> QED
      BY <1>1, <1>4, <1>5, <2>1, <2>2
  <1> QED
    BY <1>1, <1>3, <1>6 DEF InsertsAreBounded

\* An insert makes a request about to insert into one code more.
LEMMA InsertBounded ==
    ASSUME OtpInv, InsertsAreBounded, NEW w \in Workers, InsertCode(w)
    PROVE  InsertsAreBounded'
  <1>1. PICK i \in Rows \ sent :
          /\ sent' = sent \cup {i}
          /\ \A j \in sent : row'[j] = row[j]
          /\ row'[i].created = now
    BY DEF InsertCode, OtpInv, TypeOK
  <1>2. TypeOK /\ UNCHANGED <<now, parallel>> /\ request[w].step = "insert"
        /\ request' = [request EXCEPT ![w] = Idle]
    BY DEF InsertCode, OtpInv, Finish, Serve
  <1>3. Busy' \subseteq Busy /\ Inserting' = Inserting \ {w} /\ w \in Inserting
    BY <1>2 DEF Busy, Inserting, Idle, TypeOK
  <1>4. /\ Cardinality(Busy') <= Cardinality(Busy)
        /\ Cardinality(Busy') \in Nat /\ Cardinality(Busy) \in Nat
        /\ Cardinality(Inserting) \in Nat /\ Cardinality(Inserting') \in Nat
        /\ Cardinality(Inserting') = Cardinality(Inserting) - 1
    <2>1. IsFiniteSet(Busy) /\ IsFiniteSet(Inserting) /\ Inserting \subseteq Workers
      BY BusyAndInserting, Finite
    <2>2. Cardinality(Inserting') = Cardinality(Inserting) - 1
      BY <1>3, <2>1, FS_RemoveElement
    <2>3. Cardinality(Busy') <= Cardinality(Busy) /\ Cardinality(Busy') \in Nat
      BY <1>3, <2>1, FS_Subset, FS_CardinalityType
    <2>4. Cardinality(Inserting') \in Nat
      BY <1>3, <2>1, FS_Subset, FS_CardinalityType
    <2> QED
      BY <2>2, <2>3, <2>4, BusyAndInserting
  <1>5. parallel \in Nat /\ HourlyLimit \in Nat /\ Hour \in Nat /\ now \in Nat
    BY <1>2, TimesAssumption DEF TypeOK
  <1>6. ASSUME NEW t \in 0..Horizon
        PROVE  /\ Cardinality(SentWithin(t)') + 1 <= HourlyLimit + parallel'
               /\ Inserting' # {} /\ now' <= t + Hour =>
                    Cardinality(SentWithin(t)') + Cardinality(Inserting') + 1
                      <= HourlyLimit + parallel'
    <2>1. SentWithin(t) \subseteq Rows /\ IsFiniteSet(SentWithin(t))
          /\ Cardinality(SentWithin(t)) \in Nat
      BY <1>2, Finite DEF SentWithin, TypeOK
    <2>2. CASE now <= t + Hour
      <3>1. SentWithin(t)' \subseteq SentWithin(t) \cup {i}
        BY <1>1 DEF SentWithin
      <3>2. /\ IsFiniteSet(SentWithin(t) \cup {i})
            /\ Cardinality(SentWithin(t) \cup {i}) <= Cardinality(SentWithin(t)) + 1
            /\ Cardinality(SentWithin(t) \cup {i}) \in Nat
        <4>1. /\ IsFiniteSet(SentWithin(t) \cup {i})
              /\ \/ Cardinality(SentWithin(t) \cup {i}) = Cardinality(SentWithin(t))
                 \/ Cardinality(SentWithin(t) \cup {i}) = Cardinality(SentWithin(t)) + 1
          BY <2>1, FS_AddElement
        <4> QED
          BY <2>1, <4>1
      <3>3. /\ Cardinality(SentWithin(t)') <= Cardinality(SentWithin(t) \cup {i})
            /\ Cardinality(SentWithin(t)') \in Nat
        BY <3>1, <3>2, FS_Subset, FS_CardinalityType
      <3>4. Cardinality(SentWithin(t)) + Cardinality(Inserting) + 1 <= HourlyLimit + parallel
        BY <1>3, <2>2 DEF InsertsAreBounded
      <3> QED
        BY <1>2, <1>4, <1>5, <2>1, <3>2, <3>3, <3>4
    <2>3. CASE ~(now <= t + Hour)
      <3>1. SentWithin(t)' = SentWithin(t)
        BY <1>1, <2>3 DEF SentWithin
      <3> QED
        BY <1>2, <2>3, <3>1 DEF InsertsAreBounded
    <2> QED
      BY <2>2, <2>3
  <1>7. Cardinality(Busy') <= parallel'
    BY <1>2, <1>4, <1>5 DEF InsertsAreBounded
  <1> QED
    BY <1>6, <1>7 DEF InsertsAreBounded

\* The other steps date no row: a request begins or ends, time passes, a row changes.
LEMMA BoundedNext == OtpInv /\ InsertsAreBounded /\ [Next]_vars => InsertsAreBounded'
  <1> SUFFICES ASSUME OtpInv, InsertsAreBounded, [Next]_vars PROVE InsertsAreBounded'
    OBVIOUS
  <1>1. TypeOK /\ now \in Nat
    BY TimesAssumption DEF OtpInv, TypeOK
  <1>2. ASSUME NEW w \in Workers, SendOtp(w) PROVE InsertsAreBounded'
    <2>1. PICK r : r.step = "count" /\ Serve(w, r)
      BY <1>2 DEF SendOtp
    <2> QED
      BY <1>1, <1>2, <2>1, TakenUpBounded DEF SendOtp
  <1>3. ASSUME NEW w \in Workers, EnterWrong(w) \/ EnterRight(w) PROVE InsertsAreBounded'
    <2>1. PICK r : r.step \in {"wrong", "right"} /\ Serve(w, r)
      <3>1. CASE EnterWrong(w)
        BY <3>1 DEF EnterWrong
      <3>2. CASE EnterRight(w)
        BY <3>2 DEF EnterRight
      <3> QED
        BY <1>3, <3>1, <3>2
    <2>2. Ready(w) /\ UNCHANGED <<now, rows, parallel>>
      BY <1>3 DEF EnterWrong, EnterRight
    <2> QED
      BY <1>1, <2>1, <2>2, TakenUpBounded
  <1>4. ASSUME UNCHANGED <<now, sent, parallel>>, Busy' \subseteq Busy,
               Inserting' \subseteq Inserting, \A i \in sent : row'[i].created = row[i].created
        PROVE  InsertsAreBounded'
    <2>1. \A t \in 0..Horizon : SentWithin(t)' = SentWithin(t)
      BY <1>4 DEF SentWithin
    <2> QED
      BY <1>1, <1>4, <2>1, NoneMoreInserting
  <1>5. ASSUME NEW w \in Workers, CountWrong(w) \/ IssueToken(w) \/ Abandon(w)
        PROVE  InsertsAreBounded'
    <2>1. request' = [request EXCEPT ![w] = Idle] /\ UNCHANGED <<now, sent, parallel>>
      BY <1>5 DEF CountWrong, IssueToken, Abandon, Finish, Serve, rows
    <2>2. Busy' \subseteq Busy /\ Inserting' \subseteq Inserting
      BY <1>1, <2>1 DEF Busy, Inserting, TypeOK, Idle
    <2>3. \A i \in sent : row'[i].created = row[i].created
      BY <1>1, <1>5 DEF CountWrong, IssueToken, Abandon, rows, TypeOK
    <2> QED
      BY <1>4, <2>1, <2>2, <2>3
  <1>6. ASSUME NEW i \in Rows, ConsumeToken(i) PROVE InsertsAreBounded'
    <2>1. Busy' = Busy /\ Inserting' = Inserting
      BY <1>6 DEF ConsumeToken, Busy, Inserting
    <2>2. \A j \in sent : row'[j].created = row[j].created
      BY <1>1, <1>6 DEF ConsumeToken, TypeOK
    <2> QED
      BY <1>4, <1>6, <2>1, <2>2 DEF ConsumeToken
  <1>7. CASE Tick
    <2>1. Busy' = Busy /\ Inserting' = Inserting /\ (\A t : SentWithin(t)' = SentWithin(t))
      BY <1>7 DEF Tick, Busy, Inserting, SentWithin, rows
    <2>2. now' = now + 1 /\ UNCHANGED parallel
      BY <1>7 DEF Tick
    <2> QED
      BY <1>1, <2>1, <2>2, NoneMoreInserting
  <1>8. CASE UNCHANGED vars
    <2>1. Busy' = Busy /\ Inserting' = Inserting
      BY <1>8 DEF vars, Busy, Inserting
    <2> QED
      BY <1>4, <1>8, <2>1 DEF vars, rows
  <1> QED
    BY <1>2, <1>3, <1>5, <1>6, <1>7, <1>8, CountBounded, InsertBounded DEF Next

\* No hour sees more codes than the limit and one for each other request served at the
\* time, for any limits (sendOtp counts before it inserts).
THEOREM HourlyLimitIsNearlyKept == Spec => []OverSentByInFlight
  <1>1. Init => InsertsAreBounded
    <2> SUFFICES ASSUME Init PROVE InsertsAreBounded
      OBVIOUS
    <2>1. Busy = {} /\ Inserting = {} /\ (\A t \in 0..Horizon : SentWithin(t) = {})
      BY DEF Init, Busy, Inserting, Idle, SentWithin
    <2>2. Cardinality(Busy) = 0 /\ (\A t \in 0..Horizon : Cardinality(SentWithin(t)) = 0)
      BY <2>1, FS_EmptySet
    <2>3. parallel \in Nat /\ parallel >= 1 /\ HourlyLimit \in Nat
      BY TimesAssumption DEF Init
    <2> QED
      BY <2>1, <2>2, <2>3 DEF InsertsAreBounded
  <1>2. InsertsAreBounded => OverSentByInFlight
    BY DEF InsertsAreBounded, OverSentByInFlight
  <1> QED
    BY <1>1, <1>2, BoundedNext, OtpCorrect, PTL DEF Spec

-----------------------------------------------------------------------------
(* Requests served one at a time *)

\* Whoever is taken up alone finds nobody else being served.
LEMMA ReadyAlone ==
    ASSUME parallel = 1, NEW w \in Workers, Ready(w)
    PROVE  \A v \in Workers : request[v] = Idle
  <1>1. Cardinality(Busy) < 1 /\ Cardinality(Busy) \in Nat /\ IsFiniteSet(Busy)
    BY BusyAndInserting, Finite DEF Ready, Busy
  <1>2. Cardinality(Busy) = 0
    BY <1>1
  <1>3. Busy = {}
    BY <1>1, <1>2, FS_EmptySet
  <1> QED
    BY <1>3 DEF Busy

\* A lone request is the only one to have read a row, so what it remembers is as
\* fresh as it leaves it.
LEMMA ServedAlone ==
    ASSUME TypeOK, LoneRequestIsFresh, UNCHANGED parallel,
           NEW w \in Workers, Ready(w) \/ request[w] # Idle,
           NEW r, Serve(w, r), parallel = 1 => Fresh(r)',
           \A i \in Rows : parallel = 1 =>
             tries'[i] = row'[i].attempts /\ (i \notin sent' => tries'[i] = 0)
    PROVE  LoneRequestIsFresh'
  <1> SUFFICES ASSUME parallel = 1 PROVE LoneRequestIsFresh'
    BY DEF LoneRequestIsFresh
  <1>1. \A v \in Workers \ {w} : request'[v] = Idle
    BY ReadyAlone DEF TypeOK, LoneRequestIsFresh, Serve
  <1>2. request'[w] = r
    BY DEF TypeOK, Serve
  <1>3. \A v \in Workers : Fresh(request[v])'
    BY <1>1, <1>2 DEF Fresh, Idle
  <1>4. \A u, v \in Workers : request'[u] # Idle /\ request'[v] # Idle => u = v
    BY <1>1
  <1> QED
    BY <1>3, <1>4 DEF LoneRequestIsFresh

\* A lone request that begins, goes on or ends and writes no row.
LEMMA ReadingFresh ==
    ASSUME TypeOK, LoneRequestIsFresh, UNCHANGED <<rows, tries, parallel>>,
           NEW w \in Workers, Ready(w) \/ request[w] # Idle,
           NEW r, Serve(w, r), parallel = 1 => Fresh(r)
    PROVE  LoneRequestIsFresh'
  <1>1. parallel = 1 => Fresh(r)'
    BY DEF Fresh, rows
  <1>2. \A i \in Rows : parallel = 1 =>
          tries'[i] = row'[i].attempts /\ (i \notin sent' => tries'[i] = 0)
    BY DEF LoneRequestIsFresh, rows
  <1> QED
    BY <1>1, <1>2, ServedAlone

\* The cooldown, the hourly count and the row that was read are those of now.
LEMMA ReadersFresh ==
    ASSUME OtpInv, LoneRequestIsFresh, NEW w \in Workers,
           SendOtp(w) \/ CountLastHour(w) \/ EnterWrong(w) \/ EnterRight(w) \/ Abandon(w)
    PROVE  LoneRequestIsFresh'
  <1>1. TypeOK /\ Fresh(Idle)
    BY DEF OtpInv, Fresh, Idle
  <1>2. CASE SendOtp(w)
    <2>1. PICK r : r = [step |-> "count", at |-> now] /\ Serve(w, r)
      BY <1>2 DEF SendOtp
    <2>2. Fresh(r)
      BY <1>2, <2>1 DEF SendOtp, CooledDown, Fresh
    <2> QED
      BY <1>1, <1>2, <2>1, <2>2, ReadingFresh DEF SendOtp, history
  <1>3. CASE CountLastHour(w)
    <2>1. PICK r : r = [step |-> "insert", at |-> request[w].at] /\ Serve(w, r)
      BY <1>3 DEF CountLastHour
    <2>2. parallel = 1 => Fresh(r)
      BY <1>3, <2>1 DEF CountLastHour, LoneRequestIsFresh, Fresh
    <2>3. request[w] # Idle
      BY <1>3 DEF CountLastHour, Idle
    <2> QED
      BY <1>1, <1>3, <2>1, <2>2, <2>3, ReadingFresh DEF CountLastHour, history
  <1>4. CASE EnterWrong(w)
    <2>1. PICK i \in Rows : Serve(w, [step |-> "wrong", row |-> i, attempts |-> row[i].attempts])
      BY <1>1, <1>4 DEF EnterWrong, Latest, TypeOK
    <2> DEFINE r == [step |-> "wrong", row |-> i, attempts |-> row[i].attempts]
    <2>2. Fresh(r)
      BY DEF Fresh
    <2> QED
      BY <1>1, <1>4, <2>1, <2>2, ReadingFresh DEF EnterWrong, history
  <1>5. CASE EnterRight(w)
    <2>1. PICK r : r.step = "right" /\ Serve(w, r)
      BY <1>5 DEF EnterRight
    <2>2. Fresh(r)
      BY <2>1 DEF Fresh
    <2> QED
      BY <1>1, <1>5, <2>1, <2>2, ReadingFresh DEF EnterRight, history
  <1>6. CASE Abandon(w)
    BY <1>1, <1>6, ReadingFresh DEF Abandon, Finish, history
  <1> QED
    BY <1>2, <1>3, <1>4, <1>5, <1>6

\* One more wrong code is counted than were there.
LEMMA CountWrongFresh ==
    ASSUME OtpInv, LoneRequestIsFresh, NEW w \in Workers, CountWrong(w)
    PROVE  LoneRequestIsFresh'
  <1>1. TypeOK /\ request[w] \in WrongRequest /\ Fresh(Idle)'
    BY RequestKinds DEF CountWrong, OtpInv, TypeOK, Fresh, Idle
  <1>2. PICK i \in Rows, n \in Nat : i = request[w].row /\ n = request[w].attempts
    BY <1>1 DEF WrongRequest
  <1>3. /\ request[w] # Idle /\ Serve(w, Idle) /\ UNCHANGED <<sent, parallel>>
        /\ i \in sent
        /\ row'[i].attempts = n + 1 /\ tries'[i] = tries[i] + 1
        /\ \A j \in Rows : j # i => row'[j] = row[j] /\ tries'[j] = tries[j]
    BY <1>1, <1>2 DEF CountWrong, Finish, Idle, TypeOK, OtpInv, RequestsArePast
  <1>4. parallel = 1 => n = row[i].attempts
    BY <1>2 DEF CountWrong, LoneRequestIsFresh, Fresh
  <1>5. \A j \in Rows : parallel = 1 =>
          tries'[j] = row'[j].attempts /\ (j \notin sent' => tries'[j] = 0)
    BY <1>3, <1>4 DEF LoneRequestIsFresh
  <1> QED
    BY <1>1, <1>3, <1>5, ServedAlone

\* An acceptance leaves the tries.
LEMMA IssueTokenFresh ==
    ASSUME OtpInv, LoneRequestIsFresh, NEW w \in Workers, IssueToken(w)
    PROVE  LoneRequestIsFresh'
  <1>1. TypeOK /\ Fresh(Idle)'
    BY DEF OtpInv, Fresh, Idle
  <1>2. request[w] # Idle /\ Serve(w, Idle) /\ UNCHANGED <<sent, tries, parallel>>
    BY DEF IssueToken, Finish, Idle
  <1>3. \A j \in Rows : row'[j].attempts = row[j].attempts
    BY <1>1 DEF IssueToken, TypeOK
  <1>4. \A j \in Rows : parallel = 1 =>
          tries'[j] = row'[j].attempts /\ (j \notin sent' => tries'[j] = 0)
    BY <1>2, <1>3 DEF LoneRequestIsFresh
  <1> QED
    BY <1>1, <1>2, <1>4, ServedAlone

\* A code is dated no earlier than the clock that found the others old enough.
LEMMA InsertSerial ==
    ASSUME OtpInv, LoneRequestIsFresh, SpacedSerially, NEW w \in Workers, InsertCode(w)
    PROVE  LoneRequestIsFresh' /\ SpacedSerially'
  <1>1. PICK i \in Rows \ sent :
          /\ sent' = sent \cup {i}
          /\ \A j \in Rows \ {i} : row'[j] = row[j]
          /\ row'[i].created = now /\ row'[i].attempts = 0
    BY DEF InsertCode, OtpInv, TypeOK
  <1>2. /\ TypeOK /\ Fresh(Idle)' /\ request[w] # Idle /\ Serve(w, Idle)
        /\ UNCHANGED <<tries, parallel>>
    BY DEF InsertCode, OtpInv, Fresh, Idle, Finish, history
  <1>3. request[w].at \in Nat /\ request[w].at <= now /\ now \in Nat /\ Cooldown \in Nat
    BY RequestKinds, TimesAssumption DEF InsertCode, OtpInv, TypeOK, SendRequest, RequestsArePast
  <1>4. \A j \in sent : parallel = 1 => row[j].created + Cooldown <= request[w].at
    BY DEF InsertCode, LoneRequestIsFresh, Fresh
  <1>5. \A j \in sent : j \in Rows \ {i} /\ row[j].created \in Nat
    BY <1>1 DEF OtpInv, TypeOK, Row
  <1>6. SpacedSerially'
    BY <1>1, <1>2, <1>3, <1>4, <1>5 DEF SpacedSerially
  <1>7. \A j \in Rows : parallel = 1 =>
          tries'[j] = row'[j].attempts /\ (j \notin sent' => tries'[j] = 0)
    BY <1>1, <1>2 DEF LoneRequestIsFresh
  <1>8. LoneRequestIsFresh'
    BY <1>2, <1>7, ServedAlone
  <1> QED
    BY <1>6, <1>8

\* Only an insert dates a row.
LEMMA SpacedKept ==
    ASSUME SpacedSerially, UNCHANGED <<sent, parallel>>,
           \A i \in sent : row'[i].created = row[i].created
    PROVE  SpacedSerially'
  BY DEF SpacedSerially

LEMMA SerialNext ==
    OtpInv /\ LoneRequestIsFresh /\ SpacedSerially /\ [Next]_vars
      => LoneRequestIsFresh' /\ SpacedSerially'
  <1> SUFFICES ASSUME OtpInv, LoneRequestIsFresh, SpacedSerially, [Next]_vars
               PROVE  LoneRequestIsFresh' /\ SpacedSerially'
    OBVIOUS
  <1>1. TypeOK
    BY DEF OtpInv
  <1>2. ASSUME NEW w \in Workers,
               SendOtp(w) \/ CountLastHour(w) \/ EnterWrong(w) \/ EnterRight(w) \/ Abandon(w)
        PROVE  LoneRequestIsFresh' /\ SpacedSerially'
    <2>1. UNCHANGED <<sent, row, parallel>>
      BY <1>2 DEF SendOtp, CountLastHour, EnterWrong, EnterRight, Abandon, rows
    <2> QED
      BY <1>2, <2>1, ReadersFresh, SpacedKept
  <1>3. ASSUME NEW w \in Workers, CountWrong(w) \/ IssueToken(w)
        PROVE  LoneRequestIsFresh' /\ SpacedSerially'
    <2>1. UNCHANGED <<sent, parallel>> /\ \A i \in sent : row'[i].created = row[i].created
      BY <1>1, <1>3 DEF CountWrong, IssueToken, TypeOK
    <2> QED
      BY <1>3, <2>1, CountWrongFresh, IssueTokenFresh, SpacedKept
  <1>4. ASSUME UNCHANGED <<sent, tries, request, parallel>>,
               \A i \in Rows : /\ row'[i].created = row[i].created
                               /\ row'[i].attempts = row[i].attempts
        PROVE  LoneRequestIsFresh' /\ SpacedSerially'
    <2>1. \A i \in sent : i \in Rows
      BY <1>1 DEF TypeOK
    <2>2. SpacedSerially'
      BY <1>4, <2>1, SpacedKept
    <2>3. ASSUME NEW w \in Workers, parallel = 1 PROVE Fresh(request[w])'
      <3>1. Fresh(request[w])
        BY <2>3 DEF LoneRequestIsFresh
      <3>2. request[w].step = "wrong" => request[w].row \in Rows
        BY <1>1, RequestKinds DEF TypeOK, WrongRequest
      <3> QED
        BY <1>4, <2>1, <3>1, <3>2 DEF Fresh
    <2>4. LoneRequestIsFresh'
      BY <1>4, <2>3 DEF LoneRequestIsFresh
    <2> QED
      BY <2>2, <2>4
  <1>5. ASSUME NEW i \in Rows, ConsumeToken(i)
        PROVE  LoneRequestIsFresh' /\ SpacedSerially'
    <2>1. \A j \in Rows : /\ row'[j].created = row[j].created
                          /\ row'[j].attempts = row[j].attempts
      BY <1>1, <1>5 DEF ConsumeToken, TypeOK
    <2> QED
      BY <1>4, <1>5, <2>1 DEF ConsumeToken, history
  <1>6. CASE Tick \/ UNCHANGED vars
    BY <1>4, <1>6 DEF Tick, vars, rows, history
  <1> QED
    BY <1>2, <1>3, <1>5, <1>6, InsertSerial DEF Next

\* Served one at a time, requests keep what each has read of the rows true.
LEMMA SerialCorrect == Spec => [](LoneRequestIsFresh /\ SpacedSerially)
  <1>1. Init => LoneRequestIsFresh /\ SpacedSerially
    BY DEF Init, LoneRequestIsFresh, Fresh, Idle, SpacedSerially
  <1> QED
    BY <1>1, SerialNext, OtpCorrect, PTL DEF Spec

\* Served one at a time, codes are sent at least the cooldown apart (sendOtp).
THEOREM CodesAreSpaced == Spec => []SpacedSerially
  BY SerialCorrect, PTL

\* Served one at a time, every wrong code counts and the limit ends them (verifyOtp).
THEOREM TriesAreCounted == Spec => []TriesCountedSerially
  <1>1. OtpInv /\ LoneRequestIsFresh => TriesCountedSerially
    BY DEF OtpInv, AttemptsAreTries, LoneRequestIsFresh, TriesCountedSerially
  <1> QED
    BY <1>1, SerialCorrect, OtpCorrect, PTL
=============================================================================
