----------------------------- MODULE TwoFactor -----------------------------
(***************************************************************************)
(* Two-factor authentication of one account: two-factor.service.ts, and the *)
(* sign-in of auth.service.ts that stands before it (google-auth.service.ts *)
(* and apple-auth.service.ts sign in the same way).  Accounts share no row   *)
(* here, so one stands for all.                                              *)
(*                                                                           *)
(* None of it is in a transaction: every statement is a step, and enabling,  *)
(* regenerating, signing in and redeeming are sequences of them.  A delete   *)
(* by id of a row that is gone throws; a deleteMany does not.                *)
(***************************************************************************)
EXTENDS Naturals, Requests

CONSTANTS
    Secrets,        \* TOTP secrets, each generated once; a record is named by its first
    Codes,          \* recovery codes
    Batches,        \* sets of codes made by one call
    Batch,          \* Batch[k]: the batch that code k is made in
    Challenges,     \* login challenges, each created once
    None            \* no record, no code

ASSUME BatchAssumption == Batch \in [Codes -> Batches]
ASSUME NoneAssumption == None \notin Secrets \cup Codes

VARIABLES
    twoFactor,      \* the row of `two_factor_auth', id None without one
    issued,         \* secrets generated, which the customer's app may hold
    confirmed,      \* history: secrets whose code was accepted by verifySetup
    codes,          \* rows of `two_factor_recovery_codes'
    batches,        \* batches made
    challenge,      \* challenge[c]: the row in `two_factor_challenges'
    opened,         \* history, opened[c]: sessions opened on challenge c
    redeemed,       \* history, redeemed[k]: sessions opened with recovery code k
    alone           \* TRUE in behaviours that serve one request at a time

record == <<twoFactor, issued, confirmed>>
recovery == <<codes, batches>>
sessions == <<opened, redeemed>>
vars == <<record, recovery, challenge, sessions, request, alone>>

-----------------------------------------------------------------------------
NoRecord == [id |-> None, secret |-> None, enabled |-> FALSE]
TwoFactorRow == [id : Secrets, secret : Secrets, enabled : BOOLEAN] \cup {NoRecord}

RecordRequest == [step : {"enable", "purge", "store"}, id : Secrets]
PlainRequest == [step : {"disable", "clear", "issue", "session"}]
\* `code' is None for a login by TOTP.
LoginRequest == [step : {"spend", "consume", "establish"},
                 challenge : Challenges, code : Codes \cup {None}]
Request == IdleRequest \cup RecordRequest \cup PlainRequest \cup LoginRequest

\* Shape of the state.
TypeOK ==
    /\ twoFactor \in TwoFactorRow
    /\ issued \subseteq Secrets
    /\ confirmed \subseteq Secrets
    /\ codes \subseteq Codes
    /\ batches \subseteq Batches
    /\ challenge \in [Challenges -> {"unused", "live", "expired", "gone"}]
    /\ opened \in [Challenges -> Nat]
    /\ redeemed \in [Codes -> Nat]
    /\ request \in [Workers -> Request]
    /\ alone \in BOOLEAN

Init ==
    /\ twoFactor = NoRecord
    /\ issued = {}
    /\ confirmed = {}
    /\ codes = {}
    /\ batches = {}
    /\ challenge = [c \in Challenges |-> "unused"]
    /\ opened = [c \in Challenges |-> 0]
    /\ redeemed = [k \in Codes |-> 0]
    /\ request = [w \in Workers |-> Idle]
    /\ alone \in BOOLEAN

-----------------------------------------------------------------------------
Ready(w) == /\ request[w] = Idle
            /\ alone => \A v \in Workers : request[v] = Idle

-----------------------------------------------------------------------------
(* Setup *)

\* generateSetup: an upsert.  On an account that has a record it replaces the
\* secret, disables, and leaves the recovery codes.
GenerateSetup(w) ==
    /\ Ready(w)
    /\ \E s \in Secrets \ issued :
        /\ twoFactor' = [id |-> IF twoFactor.id = None THEN s ELSE twoFactor.id,
                         secret |-> s, enabled |-> FALSE]
        /\ issued' = issued \cup {s}
    /\ UNCHANGED <<confirmed, recovery, challenge, sessions, request, alone>>

\* MUTANT of ValidCode: the check is not awaited, so its promise counts as true.
AnyCode(s) == TRUE

\* authenticator.check of a code that the customer's app derived from secret s.
ValidCode(s) == s = twoFactor.secret

\* verifySetup reads the record and checks a code of any secret shown so far.
VerifySetup(w) ==
    /\ Ready(w)
    /\ twoFactor.id # None
    /\ \E s \in issued : ValidCode(s) /\ confirmed' = confirmed \cup {s}
    /\ Serve(w, [step |-> "enable", id |-> twoFactor.id])
    /\ UNCHANGED <<twoFactor, issued, recovery, challenge, sessions, alone>>

\* The update is by user: it enables the record there is by now.
Enable(w) ==
    /\ request[w].step = "enable"
    /\ twoFactor.id # None
    /\ twoFactor' = [id |-> twoFactor.id, secret |-> twoFactor.secret, enabled |-> TRUE]
    /\ Serve(w, [step |-> "purge", id |-> request[w].id])
    /\ UNCHANGED <<issued, confirmed, recovery, challenge, sessions, alone>>

-----------------------------------------------------------------------------
(* generateAndStoreRecoveryCodes *)

\* regenerateRecoveryCodes: password, record and TOTP code are checked.
RegenerateRecoveryCodes(w) ==
    /\ Ready(w)
    /\ twoFactor.enabled
    /\ Serve(w, [step |-> "purge", id |-> twoFactor.id])
    /\ UNCHANGED <<record, recovery, challenge, sessions, alone>>

\* MUTANT of PurgeCodes: old codes are left.
PurgeNothing(w) ==
    /\ request[w].step = "purge"
    /\ Serve(w, [step |-> "store", id |-> request[w].id])
    /\ UNCHANGED <<record, recovery, challenge, sessions, alone>>

\* deleteMany by the id of the record that was read; then the hashes are computed.
PurgeCodes(w) ==
    /\ request[w].step = "purge"
    /\ codes' = IF twoFactor.id = request[w].id THEN {} ELSE codes
    /\ Serve(w, [step |-> "store", id |-> request[w].id])
    /\ UNCHANGED <<record, batches, challenge, sessions, alone>>

\* MUTANT of RecordIs: the rows have no foreign key.
RecordIsAny(id) == TRUE

RecordIs(id) == twoFactor.id = id

\* createMany; the foreign key asks for the record that was read.
StoreCodes(w) ==
    /\ request[w].step = "store"
    /\ RecordIs(request[w].id)
    /\ \E b \in Batches \ batches :
        /\ batches' = batches \cup {b}
        /\ codes' = codes \cup {k \in Codes : Batch[k] = b}
    /\ Finish(w)
    /\ UNCHANGED <<record, challenge, sessions, alone>>

-----------------------------------------------------------------------------
(* disable *)

\* Password and a TOTP or recovery code are checked; the code is not consumed.
Disable(w) ==
    /\ Ready(w)
    /\ twoFactor.enabled
    /\ Serve(w, [step |-> "disable"])
    /\ UNCHANGED <<record, recovery, challenge, sessions, alone>>

\* The record is deleted by user and its recovery codes go with it.
DeleteRecord(w) ==
    /\ request[w].step = "disable"
    /\ twoFactor.id # None
    /\ twoFactor' = NoRecord
    /\ codes' = {}
    /\ Finish(w)
    /\ UNCHANGED <<issued, confirmed, batches, challenge, sessions, alone>>

-----------------------------------------------------------------------------
(* Sign-in *)

\* The credentials are good: the record that was read decides what comes next.
SignIn(w) ==
    /\ Ready(w)
    /\ Serve(w, [step |-> IF twoFactor.enabled THEN "clear" ELSE "session"])
    /\ UNCHANGED <<record, recovery, challenge, sessions, alone>>

\* createSession without a challenge; no later step looks at such a session.
CreateSession(w) ==
    /\ request[w].step = "session"
    /\ Finish(w)
    /\ UNCHANGED <<record, recovery, challenge, sessions, alone>>

\* MUTANT of ClearChallenges: only expired challenges are cleaned up.
ClearExpired(w) ==
    /\ request[w].step = "clear"
    /\ challenge' = [c \in Challenges |->
                       IF challenge[c] = "expired" THEN "gone" ELSE challenge[c]]
    /\ Serve(w, [step |-> "issue"])
    /\ UNCHANGED <<record, recovery, sessions, alone>>

ChallengeExists(c) == challenge[c] \in {"live", "expired"}

\* createLoginChallenge, its deleteMany.
ClearChallenges(w) ==
    /\ request[w].step = "clear"
    /\ challenge' = [c \in Challenges |->
                       IF ChallengeExists(c) THEN "gone" ELSE challenge[c]]
    /\ Serve(w, [step |-> "issue"])
    /\ UNCHANGED <<record, recovery, sessions, alone>>

\* createLoginChallenge, its create.
IssueChallenge(w) ==
    /\ request[w].step = "issue"
    /\ \E c \in Challenges :
        /\ challenge[c] = "unused"
        /\ challenge' = [challenge EXCEPT ![c] = "live"]
    /\ Finish(w)
    /\ UNCHANGED <<record, recovery, sessions, alone>>

\* expiresAt passes; the row stays.
ExpireChallenge(c) ==
    /\ challenge[c] = "live"
    /\ challenge' = [challenge EXCEPT ![c] = "expired"]
    /\ UNCHANGED <<record, recovery, sessions, request, alone>>

-----------------------------------------------------------------------------
(* Second factor *)

\* verifyLogin: challenge, record and TOTP code are checked.
VerifyLogin(w, c) ==
    /\ Ready(w)
    /\ challenge[c] = "live"
    /\ twoFactor.enabled
    /\ Serve(w, [step |-> "consume", challenge |-> c, code |-> None])
    /\ UNCHANGED <<record, recovery, challenge, sessions, alone>>

\* verifyRecoveryLogin: the code matches one of the rows read.
VerifyRecoveryLogin(w, c, k) ==
    /\ Ready(w)
    /\ challenge[c] = "live"
    /\ twoFactor.enabled
    /\ k \in codes
    /\ Serve(w, [step |-> "spend", challenge |-> c, code |-> k])
    /\ UNCHANGED <<record, recovery, challenge, sessions, alone>>

\* MUTANTS of CodeStored and ChallengeStored: deleteMany, which does not throw.
CodeMayBeGone(k) == TRUE
ChallengeMayBeGone(c) == TRUE

CodeStored(k) == k \in codes
ChallengeStored(c) == ChallengeExists(c)

SpendCode(w) ==
    LET r == request[w] IN
    /\ r.step = "spend"
    /\ CodeStored(r.code)
    /\ codes' = codes \ {r.code}
    /\ Serve(w, [step |-> "consume", challenge |-> r.challenge, code |-> r.code])
    /\ UNCHANGED <<record, batches, challenge, sessions, alone>>

ConsumeChallenge(w) ==
    LET r == request[w] IN
    /\ r.step = "consume"
    /\ ChallengeStored(r.challenge)
    /\ challenge' = [challenge EXCEPT ![r.challenge] = "gone"]
    /\ Serve(w, [step |-> "establish", challenge |-> r.challenge, code |-> r.code])
    /\ UNCHANGED <<record, recovery, sessions, alone>>

\* establishSessionForUser.
EstablishSession(w) ==
    LET r == request[w] IN
    /\ r.step = "establish"
    /\ opened' = [opened EXCEPT ![r.challenge] = @ + 1]
    /\ redeemed' = IF r.code = None THEN redeemed
                   ELSE [redeemed EXCEPT ![r.code] = @ + 1]
    /\ Finish(w)
    /\ UNCHANGED <<record, recovery, challenge, alone>>

-----------------------------------------------------------------------------
\* A check refuses, a row is gone, a call throws, the process dies.
Abandon(w) ==
    /\ request[w] # Idle
    /\ Finish(w)
    /\ UNCHANGED <<record, recovery, challenge, sessions, alone>>

Next ==
    \/ \E w \in Workers :
        \/ GenerateSetup(w) \/ VerifySetup(w) \/ Enable(w)
        \/ RegenerateRecoveryCodes(w) \/ PurgeCodes(w) \/ StoreCodes(w)
        \/ Disable(w) \/ DeleteRecord(w)
        \/ SignIn(w) \/ CreateSession(w) \/ ClearChallenges(w) \/ IssueChallenge(w)
        \/ \E c \in Challenges :
            VerifyLogin(w, c) \/ \E k \in Codes : VerifyRecoveryLogin(w, c, k)
        \/ SpendCode(w) \/ ConsumeChallenge(w) \/ EstablishSession(w)
        \/ Abandon(w)
    \/ \E c \in Challenges : ExpireChallenge(c)

Spec == Init /\ [][Next]_vars

-----------------------------------------------------------------------------
(* Properties *)

\* docs/authentication.md 4.4, "single-use 5-minute challenge token": a challenge
\* answered twice, by TOTP and by recovery code at once or by two devices, opens
\* one session; every check before the delete may be stale (verifyLogin,
\* verifyRecoveryLogin).
ChallengeOpensOneSession == \A c \in Challenges : opened[c] <= 1

\* docs/authentication.md 4.3, "One-time use": two logins that matched one code
\* before either deleted it do not both succeed, and a code that was used does not
\* come back by a regeneration or a new setup (verifyRecoveryLogin).
RecoveryCodeOpensOneSession == \A k \in Codes : redeemed[k] <= 1

\* Requests served one at a time never leave codes of an earlier batch beside
\* those of a later one, though the record is set up, disabled and set up again
\* (generateAndStoreRecoveryCodes: "Previous recovery codes are now invalidated").
OneBatchSerially == alone => \A j, k \in codes : Batch[j] = Batch[k]

\* Requests served one at a time enable a secret only after the customer's app
\* has shown a code of this very secret: a setup begun anew asks for a new code
\* (generateSetup, verifySetup).
EnabledIsConfirmedSerially ==
    alone /\ twoFactor.enabled => twoFactor.secret \in confirmed

\* Requests served one at a time leave one challenge to answer
\* (createLoginChallenge: "Clean up any existing challenges").
OneChallengeSerially ==
    alone => \A c, d \in Challenges : ChallengeExists(c) /\ ChallengeExists(d) => c = d

(* What the proofs need besides. *)

\* Codes do not outlive their record, however a disable falls between the
\* statements of a regeneration.
CodesNeedRecord == codes # {} => twoFactor.id # None

\* A code that is stored, waits to open a session or has opened one was made; one
\* that waits or has opened one is stored no more.
CodesAreMade ==
    /\ \A k \in codes : Batch[k] \in batches
    /\ \A k \in Codes : redeemed[k] > 0 => Batch[k] \in batches /\ k \notin codes

\* A challenge that has opened a session is gone.
OpenedAreGone == \A c \in Challenges : opened[c] > 0 => challenge[c] = "gone"

Redeems(w, k) ==
    request[w].step \in {"consume", "establish"} /\ request[w].code = k

Establishes(w, c) == request[w].step = "establish" /\ request[w].challenge = c

\* A code that was deleted for a login is in the hands of that login alone.
SpentOnce ==
    /\ \A w \in Workers : request[w].step = "spend" =>
         request[w].code \in Codes /\ Batch[request[w].code] \in batches
    /\ \A w \in Workers, k \in Codes : Redeems(w, k) =>
         Batch[k] \in batches /\ k \notin codes /\ redeemed[k] = 0
    /\ \A v, w \in Workers, k \in Codes : Redeems(v, k) /\ Redeems(w, k) => v = w

\* A challenge that was deleted for a login is in the hands of that login alone.
ConsumedOnce ==
    /\ \A w \in Workers, c \in Challenges : Establishes(w, c) =>
         challenge[c] = "gone" /\ opened[c] = 0
    /\ \A v, w \in Workers, c \in Challenges : Establishes(v, c) /\ Establishes(w, c) => v = w

\* Behind the serial properties: what request r has read, or has written since, is so.
Fresh(r) ==
    /\ r.step \in {"enable", "purge", "store"} => r.id = twoFactor.id
    /\ r.step = "enable" => twoFactor.secret \in confirmed
    /\ r.step = "store" => codes = {}
    /\ r.step = "issue" => \A c \in Challenges : ~ChallengeExists(c)

LoneRequestIsFresh ==
    alone =>
        /\ \A v, w \in Workers : request[v] # Idle /\ request[w] # Idle => v = w
        /\ \A w \in Workers : Fresh(request[w])

\* The inductive invariant behind ChallengeOpensOneSession and
\* RecoveryCodeOpensOneSession: whoever deletes the row holds it alone.
TwoFactorInv ==
    /\ TypeOK
    /\ CodesNeedRecord
    /\ CodesAreMade
    /\ OpenedAreGone
    /\ SpentOnce
    /\ ConsumedOnce
    /\ ChallengeOpensOneSession
    /\ RecoveryCodeOpensOneSession
=============================================================================
