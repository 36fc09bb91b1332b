-------------------------- MODULE TwoFactorProofs --------------------------
(***************************************************************************)
(* TwoFactorInv is inductive, so a challenge and a recovery code open one    *)
(* session each, for any number of requests, secrets, codes and challenges.  *)
(* What else holds while requests are served one at a time follows from      *)
(* LoneRequestIsFresh: what the only request has read is still so.           *)
(***************************************************************************)
EXTENDS TwoFactor, TLAPS

\* Nothing is made, stored or in flight at first.
LEMMA InitInv == Init => TwoFactorInv
  <1> SUFFICES ASSUME Init PROVE TwoFactorInv
    OBVIOUS
  <1> USE BatchAssumption, NoneAssumption DEF Init
  <1>1. TypeOK
    BY DEF TypeOK, TwoFactorRow, NoRecord, Request, IdleRequest, Idle
  <1>2. CodesNeedRecord /\ CodesAreMade /\ OpenedAreGone
    BY DEF CodesNeedRecord, CodesAreMade, OpenedAreGone
  <1>3. SpentOnce /\ ConsumedOnce
    BY DEF SpentOnce, ConsumedOnce, Redeems, Establishes, Idle
  <1>4. ChallengeOpensOneSession /\ RecoveryCodeOpensOneSession
    BY DEF ChallengeOpensOneSession, RecoveryCodeOpensOneSession
  <1> QED
    BY <1>1, <1>2, <1>3, <1>4 DEF TwoFactorInv

\* What a request remembers when it holds no row it has deleted.
Harmless(r) ==
    \/ r \in IdleRequest \cup RecordRequest \cup PlainRequest
    \/ r \in LoginRequest /\ r.step = "consume" /\ r.code = None
    \/ r \in LoginRequest /\ r.step = "spend" /\ r.code \in codes

\* A request that begins, ends, or goes on without a deleted row in its hands, and
\* writes none of the rows that logins delete.
LEMMA HarmlessInv ==
    ASSUME TwoFactorInv, NEW w \in Workers, NEW r, Harmless(r), Serve(w, r),
           twoFactor' \in TwoFactorRow,
           issued' \subseteq Secrets, confirmed' \subseteq Secrets,
           twoFactor.id # None => twoFactor'.id # None,
           UNCHANGED <<recovery, challenge, sessions, alone>>
    PROVE  TwoFactorInv'
  <1> USE BatchAssumption, NoneAssumption
      DEF TwoFactorInv, Serve, recovery, sessions
  <1>1. TypeOK'
    BY DEF TypeOK, Harmless, Request
  <1>2. (CodesNeedRecord /\ CodesAreMade /\ OpenedAreGone)'
    BY DEF CodesNeedRecord, CodesAreMade, OpenedAreGone
  <1>3. \A v \in Workers : v # w => request'[v] = request[v]
    BY DEF TypeOK
  <1>4. request'[w] = r
    BY DEF TypeOK
  <1>5. \A k \in Codes : ~Redeems(w, k)'
    BY <1>4 DEF Redeems, Harmless, IdleRequest, RecordRequest, PlainRequest
  <1>6. \A c \in Challenges : ~Establishes(w, c)'
    BY <1>4 DEF Establishes, Harmless, IdleRequest, RecordRequest, PlainRequest
  <1>7. \A v \in Workers, k \in Codes : Redeems(v, k)' => Redeems(v, k)
    BY <1>3, <1>5 DEF Redeems
  <1>8. \A v \in Workers, c \in Challenges : Establishes(v, c)' => Establishes(v, c)
    BY <1>3, <1>6 DEF Establishes
  <1>9. r.step = "spend" => r.code \in Codes /\ Batch[r.code] \in batches
    BY DEF Harmless, IdleRequest, RecordRequest, PlainRequest, CodesAreMade, TypeOK
  <1>10. SpentOnce'
    BY <1>3, <1>4, <1>7, <1>9 DEF SpentOnce
  <1>11. ConsumedOnce'
    BY <1>8 DEF ConsumedOnce
  <1>12. (ChallengeOpensOneSession /\ RecoveryCodeOpensOneSession)'
    BY DEF ChallengeOpensOneSession, RecoveryCodeOpensOneSession
  <1> QED
    BY <1>1, <1>2, <1>10, <1>11, <1>12

\* Codes are removed, by a purge or with their record: nothing comes back.
LEMMA PurgeInv ==
    ASSUME TwoFactorInv, NEW w \in Workers, NEW r \in IdleRequest \cup RecordRequest,
           Serve(w, r), twoFactor' \in TwoFactorRow, codes' \subseteq codes,
           codes' # {} => twoFactor'.id # None,
           UNCHANGED <<issued, confirmed, batches, challenge, sessions, alone>>
    PROVE  TwoFactorInv'
  <1> USE BatchAssumption, NoneAssumption DEF TwoFactorInv, Serve, sessions
  <1>1. TypeOK'
    BY DEF TypeOK, Request
  <1>2. (CodesNeedRecord /\ CodesAreMade /\ OpenedAreGone)'
    BY DEF CodesNeedRecord, CodesAreMade, OpenedAreGone
  <1>3. \A v \in Workers : v # w => request'[v] = request[v]
    BY DEF TypeOK
  <1>4. request'[w].step \in {"idle", "enable", "purge", "store"}
    BY DEF TypeOK, IdleRequest, RecordRequest
  <1>5. \A v \in Workers, k \in Codes : Redeems(v, k)' => Redeems(v, k)
    BY <1>3, <1>4 DEF Redeems
  <1>6. \A v \in Workers, c \in Challenges : Establishes(v, c)' => Establishes(v, c)
    BY <1>3, <1>4 DEF Establishes
  <1>7. SpentOnce'
    BY <1>3, <1>4, <1>5 DEF SpentOnce
  <1>8. ConsumedOnce'
    BY <1>6 DEF ConsumedOnce
  <1>9. (ChallengeOpensOneSession /\ RecoveryCodeOpensOneSession)'
    BY DEF ChallengeOpensOneSession, RecoveryCodeOpensOneSession
  <1> QED
    BY <1>1, <1>2, <1>7, <1>8, <1>9

\* A new batch holds no code that was ever stored before.
LEMMA StoreCodesInv ==
    ASSUME TwoFactorInv, NEW w \in Workers, StoreCodes(w)
    PROVE  TwoFactorInv'
  <1> USE BatchAssumption, NoneAssumption
      DEF TwoFactorInv, StoreCodes, Finish, Serve, record, sessions
  <1> PICK b \in Batches \ batches :
             /\ batches' = batches \cup {b}
             /\ codes' = codes \cup {k \in Codes : Batch[k] = b}
    OBVIOUS
  <1>1. TypeOK'
    BY DEF TypeOK, Request, Idle, IdleRequest
  <1>2. CodesNeedRecord'
    <2>1. request[w].id \in Secrets
      BY DEF TypeOK, Request, IdleRequest, RecordRequest, PlainRequest, LoginRequest
    <2> QED
      BY <2>1 DEF CodesNeedRecord, RecordIs
  <1>3. (CodesAreMade /\ OpenedAreGone)'
    BY DEF CodesAreMade, OpenedAreGone, TypeOK
  <1>4. \A v \in Workers : v # w => request'[v] = request[v]
    BY DEF TypeOK
  <1>5. request'[w].step = "idle"
    BY DEF TypeOK, Idle
  <1>6. \A v \in Workers, k \in Codes : Redeems(v, k)' => Redeems(v, k)
    BY <1>4, <1>5 DEF Redeems
  <1>7. \A v \in Workers, c \in Challenges : Establishes(v, c)' => Establishes(v, c)
    BY <1>4, <1>5 DEF Establishes
  <1>8. SpentOnce'
    BY <1>4, <1>5, <1>6 DEF SpentOnce
  <1>9. ConsumedOnce'
    BY <1>7 DEF ConsumedOnce
  <1>10. (ChallengeOpensOneSession /\ RecoveryCodeOpensOneSession)'
    BY DEF ChallengeOpensOneSession, RecoveryCodeOpensOneSession
  <1> QED
    BY <1>1, <1>2, <1>3, <1>8, <1>9, <1>10

\* Challenges are cleared, issued or expire: none that is gone comes back.
LEMMA ChallengesInv ==
    ASSUME TwoFactorInv,
           challenge' \in [Challenges -> {"unused", "live", "expired", "gone"}],
           \A c \in Challenges : challenge[c] = "gone" => challenge'[c] = "gone",
           UNCHANGED request \/ \E w \in Workers, r \in IdleRequest \cup PlainRequest : Serve(w, r),
           UNCHANGED <<record, recovery, sessions, alone>>
    PROVE  TwoFactorInv'
  <1> USE DEF TwoFactorInv, record, recovery, sessions
  <1>1. request' \in [Workers -> Request]
    BY DEF Serve, TypeOK, Request
  <1>2. TypeOK'
    BY <1>1 DEF TypeOK
  <1>3. (CodesNeedRecord /\ CodesAreMade /\ OpenedAreGone)'
    BY DEF CodesNeedRecord, CodesAreMade, OpenedAreGone
  <1>4. \A v \in Workers :
          \/ request'[v] = request[v]
          \/ request'[v].step \in {"idle", "disable", "clear", "issue", "session"}
    BY DEF Serve, TypeOK, IdleRequest, PlainRequest
  <1>5. \A v \in Workers, k \in Codes : Redeems(v, k)' => Redeems(v, k)
    BY <1>4 DEF Redeems
  <1>6. \A v \in Workers, c \in Challenges : Establishes(v, c)' => Establishes(v, c)
    BY <1>4 DEF Establishes
  <1>7. SpentOnce'
    BY <1>4, <1>5 DEF SpentOnce
  <1>8. ConsumedOnce'
    BY <1>6 DEF ConsumedOnce
  <1>9. (ChallengeOpensOneSession /\ RecoveryCodeOpensOneSession)'
    BY DEF ChallengeOpensOneSession, RecoveryCodeOpensOneSession
  <1> QED
    BY <1>2, <1>3, <1>7, <1>8, <1>9

\* The delete by id succeeds for one login, which then holds the code alone.
LEMMA SpendCodeInv ==
    ASSUME TwoFactorInv, NEW w \in Workers, SpendCode(w)
    PROVE  TwoFactorInv'
  <1> DEFINE k0 == request[w].code
  <1> USE BatchAssumption, NoneAssumption
      DEF TwoFactorInv, SpendCode, Serve, record, sessions
  <1>1. request[w] \in LoginRequest /\ k0 \in codes /\ k0 \in Codes
    BY DEF TypeOK, CodeStored, Request, IdleRequest, RecordRequest, PlainRequest, SpentOnce
  <1>2. TypeOK'
    BY <1>1 DEF TypeOK, Request, LoginRequest
  <1>3. (CodesNeedRecord /\ CodesAreMade /\ OpenedAreGone)'
    BY DEF CodesNeedRecord, CodesAreMade, OpenedAreGone
  <1>4. \A v \in Workers : v # w => request'[v] = request[v]
    BY DEF TypeOK
  <1>5. request'[w].step = "consume" /\ request'[w].code = k0
    BY DEF TypeOK
  <1>6. \A v \in Workers, k \in Codes :
          Redeems(v, k)' => Redeems(v, k) \/ (v = w /\ k = k0)
    BY <1>4, <1>5 DEF Redeems
  <1>7. \A v \in Workers : ~Redeems(v, k0)
    BY <1>1 DEF SpentOnce
  <1>8. \A v \in Workers, c \in Challenges : Establishes(v, c)' => Establishes(v, c)
    BY <1>4, <1>5 DEF Establishes
  <1>9. Batch[k0] \in batches /\ k0 \notin codes' /\ redeemed[k0] = 0
    BY <1>1 DEF CodesAreMade, TypeOK
  <1>10. SpentOnce'
    <2>1. \A v \in Workers : (request[v].step = "spend")' =>
            (request[v].code \in Codes /\ Batch[request[v].code] \in batches)'
      BY <1>4, <1>5 DEF SpentOnce
    <2>2. \A v \in Workers, k \in Codes : Redeems(v, k)' =>
            (Batch[k] \in batches /\ k \notin codes /\ redeemed[k] = 0)'
      BY <1>6, <1>9 DEF SpentOnce
    <2>3. \A u, v \in Workers, k \in Codes : Redeems(u, k)' /\ Redeems(v, k)' => u = v
      BY <1>6, <1>7 DEF SpentOnce
    <2> QED
      BY <2>1, <2>2, <2>3 DEF SpentOnce
  <1>11. ConsumedOnce'
    BY <1>8 DEF ConsumedOnce
  <1>12. (ChallengeOpensOneSession /\ RecoveryCodeOpensOneSession)'
    BY DEF ChallengeOpensOneSession, RecoveryCodeOpensOneSession
  <1> QED
    BY <1>2, <1>3, <1>10, <1>11, <1>12

\* The same of the challenge.
LEMMA ConsumeChallengeInv ==
    ASSUME TwoFactorInv, NEW w \in Workers, ConsumeChallenge(w)
    PROVE  TwoFactorInv'
  <1> DEFINE c0 == request[w].challenge
  <1> USE BatchAssumption, NoneAssumption
      DEF TwoFactorInv, ConsumeChallenge, Serve, record, recovery, sessions
  <1>1. request[w] \in LoginRequest /\ c0 \in Challenges
    BY DEF TypeOK, Request, IdleRequest, RecordRequest, PlainRequest, LoginRequest
  <1>2. challenge[c0] # "gone" /\ challenge'[c0] = "gone"
    BY <1>1 DEF ChallengeStored, ChallengeExists, TypeOK
  <1>3. \A c \in Challenges : challenge[c] = "gone" => challenge'[c] = "gone"
    BY DEF TypeOK
  <1>4. TypeOK'
    BY <1>1 DEF TypeOK, Request, LoginRequest
  <1>5. (CodesNeedRecord /\ CodesAreMade /\ OpenedAreGone)'
    BY <1>3 DEF CodesNeedRecord, CodesAreMade, OpenedAreGone
  <1>6. \A v \in Workers : v # w => request'[v] = request[v]
    BY DEF TypeOK
  <1>7. /\ request'[w].step = "establish" /\ request'[w].challenge = c0
        /\ request'[w].code = request[w].code
    BY DEF TypeOK
  <1>8. \A v \in Workers, k \in Codes : Redeems(v, k)' => Redeems(v, k)
    BY <1>6, <1>7 DEF Redeems
  <1>9. \A v \in Workers, c \in Challenges :
          Establishes(v, c)' => Establishes(v, c) \/ (v = w /\ c = c0)
    BY <1>6, <1>7 DEF Establishes
  <1>10. \A v \in Workers : ~Establishes(v, c0)
    BY <1>1, <1>2 DEF ConsumedOnce
  <1>11. opened[c0] = 0
    BY <1>1, <1>2 DEF OpenedAreGone, TypeOK
  <1>12. SpentOnce'
    BY <1>6, <1>7, <1>8 DEF SpentOnce
  <1>13. ConsumedOnce'
    BY <1>2, <1>3, <1>9, <1>10, <1>11 DEF ConsumedOnce
  <1>14. (ChallengeOpensOneSession /\ RecoveryCodeOpensOneSession)'
    BY DEF ChallengeOpensOneSession, RecoveryCodeOpensOneSession
  <1> QED
    BY <1>4, <1>5, <1>12, <1>13, <1>14

\* The session is the first on its challenge and its code.
LEMMA EstablishSessionInv ==
    ASSUME TwoFactorInv, NEW w \in Workers, EstablishSession(w)
    PROVE  TwoFactorInv'
  <1> DEFINE c0 == request[w].challenge
             k0 == request[w].code
  <1> USE BatchAssumption, NoneAssumption
      DEF TwoFactorInv, EstablishSession, Finish, Serve, record, recovery
  <1>1. c0 \in Challenges /\ k0 \in Codes \cup {None}
    BY DEF TypeOK, Request, IdleRequest, RecordRequest, PlainRequest, LoginRequest
  <1>2. challenge[c0] = "gone" /\ opened[c0] = 0
    BY <1>1 DEF ConsumedOnce, Establishes
  <1>3. k0 # None => Batch[k0] \in batches /\ k0 \notin codes /\ redeemed[k0] = 0
    BY <1>1 DEF SpentOnce, Redeems
  <1>4. \A c \in Challenges : opened'[c] = IF c = c0 THEN 1 ELSE opened[c]
    BY <1>1, <1>2 DEF TypeOK
  <1>5. \A k \in Codes : redeemed'[k] = IF k = k0 THEN 1 ELSE redeemed[k]
    BY <1>1, <1>3 DEF TypeOK
  <1>6. TypeOK'
    <2>1. opened' \in [Challenges -> Nat]
      BY <1>1, <1>2 DEF TypeOK
    <2>2. redeemed' \in [Codes -> Nat]
      BY <1>1, <1>3 DEF TypeOK
    <2> QED
      BY <2>1, <2>2 DEF TypeOK, Request, IdleRequest, Idle
  <1>7. (CodesNeedRecord /\ CodesAreMade /\ OpenedAreGone)'
    BY <1>2, <1>3, <1>4, <1>5 DEF CodesNeedRecord, CodesAreMade, OpenedAreGone
  <1>8. \A v \in Workers : v # w => request'[v] = request[v]
    BY DEF TypeOK
  <1>9. request'[w].step = "idle"
    BY DEF TypeOK, Idle
  <1>10. \A v \in Workers, k \in Codes : Redeems(v, k)' => Redeems(v, k) /\ v # w
    BY <1>8, <1>9 DEF Redeems
  <1>11. \A v \in Workers, c \in Challenges :
           Establishes(v, c)' => Establishes(v, c) /\ v # w
    BY <1>8, <1>9 DEF Establishes
  <1>12. \A v \in Workers, k \in Codes : Redeems(v, k)' => k # k0
    BY <1>10, <1>1 DEF SpentOnce, Redeems
  <1>13. \A v \in Workers, c \in Challenges : Establishes(v, c)' => c # c0
    BY <1>11, <1>1 DEF ConsumedOnce, Establishes
  <1>14. SpentOnce'
    <2>1. \A v \in Workers : (request[v].step = "spend")' =>
            (request[v].code \in Codes /\ Batch[request[v].code] \in batches)'
      BY <1>8, <1>9 DEF SpentOnce
    <2>2. \A v \in Workers, k \in Codes : Redeems(v, k)' =>
            (Batch[k] \in batches /\ k \notin codes /\ redeemed[k] = 0)'
      BY <1>5, <1>10, <1>12 DEF SpentOnce
    <2>3. \A u, v \in Workers, k \in Codes : Redeems(u, k)' /\ Redeems(v, k)' => u = v
      BY <1>10 DEF SpentOnce
    <2> QED
      BY <2>1, <2>2, <2>3 DEF SpentOnce
  <1>15. ConsumedOnce'
    BY <1>4, <1>11, <1>13 DEF ConsumedOnce
  <1>16. (ChallengeOpensOneSession /\ RecoveryCodeOpensOneSession)'
    BY <1>4, <1>5 DEF ChallengeOpensOneSession, RecoveryCodeOpensOneSession
  <1> QED
    BY <1>6, <1>7, <1>14, <1>15, <1>16

\* TwoFactorInv is inductive.
LEMMA NextInv == TwoFactorInv /\ [Next]_vars => TwoFactorInv'
  <1> SUFFICES ASSUME TwoFactorInv, [Next]_vars PROVE TwoFactorInv'
    OBVIOUS
  <1>1. TypeOK
    BY DEF TwoFactorInv
  <1>2. Harmless(Idle)
    BY DEF Harmless, Idle, IdleRequest
  <1>3. ASSUME NEW w \in Workers, GenerateSetup(w) PROVE TwoFactorInv'
    <2>1. Serve(w, Idle)
      BY <1>1, <1>3 DEF GenerateSetup, Ready, Serve, TypeOK
    <2>2. twoFactor' \in TwoFactorRow /\ (twoFactor.id # None => twoFactor'.id # None)
      BY <1>1, <1>3, NoneAssumption DEF GenerateSetup, TypeOK, TwoFactorRow, NoRecord
    <2>3. issued' \subseteq Secrets /\ confirmed' \subseteq Secrets
      BY <1>1, <1>3 DEF GenerateSetup, TypeOK
    <2> QED
      BY <1>2, <1>3, <2>1, <2>2, <2>3, HarmlessInv DEF GenerateSetup
  <1>4. ASSUME NEW w \in Workers, VerifySetup(w) PROVE TwoFactorInv'
    <2> DEFINE r == [step |-> "enable", id |-> twoFactor.id]
    <2>1. Harmless(r)
      BY <1>1, <1>4 DEF VerifySetup, Harmless, RecordRequest, TypeOK, TwoFactorRow, NoRecord
    <2>2. confirmed' \subseteq Secrets
      BY <1>1, <1>4 DEF VerifySetup, TypeOK
    <2> QED
      BY <1>1, <1>4, <2>1, <2>2, HarmlessInv DEF VerifySetup, TypeOK
  <1>5. ASSUME NEW w \in Workers, Enable(w) PROVE TwoFactorInv'
    <2> DEFINE r == [step |-> "purge", id |-> request[w].id]
    <2>1. Harmless(r)
      BY <1>1, <1>5 DEF Enable, Harmless, TypeOK, Request, IdleRequest,
                        RecordRequest, PlainRequest, LoginRequest
    <2>2. twoFactor' \in TwoFactorRow /\ twoFactor'.id = twoFactor.id
      BY <1>1, <1>5 DEF Enable, TypeOK, TwoFactorRow, NoRecord
    <2> QED
      BY <1>1, <1>5, <2>1, <2>2, HarmlessInv DEF Enable, TypeOK
  <1>6. ASSUME NEW w \in Workers, RegenerateRecoveryCodes(w) PROVE TwoFactorInv'
    <2> DEFINE r == [step |-> "purge", id |-> twoFactor.id]
    <2>1. Harmless(r)
      BY <1>1, <1>6 DEF RegenerateRecoveryCodes, Harmless, RecordRequest, TypeOK,
                        TwoFactorRow, NoRecord
    <2> QED
      BY <1>1, <1>6, <2>1, HarmlessInv DEF RegenerateRecoveryCodes, TypeOK, record
  <1>7. ASSUME NEW w \in Workers, PurgeCodes(w) PROVE TwoFactorInv'
    <2> DEFINE r == [step |-> "store", id |-> request[w].id]
    <2>1. r \in RecordRequest
      BY <1>1, <1>7 DEF PurgeCodes, TypeOK, Request, IdleRequest, RecordRequest,
                        PlainRequest, LoginRequest
    <2>2. codes' # {} => twoFactor'.id # None
      BY <1>7 DEF PurgeCodes, TwoFactorInv, CodesNeedRecord, record
    <2> QED
      BY <1>1, <1>7, <2>1, <2>2, PurgeInv DEF PurgeCodes, TypeOK, record
  <1>8. ASSUME NEW w \in Workers, Disable(w) PROVE TwoFactorInv'
    <2>1. Harmless([step |-> "disable"])
      BY DEF Harmless, PlainRequest
    <2> QED
      BY <1>1, <1>8, <2>1, HarmlessInv DEF Disable, TypeOK, record
  <1>9. ASSUME NEW w \in Workers, DeleteRecord(w) PROVE TwoFactorInv'
    <2>1. twoFactor' \in TwoFactorRow /\ Idle \in IdleRequest
      BY <1>9 DEF DeleteRecord, TwoFactorRow, Idle, IdleRequest
    <2> QED
      BY <1>9, <2>1, PurgeInv DEF DeleteRecord, Finish
  <1>10. ASSUME NEW w \in Workers, SignIn(w) PROVE TwoFactorInv'
    <2> DEFINE r == [step |-> IF twoFactor.enabled THEN "clear" ELSE "session"]
    <2>1. Harmless(r)
      BY DEF Harmless, PlainRequest
    <2> QED
      BY <1>1, <1>10, <2>1, HarmlessInv DEF SignIn, TypeOK, record
  <1>11. ASSUME NEW w \in Workers, CreateSession(w) \/ Abandon(w) PROVE TwoFactorInv'
    BY <1>1, <1>2, <1>11, HarmlessInv DEF CreateSession, Abandon, Finish, TypeOK, record
  <1>12. ASSUME NEW w \in Workers, ClearChallenges(w) PROVE TwoFactorInv'
    <2>1. [step |-> "issue"] \in PlainRequest
      BY DEF PlainRequest
    <2>2. /\ challenge' \in [Challenges -> {"unused", "live", "expired", "gone"}]
          /\ \A c \in Challenges : challenge[c] = "gone" => challenge'[c] = "gone"
      BY <1>1, <1>12 DEF ClearChallenges, TypeOK
    <2> QED
      BY <1>12, <2>1, <2>2, ChallengesInv DEF ClearChallenges
  <1>13. ASSUME NEW w \in Workers, IssueChallenge(w) PROVE TwoFactorInv'
    <2>1. Idle \in IdleRequest
      BY DEF Idle, IdleRequest
    <2>2. /\ challenge' \in [Challenges -> {"unused", "live", "expired", "gone"}]
          /\ \A c \in Challenges : challenge[c] = "gone" => challenge'[c] = "gone"
      BY <1>1, <1>13 DEF IssueChallenge, TypeOK
    <2> QED
      BY <1>13, <2>1, <2>2, ChallengesInv DEF IssueChallenge, Finish
  <1>14. ASSUME NEW c \in Challenges, ExpireChallenge(c) PROVE TwoFactorInv'
    <2>1. /\ challenge' \in [Challenges -> {"unused", "live", "expired", "gone"}]
          /\ \A d \in Challenges : challenge[d] = "gone" => challenge'[d] = "gone"
      BY <1>1, <1>14 DEF ExpireChallenge, TypeOK
    <2> QED
      BY <1>14, <2>1, ChallengesInv DEF ExpireChallenge
  <1>15. ASSUME NEW w \in Workers, NEW c \in Challenges, VerifyLogin(w, c)
         PROVE  TwoFactorInv'
    <2> DEFINE r == [step |-> "consume", challenge |-> c, code |-> None]
    <2>1. Harmless(r)
      BY DEF Harmless, LoginRequest
    <2> QED
      BY <1>1, <1>15, <2>1, HarmlessInv DEF VerifyLogin, TypeOK, record
  <1>16. ASSUME NEW w \in Workers, NEW c \in Challenges, NEW k \in Codes,
                VerifyRecoveryLogin(w, c, k)
         PROVE  TwoFactorInv'
    <2> DEFINE r == [step |-> "spend", challenge |-> c, code |-> k]
    <2>1. Harmless(r)
      BY <1>16 DEF VerifyRecoveryLogin, Harmless, LoginRequest
    <2> QED
      BY <1>1, <1>16, <2>1, HarmlessInv DEF VerifyRecoveryLogin, TypeOK, record
  <1>17. ASSUME UNCHANGED vars PROVE TwoFactorInv'
    BY <1>17 DEF vars, record, recovery, sessions, TwoFactorInv, TypeOK, CodesNeedRecord,
         CodesAreMade, OpenedAreGone, SpentOnce, ConsumedOnce, Redeems, Establishes,
         ChallengeOpensOneSession, RecoveryCodeOpensOneSession
  <1> QED
    BY <1>3, <1>4, <1>5, <1>6, <1>7, <1>8, <1>9, <1>10, <1>11, <1>12, <1>13, <1>14, <1>15,
       <1>16, <1>17, StoreCodesInv, SpendCodeInv, ConsumeChallengeInv, EstablishSessionInv
       DEF Next

-----------------------------------------------------------------------------
\* Whoever deletes a challenge or a recovery code holds it alone, codes do not
\* outlive their record, and what was used does not come back.
THEOREM TwoFactorCorrect == Spec => []TwoFactorInv
  BY InitInv, NextInv, PTL DEF Spec

\* However many devices answer a challenge, by TOTP or recovery code, and however
\* stale their checks are, it opens at most one session (verifyLogin,
\* verifyRecoveryLogin).
THEOREM ChallengesAreSingleUse == Spec => []ChallengeOpensOneSession
  <1>1. TwoFactorInv => ChallengeOpensOneSession
    BY DEF TwoFactorInv
  <1> QED
    BY <1>1, TwoFactorCorrect, PTL

\* A recovery code opens at most one session, over any regenerations, setups and
\* overlapping logins (verifyRecoveryLogin, generateAndStoreRecoveryCodes).
THEOREM RecoveryCodesAreSingleUse == Spec => []RecoveryCodeOpensOneSession
  <1>1. TwoFactorInv => RecoveryCodeOpensOneSession
    BY DEF TwoFactorInv
  <1> QED
    BY <1>1, TwoFactorCorrect, PTL

-----------------------------------------------------------------------------
(* Requests served one at a time *)

\* The serial properties, with what keeps them.
SerialInv ==
    /\ LoneRequestIsFresh
    /\ OneBatchSerially
    /\ EnabledIsConfirmedSerially
    /\ OneChallengeSerially

\* A lone request is the only one to have read anything, so what it remembers is
\* as fresh as it leaves it.
LEMMA ServedAlone ==
    ASSUME TypeOK, LoneRequestIsFresh, UNCHANGED alone,
           NEW w \in Workers, Ready(w) \/ request[w] # Idle,
           NEW r, Serve(w, r), alone => Fresh(r)'
    PROVE  LoneRequestIsFresh'
  <1> SUFFICES ASSUME alone PROVE LoneRequestIsFresh'
    BY DEF LoneRequestIsFresh
  <1>1. \A v \in Workers \ {w} : request'[v] = Idle
    BY DEF TypeOK, LoneRequestIsFresh, Ready, Serve
  <1>2. request'[w] = r
    BY DEF TypeOK, Serve
  <1>3. \A v \in Workers : Fresh(request[v])'
    BY <1>1, <1>2 DEF Fresh, Idle
  <1>4. \A u, v \in Workers : request'[u] # Idle /\ request'[v] # Idle => u = v
    BY <1>1
  <1> QED
    BY <1>3, <1>4 DEF LoneRequestIsFresh

\* A lone request that begins, goes on or ends and writes nothing.
LEMMA ReadingSerial ==
    ASSUME TypeOK, SerialInv, NEW w \in Workers, Ready(w) \/ request[w] # Idle,
           NEW r, Serve(w, r),
           UNCHANGED <<twoFactor, confirmed, codes, challenge, alone>>,
           alone => Fresh(r)
    PROVE  SerialInv'
  <1>1. alone => Fresh(r)'
    BY DEF Fresh, ChallengeExists
  <1>2. LoneRequestIsFresh'
    BY <1>1, ServedAlone DEF SerialInv
  <1> QED
    BY <1>2 DEF SerialInv, OneBatchSerially, EnabledIsConfirmedSerially,
                OneChallengeSerially, ChallengeExists

\* A request that is not idle is not Idle, and goes on as a request that is.
LEMMA BusyOrReady ==
    ASSUME NEW w \in Workers, request[w].step # "idle"
    PROVE  request[w] # Idle
  BY DEF Idle

\* Setup: a secret is new and disabled, or a code of it has just been accepted.
LEMMA SetupSerial ==
    ASSUME TypeOK, SerialInv, NEW w \in Workers, GenerateSetup(w) \/ VerifySetup(w) \/ Enable(w)
    PROVE  SerialInv'
  <1>1. CASE GenerateSetup(w)
    <2>1. ~twoFactor'.enabled /\ UNCHANGED <<request, codes, challenge, alone>>
      BY <1>1 DEF GenerateSetup, recovery
    <2>2. alone => \A v \in Workers : request'[v] = Idle
      BY <1>1, <2>1 DEF GenerateSetup, Ready
    <2>3. LoneRequestIsFresh'
      BY <2>1, <2>2 DEF LoneRequestIsFresh, Fresh, Idle
    <2> QED
      BY <2>1, <2>3 DEF SerialInv, OneBatchSerially, EnabledIsConfirmedSerially,
                        OneChallengeSerially, ChallengeExists
  <1>2. CASE VerifySetup(w)
    <2> DEFINE r == [step |-> "enable", id |-> twoFactor.id]
    <2>1. /\ Ready(w) /\ Serve(w, r) /\ UNCHANGED <<twoFactor, codes, challenge, alone>>
          /\ confirmed' = confirmed \cup {twoFactor.secret}
      BY <1>2 DEF VerifySetup, ValidCode, recovery
    <2>2. Fresh(r)'
      BY <2>1 DEF Fresh
    <2>3. LoneRequestIsFresh'
      BY <2>1, <2>2, ServedAlone DEF SerialInv
    <2> QED
      BY <2>1, <2>3 DEF SerialInv, OneBatchSerially, EnabledIsConfirmedSerially,
                        OneChallengeSerially, ChallengeExists
  <1>3. CASE Enable(w)
    <2>0. PICK r : r = [step |-> "purge", id |-> request[w].id] /\ Serve(w, r)
      BY <1>3 DEF Enable
    <2>1. /\ request[w].step = "enable"
          /\ UNCHANGED <<confirmed, codes, challenge, alone>>
          /\ twoFactor'.id = twoFactor.id /\ twoFactor'.secret = twoFactor.secret
      BY <1>3 DEF Enable, recovery
    <2>2. alone => request[w].id = twoFactor.id /\ twoFactor.secret \in confirmed
      BY <2>1 DEF SerialInv, LoneRequestIsFresh, Fresh
    <2>3. alone => Fresh(r)'
      BY <2>0, <2>1, <2>2 DEF Fresh
    <2>4. LoneRequestIsFresh'
      BY <2>0, <2>1, <2>3, BusyOrReady, ServedAlone DEF SerialInv
    <2> QED
      BY <2>1, <2>2, <2>4 DEF SerialInv, OneBatchSerially, EnabledIsConfirmedSerially,
                              OneChallengeSerially, ChallengeExists
  <1> QED
    BY <1>1, <1>2, <1>3

\* Codes: a new batch meets none of the old, which the same request has deleted.
LEMMA CodesSerial ==
    ASSUME TypeOK, SerialInv, NEW w \in Workers,
           PurgeCodes(w) \/ StoreCodes(w) \/ DeleteRecord(w) \/ SpendCode(w)
    PROVE  SerialInv'
  <1>0. request[w] # Idle
    BY BusyOrReady DEF PurgeCodes, StoreCodes, DeleteRecord, SpendCode
  <1>1. PICK r : /\ Serve(w, r)
                 /\ \/ PurgeCodes(w) /\ r = [step |-> "store", id |-> request[w].id]
                    \/ r.step \in {"idle", "consume"}
    <2>1. Idle.step = "idle"
      BY DEF Idle
    <2> QED
      BY <2>1 DEF PurgeCodes, StoreCodes, DeleteRecord, SpendCode, Finish
  <1>2. /\ UNCHANGED <<confirmed, challenge, alone>>
        /\ twoFactor' \in {twoFactor, NoRecord}
    BY DEF PurgeCodes, StoreCodes, DeleteRecord, SpendCode, record
  <1>3. alone => Fresh(r)'
    <2> SUFFICES ASSUME alone PROVE Fresh(r)'
      OBVIOUS
    <2>1. Fresh(request[w])
      BY DEF SerialInv, LoneRequestIsFresh
    <2>2. CASE PurgeCodes(w) /\ r = [step |-> "store", id |-> request[w].id]
      <3>1. twoFactor' = twoFactor /\ codes' = {}
        BY <2>1, <2>2 DEF PurgeCodes, Fresh, record
      <3> QED
        BY <2>1, <2>2, <3>1 DEF PurgeCodes, Fresh
    <2>3. CASE r.step \in {"idle", "consume"}
      BY <2>3 DEF Fresh
    <2> QED
      BY <1>1, <2>2, <2>3
  <1>4. LoneRequestIsFresh'
    BY <1>0, <1>1, <1>2, <1>3, ServedAlone DEF SerialInv
  <1>5. OneBatchSerially'
    <2>1. codes' \subseteq codes => OneBatchSerially'
      BY <1>2 DEF SerialInv, OneBatchSerially
    <2>2. CASE StoreCodes(w)
      <3>1. PICK b \in Batches : codes' = codes \cup {k \in Codes : Batch[k] = b}
        BY <2>2 DEF StoreCodes
      <3>2. alone => codes = {}
        BY <2>2 DEF StoreCodes, SerialInv, LoneRequestIsFresh, Fresh
      <3> QED
        BY <1>2, <3>1, <3>2 DEF OneBatchSerially
    <2> QED
      BY <2>1, <2>2 DEF PurgeCodes, DeleteRecord, SpendCode
  <1> QED
    BY <1>2, <1>4, <1>5 DEF SerialInv, EnabledIsConfirmedSerially, NoRecord,
                            OneChallengeSerially, ChallengeExists

\* Challenges: a new one meets none of the old, which the same request has deleted.
LEMMA ChallengesSerial ==
    ASSUME TypeOK, SerialInv,
           \/ \E w \in Workers : ClearChallenges(w) \/ IssueChallenge(w) \/ ConsumeChallenge(w)
           \/ \E c \in Challenges : ExpireChallenge(c)
    PROVE  SerialInv'
  <1>1. UNCHANGED <<twoFactor, confirmed, codes, alone>>
    BY DEF ClearChallenges, IssueChallenge, ConsumeChallenge, ExpireChallenge, record, recovery
  <1>2. OneBatchSerially' /\ EnabledIsConfirmedSerially'
    BY <1>1 DEF SerialInv, OneBatchSerially, EnabledIsConfirmedSerially
  <1>3. ASSUME NEW w \in Workers, ClearChallenges(w)
        PROVE  LoneRequestIsFresh' /\ OneChallengeSerially'
    <2>1. \A c \in Challenges : ~ChallengeExists(c)'
      BY <1>3 DEF ClearChallenges, ChallengeExists, TypeOK
    <2>2. Fresh([step |-> "issue"])'
      BY <2>1 DEF Fresh
    <2>3. request[w] # Idle /\ Serve(w, [step |-> "issue"])
      BY <1>3, BusyOrReady DEF ClearChallenges
    <2> QED
      BY <1>1, <2>1, <2>2, <2>3, ServedAlone DEF SerialInv, OneChallengeSerially
  <1>4. ASSUME NEW w \in Workers, IssueChallenge(w)
        PROVE  LoneRequestIsFresh' /\ OneChallengeSerially'
    <2>1. request[w] # Idle /\ Serve(w, Idle)
      BY <1>4, BusyOrReady DEF IssueChallenge, Finish
    <2>2. Fresh(Idle)'
      BY DEF Fresh, Idle
    <2>3. alone => \A c \in Challenges : ~ChallengeExists(c)
      BY <1>4 DEF IssueChallenge, SerialInv, LoneRequestIsFresh, Fresh
    <2>4. OneChallengeSerially'
      BY <1>1, <1>4, <2>3 DEF IssueChallenge, OneChallengeSerially, ChallengeExists, TypeOK
    <2> QED
      BY <1>1, <2>1, <2>2, <2>4, ServedAlone DEF SerialInv
  <1>5. ASSUME NEW w \in Workers, ConsumeChallenge(w)
        PROVE  LoneRequestIsFresh' /\ OneChallengeSerially'
    <2>1. PICK r : r.step = "establish" /\ Serve(w, r)
      BY <1>5 DEF ConsumeChallenge
    <2>2. request[w] # Idle /\ Fresh(r)'
      BY <1>5, <2>1, BusyOrReady DEF ConsumeChallenge, Fresh
    <2>3. \A c \in Challenges : ChallengeExists(c)' => ChallengeExists(c)
      BY <1>5 DEF ConsumeChallenge, ChallengeExists, TypeOK
    <2> QED
      BY <1>1, <2>1, <2>2, <2>3, ServedAlone DEF SerialInv, OneChallengeSerially
  <1>6. ASSUME NEW c \in Challenges, ExpireChallenge(c)
        PROVE  LoneRequestIsFresh' /\ OneChallengeSerially'
    <2>1. \A d \in Challenges : ChallengeExists(d)' <=> ChallengeExists(d)
      BY <1>6 DEF ExpireChallenge, ChallengeExists, TypeOK
    <2>2. UNCHANGED request
      BY <1>6 DEF ExpireChallenge
    <2> QED
      BY <1>1, <2>1, <2>2 DEF SerialInv, LoneRequestIsFresh, OneChallengeSerially, Fresh
  <1> QED
    BY <1>2, <1>3, <1>4, <1>5, <1>6 DEF SerialInv

LEMMA NextSerial == TypeOK /\ SerialInv /\ [Next]_vars => SerialInv'
  <1> SUFFICES ASSUME TypeOK, SerialInv, [Next]_vars PROVE SerialInv'
    OBVIOUS
  <1>1. Fresh(Idle)
    BY DEF Fresh, Idle
  <1>2. ASSUME NEW w \in Workers,
               RegenerateRecoveryCodes(w) \/ Disable(w) \/ SignIn(w) \/ CreateSession(w)
               \/ EstablishSession(w) \/ Abandon(w)
        PROVE  SerialInv'
    <2>1. PICK r : /\ Serve(w, r)
                   /\ r = [step |-> "purge", id |-> twoFactor.id]
                      \/ r.step \in {"idle", "disable", "clear", "session"}
      BY <1>2 DEF RegenerateRecoveryCodes, Disable, SignIn, CreateSession, EstablishSession,
                  Abandon, Finish, Idle
    <2>2. Fresh(r)
      BY <2>1 DEF Fresh
    <2>3. Ready(w) \/ request[w] # Idle
      BY <1>2, BusyOrReady DEF RegenerateRecoveryCodes, Disable, SignIn, CreateSession,
                               EstablishSession, Abandon
    <2>4. UNCHANGED <<twoFactor, confirmed, codes, challenge, alone>>
      BY <1>2 DEF RegenerateRecoveryCodes, Disable, SignIn, CreateSession, EstablishSession,
                  Abandon, record, recovery
    <2> QED
      BY <2>1, <2>2, <2>3, <2>4, ReadingSerial
  <1>3. ASSUME NEW w \in Workers, NEW c \in Challenges,
               VerifyLogin(w, c) \/ \E k \in Codes : VerifyRecoveryLogin(w, c, k)
        PROVE  SerialInv'
    <2>1. PICK r : Serve(w, r) /\ r.step \in {"consume", "spend"}
      <3>1. CASE VerifyLogin(w, c)
        BY <3>1 DEF VerifyLogin
      <3>2. ASSUME NEW k \in Codes, VerifyRecoveryLogin(w, c, k)
            PROVE  \E r : Serve(w, r) /\ r.step \in {"consume", "spend"}
        BY <3>2 DEF VerifyRecoveryLogin
      <3> QED
        BY <1>3, <3>1, <3>2
    <2>2. Ready(w) /\ UNCHANGED <<twoFactor, confirmed, codes, challenge, alone>>
      BY <1>3 DEF VerifyLogin, VerifyRecoveryLogin, record, recovery
    <2>3. Fresh(r)
      BY <2>1 DEF Fresh
    <2> QED
      BY <2>1, <2>2, <2>3, ReadingSerial
  <1>4. CASE UNCHANGED vars
    BY <1>4 DEF vars, record, recovery, SerialInv, LoneRequestIsFresh, Fresh, OneBatchSerially,
                EnabledIsConfirmedSerially, OneChallengeSerially, ChallengeExists
  <1> QED
    BY <1>2, <1>3, <1>4, SetupSerial, CodesSerial, ChallengesSerial DEF Next

\* Served one at a time, requests keep what each has read true until it ends.
LEMMA SerialCorrect == Spec => []SerialInv
  <1>1. Init => SerialInv
    BY NoneAssumption DEF Init, SerialInv, LoneRequestIsFresh, Fresh, Idle, OneBatchSerially,
                          EnabledIsConfirmedSerially, NoRecord, OneChallengeSerially,
                          ChallengeExists
  <1>2. TwoFactorInv => TypeOK
    BY DEF TwoFactorInv
  <1> QED
    BY <1>1, <1>2, NextSerial, TwoFactorCorrect, PTL DEF Spec

\* Served one at a time, regenerations, disabling and setups leave codes of one batch
\* (generateAndStoreRecoveryCodes).
THEOREM BatchesReplaceEachOther == Spec => []OneBatchSerially
  <1>1. SerialInv => OneBatchSerially
    BY DEF SerialInv
  <1> QED
    BY <1>1, SerialCorrect, PTL

\* Served one at a time, setups enable only a secret whose own code was accepted
\* (generateSetup, verifySetup).
THEOREM EnablingIsConfirmed == Spec => []EnabledIsConfirmedSerially
  <1>1. SerialInv => EnabledIsConfirmedSerially
    BY DEF SerialInv
  <1> QED
    BY <1>1, SerialCorrect, PTL

\* Served one at a time, sign-ins leave one challenge to answer (createLoginChallenge).
THEOREM ChallengesReplaceEachOther == Spec => []OneChallengeSerially
  <1>1. SerialInv => OneChallengeSerially
    BY DEF SerialInv
  <1> QED
    BY <1>1, SerialCorrect, PTL
=============================================================================
