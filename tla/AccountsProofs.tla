--------------------------- MODULE AccountsProofs ---------------------------
(***************************************************************************)
(* AccountsInv is inductive, so nobody is locked out by other means than     *)
(* unlinking two Google accounts at once, no Google account is linked        *)
(* unasked, and no identity changes hands, for any number of users,          *)
(* identities and requests.                                                  *)
(*                                                                           *)
(* The unlink is the hard step: it deletes on the strength of a count taken  *)
(* earlier.  What the count leaves behind for good is a password, an Apple   *)
(* account, or a mark that there were two of Google's (SoundRequest).        *)
(***************************************************************************)
EXTENDS Accounts, FiniteSetTheorems, TLAPS

\* Empty tables and no requests.
LEMMA InitInv == Init => AccountsInv
  <1> SUFFICES ASSUME Init PROVE AccountsInv
    OBVIOUS
  <1> USE NullAssumption DEF Init
  <1>1. TypeOK
    BY DEF TypeOK, Account, Request, IdleRequest, Idle
  <1>2. RowsAreOfUsers /\ UsersAreDistinct /\ DoublesAreNoted
    BY DEF RowsAreOfUsers, UsersAreDistinct, DoublesAreNoted, Identities
  <1>3. RequestsAreSound
    BY DEF RequestsAreSound, SoundRequest, Idle
  <1>4. WayInKept /\ NoSilentGoogleLink
    BY DEF WayInKept, NoSilentGoogleLink, Identities
  <1> QED
    BY <1>1, <1>2, <1>3, <1>4 DEF AccountsInv

\* Each step name belongs to one kind of request.
LEMMA RequestKinds ==
    ASSUME NEW r \in Request
    PROVE  /\ r.step = "create" => r \in CreateRequest
           /\ r.step = "lookup" => r \in LookupRequest
           /\ r.step \in {"email", "signup"} => r \in SignUpRequest
           /\ r.step = "link" => r \in LinkRequest
           /\ r.step \in {"session", "unlink"} => r \in UserRequest
  BY DEF Request, IdleRequest, CreateRequest, LookupRequest, SignUpRequest, LinkRequest,
         UserRequest

\* Users, their columns, Apple's links and the history stay: whatever a request
\* relies on does too.
Stays ==
    /\ users \subseteq users' /\ starters \subseteq starters' /\ doubled \subseteq doubled'
    /\ \A u \in users : account'[u] = account[u]
    /\ \A i \in AppleIds : link[i] # None => link'[i] = link[i]

LEMMA StaysSound ==
    ASSUME Stays, NEW r \in Request, SoundRequest(r)
    PROVE  SoundRequest(r)'
  <1>1. r.step \in {"session", "unlink"} => r.user \in Users
    BY RequestKinds DEF UserRequest
  <1>2. r.step = "unlink" =>
          \/ account'[r.user].password
          \/ \E i \in AppleIds : link'[i] = r.user
          \/ r.user \in doubled'
    BY <1>1, NullAssumption DEF Stays, SoundRequest
  <1> QED
    BY <1>2 DEF Stays, SoundRequest

\* One request goes on to something sound, the others wait.
LEMMA ServeSound ==
    ASSUME TypeOK, RequestsAreSound, Stays, NEW w \in Workers,
           NEW r, r \in Request, SoundRequest(r)', Serve(w, r)
    PROVE  RequestsAreSound' /\ request' \in [Workers -> Request]
  <1>1. \A v \in Workers : request'[v] = IF v = w THEN r ELSE request[v]
    BY DEF TypeOK, Serve
  <1>2. request' \in [Workers -> Request]
    BY DEF TypeOK, Serve
  <1>3. \A v \in Workers : SoundRequest(request[v])'
    <2> TAKE v \in Workers
    <2>1. CASE v = w
      BY <1>1, <2>1
    <2>2. CASE v # w
      <3>1. PICK q \in Request : q = request[v]
        BY DEF TypeOK
      <3>2. SoundRequest(q)'
        BY <3>1, StaysSound DEF RequestsAreSound
      <3> QED
        BY <1>1, <2>2, <3>1, <3>2
    <2> QED
      BY <2>1, <2>2
  <1> QED
    BY <1>2, <1>3 DEF RequestsAreSound

\* A request that waits for nothing.
LEMMA IdleIsSound == Idle \in Request /\ SoundRequest(Idle) /\ SoundRequest(Idle)'
  BY DEF Idle, Request, IdleRequest, SoundRequest

\* A step that writes no row.
LEMMA RequestInv ==
    ASSUME AccountsInv, NEW w \in Workers, NEW r, r \in Request, SoundRequest(r),
           Serve(w, r), UNCHANGED <<rows, flows, history>>
    PROVE  AccountsInv'
  <1> USE DEF AccountsInv, rows, history
  <1>1. Stays
    BY DEF Stays
  <1>2. SoundRequest(r)'
    BY <1>1, StaysSound
  <1>3. RequestsAreSound' /\ request' \in [Workers -> Request]
    BY <1>1, <1>2, ServeSound
  <1>4. TypeOK'
    BY <1>3 DEF TypeOK
  <1>5. (RowsAreOfUsers /\ UsersAreDistinct /\ DoublesAreNoted)'
    BY DEF RowsAreOfUsers, UsersAreDistinct, DoublesAreNoted
  <1>6. (WayInKept /\ NoSilentGoogleLink)'
    BY DEF WayInKept, NoSilentGoogleLink, LinksOf
  <1> QED
    BY <1>3, <1>4, <1>5, <1>6

\* The halves of sign-ins that only read.
LEMMA ReadingInv ==
    ASSUME AccountsInv, NEW w \in Workers,
           \/ \E p \in Phones : \/ PhoneLogin(w, p)
                                \/ \E e \in Emails \cup {None} :
                                     Register(w, p, e) \/ CreateDriverUser(w, p, e)
           \/ \E u \in Users : Login(w, u)
           \/ \E i \in GoogleIds : \/ NativeGoogleAuth(w, i)
                                   \/ \E v \in Users \cup {None} : GoogleCallback(w, v, i)
           \/ \E i \in AppleIds : NativeAppleAuth(w, i)
           \/ Abandon(w)
    PROVE  AccountsInv'
  <1> USE EmailAssumption DEF AccountsInv
  <1>1. CASE \E p \in Phones : PhoneLogin(w, p)
    <2>1. PICK p \in Phones : PhoneLogin(w, p)
      BY <1>1
    <2>2. CASE \E u \in WithPhone(p) : Serve(w, [step |-> "session", user |-> u])
      <3>1. PICK u \in WithPhone(p) : Serve(w, [step |-> "session", user |-> u])
        BY <2>2
      <3>2. [step |-> "session", user |-> u] \in Request
              /\ SoundRequest([step |-> "session", user |-> u])
        BY DEF WithPhone, TypeOK, Request, UserRequest, SoundRequest
      <3> QED
        BY <2>1, <3>1, <3>2, RequestInv DEF PhoneLogin
    <2>3. CASE Serve(w, [step |-> "create", phone |-> p, email |-> None, enter |-> TRUE])
      <3>1. [step |-> "create", phone |-> p, email |-> None, enter |-> TRUE] \in Request
              /\ SoundRequest([step |-> "create", phone |-> p, email |-> None, enter |-> TRUE])
        BY DEF Request, CreateRequest, SoundRequest
      <3> QED
        BY <2>1, <2>3, <3>1, RequestInv DEF PhoneLogin
    <2> QED
      BY <2>1, <2>2, <2>3 DEF PhoneLogin
  <1>2. ASSUME NEW p \in Phones, NEW e \in Emails \cup {None},
               Register(w, p, e) \/ CreateDriverUser(w, p, e)
        PROVE  AccountsInv'
    <2>1. PICK b \in BOOLEAN :
            Serve(w, [step |-> "create", phone |-> p, email |-> e, enter |-> b])
      BY <1>2 DEF Register, CreateDriverUser
    <2>2. [step |-> "create", phone |-> p, email |-> e, enter |-> b] \in Request
            /\ SoundRequest([step |-> "create", phone |-> p, email |-> e, enter |-> b])
      BY DEF Request, CreateRequest, SoundRequest
    <2> QED
      BY <1>2, <2>1, <2>2, RequestInv DEF Register, CreateDriverUser
  <1>3. ASSUME NEW u \in Users, Login(w, u) PROVE AccountsInv'
    <2>1. [step |-> "session", user |-> u] \in Request
            /\ SoundRequest([step |-> "session", user |-> u])
      BY <1>3 DEF Login, Request, UserRequest, SoundRequest
    <2> QED
      BY <1>3, <2>1, RequestInv DEF Login
  <1>4. ASSUME NEW i \in Identities, NEW e \in Emails \cup {None},
               Serve(w, [step |-> "lookup", identity |-> i, for |-> None, email |-> e]),
               UNCHANGED <<rows, flows, history>>
        PROVE  AccountsInv'
    <2>1. [step |-> "lookup", identity |-> i, for |-> None, email |-> e] \in Request
            /\ SoundRequest([step |-> "lookup", identity |-> i, for |-> None, email |-> e])
      BY DEF Request, LookupRequest, SoundRequest
    <2> QED
      BY <1>4, <2>1, RequestInv
  <1>5. ASSUME NEW i \in GoogleIds, NativeGoogleAuth(w, i) PROVE AccountsInv'
    BY <1>4, <1>5 DEF NativeGoogleAuth, Identities
  <1>6. ASSUME NEW i \in GoogleIds, NEW v \in Users \cup {None}, GoogleCallback(w, v, i)
        PROVE  AccountsInv'
    <2>1. GoogleProfile(i, v) \in Request
      BY DEF GoogleProfile, Request, LookupRequest, Identities
    <2>2. SoundRequest(GoogleProfile(i, v))
      BY <1>6 DEF GoogleCallback, ValidState, RowsAreOfUsers, GoogleProfile, SoundRequest
    <2> QED
      BY <1>6, <2>1, <2>2, RequestInv DEF GoogleCallback
  <1>7. ASSUME NEW i \in AppleIds, NativeAppleAuth(w, i) PROVE AccountsInv'
    <2>1. PICK e \in Emails \cup {None} :
            Serve(w, [step |-> "lookup", identity |-> i, for |-> None, email |-> e])
      BY <1>7 DEF NativeAppleAuth
    <2>2. i \in Identities /\ e \in Emails \cup {None}
      BY DEF Identities
    <2> QED
      BY <1>4, <1>7, <2>1, <2>2 DEF NativeAppleAuth
  <1>8. CASE Abandon(w)
    BY <1>8, IdleIsSound, RequestInv DEF Abandon, Finish
  <1> QED
    BY <1>1, <1>2, <1>3, <1>5, <1>6, <1>7, <1>8

\* The lookups of an identity and of its address.
LEMMA LookupInv ==
    ASSUME AccountsInv, NEW w \in Workers,
           LookupToLink(w) \/ LookupToEnter(w) \/ LookupEmail(w)
    PROVE  AccountsInv'
  <1> USE DEF AccountsInv
  <1> DEFINE r == request[w]
  <1>1. r \in Request /\ SoundRequest(r)
    BY DEF TypeOK, RequestsAreSound
  <1>2. CASE LookupToLink(w)
    <2>1. r \in LookupRequest /\ r.for \in Users
      BY <1>1, <1>2, RequestKinds DEF LookupToLink, LookupRequest
    <2>2. [step |-> "link", identity |-> r.identity, user |-> r.for] \in Request
      BY <2>1 DEF Request, LinkRequest, LookupRequest
    <2>3. SoundRequest([step |-> "link", identity |-> r.identity, user |-> r.for])
      BY <1>1, <1>2 DEF LookupToLink, SoundRequest, RowsAreOfUsers
    <2> QED
      BY <1>2, <2>2, <2>3, RequestInv DEF LookupToLink
  <1>3. CASE LookupToEnter(w)
    <2>1. r \in LookupRequest
      BY <1>1, <1>3, RequestKinds DEF LookupToEnter
    <2>2. CASE link[r.identity] = None
      <3>1. [step |-> "email", identity |-> r.identity, email |-> r.email] \in Request
              /\ SoundRequest([step |-> "email", identity |-> r.identity, email |-> r.email])
        BY <2>1 DEF Request, SignUpRequest, LookupRequest, SoundRequest
      <3> QED
        BY <1>3, <2>2, <3>1, RequestInv DEF LookupToEnter
    <2>3. CASE link[r.identity] # None
      <3>1. link[r.identity] \in users
        BY <2>1, <2>3 DEF RowsAreOfUsers, LookupRequest
      <3>2. [step |-> "session", user |-> link[r.identity]] \in Request
              /\ SoundRequest([step |-> "session", user |-> link[r.identity]])
        BY <3>1 DEF TypeOK, Request, UserRequest, SoundRequest
      <3> QED
        BY <1>3, <2>3, <3>2, RequestInv DEF LookupToEnter
    <2> QED
      BY <2>2, <2>3
  <1>4. CASE LookupEmail(w)
    <2>1. r \in SignUpRequest
      BY <1>1, <1>4, RequestKinds DEF LookupEmail
    <2>2. CASE \E u \in LinkedByEmail(r.identity, r.email) :
                 Serve(w, [step |-> "link", identity |-> r.identity, user |-> u])
      <3>1. PICK u \in LinkedByEmail(r.identity, r.email) :
              Serve(w, [step |-> "link", identity |-> r.identity, user |-> u])
        BY <2>2
      <3>2. u \in users /\ r.identity \in AppleIds
        BY DEF LinkedByEmail, WithEmail
      <3>3. [step |-> "link", identity |-> r.identity, user |-> u] \in Request
        BY <2>1, <3>2 DEF TypeOK, Request, LinkRequest, SignUpRequest
      <3>4. SoundRequest([step |-> "link", identity |-> r.identity, user |-> u])
        BY <3>2, ProviderAssumption DEF SoundRequest
      <3> QED
        BY <1>4, <3>1, <3>3, <3>4, RequestInv DEF LookupEmail
    <2>3. CASE Serve(w, [step |-> "signup", identity |-> r.identity, email |-> r.email])
      <3>1. [step |-> "signup", identity |-> r.identity, email |-> r.email] \in Request
              /\ SoundRequest([step |-> "signup", identity |-> r.identity, email |-> r.email])
        BY <2>1 DEF Request, SignUpRequest, SoundRequest
      <3> QED
        BY <1>4, <2>3, <3>1, RequestInv DEF LookupEmail
    <2> QED
      BY <1>4, <2>2, <2>3 DEF LookupEmail
  <1> QED
    BY <1>2, <1>3, <1>4

\* More than one account linked, one of them Google's, and no password: the others
\* are Apple's or the user is noted for two of Google's.
LEMMA UnlinkGoogleInv ==
    ASSUME AccountsInv, NEW w \in Workers, NEW u \in Users, UnlinkGoogle(w, u)
    PROVE  AccountsInv'
  <1> USE DEF AccountsInv
  <1>1. u \in users
    BY DEF UnlinkGoogle, SignedIn
  <1>2. PICK i \in GoogleIds : link[i] = u
    BY DEF UnlinkGoogle, GoogleLinksOf
  <1>3. ASSUME ~account[u].password
        PROVE  \E j \in Identities : j # i /\ link[j] = u
    <2> SUFFICES ASSUME \A j \in Identities : j # i => link[j] # u
                 PROVE  FALSE
      OBVIOUS
    <2>1. LinksOf(u) = {i}
      BY <1>2 DEF LinksOf, Identities
    <2>2. Cardinality(LinksOf(u)) = 1
      BY <2>1, FS_Singleton
    <2> QED
      BY <1>3, <2>2 DEF UnlinkGoogle, MayUnlink
  <1>4. \/ account[u].password
        \/ \E j \in AppleIds : link[j] = u
        \/ u \in doubled
    BY <1>2, <1>3, NullAssumption DEF DoublesAreNoted, Identities
  <1>5. [step |-> "unlink", user |-> u] \in Request
          /\ SoundRequest([step |-> "unlink", user |-> u])
    BY <1>1, <1>4 DEF Request, UserRequest, SoundRequest
  <1> QED
    BY <1>5, RequestInv DEF UnlinkGoogle

\* A user with a password and without links appears.
LEMMA CreateUserInv ==
    ASSUME AccountsInv, NEW w \in Workers, CreateUser(w)
    PROVE  AccountsInv'
  <1> USE NullAssumption DEF AccountsInv, history
  <1> DEFINE r == request[w]
  <1>1. r \in CreateRequest
    BY RequestKinds DEF TypeOK, CreateUser
  <1>2. PICK u \in Users \ users :
          /\ users' = users \cup {u}
          /\ account' = [account EXCEPT ![u] =
                           [phone |-> r.phone, email |-> r.email, password |-> TRUE]]
          /\ Serve(w, IF r.enter THEN [step |-> "session", user |-> u] ELSE Idle)
    BY DEF CreateUser
  <1>3. UNCHANGED <<link, sessions, flows, starters, creator, doubled>>
          /\ Unused(r.phone, r.email)
    BY DEF CreateUser
  <1>4. \A v \in users : account'[v] = account[v] /\ v # u
    BY <1>2 DEF TypeOK
  <1>5. account'[u] = [phone |-> r.phone, email |-> r.email, password |-> TRUE]
    BY <1>2 DEF TypeOK
  <1>6. Stays
    BY <1>2, <1>3, <1>4 DEF Stays
  <1>7. PICK q \in Request : Serve(w, q) /\ SoundRequest(q)'
    <2>1. CASE r.enter
      <3>1. [step |-> "session", user |-> u] \in Request
              /\ SoundRequest([step |-> "session", user |-> u])'
        BY <1>2 DEF Request, UserRequest, SoundRequest
      <3> QED
        BY <1>2, <2>1, <3>1
    <2>2. CASE ~r.enter
      BY <1>2, <2>2, IdleIsSound
    <2> QED
      BY <2>1, <2>2
  <1>8. RequestsAreSound' /\ request' \in [Workers -> Request]
    BY <1>6, <1>7, ServeSound
  <1>9. TypeOK'
    BY <1>1, <1>2, <1>3, <1>8 DEF TypeOK, Account, CreateRequest
  <1>10. RowsAreOfUsers'
    BY <1>2, <1>3 DEF RowsAreOfUsers
  <1>11. UsersAreDistinct'
    BY <1>1, <1>2, <1>3, <1>4, <1>5
    DEF UsersAreDistinct, Unused, WithPhone, WithEmail, CreateRequest
  <1>12. (DoublesAreNoted /\ NoSilentGoogleLink)'
    BY <1>3 DEF DoublesAreNoted, NoSilentGoogleLink
  <1>13. WayInKept'
    BY <1>2, <1>3, <1>4, <1>5 DEF WayInKept, LinksOf
  <1> QED
    BY <1>8, <1>9, <1>10, <1>11, <1>12, <1>13

\* A user with one link and no password appears.
LEMMA SignUpInv ==
    ASSUME AccountsInv, NEW w \in Workers, SignUp(w)
    PROVE  AccountsInv'
  <1> USE NullAssumption DEF AccountsInv
  <1> DEFINE r == request[w]
  <1>1. r \in SignUpRequest
    BY RequestKinds DEF TypeOK, SignUp
  <1>2. PICK u \in Users \ users :
          /\ users' = users \cup {u}
          /\ account' = [account EXCEPT ![u] =
                           [phone |-> None, email |-> r.email, password |-> FALSE]]
          /\ link' = [link EXCEPT ![r.identity] = u]
          /\ creator' = [creator EXCEPT ![u] = r.identity]
          /\ Serve(w, [step |-> "session", user |-> u])
    BY DEF SignUp
  <1>3. UNCHANGED <<sessions, flows, starters, doubled>>
          /\ Unused(None, r.email) /\ link[r.identity] = None
    BY DEF SignUp, Unlinked
  <1>4. \A v \in users : account'[v] = account[v] /\ creator'[v] = creator[v] /\ v # u
    BY <1>2 DEF TypeOK
  <1>5. account'[u] = [phone |-> None, email |-> r.email, password |-> FALSE]
          /\ creator'[u] = r.identity
    BY <1>2 DEF TypeOK
  <1>6. \A i \in Identities : link'[i] = IF i = r.identity THEN u ELSE link[i]
    BY <1>2 DEF TypeOK
  <1>7. Stays
    BY <1>2, <1>3, <1>4, <1>6 DEF Stays, Identities
  <1>8. RequestsAreSound' /\ request' \in [Workers -> Request]
    <2>1. [step |-> "session", user |-> u] \in Request
            /\ SoundRequest([step |-> "session", user |-> u])'
      BY <1>2 DEF Request, UserRequest, SoundRequest
    <2> QED
      BY <1>2, <1>7, <2>1, ServeSound
  <1>9. TypeOK'
    BY <1>1, <1>2, <1>3, <1>8 DEF TypeOK, Account, SignUpRequest
  <1>10. RowsAreOfUsers'
    BY <1>2, <1>3, <1>6 DEF RowsAreOfUsers
  <1>11. UsersAreDistinct'
    BY <1>1, <1>2, <1>3, <1>4, <1>5 DEF UsersAreDistinct, Unused, WithEmail, SignUpRequest
  <1>12. DoublesAreNoted'
    BY <1>2, <1>3, <1>6 DEF DoublesAreNoted, RowsAreOfUsers, Identities
  <1>13. NoSilentGoogleLink'
    BY <1>2, <1>3, <1>4, <1>5, <1>6 DEF NoSilentGoogleLink, RowsAreOfUsers, Identities
  <1>14. WayInKept'
    <2>1. \A v \in users : LinksOf(v) \subseteq LinksOf(v)'
      BY <1>3, <1>6 DEF LinksOf, TypeOK
    <2>2. r.identity \in LinksOf(u)'
      BY <1>1, <1>6 DEF LinksOf, SignUpRequest
    <2> QED
      BY <1>2, <1>3, <1>4, <2>1, <2>2 DEF WayInKept
  <1> QED
    BY <1>8, <1>9, <1>10, <1>11, <1>12, <1>13, <1>14

\* A free identity is linked, and a second one of Google's noted.
LEMMA SaveLinkInv ==
    ASSUME AccountsInv, NEW w \in Workers, SaveLink(w)
    PROVE  AccountsInv'
  <1> USE NullAssumption DEF AccountsInv
  <1> DEFINE r == request[w]
  <1>1. r \in LinkRequest /\ SoundRequest(r)
    BY RequestKinds DEF TypeOK, RequestsAreSound, SaveLink
  <1>2. r.user \in users /\ r.user \in Users /\ r.identity \in Identities
          /\ (r.identity \in GoogleIds => r.user \in starters)
    BY <1>1 DEF SoundRequest, LinkRequest
  <1>3. /\ link[r.identity] = None
        /\ link' = [link EXCEPT ![r.identity] = r.user]
        /\ doubled' = IF r.identity \in GoogleIds /\ GoogleLinksOf(r.user) # {}
                      THEN doubled \cup {r.user} ELSE doubled
        /\ UNCHANGED <<users, account, sessions, flows, starters, creator>>
    BY DEF SaveLink, Unlinked
  <1>4. \A i \in Identities : link'[i] = IF i = r.identity THEN r.user ELSE link[i]
    BY <1>3 DEF TypeOK
  <1>5. Stays
    BY <1>3, <1>4 DEF Stays, Identities
  <1>6. PICK q \in Request : Serve(w, q) /\ SoundRequest(q)'
    <2>1. CASE r.identity \in GoogleIds
      BY <2>1, IdleIsSound DEF SaveLink, AfterLink
    <2>2. CASE r.identity \notin GoogleIds
      <3>1. PICK u \in users : u = r.user
        BY <1>2
      <3>2. [step |-> "session", user |-> u] \in Request
              /\ SoundRequest([step |-> "session", user |-> u])'
        BY <1>2, <1>3, <3>1 DEF Request, UserRequest, SoundRequest
      <3>3. Serve(w, [step |-> "session", user |-> u])
        BY <2>2, <3>1 DEF SaveLink, AfterLink
      <3> QED
        BY <3>2, <3>3
    <2> QED
      BY <2>1, <2>2
  <1>7. RequestsAreSound' /\ request' \in [Workers -> Request]
    BY <1>5, <1>6, ServeSound
  <1>8. TypeOK'
    BY <1>2, <1>3, <1>7 DEF TypeOK
  <1>9. (RowsAreOfUsers /\ UsersAreDistinct)'
    BY <1>2, <1>3, <1>4 DEF RowsAreOfUsers, UsersAreDistinct
  <1>10. DoublesAreNoted'
    BY <1>2, <1>3, <1>4 DEF DoublesAreNoted, GoogleLinksOf, Identities
  <1>11. NoSilentGoogleLink'
    BY <1>2, <1>3, <1>4 DEF NoSilentGoogleLink, Identities
  <1>12. WayInKept'
    <2>1. \A v \in users : LinksOf(v) \subseteq LinksOf(v)'
      BY <1>3, <1>4 DEF LinksOf, TypeOK
    <2> QED
      BY <1>3, <2>1 DEF WayInKept
  <1> QED
    BY <1>7, <1>8, <1>9, <1>10, <1>11, <1>12

\* Google's links of one user go; what made the unlink permissible stays.
LEMMA DeleteGoogleLinksInv ==
    ASSUME AccountsInv, NEW w \in Workers, DeleteGoogleLinks(w)
    PROVE  AccountsInv'
  <1> USE NullAssumption DEF AccountsInv, history
  <1> DEFINE u == request[w].user
  <1>1. request[w] \in UserRequest /\ SoundRequest(request[w]) /\ request[w].step = "unlink"
    BY RequestKinds DEF TypeOK, RequestsAreSound, DeleteGoogleLinks
  <1>2. u \in Users /\ u # None
    BY <1>1 DEF UserRequest
  <1>3. \A i \in Identities : link'[i] = IF i \in GoogleLinksOf(u) THEN None ELSE link[i]
    BY DEF DeleteGoogleLinks
  <1>4. UNCHANGED <<users, account, sessions, flows, starters, creator, doubled>>
    BY DEF DeleteGoogleLinks
  <1>5. \A i \in AppleIds : i \in Identities /\ link'[i] = link[i]
    BY <1>3, ProviderAssumption DEF GoogleLinksOf, Identities
  <1>6. Stays
    BY <1>4, <1>5 DEF Stays
  <1>7. RequestsAreSound' /\ request' \in [Workers -> Request]
    BY <1>6, IdleIsSound, ServeSound DEF DeleteGoogleLinks, Finish
  <1>8. TypeOK'
    BY <1>4, <1>7 DEF TypeOK, DeleteGoogleLinks
  <1>9. \A i \in Identities : link'[i] # None => link'[i] = link[i]
    BY <1>3
  <1>10. (RowsAreOfUsers /\ UsersAreDistinct)'
    BY <1>4, <1>9 DEF RowsAreOfUsers, UsersAreDistinct
  <1>11. (DoublesAreNoted /\ NoSilentGoogleLink)'
    BY <1>4, <1>9 DEF DoublesAreNoted, NoSilentGoogleLink, Identities
  <1>12. WayInKept'
    <2> SUFFICES ASSUME NEW v \in users
                 PROVE  account[v].password \/ LinksOf(v)' # {} \/ v \in doubled
      BY <1>4 DEF WayInKept
    <2>1. CASE v = u
      <3>1. \/ account[v].password
            \/ \E i \in AppleIds : link[i] = v
            \/ v \in doubled
        BY <1>1, <2>1 DEF SoundRequest
      <3> QED
        BY <1>5, <3>1 DEF LinksOf
    <2>2. CASE v # u
      <3>1. \A i \in LinksOf(v) : i \in LinksOf(v)'
        BY <1>3, <2>2 DEF LinksOf, GoogleLinksOf
      <3> QED
        BY <3>1 DEF WayInKept
    <2> QED
      BY <2>1, <2>2
  <1> QED
    BY <1>7, <1>8, <1>10, <1>11, <1>12

\* Sessions come and go, and linking flows with them.
LEMMA SessionInv ==
    ASSUME AccountsInv,
           \/ \E w \in Workers : OpenSession(w)
           \/ \E u \in Users : Logout(u) \/ GoogleAuth(u) \/ StateExpires(u)
    PROVE  AccountsInv'
  <1> USE DEF AccountsInv
  <1>1. UNCHANGED <<users, account, link, creator, doubled>>
          /\ starters \subseteq starters'
    BY DEF OpenSession, Logout, GoogleAuth, StateExpires, rows, history
  <1>2. Stays
    BY <1>1 DEF Stays
  <1>3. RequestsAreSound' /\ request' \in [Workers -> Request]
    <2>1. CASE \E w \in Workers : OpenSession(w)
      BY <1>2, <2>1, IdleIsSound, ServeSound DEF OpenSession, Finish
    <2>2. CASE \E u \in Users : Logout(u) \/ GoogleAuth(u) \/ StateExpires(u)
      <3>1. request' = request
        BY <2>2 DEF Logout, GoogleAuth, StateExpires
      <3>2. ASSUME NEW v \in Workers PROVE SoundRequest(request[v])'
        <4>1. PICK q \in Request : q = request[v]
          BY DEF TypeOK
        <4>2. SoundRequest(q)'
          BY <1>2, <4>1, StaysSound DEF RequestsAreSound
        <4> QED
          BY <3>1, <4>1, <4>2
      <3> QED
        BY <3>1, <3>2 DEF RequestsAreSound, TypeOK
    <2> QED
      BY <2>1, <2>2
  <1>4. /\ sessions' \in [Users -> Nat] /\ flows' \subseteq Users /\ starters' \subseteq users
        /\ flows' \subseteq starters'
        /\ \A u \in Users \ users : sessions'[u] = 0
    <2>1. CASE \E w \in Workers : OpenSession(w)
      <3>1. PICK w \in Workers : OpenSession(w)
        BY <2>1
      <3>2. request[w].user \in users
        BY <3>1 DEF OpenSession, RequestsAreSound, SoundRequest
      <3> QED
        BY <3>1, <3>2 DEF OpenSession, TypeOK, RowsAreOfUsers, history
    <2>2. CASE \E u \in Users : Logout(u)
      BY <2>2 DEF Logout, SignedIn, DropSession, TypeOK, RowsAreOfUsers, history
    <2>3. CASE \E u \in Users : GoogleAuth(u) \/ StateExpires(u)
      BY <2>3 DEF GoogleAuth, Recognised, StateToken, StateExpires, TypeOK, RowsAreOfUsers,
                  rows, history
    <2> QED
      BY <2>1, <2>2, <2>3
  <1>5. TypeOK'
    BY <1>1, <1>3, <1>4 DEF TypeOK
  <1>6. (RowsAreOfUsers /\ UsersAreDistinct /\ DoublesAreNoted)'
    BY <1>1, <1>4 DEF RowsAreOfUsers, UsersAreDistinct, DoublesAreNoted
  <1>7. (WayInKept /\ NoSilentGoogleLink)'
    BY <1>1 DEF WayInKept, NoSilentGoogleLink, LinksOf
  <1> QED
    BY <1>3, <1>5, <1>6, <1>7

LEMMA NextInv == AccountsInv /\ [Next]_vars => AccountsInv'
  <1> SUFFICES ASSUME AccountsInv, [Next]_vars PROVE AccountsInv'
    OBVIOUS
  <1>1. ASSUME NEW w \in Workers,
               \/ CreateUser(w) \/ SaveLink(w) \/ SignUp(w) \/ DeleteGoogleLinks(w)
               \/ LookupToLink(w) \/ LookupToEnter(w) \/ LookupEmail(w)
               \/ \E u \in Users : UnlinkGoogle(w, u)
        PROVE  AccountsInv'
    BY <1>1, CreateUserInv, SaveLinkInv, SignUpInv, DeleteGoogleLinksInv, LookupInv,
       UnlinkGoogleInv
  <1>2. CASE UNCHANGED vars
    <2>1. UNCHANGED <<users, account, link, sessions, flows, starters, creator, doubled, request>>
      BY <1>2 DEF vars, rows, history
    <2> QED
      BY <2>1 DEF AccountsInv, TypeOK, RowsAreOfUsers, UsersAreDistinct, RequestsAreSound,
                  SoundRequest, DoublesAreNoted, WayInKept, NoSilentGoogleLink, LinksOf
  <1> QED
    BY <1>1, <1>2, ReadingInv, SessionInv DEF Next

\* Rows, history and waiting requests agree, in every behaviour, on which users
\* exist, what is theirs and who asked for it (auth.service.ts, google-auth.service.ts,
\* apple-auth.service.ts).
THEOREM AccountsCorrect == Spec => []AccountsInv
  <1> QED
    BY InitInv, NextInv, PTL DEF Spec

\* Nobody is locked out except by unlinking two Google accounts at once, whatever
\* else links, unlinks and signs up meanwhile (unlinkGoogle).
THEOREM WaysInAreKept == Spec => []WayInKept
  <1>1. AccountsInv => WayInKept
    BY DEF AccountsInv
  <1> QED
    BY <1>1, AccountsCorrect, PTL

\* No Google account is linked to a user who neither came from it nor asked for it
\* (handleGoogleIdentity).
THEOREM GoogleLinksAreAskedFor == Spec => []NoSilentGoogleLink
  <1>1. AccountsInv => NoSilentGoogleLink
    BY DEF AccountsInv
  <1> QED
    BY <1>1, AccountsCorrect, PTL

\* A step that writes a link writes a free one or clears it.
LEMMA LinkStep ==
    ASSUME AccountsInv, [Next]_vars, NEW i \in Identities, link[i] # None
    PROVE  link'[i] \in {link[i], None}
  <1>1. ASSUME NEW w \in Workers, SaveLink(w) PROVE link'[i] = link[i]
    BY <1>1 DEF SaveLink, Unlinked, AccountsInv, TypeOK
  <1>2. ASSUME NEW w \in Workers, SignUp(w) PROVE link'[i] = link[i]
    BY <1>2 DEF SignUp, Unlinked, AccountsInv, TypeOK
  <1>3. ASSUME NEW w \in Workers, DeleteGoogleLinks(w) PROVE link'[i] \in {link[i], None}
    BY <1>3 DEF DeleteGoogleLinks
  <1>4. ASSUME \/ UNCHANGED vars
               \/ \E u \in Users : Logout(u) \/ GoogleAuth(u) \/ StateExpires(u)
               \/ \E w \in Workers :
                    \/ \E p \in Phones :
                        \/ PhoneLogin(w, p)
                        \/ \E e \in Emails \cup {None} :
                             Register(w, p, e) \/ CreateDriverUser(w, p, e)
                    \/ \E u \in Users : Login(w, u) \/ UnlinkGoogle(w, u)
                    \/ \E j \in GoogleIds :
                        \/ NativeGoogleAuth(w, j)
                        \/ \E v \in Users \cup {None} : GoogleCallback(w, v, j)
                    \/ \E j \in AppleIds : NativeAppleAuth(w, j)
                    \/ CreateUser(w) \/ OpenSession(w)
                    \/ LookupToLink(w) \/ LookupToEnter(w) \/ LookupEmail(w)
                    \/ Abandon(w)
        PROVE  link' = link
    BY <1>4, Zenon DEF vars, rows, Logout, GoogleAuth, StateExpires, PhoneLogin, Register,
       CreateDriverUser, Login, UnlinkGoogle, NativeGoogleAuth, GoogleCallback,
       NativeAppleAuth, CreateUser, OpenSession, LookupToLink, LookupToEnter, LookupEmail,
       Abandon
  <1> QED
    BY <1>1, <1>2, <1>3, <1>4 DEF Next

\* An identity passes to another user only by being unlinked first (the unique pair
\* of oauth_accounts).
THEOREM LinksStayPut == Spec => LinksAreNotTaken
  <1>1. AccountsInv /\ [Next]_vars
          => [\A i \in Identities : link[i] # None => link'[i] \in {link[i], None}]_vars
    BY LinkStep
  <1> QED
    BY <1>1, AccountsCorrect, PTL DEF Spec, LinksAreNotTaken
=============================================================================
