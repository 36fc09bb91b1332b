------------------------------ MODULE Accounts ------------------------------
(***************************************************************************)
(* Who may sign in as whom: the rows of `users', `oauth_accounts' and        *)
(* `sessions' under registration, phone and password sign-in, Google and     *)
(* Apple sign-in, linking and unlinking.                                     *)
(*                                                                           *)
(* Every handler reads, awaits (a hash, the provider, the next query) and    *)
(* writes on the strength of what it read; only the unique columns are       *)
(* checked again, by the database.  A sign-in that meets two-factor          *)
(* authentication (module TwoFactor) opens its session later or never, which *)
(* a request that waits to open one does as well.                            *)
(***************************************************************************)
EXTENDS Naturals, FiniteSets, Requests

CONSTANTS
    Users,          \* rows of the table `users', each created once
    Phones, Emails,
    GoogleIds,      \* accounts at Google: their `sub'
    AppleIds,       \* accounts at Apple
    EmailOf,        \* EmailOf[i]: the verified e-mail address of Google's i
    SessionCap,     \* bound: sessions of one user at the same time
    None            \* SQL null

Identities == GoogleIds \cup AppleIds

ASSUME EmailAssumption == EmailOf \in [GoogleIds -> Emails]
ASSUME ProviderAssumption == GoogleIds \cap AppleIds = {}
ASSUME NullAssumption == None \notin Users \cup Phones \cup Emails \cup Identities
ASSUME SessionAssumption == SessionCap \in Nat

VARIABLES
    users,          \* rows created
    account,        \* account[u]: meaningful once created
    link,           \* link[i]: the user of i's row in `oauth_accounts', or None
    sessions,       \* sessions[u]: rows of u in `sessions'
    flows,          \* users for whom a state token that links is now valid
    starters,       \* history: users who started a linking flow
    creator,        \* history, creator[u]: the identity that created u, or None
    doubled         \* history: users who had two Google accounts linked at once

rows == <<users, account, link, sessions>>
history == <<starters, creator, doubled>>
vars == <<rows, flows, history, request>>

-----------------------------------------------------------------------------
Account == [phone : Phones \cup {None}, email : Emails \cup {None}, password : BOOLEAN]

CreateRequest == [step : {"create"}, phone : Phones, email : Emails \cup {None},
                  enter : BOOLEAN]
\* for: the user of the state token; email: the address that comes with it.
LookupRequest == [step : {"lookup"}, identity : Identities, for : Users \cup {None},
                  email : Emails \cup {None}]
SignUpRequest == [step : {"email", "signup"}, identity : Identities,
                  email : Emails \cup {None}]
LinkRequest == [step : {"link"}, identity : Identities, user : Users]
UserRequest == [step : {"session", "unlink"}, user : Users]
Request == IdleRequest \cup CreateRequest \cup LookupRequest \cup SignUpRequest
             \cup LinkRequest \cup UserRequest

\* Shape of the state.
TypeOK ==
    /\ users \subseteq Users
    /\ account \in [Users -> Account]
    /\ link \in [Identities -> Users \cup {None}]
    /\ sessions \in [Users -> Nat]
    /\ flows \subseteq Users
    /\ starters \subseteq Users
    /\ creator \in [Users -> Identities \cup {None}]
    /\ doubled \subseteq Users
    /\ request \in [Workers -> Request]

Init ==
    /\ users = {}
    /\ account = [u \in Users |-> [phone |-> None, email |-> None, password |-> FALSE]]
    /\ link = [i \in Identities |-> None]
    /\ sessions = [u \in Users |-> 0]
    /\ flows = {}
    /\ starters = {}
    /\ creator = [u \in Users |-> None]
    /\ doubled = {}
    /\ request = [w \in Workers |-> Idle]

-----------------------------------------------------------------------------
\* A null column equals nothing: any number of users have no number or no address.
WithPhone(p) == {u \in users : p # None /\ account[u].phone = p}
WithEmail(e) == {u \in users : e # None /\ account[u].email = e}

LinksOf(u) == {i \in Identities : link[i] = u}
GoogleLinksOf(u) == {i \in GoogleIds : link[i] = u}

-----------------------------------------------------------------------------
(* Mobile number and password *)

Register(w, p, e) ==
    /\ request[w] = Idle
    /\ WithPhone(p) \cup WithEmail(e) = {}
    /\ Serve(w, [step |-> "create", phone |-> p, email |-> e, enter |-> TRUE])
    /\ UNCHANGED <<rows, flows, history>>

\* A number the tables do not know is registered on the spot.
PhoneLogin(w, p) ==
    /\ request[w] = Idle
    /\ \/ \E u \in WithPhone(p) : Serve(w, [step |-> "session", user |-> u])
       \/ /\ WithPhone(p) = {}
          /\ Serve(w, [step |-> "create", phone |-> p, email |-> None, enter |-> TRUE])
    /\ UNCHANGED <<rows, flows, history>>

Login(w, u) ==
    /\ request[w] = Idle
    /\ u \in users
    /\ account[u].password
    /\ Serve(w, [step |-> "session", user |-> u])
    /\ UNCHANGED <<rows, flows, history>>

\* Staff take on a driver whose number and address no user has; any other becomes
\* a driver as they are.
CreateDriverUser(w, p, e) ==
    /\ request[w] = Idle
    /\ WithPhone(p) \cup WithEmail(e) = {}
    /\ Serve(w, [step |-> "create", phone |-> p, email |-> e, enter |-> FALSE])
    /\ UNCHANGED <<rows, flows, history>>

\* User.phone and User.email are unique where they are not null.
Unused(p, e) == WithPhone(p) \cup WithEmail(e) = {}

\* The default password of the two short forms is a password too.
CreateUser(w) ==
    LET r == request[w] IN
    /\ r.step = "create"
    /\ Unused(r.phone, r.email)
    /\ \E u \in Users \ users :
        /\ users' = users \cup {u}
        /\ account' = [account EXCEPT ![u] =
                         [phone |-> r.phone, email |-> r.email, password |-> TRUE]]
        /\ Serve(w, IF r.enter THEN [step |-> "session", user |-> u] ELSE Idle)
    /\ UNCHANGED <<link, sessions, flows, history>>

-----------------------------------------------------------------------------
(* Sessions *)

OpenSession(w) ==
    LET u == request[w].user IN
    /\ request[w].step = "session"
    /\ sessions[u] < SessionCap
    /\ sessions' = [sessions EXCEPT ![u] = @ + 1]
    /\ Finish(w)
    /\ UNCHANGED <<users, account, link, flows, history>>

\* What AuthGuard lets through.
SignedIn == {u \in users : sessions[u] > 0}

DropSession(u) == sessions' = [sessions EXCEPT ![u] = @ - 1]

\* The endpoint needs no guard: the token names the row.  A session that has
\* expired is a row less in the same way.
Logout(u) ==
    /\ u \in SignedIn
    /\ DropSession(u)
    /\ UNCHANGED <<users, account, link, flows, history, request>>

-----------------------------------------------------------------------------
(* The way to Google and back *)

\* Whom OptionalAuthGuard recognises among the visitors.
Recognised == {u \in users : sessions[u] > 0}

StateToken(u) == flows' = flows \cup {u}

\* action=link of a visitor who is signed in; any other token links to nobody and
\* can be had at any time.
GoogleAuth(u) ==
    /\ u \in Recognised
    /\ StateToken(u)
    /\ starters' = starters \cup {u}
    /\ UNCHANGED <<rows, creator, doubled, request>>

\* A token is good until it expires, as often as it is presented.
ValidState(v) == v = None \/ v \in flows

StateExpires(u) ==
    /\ u \in flows
    /\ flows' = flows \ {u}
    /\ UNCHANGED <<rows, history, request>>

\* Google's answer, once its address is verified.
GoogleProfile(i, v) ==
    [step |-> "lookup", identity |-> i, for |-> v, email |-> EmailOf[i]]

GoogleCallback(w, v, i) ==
    /\ request[w] = Idle
    /\ ValidState(v)
    /\ Serve(w, GoogleProfile(i, v))
    /\ UNCHANGED <<rows, flows, history>>

\* The mobile app brings an ID token and never links.
NativeGoogleAuth(w, i) ==
    /\ request[w] = Idle
    /\ Serve(w, [step |-> "lookup", identity |-> i, for |-> None, email |-> EmailOf[i]])
    /\ UNCHANGED <<rows, flows, history>>

\* The token is decoded and its signature not looked at, and a token without an
\* address leaves the choice of it to the app: any address may come with i, or none.
NativeAppleAuth(w, i) ==
    /\ request[w] = Idle
    /\ \E e \in Emails \cup {None} :
        Serve(w, [step |-> "lookup", identity |-> i, for |-> None, email |-> e])
    /\ UNCHANGED <<rows, flows, history>>

-----------------------------------------------------------------------------
(* handleGoogleIdentity and handleAppleIdentity *)

\* Linking: a row that is there already, whosever it is, ends the request.
LookupToLink(w) ==
    LET r == request[w] IN
    /\ r.step = "lookup" /\ r.for # None
    /\ link[r.identity] = None
    /\ Serve(w, [step |-> "link", identity |-> r.identity, user |-> r.for])
    /\ UNCHANGED <<rows, flows, history>>

LookupToEnter(w) ==
    LET r == request[w] IN
    /\ r.step = "lookup" /\ r.for = None
    /\ Serve(w, IF link[r.identity] = None
                THEN [step |-> "email", identity |-> r.identity, email |-> r.email]
                ELSE [step |-> "session", user |-> link[r.identity]])
    /\ UNCHANGED <<rows, flows, history>>

\* MUTANT of LinkedByEmail: Google is treated like Apple.
LinkedByAnyEmail(i, e) == WithEmail(e)

\* The user whom the address alone makes the owner of i.
LinkedByEmail(i, e) == IF i \in AppleIds THEN WithEmail(e) ELSE {}

\* An address that is taken ends a Google sign-in (account_exists_link_required).
LookupEmail(w) ==
    LET r == request[w] IN
    /\ r.step = "email"
    /\ \/ \E u \in LinkedByEmail(r.identity, r.email) :
            Serve(w, [step |-> "link", identity |-> r.identity, user |-> u])
       \/ /\ WithEmail(r.email) = {}
          /\ Serve(w, [step |-> "signup", identity |-> r.identity, email |-> r.email])
    /\ UNCHANGED <<rows, flows, history>>

\* MUTANT of Unlinked: the pair is not unique, and the row changes hands.
UnlinkedUnconstrained(i) == TRUE

\* OAuthAccount's provider and providerAccountId are unique together.
Unlinked(i) == link[i] = None

\* Linking stops here; Apple goes on to a session.
AfterLink(r) ==
    IF r.identity \in GoogleIds THEN Idle ELSE [step |-> "session", user |-> r.user]

SaveLink(w) ==
    LET r == request[w] IN
    /\ r.step = "link"
    /\ Unlinked(r.identity)
    /\ link' = [link EXCEPT ![r.identity] = r.user]
    /\ doubled' = IF r.identity \in GoogleIds /\ GoogleLinksOf(r.user) # {}
                  THEN doubled \cup {r.user} ELSE doubled
    /\ Serve(w, AfterLink(r))
    /\ UNCHANGED <<users, account, sessions, flows, starters, creator>>

\* The user and the link are created by one statement.
SignUp(w) ==
    LET r == request[w] IN
    /\ r.step = "signup"
    /\ Unused(None, r.email) /\ Unlinked(r.identity)
    /\ \E u \in Users \ users :
        /\ users' = users \cup {u}
        /\ account' = [account EXCEPT ![u] =
                         [phone |-> None, email |-> r.email, password |-> FALSE]]
        /\ link' = [link EXCEPT ![r.identity] = u]
        /\ creator' = [creator EXCEPT ![u] = r.identity]
        /\ Serve(w, [step |-> "session", user |-> u])
    /\ UNCHANGED <<sessions, flows, starters, doubled>>

-----------------------------------------------------------------------------
(* unlinkGoogle *)

\* MUTANT of MayUnlink: counts what is left, not what is there.
MayUnlinkLast(u) == account[u].password \/ Cardinality(LinksOf(u)) >= 1

\* No row of either provider but the last one.
MayUnlink(u) == account[u].password \/ Cardinality(LinksOf(u)) > 1

UnlinkGoogle(w, u) ==
    /\ request[w] = Idle
    /\ u \in SignedIn
    /\ GoogleLinksOf(u) # {}
    /\ MayUnlink(u)
    /\ Serve(w, [step |-> "unlink", user |-> u])
    /\ UNCHANGED <<rows, flows, history>>

\* deleteMany: every Google account of the user.
DeleteGoogleLinks(w) ==
    LET u == request[w].user IN
    /\ request[w].step = "unlink"
    /\ link' = [i \in Identities |-> IF i \in GoogleLinksOf(u) THEN None ELSE link[i]]
    /\ Finish(w)
    /\ UNCHANGED <<users, account, sessions, flows, history>>

-----------------------------------------------------------------------------
\* A check refuses, a unique column is taken, a call throws, the process dies.
Abandon(w) ==
    /\ request[w] # Idle
    /\ Finish(w)
    /\ UNCHANGED <<rows, flows, history>>

Next ==
    \/ \E w \in Workers :
        \/ \E p \in Phones :
            \/ PhoneLogin(w, p)
            \/ \E e \in Emails \cup {None} : Register(w, p, e) \/ CreateDriverUser(w, p, e)
        \/ \E u \in Users : Login(w, u) \/ UnlinkGoogle(w, u)
        \/ \E i \in GoogleIds :
            \/ NativeGoogleAuth(w, i)
            \/ \E v \in Users \cup {None} : GoogleCallback(w, v, i)
        \/ \E i \in AppleIds : NativeAppleAuth(w, i)
        \/ CreateUser(w) \/ OpenSession(w)
        \/ LookupToLink(w) \/ LookupToEnter(w) \/ LookupEmail(w)
        \/ SaveLink(w) \/ SignUp(w) \/ DeleteGoogleLinks(w)
        \/ Abandon(w)
    \/ \E u \in Users : Logout(u) \/ GoogleAuth(u) \/ StateExpires(u)

Spec == Init /\ [][Next]_vars

-----------------------------------------------------------------------------
(* Properties *)

\* Nobody is locked out, except a user who had two Google accounts linked: the check
\* counts accounts and the delete takes all that are Google's.  No race of unlinking,
\* linking and signing up adds to them, though the delete relies on a count taken a
\* query earlier (unlinkGoogle, "Prevent account lockout").
WayInKept ==
    \A u \in users : account[u].password \/ LinksOf(u) # {} \/ u \in doubled

\* A Google account opens no account on the strength of its e-mail address: it is
\* linked to the user it created or to one who, signed in, asked for it, however
\* Apple's sign-in links by that address meanwhile (docs/google-auth.md 3.1).
NoSilentGoogleLink ==
    \A i \in GoogleIds : link[i] # None => creator[link[i]] = i \/ link[i] \in starters

\* An identity never passes from one user to another in one step, however many
\* requests looked it up while it was free (handleGoogleIdentity, "already linked
\* to another customer account").
LinksAreNotTaken ==
    [][\A i \in Identities : link[i] # None => link'[i] \in {link[i], None}]_vars

(* What the proof needs besides. *)

\* Links and sessions are of users that exist.
RowsAreOfUsers ==
    /\ \A i \in Identities : link[i] # None => link[i] \in users
    /\ \A u \in Users \ users : sessions[u] = 0
    /\ flows \subseteq starters
    /\ starters \subseteq users

\* Two rows share neither number nor address.
UsersAreDistinct ==
    \A u, v \in users : u # v =>
        /\ account[u].phone # None => account[u].phone # account[v].phone
        /\ account[u].email # None => account[u].email # account[v].email

\* What a waiting request relies on stays true: a user who may unlink has a password
\* or an Apple account, which nothing unlinks, or had two of Google's.
SoundRequest(r) ==
    /\ r.step = "lookup" => r.for = None \/ (r.for \in starters /\ r.identity \in GoogleIds)
    /\ r.step = "link" => /\ r.user \in users
                          /\ r.identity \in GoogleIds => r.user \in starters
    /\ r.step \in {"session", "unlink"} => r.user \in users
    /\ r.step = "unlink" => \/ account[r.user].password
                            \/ \E i \in AppleIds : link[i] = r.user
                            \/ r.user \in doubled

RequestsAreSound == \A w \in Workers : SoundRequest(request[w])

\* More than one Google account of a user is noted.
DoublesAreNoted ==
    \A i, j \in GoogleIds : i # j /\ link[i] # None /\ link[i] = link[j] => link[i] \in doubled

\* The inductive invariant behind the three: rows, history and waiting requests
\* agree on who is who.
AccountsInv ==
    /\ TypeOK
    /\ RowsAreOfUsers
    /\ UsersAreDistinct
    /\ RequestsAreSound
    /\ DoublesAreNoted
    /\ WayInKept
    /\ NoSilentGoogleLink
=============================================================================
