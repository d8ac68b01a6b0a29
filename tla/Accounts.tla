------------------------------ MODULE Accounts ------------------------------
(***************************************************************************)
(* Who a request is from, and whether it is the owner's (auth.go,          *)
(* bearer.go, owner.go).  Browsers hold a session cookie, televisions a    *)
(* token that the identity provider is asked about and whose answer is     *)
(* remembered.  Names can change hands at the provider, subjects cannot.   *)
(*                                                                         *)
(* Time is in ticks, each longer than bearerTimeout.                       *)
(***************************************************************************)
EXTENDS Naturals, FiniteSets

CONSTANTS
    Subjects,     \* accounts, by OIDC subject
    Owners,       \* YARRIT_OWNER_SUB
    Mailed,       \* who may carry an address of YARRIT_OWNER_EMAIL (EmailOK)
    Names,        \* preferred_username
    Browsers, Televisions,
    SubjectOf,    \* whose browser or television it is
    BearerTTL, SessionTTL,   \* bearerCacheTTL, sessionTTL, in ticks
    SecretKept,   \* SESSION_SECRET is set, so that cookies outlive the process
    Nobody,       \* no session
    MaxAway       \* bound: ticks after a revocation that are told apart

ASSUME AccountsAssumption ==
    /\ Owners \cup Mailed \subseteq Subjects /\ Browsers \cap Televisions = {}
    /\ SubjectOf \in [Browsers \cup Televisions -> Subjects]
    /\ Cardinality(Names) > Cardinality(Subjects)
    /\ BearerTTL \in Nat \ {0} /\ SessionTTL \in Nat
    /\ SecretKept \in BOOLEAN
    /\ MaxAway \in Nat /\ MaxAway > BearerTTL + 1

Clients == Browsers \cup Televisions
Sessions == [sub : Subjects, name : Names, mail : BOOLEAN]

VARIABLES
    name,      \* external: the name of each account
    approved,  \* external: the televisions whose token is good
    away,      \* history: ticks since that was so
    cookie,    \* per browser: its session and the ticks it has left
    bearer,    \* bearerCache, likewise
    request    \* per client: how far its request to an owner's route is

accountVars == <<name, approved, away, cookie, bearer, request>>

Empty == [sess |-> Nobody, left |-> 0]
Idle == [at |-> "idle", sess |-> Nobody, old |-> FALSE, passed |-> FALSE]

AccountsInit ==
    /\ name \in {f \in [Subjects -> Names] : \A a, b \in Subjects : a # b => f[a] # f[b]}
    /\ approved = Televisions
    /\ away = [t \in Televisions |-> 0]
    /\ cookie = [b \in Browsers |-> Empty]
    /\ bearer = [t \in Televisions |-> Empty]
    /\ request = [c \in Clients |-> Idle]

-----------------------------------------------------------------------------
(* The provider.                                                           *)

\* Who the provider may say holds this credential; an address comes and goes.
Claims(c) ==
    {s \in Sessions : /\ s.sub = SubjectOf[c] /\ s.name = name[SubjectOf[c]]
                      /\ s.mail => s.sub \in Mailed}

Rename(a, n) ==
    /\ \A b \in Subjects : name[b] # n
    /\ name' = [name EXCEPT ![a] = n]
    /\ UNCHANGED <<approved, away, cookie, bearer, request>>

Revoke(t) ==
    /\ approved' = approved \ {t}
    /\ UNCHANGED <<name, away, cookie, bearer, request>>

Approve(t) ==
    /\ approved' = approved \cup {t}
    /\ away' = [away EXCEPT ![t] = 0]
    /\ UNCHANGED <<name, cookie, bearer, request>>

-----------------------------------------------------------------------------
(* Sessions.                                                               *)

\* handleLogin to the end of handleCallback; what fails on the way sets nothing.
SignIn(b) ==
    /\ \E s \in Claims(b) : cookie' = [cookie EXCEPT ![b] = [sess |-> s, left |-> SessionTTL]]
    /\ UNCHANGED <<name, approved, away, bearer, request>>

SignOut(b) ==
    /\ cookie' = [cookie EXCEPT ![b] = Empty]
    /\ UNCHANGED <<name, approved, away, bearer, request>>

\* sessionFrom, as far as it needs no network.
\* (slip: an entry is used whatever its age)
KnownForever(c) == IF c \in Browsers THEN cookie[c].sess ELSE bearer[c].sess
Known(c) ==
    LET held == IF c \in Browsers THEN cookie[c] ELSE bearer[c]
    IN  IF held.left > 0 THEN held.sess ELSE Nobody

\* matches: by the subject or the verified address, never the name.
Matches(s) == s # Nobody /\ (s.sub \in Owners \/ s.mail)

\* requireOwnerUser: isOwner reads the session, then it is read again for the
\* name the rows are stored under.  ownerNotFound answers whatever goes wrong.
Decide(c, s) ==
    LET first == ~request[c].passed IN
    request' = [request EXCEPT ![c] =
        IF first /\ Matches(s) THEN [Idle EXCEPT !.at = "reading", !.passed = TRUE]
        ELSE IF ~first /\ s # Nobody THEN [Idle EXCEPT !.at = "granted"]
        ELSE Idle]

Ask(c) ==
    /\ request[c].at = "idle"
    /\ request' = [request EXCEPT ![c].at = "reading"]
    /\ UNCHANGED <<name, approved, away, cookie, bearer>>

\* sessionFrom finds the session, or finds none and has no token to ask about.
ReadSession(c) ==
    /\ request[c].at = "reading"
    /\ Known(c) # Nobody \/ c \in Browsers
    /\ Decide(c, Known(c))
    /\ UNCHANGED <<name, approved, away, cookie, bearer>>

\* sessionFromBearer: the provider looks at the token ...
Userinfo(t) ==
    /\ request[t].at = "reading" /\ Known(t) = Nobody
    /\ \E s \in IF t \in approved THEN Claims(t) ELSE {Nobody} :
          request' = [request EXCEPT ![t].at = "answered", ![t].sess = s]
    /\ UNCHANGED <<name, approved, away, cookie, bearer>>

\* ... and its answer arrives, or does not.  Rejections are not remembered.
UserinfoArrives(t, s) ==
    /\ request[t].at = "answered"
    /\ s \in {request[t].sess, Nobody}
    /\ bearer' = IF s = Nobody THEN bearer
                 ELSE [bearer EXCEPT ![t] = [sess |-> s, left |-> BearerTTL]]
    /\ Decide(t, s)
    /\ UNCHANGED <<name, approved, away, cookie>>

\* The route's handler, for the user of that session.
Serve(c) ==
    /\ request[c].at = "granted"
    /\ request' = [request EXCEPT ![c] = Idle]
    /\ UNCHANGED <<name, approved, away, cookie, bearer>>

\* A request in flight is over before it is two ticks old.
AccountsTick ==
    /\ \A c \in Clients : ~request[c].old
    /\ request' = [c \in Clients |-> [request[c] EXCEPT !.old = request[c].at # "idle"]]
    /\ away' = [t \in Televisions |->
                   IF t \in approved \/ away[t] = MaxAway THEN away[t] ELSE away[t] + 1]
    /\ cookie' = [b \in Browsers |-> [cookie[b] EXCEPT !.left = IF @ > 0 THEN @ - 1 ELSE 0]]
    /\ bearer' = [t \in Televisions |-> [bearer[t] EXCEPT !.left = IF @ > 0 THEN @ - 1 ELSE 0]]
    /\ UNCHANGED <<name, approved>>

\* The process starts again: the cache is gone, and without SESSION_SECRET no
\* cookie it issued is worth anything.
AccountsRestart ==
    /\ bearer' = [t \in Televisions |-> Empty]
    /\ cookie' = IF SecretKept THEN cookie ELSE [b \in Browsers |-> Empty]
    /\ request' = [c \in Clients |-> Idle]
    /\ UNCHANGED <<name, approved, away>>

AccountsNext ==
    \/ \E a \in Subjects, n \in Names : Rename(a, n)
    \/ \E t \in Televisions :
          \/ Revoke(t) \/ Approve(t) \/ Userinfo(t)
          \/ \E s \in Sessions \cup {Nobody} : UserinfoArrives(t, s)
    \/ \E b \in Browsers : SignIn(b) \/ SignOut(b)
    \/ \E c \in Clients : Ask(c) \/ ReadSession(c) \/ Serve(c)
    \/ AccountsTick \/ AccountsRestart

AccountsSpec == AccountsInit /\ [][AccountsNext]_accountVars

-----------------------------------------------------------------------------
AccountsTypeOK ==
    /\ name \in [Subjects -> Names]
    /\ approved \subseteq Televisions
    /\ away \in [Televisions -> 0..MaxAway]
    /\ cookie \in [Browsers -> [sess : Sessions \cup {Nobody}, left : 0..SessionTTL]]
    /\ bearer \in [Televisions -> [sess : Sessions \cup {Nobody}, left : 0..BearerTTL]]
    /\ request \in [Clients -> [at : {"idle", "reading", "answered", "granted"}, old : BOOLEAN,
                                sess : Sessions \cup {Nobody}, passed : BOOLEAN]]

\* bearerCacheTTL: "Short enough that a revoked token stops working promptly".
\* Whichever answers were in flight and whatever was remembered, a token is let
\* through for no longer than the memory of an answer and the answer's journey.
RevokedTokenStopsWorking ==
    [][\A t \in Televisions : away[t] > BearerTTL + 1 => request'[t].at # "granted"]_accountVars
=============================================================================
