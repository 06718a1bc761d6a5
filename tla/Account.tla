------------------------------- MODULE Account -------------------------------
(***************************************************************************)
(* Who a browser is signed in as.  The API's accounts (apps/api/src/auth): *)
(* a guest's at once, a social identity's by the round trip to its         *)
(* provider, which upgrades the guest's account in place.  The browser's   *)
(* tabs (SessionProvider, the callback page, the session store): each has  *)
(* its own copy of a session that all of them keep in one local storage.   *)
(* A token is the number of the account it was signed for.                 *)
(***************************************************************************)
EXTENDS Naturals, Sequences, FiniteSets

CONSTANTS
  Identities,   \* (provider, subject) pairs, all of the browser's user
  Guest,        \* the identity of an account that has none yet
  Tabs,
  MaxAccounts, MaxLogins, MaxFailures   \* bounds

ASSUME AccountAssumption == Guest \notin Identities /\ MaxAccounts \in Nat

VARIABLES
  users,        \* the identity of each account
  login,        \* per tab, the sign-in that will bring it back
  tab,          \* per tab, its page, its session and its calls in flight
  stored,       \* the session in local storage
  told,         \* ghost: <<identity, account>> of every sign-in answered
  shared,       \* ghost: guests that two sign-ins meant to upgrade at a time
  failures, logins

accountVars == <<users, login, tab, stored, told, shared, failures, logins>>

NoAccount == 0       \* no token, no profile
NoLogin == [at |-> "none"]
Done == [at |-> "done", token |-> NoAccount]
SignedOut == [token |-> NoAccount, profile |-> NoAccount]
Closed == [page |-> "closed", session |-> SignedOut, init |-> Done, refresh |-> Done,
           landed |-> NoAccount, unlucky |-> FALSE]

InitAccount ==
  /\ users = <<>>
  /\ login = [b \in Tabs |-> NoLogin]
  /\ tab = [b \in Tabs |-> Closed]
  /\ stored = SignedOut
  /\ told = {} /\ shared = {}
  /\ failures = 0 /\ logins = 0

Holders(i) == {u \in DOMAIN users : users[u] = i}
New == Len(users) + 1
Calling(token) == [at |-> "me", token |-> token]

\* Every write of a tab's session goes to local storage as well.
Save(b, t) == tab' = [tab EXCEPT ![b] = t] /\ stored' = t.session

\* A call that is never answered, or is answered with an error.
Fails(b) == failures < MaxFailures /\ failures' = failures + 1

-----------------------------------------------------------------------------
(* The API.  A provider's callback, in steps that end at an await.         *)
Answer(b, u) ==
  /\ login' = [login EXCEPT ![b] = [at |-> "answered", token |-> u]]
  /\ told' = told \cup {<<login[b].who, u>>}

ServerOnly == UNCHANGED <<tab, stored, failures, logins>>

FindIdentity(b) ==
  /\ login[b].at = "callback"
  /\ IF Holders(login[b].who) # {}
     THEN \E u \in Holders(login[b].who) : Answer(b, u)
     ELSE /\ login' = [login EXCEPT ![b].at = IF login[b].upgrade = NoAccount THEN "upsert" ELSE "guest"]
          /\ UNCHANGED told
  /\ UNCHANGED <<users, shared>> /\ ServerOnly

CanUpgrade(u) == users[u] = Guest

ReadGuest(b) ==
  /\ login[b].at = "guest"
  /\ LET u == login[b].upgrade  others == {c \in Tabs \ {b} : login[c].at = "update" /\ login[c].upgrade = u}
     IN /\ login' = [login EXCEPT ![b].at = IF CanUpgrade(u) THEN "update" ELSE "upsert"]
        /\ shared' = IF CanUpgrade(u) /\ others # {} THEN shared \cup {u} ELSE shared
  /\ UNCHANGED <<users, told>> /\ ServerOnly

\* The row is found by its id: another sign-in may have upgraded it since.
Upgrade(b) ==
  /\ login[b].at = "update"
  /\ IF Holders(login[b].who) \subseteq {login[b].upgrade}
     THEN /\ users' = [users EXCEPT ![login[b].upgrade] = login[b].who]
          /\ Answer(b, login[b].upgrade)
     ELSE login' = [login EXCEPT ![b] = NoLogin] /\ UNCHANGED <<users, told>>   \* not unique
  /\ UNCHANGED shared /\ ServerOnly

Upsert(b) ==
  /\ login[b].at = "upsert"
  /\ IF Holders(login[b].who) # {}
     THEN UNCHANGED users /\ \E u \in Holders(login[b].who) : Answer(b, u)
     ELSE /\ New <= MaxAccounts /\ users' = Append(users, login[b].who)
          /\ Answer(b, New)
  /\ UNCHANGED shared /\ ServerOnly

\* The provider refuses the code, or its answer names nobody.
ExchangeFails(b) == login[b].at = "callback"

\* Nothing is written then, nor when a query fails.
CallbackFails(b) ==
  /\ ExchangeFails(b) \/ login[b].at \in {"guest", "update", "upsert"}
  /\ Fails(b)
  /\ login' = [login EXCEPT ![b] = NoLogin]
  /\ UNCHANGED <<users, tab, stored, told, shared, logins>>

-----------------------------------------------------------------------------
(* A tab.  A page that loads takes the session from local storage, and its *)
(* SessionProvider refreshes the profile or makes a guest.                 *)
Starting(session, page) ==
  [Closed EXCEPT !.page = page, !.session = session,
                 !.init = IF session.token = NoAccount THEN [at |-> "guest", token |-> NoAccount] ELSE Calling(session.token)]

Load(b) ==
  /\ login[b] = NoLogin
  /\ tab' = [tab EXCEPT ![b] = Starting(stored, "app")]
  /\ UNCHANGED <<users, login, stored, told, shared, failures, logins>>

Awaits(b, slot, at) == tab[b].page # "closed" /\ tab[b][slot].at = at
TabOnly == UNCHANGED <<login, told, shared, logins>>

\* setProfile keeps the token, setSession writes both.
InitProfile(b) ==
  /\ Awaits(b, "init", "me")
  /\ Save(b, [tab[b] EXCEPT !.session.profile = tab[b].init.token, !.init = Done])
  /\ UNCHANGED <<users, failures>> /\ TabOnly

InitFails(b) ==
  /\ Awaits(b, "init", "me") /\ Fails(b)
  /\ Save(b, [tab[b] EXCEPT !.session = SignedOut, !.init = [at |-> "guest", token |-> NoAccount], !.unlucky = TRUE])
  /\ UNCHANGED users /\ TabOnly

\* createGuestSession, which tries five handles, and the token is stored.
MakeGuest(b) ==
  /\ Awaits(b, "init", "guest") /\ New <= MaxAccounts
  /\ users' = Append(users, Guest)
  /\ Save(b, [tab[b] EXCEPT !.session.token = New, !.init = [at |-> "guest me", token |-> New]])
  /\ UNCHANGED failures /\ TabOnly

GuestProfile(b) ==
  /\ Awaits(b, "init", "guest me")
  /\ Save(b, [tab[b] EXCEPT !.session = [token |-> tab[b].init.token, profile |-> tab[b].init.token], !.init = Done])
  /\ UNCHANGED <<users, failures>> /\ TabOnly

\* Offline: the session stays as it is.  An account may have been made all the same.
GuestFails(b) ==
  /\ tab[b].page # "closed" /\ tab[b].init.at \in {"guest", "guest me"} /\ Fails(b)
  /\ tab' = [tab EXCEPT ![b].init = Done, ![b].unlucky = TRUE]
  /\ users' \in {users} \cup IF tab[b].init.at = "guest" /\ New <= MaxAccounts THEN {Append(users, Guest)} ELSE {}
  /\ UNCHANGED stored /\ TabOnly

\* A purchase or a race asks for the profile again.
Refresh(b) ==
  /\ tab[b].page = "app" /\ tab[b].refresh = Done /\ tab[b].session.token # NoAccount
  /\ tab' = [tab EXCEPT ![b].refresh = Calling(tab[b].session.token)]
  /\ UNCHANGED <<users, stored, failures>> /\ TabOnly

Refreshed(b) ==
  /\ Awaits(b, "refresh", "me")
  /\ Save(b, [tab[b] EXCEPT !.session.profile = tab[b].refresh.token, !.refresh = Done])
  /\ UNCHANGED <<users, failures>> /\ TabOnly

\* The links are there for a profile that says "guest"; the state carries the token's account.
SignIn(b, i) ==
  /\ tab[b].page = "app" /\ login[b] = NoLogin /\ logins < MaxLogins
  /\ tab[b].session.profile # NoAccount /\ users[tab[b].session.profile] = Guest
  /\ login' = [login EXCEPT ![b] = [at |-> "callback", who |-> i, upgrade |-> tab[b].session.token]]
  /\ tab' = [tab EXCEPT ![b] = Closed]
  /\ logins' = logins + 1
  /\ UNCHANGED <<users, stored, told, shared, failures>>

\* Mutant of Landing: the token is stored with the profile, not before it is asked for.
LandingLate(token) ==
  [Starting(stored, "callback") EXCEPT !.refresh = Calling(stored.token), !.landed = token]

\* The landing page's effect runs before that of SessionProvider around it: both ask for
\* the profile under the new token, unless the page found no token to begin with.
Landing(token) ==
  LET t == Starting(stored, "callback")
  IN [t EXCEPT !.session.token = token, !.refresh = Calling(token), !.landed = token,
               !.init = IF stored.token = NoAccount THEN @ ELSE Calling(token),
               !.unlucky = stored.token = NoAccount]

Land(b) ==
  /\ login[b].at = "answered"
  /\ Save(b, Landing(login[b].token))
  /\ login' = [login EXCEPT ![b] = NoLogin]
  /\ UNCHANGED <<users, told, shared, failures, logins>>

\* setSession, and home.
Landed(b) ==
  /\ tab[b].page = "callback" /\ tab[b].refresh # Done
  /\ Save(b, [tab[b] EXCEPT !.session = [token |-> tab[b].landed, profile |-> tab[b].refresh.token],
                            !.refresh = Done, !.page = "app"])
  /\ UNCHANGED <<users, failures>> /\ TabOnly

\* The profile could not be loaded: the callback page stays and says so.
RefreshFails(b) ==
  /\ Awaits(b, "refresh", "me") /\ Fails(b)
  /\ tab' = [tab EXCEPT ![b].refresh = Done, ![b].unlucky = TRUE]
  /\ UNCHANGED <<users, stored>> /\ TabOnly

NextAccount ==
  \E b \in Tabs :
    \/ FindIdentity(b) \/ ReadGuest(b) \/ Upgrade(b) \/ Upsert(b) \/ CallbackFails(b)
    \/ Load(b) \/ InitProfile(b) \/ InitFails(b) \/ MakeGuest(b) \/ GuestProfile(b) \/ GuestFails(b)
    \/ Refresh(b) \/ (tab[b].page = "app" /\ Refreshed(b)) \/ RefreshFails(b)
    \/ (\E i \in Identities : SignIn(b, i)) \/ Land(b) \/ Landed(b)

SpecAccount == InitAccount /\ [][NextAccount]_accountVars

-----------------------------------------------------------------------------
AtRest(b) == tab[b].page # "closed" /\ tab[b].init = Done /\ tab[b].refresh = Done

\* Loses no progress (auth.service.ts, on its class): an identity that was signed in as
\* an account goes on holding it, unless two sign-ins raced to upgrade one guest.
IdentityKept == \A a \in told : users[a[2]] = a[1] \/ a[2] \in shared

\* A tab none of whose calls failed shows the profile of the account it acts as, and after
\* a sign-in that is the account signed in to, whatever SessionProvider did meanwhile.
SessionIsOwn ==
  \A b \in Tabs : AtRest(b) /\ ~tab[b].unlucky =>
    /\ tab[b].session.profile = tab[b].session.token
    /\ tab[b].landed # NoAccount => tab[b].session.token = tab[b].landed

AccountTypeOK ==
  /\ users \in Seq(Identities \cup {Guest}) /\ Len(users) <= MaxAccounts
  /\ \A i \in Identities : Cardinality(Holders(i)) <= 1
  /\ \A b \in Tabs : tab[b].session.token \in 0..Len(users) /\ tab[b].session.profile \in 0..Len(users)

\* Signed in for good: see its conjuncts.
AccountInv == AccountTypeOK /\ IdentityKept /\ SessionIsOwn
=============================================================================
