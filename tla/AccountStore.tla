---------------------------- MODULE AccountStore ----------------------------
(***************************************************************************)
(* AccountStore of gitmesh-accounts behind gitmeshd's ACCOUNT_, SESSION_   *)
(* and REPO_ commands: profiles, login sessions and registered repositories *)
(* in one store and one file.                                              *)
(*                                                                         *)
(* A profile is its account id and its three texts, of which only whether  *)
(* they are well formed matters.  A session's token and id are its number: *)
(* both are random, so no two are the same.                                *)
(***************************************************************************)
EXTENDS Naturals, FiniteSets, StoreFile

CONSTANTS
    Usernames, AccountIds, RepoNames,
    NoProfile,
    MaxSessions,      \* bound on the sessions that are issued
    MaxClock,         \* bound on the clock
    Ttl,              \* the time to live clients ask for
    Updates           \* the profile updates they send: new texts of some fields

(* display_name, bio and avatar_uri, in the order update_profile looks at  *)
(* them.                                                                   *)
Fields == 1..3

Texts == {"empty", "text", "malformed"}

Profile == [account: AccountIds, texts: [Fields -> Texts]]

ASSUME AccountAssumption ==
    /\ Ttl \in Nat \ {0}
    /\ NoProfile \notin Profile
    /\ \A update \in Updates :
          DOMAIN update \subseteq Fields /\ \A f \in DOMAIN update : update[f] \in Texts

Session == [id: Nat, user: Usernames, expires: Nat, revoked: BOOLEAN]

AccountData ==
    [profiles: [Usernames -> Profile \cup {NoProfile}], sessions: SUBSET Session,
     repositories: SUBSET (Usernames \X RepoNames)]

VARIABLES
    accounts,       \* [profiles, sessions, repositories]: the store in memory
    accountFile,    \* the file
    issued,         \* how many sessions were ever issued
    answered,       \* sessions clients were given, and those they revoked
    time

accountVars == <<accounts, accountFile, issued, answered, time>>

EmptyAccounts ==
    [profiles |-> [u \in Usernames |-> NoProfile], sessions |-> {}, repositories |-> {}]

AccountsInit ==
    /\ accounts = EmptyAccounts
    /\ accountFile = EmptyAccounts
    /\ issued = 0
    /\ answered = [given |-> {}, revoked |-> {}]
    /\ time = 0

HasProfile(store, u) == store.profiles[u] # NoProfile

(* save_to_path, at the end of a command                                   *)
SaveAccounts == accountFile' \in Saving(accountFile, accounts')

-----------------------------------------------------------------------------
\* Two users may have the same account.
CreateProfile_Bug(u, account) ==
    /\ ~ HasProfile(accounts, u)
    /\ accounts' = [accounts EXCEPT !.profiles[u] =
           [account |-> account, texts |-> [f \in Fields |-> "empty"]]]

(* create_profile: neither the name nor the account may have a profile.    *)
CreateProfile(u, account) ==
    /\ ~ HasProfile(accounts, u)
    /\ \A v \in Usernames : HasProfile(accounts, v) => accounts.profiles[v].account # account
    /\ accounts' = [accounts EXCEPT !.profiles[u] =
           [account |-> account, texts |-> [f \in Fields |-> "empty"]]]

(* ACCOUNT_CREATE *)
AccountCreate(u, account) ==
    /\ CreateProfile(u, account)
    /\ SaveAccounts
    /\ UNCHANGED <<issued, answered, time>>

(* update_profile: the fields are set one after the other, and the first   *)
(* malformed one ends it.                                                  *)
Updated(texts, update) ==
    [f \in Fields |->
        IF f \in DOMAIN update /\ \A g \in DOMAIN update : g <= f => update[g] # "malformed"
        THEN update[f] ELSE texts[f]]

(* ACCOUNT_UPDATE_PROFILE: nothing is saved when a field was malformed, but *)
(* the fields before it are set.                                           *)
AccountUpdateProfile(u, update) ==
    /\ HasProfile(accounts, u)
    /\ accounts' = [accounts EXCEPT !.profiles[u].texts = Updated(@, update)]
    /\ IF \E f \in DOMAIN update : update[f] = "malformed"
       THEN UNCHANGED accountFile ELSE SaveAccounts
    /\ UNCHANGED <<issued, answered, time>>

AnswerSession(session) ==
    answered' = IF accountFile' = accounts'
                THEN [answered EXCEPT !.given = @ \cup {session}] ELSE answered

(* SESSION_ISSUE *)
SessionIssue(u) ==
    /\ issued < MaxSessions
    /\ HasProfile(accounts, u)
    /\ LET session == [id |-> issued + 1, user |-> u, expires |-> time + Ttl, revoked |-> FALSE]
       IN  /\ accounts' = [accounts EXCEPT !.sessions = @ \cup {session}]
           /\ SaveAccounts
           /\ AnswerSession(session)
    /\ issued' = issued + 1
    /\ UNCHANGED time

(* authenticate_session *)
Authenticates(store, id) ==
    \E s \in store.sessions : s.id = id /\ ~ s.revoked /\ time < s.expires

(* SESSION_AUTH asks the store in memory.                                  *)
SessionAuth(id) == Authenticates(accounts, id)

RevokeSession(id) ==
    /\ \E s \in accounts.sessions : s.id = id
    /\ accounts' = [accounts EXCEPT !.sessions =
           {IF s.id = id THEN [s EXCEPT !.revoked = TRUE] ELSE s : s \in @}]

\* The answer does not wait for the file.
AnswerRevoked_Bug(id) ==
    answered' = [given |-> {s \in answered.given : s.id # id},
                 revoked |-> answered.revoked \cup {id}]

AnswerRevoked(id) ==
    answered' = [given |-> {s \in answered.given : s.id # id},
                 revoked |-> answered.revoked \cup
                                 (IF accountFile' = accounts' THEN {id} ELSE {})]

(* SESSION_REVOKE *)
SessionRevoke(id) ==
    /\ RevokeSession(id)
    /\ SaveAccounts
    /\ AnswerRevoked(id)
    /\ UNCHANGED <<issued, time>>

RegisterRepository(u, name) ==
    /\ HasProfile(accounts, u)
    /\ <<u, name>> \notin accounts.repositories
    /\ accounts' = [accounts EXCEPT !.repositories = @ \cup {<<u, name>>}]

(* REPO_REGISTER *)
RepoRegister(u, name) ==
    /\ RegisterRepository(u, name)
    /\ SaveAccounts
    /\ UNCHANGED <<issued, answered, time>>

(* from_snapshot refuses the file as a whole if a name or an account has   *)
(* two profiles, or a session or a repository belongs to none.             *)
AccountsLoad(file) ==
    /\ \A u, v \in Usernames :
          u # v /\ HasProfile(file, u) /\ HasProfile(file, v)
          => file.profiles[u].account # file.profiles[v].account
    /\ \A s \in file.sessions : HasProfile(file, s.user)
    /\ \A s, t \in file.sessions : s.id = t.id => s = t
    /\ \A r \in file.repositories : HasProfile(file, r[1])

AccountsRestart ==
    /\ AccountsLoad(accountFile)
    /\ accounts' = accountFile
    /\ UNCHANGED <<accountFile, issued, answered, time>>

Elapse ==
    /\ time < MaxClock
    /\ time' = time + 1
    /\ UNCHANGED <<accounts, accountFile, issued, answered>>

AccountsNext ==
    \/ \E u \in Usernames, account \in AccountIds : AccountCreate(u, account)
    \/ \E u \in Usernames, update \in Updates : AccountUpdateProfile(u, update)
    \/ \E u \in Usernames : SessionIssue(u)
    \/ \E id \in 1..issued : SessionRevoke(id)
    \/ \E u \in Usernames, name \in RepoNames : RepoRegister(u, name)
    \/ AccountsRestart
    \/ Elapse

AccountsSpec == AccountsInit /\ [][AccountsNext]_accountVars

-----------------------------------------------------------------------------
(* Properties. *)

(* The file is one from_snapshot loads, whichever command failed to save:  *)
(* a daemon that stopped can be started again.                             *)
AccountFileLoads == AccountsLoad(accountFile)

(* A session a client was answered authenticates until it expires or is    *)
(* revoked, through restarts and saves that fail; one whose revocation was *)
(* answered never does again.                                              *)
SessionsHonoured ==
    /\ \A s \in answered.given : time < s.expires => SessionAuth(s.id)
    /\ \A id \in answered.revoked : ~ SessionAuth(id)
=============================================================================
