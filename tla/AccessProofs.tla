---------------------------- MODULE AccessProofs ----------------------------
(***************************************************************************)
(* Who may do what.  For any repositories, devices, keys and epochs, and   *)
(* whichever saves fail: what KEY_GRANT_PUT and KEY_GRANT_REVOKE_DEVICE    *)
(* confirmed stands.  For any names, accounts, repositories, times to live *)
(* and profile updates: the account file loads, and sessions are as        *)
(* clients were told.                                                      *)
(*                                                                         *)
(* Both follow the same way.  What was confirmed is in the store and in    *)
(* the file; a command changes the store so that this stays true, and the  *)
(* file becomes the store or stays; a restart makes the store the file.    *)
(***************************************************************************)
EXTENDS KeyGrants, AccountStore, TLAPS

-----------------------------------------------------------------------------
(* Key grants. *)

(* What a store keeps of the revocations and grants that were confirmed.   *)

Upholds(store, revocations) == \A r \in revocations : store.revoked[r[1]] <= r[2]

OnePerSlot(store) == \A g, h \in store.grants : SameSlot(g, h) => g = h

(* A command that saves leaves a file that is the old or the new store.    *)
LEMMA SavingIsOldOrNew ==
    ASSUME NEW file, NEW store, NEW saved \in Saving(file, store)
    PROVE  saved = file \/ saved = store
  BY DEF Saving

LEMMA InsertGrantType ==
    ASSUME NEW store \in GrantStore, NEW grant \in Grant
    PROVE  /\ InsertGrant(store, grant) \in GrantStore
           /\ InsertGrant(store, grant).grants
                 = {g \in store.grants : ~ SameSlot(g, grant)} \cup {grant}
           /\ InsertGrant(store, grant).revoked = store.revoked
  BY DEF InsertGrant, GrantStore

LEMMA RevokeType ==
    ASSUME NEW store \in GrantStore, NEW device \in Devices, NEW epoch \in KeyEpochs, epoch # 0
    PROVE  LET after == RevokeDeviceFromEpoch(store, device, epoch)
           IN  /\ after \in GrantStore
               /\ after.grants = store.grants
               /\ after.revoked[device] <= epoch
               /\ \A d \in Devices : after.revoked[d] <= store.revoked[d]
  <1>1. /\ store.revoked[device] \in 1..NotRevoked
        /\ epoch \in 1..NotRevoked
    BY GrantAssumption DEF GrantStore, KeyEpochs, NotRevoked
  <1>2. NotRevoked \in Nat
    BY GrantAssumption DEF NotRevoked
  <1> QED
    BY <1>1, <1>2 DEF RevokeDeviceFromEpoch, GrantStore

-----------------------------------------------------------------------------
(* Types. *)

(* The store in memory, the file and what clients were told keep their     *)
(* types: in particular a revocation is from epoch 1 on.                   *)
THEOREM GrantsTypeCorrect == GrantsSpec => []GrantsTypeOK
  <1>1. GrantsInit => GrantsTypeOK
    BY GrantAssumption DEF GrantsInit, GrantsTypeOK, EmptyGrants, GrantStore, NotRevoked
  <1>2. GrantsTypeOK /\ [GrantsNext]_grantVars => GrantsTypeOK'
    <2> SUFFICES ASSUME GrantsTypeOK, [GrantsNext]_grantVars PROVE GrantsTypeOK'
      OBVIOUS
    <2>1. ASSUME NEW grant \in GrantsPut, KeyGrantPut(grant) PROVE GrantsTypeOK'
      <3>1. grant \in Grant
        BY GrantAssumption
      <3>2. keyGrants' \in GrantStore
        BY <2>1, <3>1, InsertGrantType DEF KeyGrantPut, GrantsTypeOK
      <3>3. grantFile' = grantFile \/ grantFile' = keyGrants'
        BY <2>1, SavingIsOldOrNew DEF KeyGrantPut
      <3>4. told' \in [grants: SUBSET Grant, revoked: SUBSET (Devices \X KeyEpochs)]
        BY <2>1, <3>1 DEF KeyGrantPut, GrantsTypeOK
      <3> QED
        BY <3>2, <3>3, <3>4 DEF GrantsTypeOK
    <2>2. ASSUME NEW r \in Revocations, KeyGrantRevokeDevice(r[1], r[2])
          PROVE  GrantsTypeOK'
      <3>1. r[1] \in Devices /\ r[2] \in KeyEpochs /\ r[2] # 0
        BY <2>2, GrantAssumption DEF KeyGrantRevokeDevice
      <3>2. keyGrants' \in GrantStore
        BY <2>2, <3>1, RevokeType DEF KeyGrantRevokeDevice, GrantsTypeOK
      <3>3. grantFile' = grantFile \/ grantFile' = keyGrants'
        BY <2>2, SavingIsOldOrNew DEF KeyGrantRevokeDevice
      <3>4. told' \in [grants: SUBSET Grant, revoked: SUBSET (Devices \X KeyEpochs)]
        BY <2>2, <3>1 DEF KeyGrantRevokeDevice, GrantsTypeOK
      <3> QED
        BY <3>2, <3>3, <3>4 DEF GrantsTypeOK
    <2>3. CASE GrantsRestart
      BY <2>3 DEF GrantsRestart, GrantsTypeOK
    <2>4. CASE UNCHANGED grantVars
      BY <2>4 DEF grantVars, GrantsTypeOK
    <2> QED
      BY <2>1, <2>2, <2>3, <2>4 DEF GrantsNext
  <1> QED
    BY <1>1, <1>2, PTL DEF GrantsSpec

-----------------------------------------------------------------------------
(* Revocations. *)

RevocationsUpheld ==
    /\ Upholds(keyGrants, told.revoked)
    /\ Upholds(grantFile, told.revoked)

LEMMA RevocationsUpheldStep ==
    ASSUME GrantsTypeOK, RevocationsUpheld, [GrantsNext]_grantVars
    PROVE  RevocationsUpheld'
  <1> USE DEF RevocationsUpheld
  <1>1. ASSUME NEW grant \in GrantsPut, KeyGrantPut(grant) PROVE RevocationsUpheld'
    <2>1. keyGrants'.revoked = keyGrants.revoked
      BY <1>1, GrantAssumption, InsertGrantType DEF KeyGrantPut, GrantsTypeOK
    <2>2. told'.revoked = told.revoked
      BY <1>1 DEF KeyGrantPut, GrantsTypeOK
    <2>3. grantFile' = grantFile \/ grantFile' = keyGrants'
      BY <1>1, SavingIsOldOrNew DEF KeyGrantPut
    <2> QED
      BY <2>1, <2>2, <2>3 DEF Upholds
  <1>2. ASSUME NEW r \in Revocations, KeyGrantRevokeDevice(r[1], r[2])
        PROVE  RevocationsUpheld'
    <2>1. r[1] \in Devices /\ r[2] \in KeyEpochs /\ r[2] # 0
      BY <1>2, GrantAssumption DEF KeyGrantRevokeDevice
    <2>2. /\ keyGrants'.revoked[r[1]] <= r[2]
          /\ \A d \in Devices : keyGrants'.revoked[d] <= keyGrants.revoked[d]
          /\ keyGrants' \in GrantStore
      BY <1>2, <2>1, RevokeType DEF KeyGrantRevokeDevice, GrantsTypeOK
    <2>3. \A q \in told.revoked : q[1] \in Devices /\ q[2] \in Nat
      BY GrantAssumption DEF GrantsTypeOK, KeyEpochs
    <2>4. \A d \in Devices : /\ keyGrants.revoked[d] \in Nat
                             /\ keyGrants'.revoked[d] \in Nat
      BY <2>2, GrantAssumption DEF GrantsTypeOK, GrantStore, NotRevoked
    <2>5. Upholds(keyGrants', told.revoked)
      BY <2>2, <2>3, <2>4 DEF Upholds
    <2>6. CASE grantFile' = keyGrants'
      <3>1. told'.revoked = told.revoked \cup {<<r[1], r[2]>>}
        BY <1>2, <2>6 DEF KeyGrantRevokeDevice, GrantsTypeOK
      <3> QED
        BY <2>2, <2>5, <2>6, <3>1 DEF Upholds
    <2>7. CASE grantFile' # keyGrants'
      <3>1. told' = told /\ grantFile' = grantFile
        BY <1>2, <2>7, SavingIsOldOrNew DEF KeyGrantRevokeDevice
      <3> QED
        BY <2>5, <3>1
    <2> QED
      BY <2>6, <2>7
  <1>3. CASE GrantsRestart
    BY <1>3 DEF GrantsRestart
  <1>4. CASE UNCHANGED grantVars
    BY <1>4 DEF grantVars
  <1> QED
    BY <1>1, <1>2, <1>3, <1>4 DEF GrantsNext

(* A revocation that was answered stands: the device is given no active    *)
(* grant of that epoch or a later one, by no order of commands, failing    *)
(* saves and restarts.                                                     *)
THEOREM RevocationsStand == GrantsSpec => []RevokedStayOut
  <1>1. GrantsInit => RevocationsUpheld
    BY DEF GrantsInit, RevocationsUpheld, Upholds
  <1>2. GrantsTypeOK /\ RevocationsUpheld => RevokedStayOut
    <2> SUFFICES ASSUME GrantsTypeOK, RevocationsUpheld,
                        NEW r \in told.revoked, NEW g \in ActiveGrants(keyGrants),
                        g.device = r[1]
                 PROVE  g.epoch < r[2]
      BY DEF RevokedStayOut
    <2>1. g \in Grant /\ ~ (g.epoch >= keyGrants.revoked[g.device])
      BY DEF ActiveGrants, IsRevoked, GrantsTypeOK, GrantStore
    <2>2. keyGrants.revoked[r[1]] <= r[2] /\ r[2] \in Nat /\ r[1] \in Devices
      BY GrantAssumption DEF RevocationsUpheld, Upholds, GrantsTypeOK, KeyEpochs
    <2>3. keyGrants.revoked[r[1]] \in Nat /\ g.epoch \in Nat
      BY <2>1, <2>2, GrantAssumption DEF GrantsTypeOK, GrantStore, NotRevoked, Grant, KeyEpochs
    <2> QED
      BY <2>1, <2>2, <2>3
  <1>3. GrantsTypeOK /\ RevocationsUpheld /\ [GrantsNext]_grantVars => RevocationsUpheld'
    BY RevocationsUpheldStep
  <1> QED
    BY <1>1, <1>2, <1>3, GrantsTypeCorrect, PTL DEF GrantsSpec

-----------------------------------------------------------------------------
(* Grants. *)

GrantsInBoth ==
    /\ told.grants \subseteq keyGrants.grants
    /\ told.grants \subseteq grantFile.grants
    /\ OnePerSlot(keyGrants)
    /\ OnePerSlot(grantFile)

(* A grant takes the place of the one of its repository, epoch and device. *)
LEMMA InsertGrantKeepsSlots ==
    ASSUME NEW store \in GrantStore, NEW grant \in Grant, OnePerSlot(store)
    PROVE  OnePerSlot(InsertGrant(store, grant))
  <1>1. InsertGrant(store, grant).grants
           = {g \in store.grants : ~ SameSlot(g, grant)} \cup {grant}
    BY InsertGrantType
  <1>2. SUFFICES ASSUME NEW g \in InsertGrant(store, grant).grants,
                        NEW h \in InsertGrant(store, grant).grants, SameSlot(g, h)
                 PROVE  g = h
    BY DEF OnePerSlot
  <1>3. CASE g # grant /\ h # grant
    BY <1>1, <1>2, <1>3 DEF OnePerSlot
  <1>4. CASE g = grant \/ h = grant
    BY <1>1, <1>2, <1>4 DEF SameSlot
  <1> QED
    BY <1>3, <1>4

LEMMA GrantsInBothStep ==
    ASSUME GrantsTypeOK, GrantsInBoth, [GrantsNext]_grantVars
    PROVE  GrantsInBoth'
  <1> USE DEF GrantsInBoth
  <1>1. ASSUME NEW grant \in GrantsPut, KeyGrantPut(grant) PROVE GrantsInBoth'
    <2> DEFINE others(grants) == {g \in grants : ~ SameSlot(g, grant)}
    <2>1. grant \in Grant
      BY GrantAssumption
    <2>2. keyGrants'.grants = others(keyGrants.grants) \cup {grant}
      BY <1>1, <2>1, InsertGrantType DEF KeyGrantPut, GrantsTypeOK
    <2>3. OnePerSlot(keyGrants')
      BY <1>1, <2>1, InsertGrantKeepsSlots DEF KeyGrantPut, GrantsTypeOK
    <2>4. CASE grantFile' = keyGrants'
      <3>1. told'.grants = others(told.grants) \cup {grant}
        BY <1>1, <2>4 DEF KeyGrantPut, GrantsTypeOK
      <3> QED
        BY <2>2, <2>3, <2>4, <3>1
    <2>5. CASE grantFile' # keyGrants'
      <3>1. told'.grants = others(told.grants) /\ grantFile' = grantFile
        BY <1>1, <2>5, SavingIsOldOrNew DEF KeyGrantPut, GrantsTypeOK
      <3> QED
        BY <2>2, <2>3, <3>1
    <2> QED
      BY <2>4, <2>5
  <1>2. ASSUME NEW r \in Revocations, KeyGrantRevokeDevice(r[1], r[2])
        PROVE  GrantsInBoth'
    <2>1. r[1] \in Devices /\ r[2] \in KeyEpochs /\ r[2] # 0
      BY <1>2, GrantAssumption DEF KeyGrantRevokeDevice
    <2>2. keyGrants'.grants = keyGrants.grants
      BY <1>2, <2>1, RevokeType DEF KeyGrantRevokeDevice, GrantsTypeOK
    <2>3. grantFile' = grantFile \/ grantFile' = keyGrants'
      BY <1>2, SavingIsOldOrNew DEF KeyGrantRevokeDevice
    <2>4. told'.grants = told.grants
      BY <1>2 DEF KeyGrantRevokeDevice, GrantsTypeOK
    <2> QED
      BY <2>2, <2>3, <2>4 DEF OnePerSlot
  <1>3. CASE GrantsRestart
    BY <1>3 DEF GrantsRestart
  <1>4. CASE UNCHANGED grantVars
    BY <1>4 DEF grantVars
  <1> QED
    BY <1>1, <1>2, <1>3, <1>4 DEF GrantsNext

(* A grant that was answered stays in the store and in the file, and a     *)
(* device has one key for a repository and an epoch.                       *)
THEOREM GrantsStand == GrantsSpec => []GrantsKept
  <1>1. GrantsInit => GrantsInBoth
    BY DEF GrantsInit, GrantsInBoth, OnePerSlot, EmptyGrants
  <1>2. GrantsInBoth => GrantsKept
    BY DEF GrantsInBoth, GrantsKept, OnePerSlot
  <1>3. GrantsTypeOK /\ GrantsInBoth /\ [GrantsNext]_grantVars => GrantsInBoth'
    BY GrantsInBothStep
  <1> QED
    BY <1>1, <1>2, <1>3, GrantsTypeCorrect, PTL DEF GrantsSpec

-----------------------------------------------------------------------------
(* Accounts, sessions and registered repositories.  The checks of the      *)
(* loader hold of the store in memory too, since that is what is written   *)
(* next; and what clients were told of a session holds of the file too,    *)
(* since that is what a restart goes back to.                              *)

(* What every store is like when n sessions were issued.                   *)

SoundStore(store, n) ==
    /\ store \in AccountData
    /\ AccountsLoad(store)
    /\ \A s \in store.sessions : s.id <= n

AccountsInv ==
    /\ SoundStore(accounts, issued)
    /\ SoundStore(accountFile, issued)
    /\ issued \in Nat /\ time \in Nat
    /\ answered \in [given: SUBSET Session, revoked: SUBSET Nat]

LEMMA SavedIsOldOrNew == SaveAccounts => accountFile' = accountFile \/ accountFile' = accounts'
  BY DEF SaveAccounts, Saving

(* Of the two stores, it is enough to look at the one in memory.           *)
LEMMA SavingKeepsSound ==
    ASSUME AccountsInv, accountFile' = accountFile \/ accountFile' = accounts',
           issued' = issued \/ issued' = issued + 1,
           SoundStore(accounts, issued)'
    PROVE  SoundStore(accountFile, issued)'
  <1>1. SoundStore(accountFile, issued')
    BY DEF AccountsInv, SoundStore, AccountData, Session
  <1> QED
    BY <1>1 DEF SoundStore

LEMMA CreateIsSound ==
    ASSUME AccountsInv, NEW u \in Usernames, NEW account \in AccountIds,
           AccountCreate(u, account)
    PROVE  AccountsInv'
  <1> DEFINE new == [account |-> account, texts |-> [f \in Fields |-> "empty"]]
  <1>1. new \in Profile /\ new # NoProfile /\ new.account = account
    <2>1. [f \in Fields |-> "empty"] \in [Fields -> Texts]
      BY DEF Texts
    <2>2. new \in Profile /\ new.account = account
      BY <2>1 DEF Profile
    <2> QED
      BY <2>2, AccountAssumption
  <1>2. /\ accounts.profiles[u] = NoProfile
        /\ \A v \in Usernames : HasProfile(accounts, v) => accounts.profiles[v].account # account
        /\ accounts' = [accounts EXCEPT !.profiles[u] = new]
    BY DEF AccountCreate, CreateProfile, HasProfile
  <1>3. accounts \in AccountData
    BY DEF AccountsInv, SoundStore
  <1> HIDE DEF new
  <1>4. /\ accounts'.profiles = [accounts.profiles EXCEPT ![u] = new]
        /\ accounts'.sessions = accounts.sessions
        /\ accounts'.repositories = accounts.repositories
        /\ accounts' \in AccountData
    BY <1>1, <1>2, <1>3 DEF AccountData
  <1>5. /\ accounts'.profiles[u] = new
        /\ \A v \in Usernames \ {u} : accounts'.profiles[v] = accounts.profiles[v]
    BY <1>3, <1>4 DEF AccountData
  <1>6. AccountsLoad(accounts')
    <2>1. \A v \in Usernames : HasProfile(accounts, v) => HasProfile(accounts', v)
      BY <1>1, <1>5 DEF HasProfile
    <2>2. AccountsLoad(accounts)
      BY DEF AccountsInv, SoundStore
    <2>3. ASSUME NEW v \in Usernames, NEW w \in Usernames, v # w,
                 HasProfile(accounts', v), HasProfile(accounts', w)
          PROVE  accounts'.profiles[v].account # accounts'.profiles[w].account
      BY <1>1, <1>2, <1>5, <2>2, <2>3 DEF AccountsLoad, HasProfile
    <2>4. /\ \A s \in accounts.sessions : s.user \in Usernames
          /\ \A r \in accounts.repositories : r[1] \in Usernames
      BY <1>3 DEF AccountData, Session
    <2>5. /\ \A s \in accounts'.sessions : HasProfile(accounts', s.user)
          /\ \A r \in accounts'.repositories : HasProfile(accounts', r[1])
      BY <1>4, <2>1, <2>2, <2>4 DEF AccountsLoad
    <2>6. \A s, t \in accounts'.sessions : s.id = t.id => s = t
      BY <1>4, <2>2 DEF AccountsLoad
    <2> QED
      BY <2>3, <2>5, <2>6 DEF AccountsLoad
  <1>7. issued' = issued /\ time' = time /\ answered' = answered
    BY DEF AccountCreate
  <1>8. SoundStore(accounts, issued)'
    BY <1>4, <1>6, <1>7 DEF SoundStore, AccountsInv
  <1>9. SoundStore(accountFile, issued)'
    BY <1>7, <1>8, SavingKeepsSound, SavedIsOldOrNew DEF AccountCreate
  <1> QED
    BY <1>7, <1>8, <1>9 DEF AccountsInv

LEMMA UpdateIsSound ==
    ASSUME AccountsInv, NEW u \in Usernames, NEW update \in Updates,
           AccountUpdateProfile(u, update)
    PROVE  AccountsInv'
  <1> DEFINE old == accounts.profiles[u]
             new == [old EXCEPT !.texts = Updated(@, update)]
  <1>1. accounts \in AccountData
    BY DEF AccountsInv, SoundStore
  <1>2. old \in Profile
    BY <1>1 DEF AccountUpdateProfile, HasProfile, AccountData
  <1>3. Updated(old.texts, update) \in [Fields -> Texts]
    BY <1>2, AccountAssumption DEF Updated, Profile
  <1>4. new \in Profile /\ new # NoProfile /\ new.account = old.account
    BY <1>2, <1>3, AccountAssumption DEF Profile
  <1>5. accounts' = [accounts EXCEPT !.profiles[u] = new]
    BY <1>1 DEF AccountUpdateProfile, AccountData
  <1> HIDE DEF new
  <1>6. /\ accounts'.profiles = [accounts.profiles EXCEPT ![u] = new]
        /\ accounts'.sessions = accounts.sessions
        /\ accounts'.repositories = accounts.repositories
        /\ accounts' \in AccountData
    BY <1>1, <1>4, <1>5 DEF AccountData
  <1>7. \A v \in Usernames :
           /\ HasProfile(accounts', v) <=> HasProfile(accounts, v)
           /\ accounts'.profiles[v].account = accounts.profiles[v].account
    BY <1>1, <1>2, <1>4, <1>6, AccountAssumption DEF AccountData, HasProfile
  <1>8. AccountsLoad(accounts')
    <2>1. AccountsLoad(accounts)
      BY DEF AccountsInv, SoundStore
    <2>2. /\ \A s \in accounts.sessions : s.user \in Usernames
          /\ \A r \in accounts.repositories : r[1] \in Usernames
      BY <1>1 DEF AccountData, Session
    <2> QED
      BY <1>6, <1>7, <2>1, <2>2 DEF AccountsLoad
  <1>9. issued' = issued /\ time' = time /\ answered' = answered
    BY DEF AccountUpdateProfile
  <1>10. SoundStore(accounts, issued)'
    BY <1>6, <1>8, <1>9 DEF SoundStore, AccountsInv
  <1>11. accountFile' = accountFile \/ accountFile' = accounts'
    BY SavedIsOldOrNew DEF AccountUpdateProfile
  <1>12. SoundStore(accountFile, issued)'
    BY <1>9, <1>10, <1>11, SavingKeepsSound
  <1> QED
    BY <1>9, <1>10, <1>12 DEF AccountsInv

LEMMA IssueIsSound ==
    ASSUME AccountsInv, NEW u \in Usernames, SessionIssue(u)
    PROVE  AccountsInv'
  <1> DEFINE session == [id |-> issued + 1, user |-> u, expires |-> time + Ttl, revoked |-> FALSE]
  <1>1. accounts \in AccountData /\ AccountsLoad(accounts) /\ issued \in Nat
    BY DEF AccountsInv, SoundStore
  <1>2. session \in Session /\ session.id = issued + 1 /\ session.user = u
    BY AccountAssumption DEF AccountsInv, Session
  <1>3. /\ accounts' = [accounts EXCEPT !.sessions = @ \cup {session}]
        /\ SaveAccounts /\ HasProfile(accounts, u)
        /\ AnswerSession(session)
        /\ issued' = issued + 1 /\ time' = time
    BY DEF SessionIssue
  <1> HIDE DEF session
  <1>4. /\ accounts'.sessions = accounts.sessions \cup {session}
        /\ accounts'.profiles = accounts.profiles
        /\ accounts'.repositories = accounts.repositories
        /\ accounts' \in AccountData
    BY <1>1, <1>2, <1>3 DEF AccountData
  <1>5. \A s \in accounts.sessions : s.id \in Nat /\ s.id <= issued
    BY <1>1 DEF AccountsInv, SoundStore, AccountData, Session
  <1>6. AccountsLoad(accounts')
    BY <1>1, <1>2, <1>3, <1>4, <1>5 DEF AccountsLoad, HasProfile
  <1>7. SoundStore(accounts, issued)'
    BY <1>1, <1>2, <1>3, <1>4, <1>5, <1>6 DEF SoundStore
  <1>8. SoundStore(accountFile, issued)'
    BY <1>3, <1>7, SavingKeepsSound, SavedIsOldOrNew
  <1>9. answered' \in [given: SUBSET Session, revoked: SUBSET Nat]
    BY <1>2, <1>3 DEF AnswerSession, AccountsInv
  <1> QED
    BY <1>1, <1>3, <1>7, <1>8, <1>9 DEF AccountsInv

LEMMA RevokeIsSound ==
    ASSUME AccountsInv, NEW id \in 1..issued, SessionRevoke(id)
    PROVE  AccountsInv'
  <1> DEFINE after(s) == IF s.id = id THEN [s EXCEPT !.revoked = TRUE] ELSE s
  <1>1. accounts \in AccountData /\ AccountsLoad(accounts) /\ issued \in Nat
    BY DEF AccountsInv, SoundStore
  <1>2. \A s \in Session : after(s) \in Session /\ after(s).id = s.id /\ after(s).user = s.user
    BY DEF Session
  <1>3. accounts' = [accounts EXCEPT !.sessions = {after(s) : s \in @}]
    BY DEF SessionRevoke, RevokeSession
  <1> HIDE DEF after
  <1>4. /\ accounts'.sessions = {after(s) : s \in accounts.sessions}
        /\ accounts'.profiles = accounts.profiles
        /\ accounts'.repositories = accounts.repositories
    BY <1>1, <1>3 DEF AccountData
  <1>5. accounts.sessions \subseteq Session
    BY <1>1 DEF AccountData
  <1>6. accounts' \in AccountData
    BY <1>1, <1>2, <1>3, <1>4, <1>5 DEF AccountData
  <1>7. AccountsLoad(accounts')
    BY <1>1, <1>2, <1>4, <1>5 DEF AccountsLoad, HasProfile
  <1>8. issued' = issued /\ time' = time
    BY DEF SessionRevoke
  <1>9. SoundStore(accounts, issued)'
    BY <1>2, <1>4, <1>5, <1>6, <1>7, <1>8 DEF SoundStore, AccountsInv
  <1>10. SoundStore(accountFile, issued)'
    BY <1>8, <1>9, SavingKeepsSound, SavedIsOldOrNew DEF SessionRevoke
  <1>11. answered' \in [given: SUBSET Session, revoked: SUBSET Nat]
    BY <1>1 DEF SessionRevoke, AnswerRevoked, AccountsInv
  <1> QED
    BY <1>1, <1>8, <1>9, <1>10, <1>11 DEF AccountsInv

LEMMA RegisterIsSound ==
    ASSUME AccountsInv, NEW u \in Usernames, NEW name \in RepoNames, RepoRegister(u, name)
    PROVE  AccountsInv'
  <1>1. accounts \in AccountData /\ AccountsLoad(accounts)
    BY DEF AccountsInv, SoundStore
  <1>2. /\ HasProfile(accounts, u)
        /\ accounts' = [accounts EXCEPT !.repositories = @ \cup {<<u, name>>}]
    BY DEF RepoRegister, RegisterRepository
  <1>3. /\ accounts'.repositories = accounts.repositories \cup {<<u, name>>}
        /\ accounts'.profiles = accounts.profiles
        /\ accounts'.sessions = accounts.sessions
        /\ accounts' \in AccountData
    BY <1>1, <1>2 DEF AccountData
  <1>4. AccountsLoad(accounts')
    BY <1>1, <1>2, <1>3 DEF AccountsLoad, HasProfile
  <1>5. issued' = issued /\ time' = time /\ answered' = answered
    BY DEF RepoRegister
  <1>6. SoundStore(accounts, issued)'
    BY <1>3, <1>4, <1>5 DEF SoundStore, AccountsInv
  <1>7. SoundStore(accountFile, issued)'
    BY <1>5, <1>6, SavingKeepsSound, SavedIsOldOrNew DEF RepoRegister
  <1> QED
    BY <1>5, <1>6, <1>7 DEF AccountsInv

LEMMA AccountsInvHolds == AccountsSpec => []AccountsInv
  <1>1. AccountsInit => AccountsInv
    BY DEF AccountsInit, AccountsInv, EmptyAccounts, SoundStore, AccountData, AccountsLoad,
           HasProfile
  <1>2. AccountsInv /\ [AccountsNext]_accountVars => AccountsInv'
    <2> SUFFICES ASSUME AccountsInv, [AccountsNext]_accountVars PROVE AccountsInv'
      OBVIOUS
    <2>1. CASE AccountsRestart
      BY <2>1 DEF AccountsRestart, AccountsInv, SoundStore
    <2>2. CASE Elapse
      BY <2>2 DEF Elapse, AccountsInv, SoundStore
    <2>3. CASE UNCHANGED accountVars
      BY <2>3 DEF accountVars, AccountsInv, SoundStore
    <2> QED
      BY <2>1, <2>2, <2>3, CreateIsSound, UpdateIsSound, IssueIsSound, RevokeIsSound,
         RegisterIsSound DEF AccountsNext
  <1> QED
    BY <1>1, <1>2, PTL DEF AccountsSpec

(* The account file is one its loader takes: two users never share an      *)
(* account, and sessions and repositories always have an owner.            *)
THEOREM AccountFileAlwaysLoads == AccountsSpec => []AccountFileLoads
  <1>1. AccountsInv => AccountFileLoads
    BY DEF AccountsInv, SoundStore, AccountFileLoads
  <1> QED
    BY <1>1, AccountsInvHolds, PTL

-----------------------------------------------------------------------------
(* What clients were told of their sessions.                               *)

Honours(store) ==
    /\ \A s \in answered.given : s \in store.sessions /\ ~ s.revoked
    /\ \A id \in answered.revoked, s \in store.sessions : s.id = id => s.revoked

SessionsInv ==
    /\ Honours(accounts) /\ Honours(accountFile)
    /\ \A id \in answered.revoked : id <= issued

LEMMA IssueHonours ==
    ASSUME AccountsInv, SessionsInv, NEW u \in Usernames, SessionIssue(u)
    PROVE  SessionsInv'
  <1> DEFINE session == [id |-> issued + 1, user |-> u, expires |-> time + Ttl, revoked |-> FALSE]
  <1>1. ~ session.revoked /\ session.id = issued + 1
    OBVIOUS
  <1>2. /\ accounts' = [accounts EXCEPT !.sessions = @ \cup {session}]
        /\ accountFile' = accountFile \/ accountFile' = accounts'
        /\ AnswerSession(session)
        /\ issued' = issued + 1
    BY SavedIsOldOrNew DEF SessionIssue
  <1> HIDE DEF session
  <1>3. accounts'.sessions = accounts.sessions \cup {session}
    BY <1>2 DEF AccountsInv, SoundStore, AccountData
  <1>4. /\ answered'.revoked = answered.revoked
        /\ \/ answered'.given = answered.given
           \/ /\ answered'.given = answered.given \cup {session}
              /\ accountFile' = accounts'
    BY <1>2 DEF AnswerSession, AccountsInv
  <1>5. \A id \in answered.revoked : id \in Nat /\ id <= issued /\ issued \in Nat
    BY DEF AccountsInv, SessionsInv
  <1>6. Honours(accounts)'
    BY <1>1, <1>3, <1>4, <1>5 DEF Honours, SessionsInv
  <1>7. Honours(accountFile)'
    <2>1. CASE accountFile' = accounts'
      BY <1>6, <2>1 DEF Honours
    <2>2. CASE accountFile' # accounts'
      BY <1>2, <1>4, <2>2 DEF Honours, SessionsInv
    <2> QED
      BY <2>1, <2>2
  <1>8. \A id \in answered'.revoked : id <= issued'
    BY <1>2, <1>4, <1>5
  <1> QED
    BY <1>6, <1>7, <1>8 DEF SessionsInv

LEMMA RevokeHonours ==
    ASSUME AccountsInv, SessionsInv, NEW id \in 1..issued, SessionRevoke(id)
    PROVE  SessionsInv'
  <1> DEFINE after(s) == IF s.id = id THEN [s EXCEPT !.revoked = TRUE] ELSE s
  <1>1. \A s \in Session : /\ after(s).id = s.id
                           /\ s.id = id => after(s).revoked
                           /\ s.id # id => after(s) = s
                           /\ s.revoked => after(s).revoked
    BY DEF Session
  <1>2. /\ accounts' = [accounts EXCEPT !.sessions = {after(s) : s \in @}]
        /\ accountFile' = accountFile \/ accountFile' = accounts'
        /\ issued' = issued
    BY SavedIsOldOrNew DEF SessionRevoke, RevokeSession
  <1> HIDE DEF after
  <1>3. /\ accounts'.sessions = {after(s) : s \in accounts.sessions}
        /\ accounts.sessions \subseteq Session
    BY <1>2 DEF AccountsInv, SoundStore, AccountData
  <1>4. /\ answered'.given = {s \in answered.given : s.id # id}
        /\ \/ answered'.revoked = answered.revoked
           \/ /\ answered'.revoked = answered.revoked \cup {id}
              /\ accountFile' = accounts'
    BY DEF SessionRevoke, AnswerRevoked
  <1>5. Honours(accounts)'
    <2>1. \A s \in answered'.given : s \in accounts'.sessions /\ ~ s.revoked
      BY <1>1, <1>3, <1>4 DEF Honours, SessionsInv
    <2>2. \A i \in answered'.revoked, s \in accounts'.sessions : s.id = i => s.revoked
      BY <1>1, <1>3, <1>4 DEF Honours, SessionsInv
    <2> QED
      BY <2>1, <2>2 DEF Honours
  <1>6. Honours(accountFile)'
    <2>1. CASE accountFile' = accounts'
      BY <1>5, <2>1 DEF Honours
    <2>2. CASE accountFile' # accounts'
      BY <1>2, <1>4, <2>2 DEF Honours, SessionsInv
    <2> QED
      BY <2>1, <2>2
  <1>7. \A i \in answered'.revoked : i <= issued'
    BY <1>2, <1>4 DEF SessionsInv, AccountsInv
  <1> QED
    BY <1>5, <1>6, <1>7 DEF SessionsInv

(* The other commands leave the sessions as they are.                      *)
LEMMA OthersHonour ==
    ASSUME SessionsInv, answered' = answered, issued' = issued,
           accounts'.sessions = accounts.sessions,
           accountFile' = accountFile \/ accountFile' = accounts'
    PROVE  SessionsInv'
  <1>1. Honours(accounts)'
    BY DEF Honours, SessionsInv
  <1>2. Honours(accountFile)'
    BY <1>1 DEF Honours, SessionsInv
  <1> QED
    BY <1>1, <1>2 DEF SessionsInv

LEMMA SessionsInvStep ==
    ASSUME AccountsInv, SessionsInv, [AccountsNext]_accountVars
    PROVE  SessionsInv'
  <1>1. accounts \in AccountData
    BY DEF AccountsInv, SoundStore
  <1>2. ASSUME NEW u \in Usernames, NEW account \in AccountIds, AccountCreate(u, account)
        PROVE  SessionsInv'
    <2>1. accounts'.sessions = accounts.sessions
      BY <1>1, <1>2 DEF AccountCreate, CreateProfile, AccountData
    <2> QED
      BY <1>2, <2>1, OthersHonour, SavedIsOldOrNew DEF AccountCreate
  <1>3. ASSUME NEW u \in Usernames, NEW update \in Updates, AccountUpdateProfile(u, update)
        PROVE  SessionsInv'
    <2>1. accounts'.sessions = accounts.sessions
      BY <1>1, <1>3 DEF AccountUpdateProfile, AccountData
    <2> QED
      BY <1>3, <2>1, OthersHonour, SavedIsOldOrNew DEF AccountUpdateProfile
  <1>4. ASSUME NEW u \in Usernames, NEW name \in RepoNames, RepoRegister(u, name)
        PROVE  SessionsInv'
    <2>1. accounts'.sessions = accounts.sessions
      BY <1>1, <1>4 DEF RepoRegister, RegisterRepository, AccountData
    <2> QED
      BY <1>4, <2>1, OthersHonour, SavedIsOldOrNew DEF RepoRegister
  <1>5. CASE AccountsRestart
    BY <1>5 DEF AccountsRestart, SessionsInv, Honours
  <1>6. CASE Elapse
    BY <1>6 DEF Elapse, SessionsInv, Honours
  <1>7. CASE UNCHANGED accountVars
    BY <1>7 DEF accountVars, SessionsInv, Honours
  <1> QED
    BY <1>2, <1>3, <1>4, <1>5, <1>6, <1>7, IssueHonours, RevokeHonours DEF AccountsNext

(* A session that was answered authenticates until it expires or is        *)
(* revoked, and one whose revocation was answered never does again.        *)
THEOREM SessionsAreHonoured == AccountsSpec => []SessionsHonoured
  <1>1. AccountsInit => SessionsInv
    BY DEF AccountsInit, SessionsInv, Honours, EmptyAccounts
  <1>2. AccountsInv /\ SessionsInv /\ [AccountsNext]_accountVars => SessionsInv'
    BY SessionsInvStep
  <1>3. SessionsInv => SessionsHonoured
    BY DEF SessionsInv, Honours, SessionsHonoured, SessionAuth, Authenticates
  <1> QED
    BY <1>1, <1>2, <1>3, AccountsInvHolds, PTL DEF AccountsSpec
=============================================================================
