----------------------------- MODULE KeyGrants -----------------------------
(***************************************************************************)
(* RepoKeyGrantStore of gitmesh-identity behind gitmeshd's KEY_GRANT_      *)
(* commands: which device was given which repository key for which epoch,  *)
(* and from which epoch on a device is revoked.                            *)
(*                                                                         *)
(* A grant that reaches the store verifies; the key it wraps is a value.   *)
(***************************************************************************)
EXTENDS Naturals, StoreFile

CONSTANTS
    Repos, Devices, Keys,
    MaxKeyEpoch,        \* the largest epoch clients use
    GrantsPut,          \* the grants clients put
    Revocations         \* the <<device, epoch>> they revoke

KeyEpochs == 0..MaxKeyEpoch

NotRevoked == MaxKeyEpoch + 1

Grant == [repo: Repos, epoch: KeyEpochs, device: Devices, key: Keys]

GrantStore == [grants: SUBSET Grant, revoked: [Devices -> 1..NotRevoked]]

EmptyGrants == [grants |-> {}, revoked |-> [d \in Devices |-> NotRevoked]]

ASSUME GrantAssumption ==
    /\ MaxKeyEpoch \in Nat
    /\ GrantsPut \subseteq Grant
    /\ Revocations \subseteq Devices \X KeyEpochs

VARIABLES
    keyGrants,    \* the store in memory
    grantFile,    \* the file
    told          \* what clients were answered: grants put, devices revoked

grantVars == <<keyGrants, grantFile, told>>

GrantsInit ==
    /\ keyGrants = EmptyGrants
    /\ grantFile = EmptyGrants
    /\ told = [grants |-> {}, revoked |-> {}]

SameSlot(g, h) == g.repo = h.repo /\ g.epoch = h.epoch /\ g.device = h.device

\* A grant that is put again does not replace the earlier one.
InsertGrant_Bug(store, grant) == [store EXCEPT !.grants = @ \cup {grant}]

(* insert_grant *)
InsertGrant(store, grant) ==
    [store EXCEPT !.grants = {g \in @ : ~ SameSlot(g, grant)} \cup {grant}]

\* The last revocation counts.
RevokeDeviceFromEpoch_Bug(store, device, epoch) == [store EXCEPT !.revoked[device] = epoch]

(* revoke_device_from_epoch: the earliest revocation counts.               *)
RevokeDeviceFromEpoch(store, device, epoch) ==
    [store EXCEPT !.revoked[device] = IF epoch < @ THEN epoch ELSE @]

IsRevoked(store, device, epoch) == epoch >= store.revoked[device]

(* active_grants_for_epoch, over all repositories and epochs               *)
ActiveGrants(store) == {g \in store.grants : ~ IsRevoked(store, g.device, g.epoch)}

(* KEY_GRANT_PUT *)
KeyGrantPut(grant) ==
    /\ keyGrants' = InsertGrant(keyGrants, grant)
    /\ grantFile' \in Saving(grantFile, keyGrants')
    /\ told' = IF grantFile' = keyGrants'
               THEN [told EXCEPT !.grants = {g \in @ : ~ SameSlot(g, grant)} \cup {grant}]
               ELSE [told EXCEPT !.grants = {g \in @ : ~ SameSlot(g, grant)}]

(* KEY_GRANT_REVOKE_DEVICE: epoch 0 is refused.                            *)
KeyGrantRevokeDevice(device, epoch) ==
    /\ epoch # 0
    /\ keyGrants' = RevokeDeviceFromEpoch(keyGrants, device, epoch)
    /\ grantFile' \in Saving(grantFile, keyGrants')
    /\ told' = IF grantFile' = keyGrants'
               THEN [told EXCEPT !.revoked = @ \cup {<<device, epoch>>}]
               ELSE told

(* to_snapshot writes the grants, then the revocations; from_snapshot puts *)
(* both in again.                                                          *)
GrantsRestart ==
    /\ keyGrants' = grantFile
    /\ UNCHANGED <<grantFile, told>>

GrantsNext ==
    \/ \E grant \in GrantsPut : KeyGrantPut(grant)
    \/ \E r \in Revocations : KeyGrantRevokeDevice(r[1], r[2])
    \/ GrantsRestart

GrantsSpec == GrantsInit /\ [][GrantsNext]_grantVars

-----------------------------------------------------------------------------
(* Properties. *)

(* A device whose revocation was answered holds no active grant from that  *)
(* epoch on, whatever is granted or revoked afterwards, whichever saves    *)
(* fail and however often the daemon is restarted.                         *)
RevokedStayOut ==
    \A r \in told.revoked, g \in ActiveGrants(keyGrants) : g.device = r[1] => g.epoch < r[2]

(* A grant that was answered is in the store and in the file, and is the   *)
(* only one of its repository, epoch and device: KEY_GRANT_LIST gives a    *)
(* device one key per epoch.                                               *)
GrantsKept ==
    /\ told.grants \subseteq keyGrants.grants
    /\ told.grants \subseteq grantFile.grants
    /\ \A g, h \in keyGrants.grants : SameSlot(g, h) => g = h

GrantsTypeOK ==
    /\ keyGrants \in GrantStore
    /\ grantFile \in GrantStore
    /\ told \in [grants: SUBSET Grant, revoked: SUBSET (Devices \X KeyEpochs)]
=============================================================================
