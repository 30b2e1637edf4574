------------------------------ MODULE Members ------------------------------
(***************************************************************************)
(* The members of one store: contexts/auth (merchant memberships and       *)
(* invitations, the projection of membership events) and the memberships   *)
(* that contexts/store_catalog grants.                                     *)
(*                                                                         *)
(* A membership is kept twice: the catalogue's row decides who may change  *)
(* products and stock, the group row which scopes a token carries.  Every  *)
(* request writes both; an admin's request also records an event, which a  *)
(* worker applies to the group row when it arrives: later, out of order,   *)
(* or twice.  A request is one transaction, and the API serves one at a    *)
(* time.                                                                   *)
(***************************************************************************)
EXTENDS Integers, FiniteSets

CONSTANTS
  Users,
  Owner,       \* owner_user_id of the store
  Addresses,
  home,        \* auth_users.wallet_address
  Elsewhere,   \* who may have a token with the scopes of a role elsewhere
  AdminWallet, \* the platform admin's address, in create_invitation
  Invitations, \* ids, and with them a bound
  Events,      \* events of admin requests, and with them a bound
  None

ASSUME MembersConstants ==
  /\ Owner \in Users
  /\ home \in [Users -> Addresses]
  /\ Elsewhere \subseteq Users \X {"MERCHANT_OWNER", "MERCHANT_MANAGER"}
  /\ None \notin Users \cup Addresses

VARIABLES
  member,      \* auth_group_memberships
  storeMember, \* store_catalog_store_memberships
  invitation,  \* auth_group_invitations
  event,       \* StoreCatalogStoreMembershipChangedEvent messages
  tokens,      \* access tokens: who may have one with the scopes of which role
  linked       \* active wallet rows: who has which address

vars == <<member, storeMember, invitation, event, tokens, linked>>

Roles == {"MERCHANT_OWNER", "MERCHANT_MANAGER", "MERCHANT_STAFF"}
MERCHANT_ASSIGNABLE_ROLE_IDS == Roles \ {"MERCHANT_OWNER"}

GroupMembership == [role: Roles, active: BOOLEAN, version: Nat]
NoMember == [role |-> "NONE", active |-> FALSE, version |-> 0]

StoreMembership == [role: {"OWNER", "MANAGER"}, active: BOOLEAN]
NoStoreMember == [role |-> "NONE", active |-> FALSE]

(* expired: expires_at has passed.  The status EXPIRED is never written.   *)
GroupInvitation ==
  [status: {"PENDING", "ACCEPTED", "REVOKED"}, role: MERCHANT_ASSIGNABLE_ROLE_IDS,
   user: Users \cup {None}, wallet: Addresses \cup {None}, expired: BOOLEAN]
NoInvitation == [status |-> "NONE", role |-> "NONE", user |-> None,
                 wallet |-> None, expired |-> FALSE]

MembershipEvent == [status: {"SENT", "PROCESSED"}, user: Users, role: Roles,
                    active: BOOLEAN]
NoEvent == [status |-> "NONE", user |-> None, role |-> "NONE", active |-> FALSE]

Init ==
  /\ member = [u \in Users |-> NoMember]
  /\ storeMember = [u \in Users |-> NoStoreMember]
  /\ invitation = [i \in Invitations |-> NoInvitation]
  /\ event = [e \in Events |-> NoEvent]
  /\ tokens = {}
  /\ linked = {<<u, home[u]>> : u \in Users}

-----------------------------------------------------------------------------
(* An upsert leaves the version alone: its default, 1, stays for good.  A  *)
(* token keeps the scopes it was issued with, so what a member was once    *)
(* allowed to do the member may still do.                                  *)
SaveGroup(u, role, active) ==
  /\ member' = [member EXCEPT ![u] = [role |-> role, active |-> active,
                                      version |-> 1]]
  /\ tokens' = IF active /\ role # "MERCHANT_STAFF" THEN tokens \cup {<<u, role>>}
               ELSE tokens

SaveStore(u, role, active) ==
  storeMember' = [storeMember EXCEPT ![u] = [role |-> role, active |-> active]]

save_membership(u, role, active) ==
  /\ SaveGroup(u, role, active)
  /\ SaveStore(u, IF role = "MERCHANT_OWNER" THEN "OWNER" ELSE "MANAGER", active)

(* Only these two roles have a scope to invite; only an owner, to manage.  *)
(* Which store the token is of is not asked: the scopes are looked at, and *)
(* those of another store's group do as well.                              *)
HasScopesOf(u, roles) == \E role \in roles : <<u, role>> \in tokens \cup Elsewhere

MayInvite(u) == HasScopesOf(u, {"MERCHANT_OWNER", "MERCHANT_MANAGER"})
MayManage(u) == HasScopesOf(u, {"MERCHANT_OWNER"})

(* An address that is active for two users, on two chains, is nobody's.    *)
user_id_for_active_wallet(a) ==
  {u \in Users : {v \in Users : <<v, a>> \in linked} = {u}}

(* Invitations are read with the target's home for a missing wallet.       *)
target_wallet(i) ==
  IF invitation[i].wallet = None THEN home[invitation[i].user]
  ELSE invitation[i].wallet

-----------------------------------------------------------------------------
(* What a platform admin does.                                             *)
_record_membership_projection_event(e, u, role, active) ==
  /\ event[e] = NoEvent
  /\ event' = [event EXCEPT ![e] = [status |-> "SENT", user |-> u, role |-> role,
                                    active |-> active]]

createStore(e) ==
  /\ _record_membership_projection_event(e, Owner, "MERCHANT_OWNER", TRUE)
  /\ SaveGroup(Owner, "MERCHANT_OWNER", TRUE)
  /\ SaveStore(Owner, "OWNER", TRUE)
  /\ UNCHANGED <<invitation, linked>>

StoreExists == storeMember[Owner] # NoStoreMember

_merchant_role_for_store_role(role) ==
  IF role = "OWNER" THEN "MERCHANT_OWNER" ELSE "MERCHANT_MANAGER"

grantStoreMembership(e, u, role, active) ==
  LET role_id == _merchant_role_for_store_role(role) IN
  /\ StoreExists
  /\ _record_membership_projection_event(e, u, role_id, active)
  /\ SaveStore(u, role, active)
  /\ SaveGroup(u, role_id, active)
  /\ UNCHANGED <<invitation, linked>>

(* The projection of an event.  All carry version 1.                       *)
applies_same_version(e) == \* mutant: a version seen already is applied again
  member[event[e].user].version <= 1

applies(e) == member[event[e].user].version < 1

handle(e) ==
  LET u == event[e].user IN
  /\ event[e].status = "SENT"
  /\ event' = [event EXCEPT ![e].status = "PROCESSED"]
  /\ member' = IF applies(e)
               THEN [member EXCEPT ![u] = [role |-> event[e].role,
                                           active |-> event[e].active,
                                           version |-> 1]]
               ELSE member
  /\ UNCHANGED <<storeMember, invitation, tokens, linked>>

-----------------------------------------------------------------------------
(* What members do.                                                        *)
_pending_invitation_for_target(users, wallet) ==
  {i \in Invitations :
     /\ invitation[i].status = "PENDING"
     /\ \/ invitation[i].user \in users
        \/ wallet = target_wallet(i)}

(* A display name or a user id names the user; a wallet, its owner, if it  *)
(* has one.                                                                *)
create_invitation(actor, i, role, named, wallet) ==
  LET users == IF named # None THEN {named} ELSE user_id_for_active_wallet(wallet)
  IN
  /\ StoreExists
  /\ MayInvite(actor)
  /\ invitation[i] = NoInvitation
  /\ actor \notin users
  /\ users \cap user_id_for_active_wallet(AdminWallet) = {}
  /\ \A u \in users : ~ member[u].active
  /\ wallet # AdminWallet
  /\ _pending_invitation_for_target(users, wallet) = {}
  /\ \E user \in IF users = {} THEN {None} ELSE users :
       invitation' = [invitation EXCEPT ![i] =
                        [status |-> "PENDING", role |-> role, user |-> user,
                         wallet |-> wallet, expired |-> FALSE]]
  /\ UNCHANGED <<member, storeMember, event, tokens, linked>>

InvitationExpires(i) ==
  /\ invitation[i].status = "PENDING"
  /\ ~ invitation[i].expired
  /\ invitation' = [invitation EXCEPT ![i].expired = TRUE]
  /\ UNCHANGED <<member, storeMember, event, tokens, linked>>

is_open_whatever(i, u) == \* mutant: the status is not looked at
  /\ invitation[i].status # "NONE"
  /\ ~ invitation[i].expired
  /\ invitation[i].user \in {None, u}

is_open_for(i, u) ==
  /\ invitation[i].status = "PENDING"
  /\ ~ invitation[i].expired
  /\ invitation[i].user \in {None, u}

(* The wallet as it was read is written back; when an invitation that is   *)
(* not pending expires is of no interest.                                  *)
Close(i, status) ==
  invitation' = [invitation EXCEPT ![i].status = status,
                                   ![i].wallet = target_wallet(i),
                                   ![i].expired = FALSE]

accept_invitation(u, i) ==
  /\ is_open_for(i, u)
  /\ u \in user_id_for_active_wallet(target_wallet(i))
  /\ ~ member[u].active
  /\ save_membership(u, invitation[i].role, TRUE)
  /\ Close(i, "ACCEPTED")
  /\ UNCHANGED <<event, linked>>

revoke_invitation(actor, i) ==
  /\ MayInvite(actor)
  /\ invitation[i].status = "PENDING"
  /\ Close(i, "REVOKED")
  /\ UNCHANGED <<member, storeMember, event, tokens, linked>>

update_member_role(actor, u, role) ==
  /\ MayManage(actor)
  /\ member[u].active
  /\ member[u].role # "MERCHANT_OWNER"
  /\ save_membership(u, role, TRUE)
  /\ UNCHANGED <<invitation, event, linked>>

remove_member(actor, u) ==
  /\ MayManage(actor)
  /\ member[u].active
  /\ member[u].role # "MERCHANT_OWNER"
  /\ save_membership(u, member[u].role, FALSE)
  /\ UNCHANGED <<invitation, event, linked>>

-----------------------------------------------------------------------------
(* Wallets, as Accounts has them.                                          *)
LinkWallet(u, a) ==
  /\ <<u, a>> \notin linked
  /\ linked' = linked \cup {<<u, a>>}
  /\ UNCHANGED <<member, storeMember, invitation, event, tokens>>

RevokeWallet(u, a) ==
  /\ <<u, a>> \in linked
  /\ \E b \in Addresses \ {a} : <<u, b>> \in linked
  /\ linked' = linked \ {<<u, a>>}
  /\ UNCHANGED <<member, storeMember, invitation, event, tokens>>

-----------------------------------------------------------------------------
Admin ==
  \E e \in Events :
    \/ createStore(e)
    \/ \E u \in Users, role \in {"OWNER", "MANAGER"}, active \in BOOLEAN :
         grantStoreMembership(e, u, role, active)

Projector == \E e \in Events : handle(e)

Invite ==
  \E i \in Invitations :
    \/ \E actor \in Users, role \in MERCHANT_ASSIGNABLE_ROLE_IDS :
         \E named \in Users \cup {None}, wallet \in Addresses \cup {None} :
           /\ {named, wallet} # {None}
           /\ create_invitation(actor, i, role, named, wallet)
    \/ InvitationExpires(i)
    \/ \E u \in Users : accept_invitation(u, i) \/ revoke_invitation(u, i)

Manage ==
  \E actor, u \in Users :
    \/ \E role \in MERCHANT_ASSIGNABLE_ROLE_IDS : update_member_role(actor, u, role)
    \/ remove_member(actor, u)

Wallet ==
  \E u \in Users, a \in Addresses : LinkWallet(u, a) \/ RevokeWallet(u, a)

Next == Admin \/ Projector \/ Invite \/ Manage \/ Wallet

Spec == Init /\ [][Next]_vars

-----------------------------------------------------------------------------
(* Every row has its columns, and an invitation has a target.              *)
TypeOK ==
  /\ member \in [Users -> GroupMembership \cup {NoMember}]
  /\ storeMember \in [Users -> StoreMembership \cup {NoStoreMember}]
  /\ invitation \in [Invitations -> GroupInvitation \cup {NoInvitation}]
  /\ event \in [Events -> MembershipEvent \cup {NoEvent}]
  /\ tokens \subseteq Users \X Roles
  /\ linked \subseteq Users \X Addresses
  /\ \A i \in Invitations :
       invitation[i].status # "NONE" =>
         invitation[i].user # None \/ invitation[i].wallet # None

(* The two rows of a member agree on whether the member is active and an   *)
(* owner, whatever events are still on their way: a late one never undoes  *)
(* what was decided since.                                                 *)
RolesAgree ==
  \A u \in Users :
    /\ member[u].active = storeMember[u].active
    /\ member[u].role = "MERCHANT_OWNER" <=> storeMember[u].role = "OWNER"

(* Whoever is not a member becomes one by an invitation that was pending   *)
(* and is used up, or by an admin; and nobody but an admin makes or        *)
(* unmakes an owner.                                                       *)
Invited(u) ==
  \E i \in Invitations :
    /\ invitation[i].status = "PENDING" /\ invitation'[i].status = "ACCEPTED"
    /\ invitation[i].user \in {None, u}

Granted(u) ==
  \E e \in Events : event[e].status = "NONE" /\ event'[e].user = u

MembershipsAreGiven ==
  [][\A u \in Users :
       /\ ~ member[u].active /\ member'[u].active => Invited(u) \/ Granted(u)
       /\ (member[u].active /\ member[u].role = "MERCHANT_OWNER")
          # (member'[u].active /\ member'[u].role = "MERCHANT_OWNER")
          => Granted(u)]_vars
=============================================================================
