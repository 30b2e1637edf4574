--------------------------- MODULE MembersProofs ---------------------------
(***************************************************************************)
(* Proofs about Members, for any number of users, invitations and admin    *)
(* requests.  That the two rows agree is not inductive: an event on its    *)
(* way might be applied.  It never is, because the row it is about was     *)
(* written, with version 1, by the request that recorded the event.        *)
(***************************************************************************)
EXTENDS Members, TLAPS

EventsAreBehind ==
  \A e \in Events : event[e].status # "NONE" => member[event[e].user].version = 1

IInv == TypeOK /\ RolesAgree /\ EventsAreBehind

LEMMA InitIInv == Init => IInv
  <1> SUFFICES ASSUME Init PROVE IInv
    OBVIOUS
  <1>1. TypeOK
    BY MembersConstants DEF Init, TypeOK, NoInvitation
  <1>2. RolesAgree /\ EventsAreBehind
    BY DEF Init, RolesAgree, EventsAreBehind, NoMember, NoStoreMember, NoEvent
  <1> QED BY <1>1, <1>2 DEF IInv

(* The rows of one user, written together.                                 *)
LEMMA SaveBoth ==
  ASSUME IInv, NEW u \in Users, NEW role \in Roles, NEW storeRole \in {"OWNER", "MANAGER"},
         NEW active \in BOOLEAN, role = "MERCHANT_OWNER" <=> storeRole = "OWNER",
         SaveGroup(u, role, active), SaveStore(u, storeRole, active)
  PROVE  /\ member' \in [Users -> GroupMembership \cup {NoMember}]
         /\ storeMember' \in [Users -> StoreMembership \cup {NoStoreMember}]
         /\ tokens' \subseteq Users \X Roles
         /\ RolesAgree'
         /\ \A v \in Users : member[v].version = 1 => member'[v].version = 1
         /\ member'[u].version = 1
  <1> DEFINE row == [role |-> role, active |-> active, version |-> 1]
             storeRow == [role |-> storeRole, active |-> active]
  <1>1. /\ member'[u] = row /\ \A v \in Users \ {u} : member'[v] = member[v]
        /\ storeMember'[u] = storeRow
        /\ \A v \in Users \ {u} : storeMember'[v] = storeMember[v]
    BY DEF SaveGroup, SaveStore, IInv, TypeOK
  <1>2. member' \in [Users -> GroupMembership \cup {NoMember}]
    BY DEF SaveGroup, IInv, TypeOK, GroupMembership
  <1>3. storeMember' \in [Users -> StoreMembership \cup {NoStoreMember}]
    BY DEF SaveStore, IInv, TypeOK, StoreMembership
  <1>4. tokens' \subseteq Users \X Roles
    BY DEF SaveGroup, IInv, TypeOK
  <1>5. RolesAgree'
    <2> SUFFICES ASSUME NEW v \in Users
                 PROVE  /\ member'[v].active = storeMember'[v].active
                        /\ member'[v].role = "MERCHANT_OWNER" <=>
                             storeMember'[v].role = "OWNER"
      BY DEF RolesAgree
    <2>1. CASE v = u
      BY <1>1, <2>1
    <2>2. CASE v # u
      BY <1>1, <2>2 DEF IInv, RolesAgree
    <2> QED BY <2>1, <2>2
  <1>6. /\ \A v \in Users : member[v].version = 1 => member'[v].version = 1
        /\ member'[u].version = 1
    BY <1>1
  <1> QED BY <1>2, <1>3, <1>4, <1>5, <1>6

LEMMA EventUser ==
  ASSUME TypeOK, NEW e \in Events, event[e].status # "NONE"
  PROVE  event[e] \in MembershipEvent /\ event[e].user \in Users
  <1>1. event[e] \in MembershipEvent \/ event[e] = NoEvent
    BY DEF TypeOK
  <1> QED BY <1>1 DEF MembershipEvent, NoEvent

(* A request of a member, through save_membership.                         *)
LEMMA SaveMembership ==
  ASSUME IInv, NEW u \in Users, NEW role \in Roles, NEW active \in BOOLEAN,
         save_membership(u, role, active), UNCHANGED <<event, linked>>,
         invitation' \in [Invitations -> GroupInvitation \cup {NoInvitation}],
         \A i \in Invitations : invitation'[i].status # "NONE" =>
           invitation'[i].user # None \/ invitation'[i].wallet # None
  PROVE  IInv'
  <1>1. PICK storeRole \in {"OWNER", "MANAGER"} :
          storeRole = IF role = "MERCHANT_OWNER" THEN "OWNER" ELSE "MANAGER"
    OBVIOUS
  <1>2. SaveGroup(u, role, active) /\ SaveStore(u, storeRole, active)
    BY <1>1 DEF save_membership
  <1>3. role = "MERCHANT_OWNER" <=> storeRole = "OWNER"
    BY <1>1
  <1>4. /\ member' \in [Users -> GroupMembership \cup {NoMember}]
        /\ storeMember' \in [Users -> StoreMembership \cup {NoStoreMember}]
        /\ tokens' \subseteq Users \X Roles
        /\ RolesAgree'
        /\ \A v \in Users : member[v].version = 1 => member'[v].version = 1
    BY <1>2, <1>3, SaveBoth
  <1>5. EventsAreBehind'
    BY <1>4, EventUser DEF IInv, EventsAreBehind
  <1>6. TypeOK'
    BY <1>4 DEF IInv, TypeOK
  <1> QED BY <1>4, <1>5, <1>6 DEF IInv

(* An admin's request.                                                     *)
LEMMA AdminSaves ==
  ASSUME IInv, NEW e \in Events, NEW u \in Users, NEW role \in Roles,
         NEW storeRole \in {"OWNER", "MANAGER"}, NEW active \in BOOLEAN,
         role = "MERCHANT_OWNER" <=> storeRole = "OWNER",
         _record_membership_projection_event(e, u, role, active),
         SaveGroup(u, role, active), SaveStore(u, storeRole, active),
         UNCHANGED <<invitation, linked>>
  PROVE  IInv'
  <1> DEFINE row == [status |-> "SENT", user |-> u, role |-> role, active |-> active]
  <1>1. /\ member' \in [Users -> GroupMembership \cup {NoMember}]
        /\ storeMember' \in [Users -> StoreMembership \cup {NoStoreMember}]
        /\ tokens' \subseteq Users \X Roles
        /\ RolesAgree'
        /\ \A v \in Users : member[v].version = 1 => member'[v].version = 1
        /\ member'[u].version = 1
    BY SaveBoth
  <1>2. event'[e] = row /\ \A f \in Events \ {e} : event'[f] = event[f]
    BY DEF _record_membership_projection_event, IInv, TypeOK
  <1>3. event' \in [Events -> MembershipEvent \cup {NoEvent}]
    <2>1. row \in MembershipEvent
      BY DEF MembershipEvent
    <2> QED BY <2>1 DEF _record_membership_projection_event, IInv, TypeOK
  <1>4. EventsAreBehind'
    <2> SUFFICES ASSUME NEW f \in Events, event'[f].status # "NONE"
                 PROVE  member'[event'[f].user].version = 1
      BY DEF EventsAreBehind
    <2>1. CASE f = e
      BY <1>1, <1>2, <2>1
    <2>2. CASE f # e
      <3>1. event'[f] = event[f] /\ event[f].user \in Users
        BY <1>2, <2>2, EventUser DEF IInv
      <3> QED BY <1>1, <3>1 DEF IInv, EventsAreBehind
    <2> QED BY <2>1, <2>2
  <1>5. TypeOK'
    BY <1>1, <1>3 DEF IInv, TypeOK
  <1> QED BY <1>1, <1>4, <1>5 DEF IInv

LEMMA createStoreStep ==
  ASSUME IInv, NEW e \in Events, createStore(e)
  PROVE  IInv'
  <1>1. Owner \in Users /\ "MERCHANT_OWNER" \in Roles
    BY MembersConstants DEF Roles
  <1> QED BY <1>1, AdminSaves DEF createStore

LEMMA grantStoreMembershipStep ==
  ASSUME IInv, NEW e \in Events, NEW u \in Users, NEW role \in {"OWNER", "MANAGER"},
         NEW active \in BOOLEAN, grantStoreMembership(e, u, role, active)
  PROVE  IInv'
  <1>1. PICK id \in Roles : id = _merchant_role_for_store_role(role)
    BY DEF _merchant_role_for_store_role, Roles
  <1>2. id = "MERCHANT_OWNER" <=> role = "OWNER"
    BY <1>1 DEF _merchant_role_for_store_role
  <1>3. /\ _record_membership_projection_event(e, u, id, active)
        /\ SaveGroup(u, id, active) /\ SaveStore(u, role, active)
        /\ UNCHANGED <<invitation, linked>>
    BY <1>1 DEF grantStoreMembership
  <1> QED BY <1>2, <1>3, AdminSaves

(* The event is behind, so the projection leaves the row as it is.         *)
LEMMA handleStep ==
  ASSUME IInv, NEW e \in Events, handle(e)
  PROVE  IInv' /\ UNCHANGED member
  <1>1. /\ event[e].status = "SENT" /\ event' = [event EXCEPT ![e].status = "PROCESSED"]
        /\ UNCHANGED <<storeMember, invitation, tokens, linked>>
    BY DEF handle
  <1>2. member[event[e].user].version = 1 /\ event[e] \in MembershipEvent
    BY <1>1, EventUser DEF IInv, EventsAreBehind
  <1>3. member' = member
    BY <1>2 DEF handle, applies
  <1>4. PICK row \in MembershipEvent : row = [event[e] EXCEPT !.status = "PROCESSED"]
    BY <1>2 DEF MembershipEvent
  <1>5. event' = [event EXCEPT ![e] = row]
    BY <1>1, <1>4 DEF IInv, TypeOK
  <1>6. row.user = event[e].user
    BY <1>2, <1>4 DEF MembershipEvent
  <1>7. TypeOK'
    BY <1>1, <1>3, <1>5 DEF IInv, TypeOK
  <1>8. EventsAreBehind'
    BY <1>2, <1>3, <1>5, <1>6 DEF IInv, TypeOK, EventsAreBehind
  <1>9. RolesAgree'
    BY <1>1, <1>3 DEF IInv, RolesAgree
  <1> QED BY <1>3, <1>7, <1>8, <1>9 DEF IInv

(* Only an invitation changes, and it keeps a target.                      *)
LEMMA InvitationStep ==
  ASSUME IInv, NEW i \in Invitations, NEW row \in GroupInvitation,
         row.user # None \/ row.wallet # None,
         invitation' = [invitation EXCEPT ![i] = row],
         UNCHANGED <<member, storeMember, event, tokens, linked>>
  PROVE  IInv'
  <1>1. TypeOK'
    BY DEF IInv, TypeOK
  <1>2. RolesAgree' /\ EventsAreBehind'
    BY DEF IInv, RolesAgree, EventsAreBehind
  <1> QED BY <1>1, <1>2 DEF IInv

LEMMA InvitationShape ==
  ASSUME IInv, NEW i \in Invitations, invitation[i].status # "NONE"
  PROVE  /\ invitation[i] \in GroupInvitation
         /\ target_wallet(i) \in Addresses /\ target_wallet(i) # None
  <1>1. invitation[i] \in GroupInvitation \/ invitation[i] = NoInvitation
    BY DEF IInv, TypeOK
  <1>2. invitation[i] \in GroupInvitation
    BY <1>1 DEF NoInvitation
  <1>3. invitation[i].user # None \/ invitation[i].wallet # None
    BY DEF IInv, TypeOK
  <1>4. target_wallet(i) \in Addresses
    BY <1>2, <1>3, MembersConstants DEF target_wallet, GroupInvitation
  <1> QED BY <1>2, <1>4, MembersConstants

LEMMA create_invitationStep ==
  ASSUME IInv, NEW actor \in Users, NEW i \in Invitations,
         NEW role \in MERCHANT_ASSIGNABLE_ROLE_IDS, NEW named \in Users \cup {None},
         NEW wallet \in Addresses \cup {None}, {named, wallet} # {None},
         create_invitation(actor, i, role, named, wallet)
  PROVE  IInv'
  <1> DEFINE users == IF named # None THEN {named} ELSE user_id_for_active_wallet(wallet)
  <1>1. PICK user \in IF users = {} THEN {None} ELSE users :
          invitation' = [invitation EXCEPT ![i] =
                           [status |-> "PENDING", role |-> role, user |-> user,
                            wallet |-> wallet, expired |-> FALSE]]
    BY DEF create_invitation
  <1>2. UNCHANGED <<member, storeMember, event, tokens, linked>>
    BY DEF create_invitation
  <1>3. user \in Users \cup {None} /\ (named # None => user = named)
    BY DEF user_id_for_active_wallet
  <1>4. user # None \/ wallet # None
    BY <1>3
  <1>5. PICK row \in GroupInvitation :
          row = [status |-> "PENDING", role |-> role, user |-> user,
                 wallet |-> wallet, expired |-> FALSE]
    BY <1>3 DEF GroupInvitation
  <1> QED BY <1>1, <1>2, <1>4, <1>5, InvitationStep

LEMMA InvitationExpiresStep ==
  ASSUME IInv, NEW i \in Invitations, InvitationExpires(i)
  PROVE  IInv'
  <1>1. /\ invitation[i].status = "PENDING"
        /\ invitation' = [invitation EXCEPT ![i].expired = TRUE]
        /\ UNCHANGED <<member, storeMember, event, tokens, linked>>
    BY DEF InvitationExpires
  <1>2. /\ invitation[i] \in GroupInvitation
        /\ invitation[i].user # None \/ invitation[i].wallet # None
    BY <1>1, InvitationShape DEF IInv, TypeOK
  <1>3. PICK row \in GroupInvitation : row = [invitation[i] EXCEPT !.expired = TRUE]
    BY <1>2 DEF GroupInvitation
  <1>4. invitation' = [invitation EXCEPT ![i] = row]
    BY <1>1, <1>3 DEF IInv, TypeOK
  <1>5. row.user # None \/ row.wallet # None
    BY <1>2, <1>3 DEF GroupInvitation
  <1> QED BY <1>1, <1>4, <1>5, InvitationStep

LEMMA CloseStep ==
  ASSUME IInv, NEW i \in Invitations, NEW status \in {"ACCEPTED", "REVOKED"},
         invitation[i].status # "NONE", Close(i, status)
  PROVE  /\ invitation' \in [Invitations -> GroupInvitation \cup {NoInvitation}]
         /\ \A j \in Invitations : invitation'[j].status # "NONE" =>
              invitation'[j].user # None \/ invitation'[j].wallet # None
  <1>1. /\ invitation[i] \in GroupInvitation
        /\ target_wallet(i) \in Addresses /\ target_wallet(i) # None
    BY InvitationShape
  <1>2. PICK row \in GroupInvitation :
          row = [invitation[i] EXCEPT !.status = status, !.wallet = target_wallet(i),
                                      !.expired = FALSE]
    BY <1>1 DEF GroupInvitation
  <1>3. invitation' = [invitation EXCEPT ![i] = row]
    BY <1>2 DEF Close, IInv, TypeOK
  <1>4. row.wallet # None
    BY <1>1, <1>2 DEF GroupInvitation
  <1> QED BY <1>3, <1>4 DEF IInv, TypeOK

LEMMA accept_invitationStep ==
  ASSUME IInv, NEW u \in Users, NEW i \in Invitations, accept_invitation(u, i)
  PROVE  IInv'
  <1>1. /\ invitation[i].status = "PENDING" /\ Close(i, "ACCEPTED")
        /\ save_membership(u, invitation[i].role, TRUE) /\ UNCHANGED <<event, linked>>
    BY DEF accept_invitation, is_open_for
  <1>2. PICK role \in Roles : role = invitation[i].role
    BY <1>1, InvitationShape DEF GroupInvitation, MERCHANT_ASSIGNABLE_ROLE_IDS
  <1>3. /\ invitation' \in [Invitations -> GroupInvitation \cup {NoInvitation}]
        /\ \A j \in Invitations : invitation'[j].status # "NONE" =>
             invitation'[j].user # None \/ invitation'[j].wallet # None
    BY <1>1, CloseStep
  <1> QED BY <1>1, <1>2, <1>3, SaveMembership

LEMMA revoke_invitationStep ==
  ASSUME IInv, NEW actor \in Users, NEW i \in Invitations, revoke_invitation(actor, i)
  PROVE  IInv'
  <1>1. /\ invitation[i].status = "PENDING" /\ Close(i, "REVOKED")
        /\ UNCHANGED <<member, storeMember, event, tokens, linked>>
    BY DEF revoke_invitation
  <1>2. TypeOK'
    BY <1>1, CloseStep DEF IInv, TypeOK
  <1>3. RolesAgree' /\ EventsAreBehind'
    BY <1>1 DEF IInv, RolesAgree, EventsAreBehind
  <1> QED BY <1>2, <1>3 DEF IInv

LEMMA ManageStep == IInv /\ Manage => IInv'
  <1> SUFFICES ASSUME IInv, NEW actor \in Users, NEW u \in Users,
                      \/ \E role \in MERCHANT_ASSIGNABLE_ROLE_IDS :
                           update_member_role(actor, u, role)
                      \/ remove_member(actor, u)
               PROVE  IInv'
    BY DEF Manage
  <1>1. PICK role \in Roles, active \in BOOLEAN :
          save_membership(u, role, active) /\ UNCHANGED <<invitation, event, linked>>
    <2>1. CASE remove_member(actor, u)
      <3>1. member[u].active /\ save_membership(u, member[u].role, FALSE)
            /\ UNCHANGED <<invitation, event, linked>>
        BY <2>1 DEF remove_member
      <3>2. member[u] \in GroupMembership \/ member[u] = NoMember
        BY DEF IInv, TypeOK
      <3>3. PICK role \in Roles : role = member[u].role
        BY <3>1, <3>2 DEF GroupMembership, NoMember
      <3> QED BY <3>1, <3>3
    <2>2. CASE \E role \in MERCHANT_ASSIGNABLE_ROLE_IDS : update_member_role(actor, u, role)
      BY <2>2 DEF update_member_role, MERCHANT_ASSIGNABLE_ROLE_IDS
    <2> QED BY <2>1, <2>2
  <1>2. /\ invitation' \in [Invitations -> GroupInvitation \cup {NoInvitation}]
        /\ \A i \in Invitations : invitation'[i].status # "NONE" =>
             invitation'[i].user # None \/ invitation'[i].wallet # None
    BY <1>1 DEF IInv, TypeOK
  <1> QED BY <1>1, <1>2, SaveMembership

LEMMA WalletStep == IInv /\ Wallet => IInv'
  <1> SUFFICES ASSUME IInv, NEW u \in Users, NEW a \in Addresses,
                      LinkWallet(u, a) \/ RevokeWallet(u, a)
               PROVE  IInv'
    BY DEF Wallet
  <1>1. /\ linked' \subseteq Users \X Addresses
        /\ UNCHANGED <<member, storeMember, invitation, event, tokens>>
    BY DEF LinkWallet, RevokeWallet, IInv, TypeOK
  <1> QED BY <1>1 DEF IInv, TypeOK, RolesAgree, EventsAreBehind

LEMMA InviteStep == IInv /\ Invite => IInv'
  BY create_invitationStep, InvitationExpiresStep, accept_invitationStep,
     revoke_invitationStep DEF Invite

LEMMA AdminStep == IInv /\ Admin => IInv'
  BY createStoreStep, grantStoreMembershipStep DEF Admin

LEMMA ProjectorStep == IInv /\ Projector => IInv' /\ UNCHANGED member
  BY handleStep DEF Projector

LEMMA StutterStep == IInv /\ UNCHANGED vars => IInv'
  BY DEF vars, IInv, TypeOK, RolesAgree, EventsAreBehind

(* The inductive invariant: no event is ahead of the row it is about.      *)
THEOREM MembersInvariant == Spec => []IInv
  <1>1. IInv /\ [Next]_vars => IInv'
    BY AdminStep, ProjectorStep, InviteStep, ManageStep, WalletStep, StutterStep DEF Next
  <1> QED BY <1>1, InitIInv, PTL DEF Spec

(* Every row has its columns, and every invitation a target.               *)
THEOREM TypeCorrect == Spec => []TypeOK
  <1>1. IInv => TypeOK
    BY DEF IInv
  <1> QED BY <1>1, MembersInvariant, PTL

(* The catalogue's row and the group row of a member agree at all times.   *)
THEOREM RowsAgree == Spec => []RolesAgree
  <1>1. IInv => RolesAgree
    BY DEF IInv
  <1> QED BY <1>1, MembersInvariant, PTL

-----------------------------------------------------------------------------
Given(u) ==
  /\ ~ member[u].active /\ member'[u].active => Invited(u) \/ Granted(u)
  /\ (member[u].active /\ member[u].role = "MERCHANT_OWNER")
     # (member'[u].active /\ member'[u].role = "MERCHANT_OWNER") => Granted(u)

LEMMA OtherRows ==
  ASSUME IInv, NEW u \in Users, NEW role, NEW active, SaveGroup(u, role, active)
  PROVE  /\ member'[u].role = role /\ member'[u].active = active
         /\ \A v \in Users \ {u} : member'[v] = member[v]
  BY DEF SaveGroup, IInv, TypeOK

LEMMA AdminGives ==
  ASSUME IInv, NEW e \in Events, NEW u \in Users, NEW role, NEW active,
         _record_membership_projection_event(e, u, role, active),
         SaveGroup(u, role, active), NEW v \in Users
  PROVE  Given(v)
  <1>1. CASE v = u
    <2>1. event[e].status = "NONE" /\ event'[e].user = u
      BY DEF _record_membership_projection_event, NoEvent, IInv, TypeOK
    <2> QED BY <1>1, <2>1 DEF Given, Granted
  <1>2. CASE v # u
    BY <1>2, OtherRows DEF Given
  <1> QED BY <1>1, <1>2

LEMMA AcceptGives ==
  ASSUME IInv, NEW u \in Users, NEW i \in Invitations, accept_invitation(u, i),
         NEW v \in Users
  PROVE  Given(v)
  <1>1. /\ invitation[i].status = "PENDING" /\ invitation[i].user \in {None, u}
        /\ ~ member[u].active
        /\ save_membership(u, invitation[i].role, TRUE) /\ Close(i, "ACCEPTED")
    BY DEF accept_invitation, is_open_for
  <1>2. PICK role \in MERCHANT_ASSIGNABLE_ROLE_IDS : role = invitation[i].role
    BY <1>1, InvitationShape DEF GroupInvitation
  <1>3. SaveGroup(u, role, TRUE) /\ role # "MERCHANT_OWNER"
    BY <1>1, <1>2 DEF save_membership, MERCHANT_ASSIGNABLE_ROLE_IDS
  <1>4. invitation'[i].status = "ACCEPTED"
    BY <1>1, InvitationShape DEF Close, IInv, TypeOK, GroupInvitation
  <1>5. CASE v = u
    <2>1. Invited(u)
      BY <1>1, <1>4 DEF Invited
    <2>2. member'[u].role # "MERCHANT_OWNER"
      BY <1>3, OtherRows
    <2> QED BY <1>1, <1>5, <2>1, <2>2 DEF Given
  <1>6. CASE v # u
    BY <1>3, <1>6, OtherRows DEF Given
  <1> QED BY <1>5, <1>6

LEMMA ManageGives ==
  ASSUME IInv, NEW u \in Users, member[u].active, member[u].role # "MERCHANT_OWNER",
         NEW role, NEW active, role # "MERCHANT_OWNER",
         save_membership(u, role, active), NEW v \in Users
  PROVE  Given(v)
  <1>1. SaveGroup(u, role, active)
    BY DEF save_membership
  <1>2. CASE v = u
    <2>1. member'[u].role # "MERCHANT_OWNER"
      BY <1>1, OtherRows
    <2> QED BY <1>2, <2>1 DEF Given
  <1>3. CASE v # u
    BY <1>1, <1>3, OtherRows DEF Given
  <1> QED BY <1>2, <1>3

(* Nobody joins without a pending invitation or an admin, and only admins  *)
(* change who owns the store; late and repeated events change nothing.     *)
THEOREM MembershipsGiven == Spec => MembershipsAreGiven
  <1>1. IInv /\ Next => \A v \in Users : Given(v)
    <2> SUFFICES ASSUME IInv, Next, NEW v \in Users PROVE Given(v)
      OBVIOUS
    <2>1. CASE Admin
      <3>1. ASSUME NEW e \in Events, createStore(e) PROVE Given(v)
        BY <3>1, AdminGives, MembersConstants DEF createStore
      <3>2. ASSUME NEW e \in Events, NEW u \in Users, NEW role \in {"OWNER", "MANAGER"},
                   NEW active \in BOOLEAN, grantStoreMembership(e, u, role, active)
            PROVE  Given(v)
        <4>1. PICK id \in Roles : id = _merchant_role_for_store_role(role)
          BY DEF _merchant_role_for_store_role, Roles
        <4> QED BY <3>2, <4>1, AdminGives DEF grantStoreMembership
      <3> QED BY <2>1, <3>1, <3>2 DEF Admin
    <2>2. CASE Projector
      BY <2>2, ProjectorStep DEF Given
    <2>3. CASE Invite
      <3>1. CASE UNCHANGED member
        BY <3>1 DEF Given
      <3>2. ASSUME NEW i \in Invitations, NEW u \in Users, accept_invitation(u, i)
            PROVE  Given(v)
        BY <3>2, AcceptGives
      <3> QED BY <2>3, <3>1, <3>2
           DEF Invite, create_invitation, InvitationExpires, revoke_invitation
    <2>4. CASE Manage
      <3>1. ASSUME NEW actor \in Users, NEW u \in Users,
                   NEW role \in MERCHANT_ASSIGNABLE_ROLE_IDS,
                   update_member_role(actor, u, role)
            PROVE  Given(v)
        BY <3>1, ManageGives DEF update_member_role, MERCHANT_ASSIGNABLE_ROLE_IDS
      <3>2. ASSUME NEW actor \in Users, NEW u \in Users, remove_member(actor, u)
            PROVE  Given(v)
        <4>1. /\ member[u].active /\ member[u].role # "MERCHANT_OWNER"
              /\ save_membership(u, member[u].role, FALSE)
          BY <3>2 DEF remove_member
        <4>2. PICK role : role = member[u].role
          OBVIOUS
        <4> QED BY <4>1, <4>2, ManageGives
      <3> QED BY <2>4, <3>1, <3>2 DEF Manage
    <2>5. CASE Wallet
      BY <2>5 DEF Wallet, LinkWallet, RevokeWallet, Given
    <2> QED BY <2>1, <2>2, <2>3, <2>4, <2>5 DEF Next
  <1>2. IInv /\ [Next]_vars =>
          [\A u \in Users :
             /\ ~ member[u].active /\ member'[u].active => Invited(u) \/ Granted(u)
             /\ (member[u].active /\ member[u].role = "MERCHANT_OWNER")
                # (member'[u].active /\ member'[u].role = "MERCHANT_OWNER")
                => Granted(u)]_vars
    BY <1>1 DEF Given
  <1> QED BY <1>2, MembersInvariant, PTL DEF Spec, MembershipsAreGiven
=============================================================================
