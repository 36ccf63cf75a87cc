---------------------------- MODULE GroupMessaging ----------------------------
(***************************************************************************)
(* GroupManager (bitchat-core, protocol/group_messaging.rs): every node    *)
(* keeps its own copy of a group and applies the messages of the others to *)
(* it. Messages are lost, repeated, delayed and reordered.                 *)
(*                                                                         *)
(* Groups do not influence each other, so there is one. Names and          *)
(* descriptions are told apart by whether they pass the length checks. An  *)
(* invitation's expiry is left out: process_invite reports it and stores   *)
(* nothing, and join_group never asks.                                     *)
(***************************************************************************)
EXTENDS Integers, FiniteSets

CONSTANTS
    GroupNode,
    Creator,          \* the node that creates the group
    MaxGroupSize,     \* MAX_GROUP_SIZE
    MaxPosts          \* bound: the messages sent

\* The creator is a node like any other, and there is room for it.
ASSUME GroupAssumption ==
    Creator \in GroupNode /\ MaxGroupSize \in Nat \ {0} /\ MaxPosts \in Nat

VARIABLES
    groups,      \* groups[n]: n's copy of the group, or NoGroup
    group_net    \* everything ever sent

groupVars == <<groups, group_net>>

NoGroup == [members |-> {}, name |-> "none", settings |-> "none"]
HasGroup(n) == groups[n] # NoGroup
GroupRole == {"Owner", "Admin", "Member"}
Member(p, r) == [peer_id |-> p, role |-> r]
MemberIds(g) == {m.peer_id : m \in g.members}

\* The messages that change a group.
GroupCreate(g) == [type |-> "Create", metadata |-> g]
GroupInvite(g) == [type |-> "Invite", metadata |-> g]
GroupJoin(n) == [type |-> "Join", member |-> Member(n, "Member")]
GroupLeave(n) == [type |-> "Leave", peer_id |-> n]
GroupUpdate(name, settings, fits) ==
    [type |-> "Update", name |-> name, settings |-> settings, fits |-> fits]
GroupKick(p) == [type |-> "Kick", peer_id |-> p]

\* GroupMetadata::new: the creator is the owner.
NewGroup == [members |-> {Member(Creator, "Owner")}, name |-> "first", settings |-> "default"]

GroupInit ==
    /\ groups = [n \in GroupNode |-> NoGroup]
    /\ group_net = {}

Change(n, g) == groups' = [groups EXCEPT ![n] = g]
Post(m) ==
    /\ m \in group_net \/ Cardinality(group_net) < MaxPosts
    /\ group_net' = group_net \cup {m}

-----------------------------------------------------------------------------
(* What the local user asks for *)

create_group ==
    /\ ~HasGroup(Creator) /\ group_net = {}
    /\ Change(Creator, NewGroup)
    /\ Post(GroupCreate(NewGroup))

\* GroupInvite::new: the inviter's copy travels with the invitation.
invite(n) ==
    /\ HasGroup(n)
    /\ Post(GroupInvite(groups[n]))
    /\ UNCHANGED groups

\* Any copy that was ever sent will do, by invitation, late or meant for another, or
\* not. The copy that is kept does not list the joining node itself.
join_group(n, m) ==
    /\ m.type \in {"Create", "Invite"} /\ ~HasGroup(n)
    /\ Change(n, m.metadata)
    /\ Post(GroupJoin(n))

leave_group(n) ==
    /\ HasGroup(n)
    /\ Change(n, NoGroup)
    /\ Post(GroupLeave(n))

\* GroupUpdate and GroupKick are sent as built; nothing asks for a role.
send_update(n, name, settings, fits) ==
    /\ HasGroup(n)
    /\ Post(GroupUpdate(name, settings, fits))
    /\ UNCHANGED groups

send_kick(n, p) ==
    /\ HasGroup(n)
    /\ Post(GroupKick(p))
    /\ UNCHANGED groups

-----------------------------------------------------------------------------
(* GroupMetadata *)

add_member(g, m) ==
    IF Cardinality(g.members) >= MaxGroupSize \/ m.peer_id \in MemberIds(g) THEN g
    ELSE [g EXCEPT !.members = @ \cup {m}]

BugRemoveMember(g, p) == [g EXCEPT !.members = {m \in @ : m.peer_id # p}]
remove_member(g, p) ==
    IF p = Creator THEN g ELSE [g EXCEPT !.members = {m \in @ : m.peer_id # p}]

\* The name is changed before the description is found too long; then the
\* settings are not.
update(g, m) ==
    IF m.fits THEN [g EXCEPT !.name = m.name, !.settings = m.settings]
    ELSE [g EXCEPT !.name = m.name]

\* A Create replaces whatever copy there is; the others change a copy, if any.
Processed(g, m) ==
    CASE m.type = "Create" -> m.metadata
      [] m.type = "Join" /\ g # NoGroup -> add_member(g, m.member)
      [] m.type \in {"Leave", "Kick"} /\ g # NoGroup -> remove_member(g, m.peer_id)
      [] m.type = "Update" /\ g # NoGroup -> update(g, m)
      [] OTHER -> g

process_message(n, m) ==
    /\ Change(n, Processed(groups[n], m))
    /\ UNCHANGED group_net

GroupNext ==
    \/ create_group
    \/ \E n \in GroupNode :
           \/ invite(n) \/ leave_group(n)
           \/ \E m \in group_net : join_group(n, m) \/ process_message(n, m)
           \/ \E p \in GroupNode : send_kick(n, p)
           \/ \E fits \in BOOLEAN : send_update(n, "second", "strict", fits)

GroupSpec == GroupInit /\ [][GroupNext]_groupVars

-----------------------------------------------------------------------------
(* Properties *)

\* Every copy of the group has its creator as its one owner, whatever kicks,
\* leaves and joins were applied to it in whatever order, the creator's own
\* departure included (remove_member, join_group).
OneOwner ==
    \A n \in GroupNode : HasGroup(n) =>
        {m.peer_id : m \in {x \in groups[n].members : x.role = "Owner"}} = {Creator}

\* No copy lists anybody twice or more members than the limit (add_member).
MembersDistinct ==
    \A n \in GroupNode :
        /\ Cardinality(groups[n].members) <= MaxGroupSize
        /\ Cardinality(MemberIds(groups[n])) = Cardinality(groups[n].members)

\* Whoever a copy lists asked to join: no order of stale copies, invitations and
\* kicks makes a member of somebody who never did.
MembersJoined ==
    \A n \in GroupNode : \A p \in MemberIds(groups[n]) \ {Creator} :
        [type |-> "Join", member |-> Member(p, "Member")] \in group_net

\* Every copy of a group is one its members could have made: the creator owns it, and
\* its members joined it, once each (add_member, remove_member, join_group).
MembershipSound == OneOwner /\ MembersDistinct /\ MembersJoined
=============================================================================
