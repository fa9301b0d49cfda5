-------------------------------- MODULE Mls ---------------------------------
(***************************************************************************)
(* MlsGroupManager of mercury-crypto and its wrapper MlsManager for WASM,  *)
(* for the group of one channel.  A session is an identity with the        *)
(* signature key that its manager drew.  Each operation is a pair of its   *)
(* condition, false where the code returns an error, and its effect; an    *)
(* error leaves the manager as it is, and the wrapper throws it.           *)
(*                                                                         *)
(* OpenMLS is external.  The secrets of an epoch follow from every change  *)
(* to the group so far, so an epoch is the sequence of these changes:      *)
(* groups that forked never agree on one.  A leaf index is represented by  *)
(* the member at that leaf.                                                *)
(***************************************************************************)
EXTENDS Naturals, Sequences, FiniteSets

CONSTANTS
  NoGroup,           \* the manager has no group for the channel
  MaxGroupMembers    \* MAX_GROUP_MEMBERS

Change(by, op, who) == [by |-> by, op |-> op, who |-> who]

\* MlsGroupManager::new.
NewManager(session) ==
  [me |-> session, generated |-> 0, packages |-> {}, group |-> NoGroup]

\* generate_key_package: its private half stays in the manager's storage.
NextPackage(m) == [owner |-> m.me, no |-> m.generated + 1]
GenerateKeyPackage(m) ==
  [m EXCEPT !.generated = @ + 1, !.packages = @ \cup {NextPackage(m)}]

HasGroup(m) == m.group # NoGroup

\* create_group: "group already exists" otherwise.
CanCreateGroup(m) == ~HasGroup(m)
CreateGroup(m) ==
  [m EXCEPT !.group = [epoch   |-> <<Change(m.me, "create", m.me)>>,
                       members |-> {m.me}]]

\* member_count.
MemberCount(m) == Cardinality(m.group.members)

\* OpenMLS: a member that was removed keeps the group but cannot use it.
IsOperational(m) == HasGroup(m) /\ m.me \in m.group.members

\* OpenMLS: the group after a change.
After(group, change) ==
  [epoch   |-> Append(group.epoch, change),
   members |-> IF change.op = "add" THEN group.members \cup {change.who}
               ELSE group.members \ {change.who}]

\* add_member: the limit is checked; OpenMLS refuses a signature key that is in
\* the group.  The manager merges its own commit before anyone has received it.
CanAddMember(m, package) ==
  /\ IsOperational(m)
  /\ MemberCount(m) < MaxGroupMembers
  /\ package.owner \notin m.group.members
AddChange(m, package) == Change(m.me, "add", package.owner)
AddMember(m, package) == [m EXCEPT !.group = After(@, AddChange(m, package))]

\* remove_member, by a leaf that is in use; OpenMLS refuses the own one.
CanRemoveMember(m, who) == IsOperational(m) /\ who \in m.group.members \ {m.me}
RemoveChange(m, who) == Change(m.me, "remove", who)
RemoveMember(m, who) == [m EXCEPT !.group = After(@, RemoveChange(m, who))]

\* What a member sends in its epoch: a commit or an application message.
Commit(m, change) == [kind |-> "commit", epoch |-> m.group.epoch, content |-> change]
Encrypt(m, text) ==
  [kind |-> "application", epoch |-> m.group.epoch, by |-> m.me, content |-> text]
Welcome(m, package) ==
  [package |-> package, group |-> After(m.group, AddChange(m, package))]

\* Mutant: the message is opened in whatever epoch the manager is.
CanDecryptAnyEpoch(m, msg) ==
  HasGroup(m) /\ msg.kind = "application" /\ msg.by # m.me

\* decrypt: OpenMLS opens messages of others, of the current epoch.
CanDecrypt(m, msg) ==
  /\ IsOperational(m)
  /\ msg.kind = "application" /\ msg.epoch = m.group.epoch /\ msg.by # m.me

\* process_commit.
CanProcessCommit(m, msg) ==
  /\ IsOperational(m)
  /\ msg.kind = "commit" /\ msg.epoch = m.group.epoch /\ msg.content.by # m.me
ProcessCommit(m, msg) == [m EXCEPT !.group = After(@, msg.content)]

\* process_welcome: uses up the private half of the package.  Whether OpenMLS
\* accepts a Welcome for a group id that the storage knows is left open.
CanProcessWelcome(m, welcome) == welcome.package \in m.packages
ProcessWelcome(m, welcome) ==
  [m EXCEPT !.group = welcome.group, !.packages = @ \ {welcome.package}]

\* MlsManager::add_member packs two byte strings into one, with the length of
\* the first in front; unpackAddMember takes them apart.
Pack(commit, welcome) == <<Len(commit)>> \o commit \o welcome
UnpackAddMember(packed) ==
  [commit  |-> SubSeq(packed, 2, packed[1] + 1),
   welcome |-> SubSeq(packed, packed[1] + 2, Len(packed))]

=============================================================================
