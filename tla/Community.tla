----------------------------- MODULE Community -----------------------------
(***************************************************************************)
(* A community of agents: CommunityManager (membership, resources, votes   *)
(* and their storage) and DecisionEngine (consensus, arbitration and       *)
(* escalation), on one decision.  The manager changes its memory and then  *)
(* awaits _save_to_storage, which takes one key after the other, copies    *)
(* what the memory holds under it and awaits the write of the copy; other  *)
(* calls run in between, a write that fails is only logged, and the        *)
(* process may stop anywhere and be started again from what is stored.     *)
(* The storage is whatever context engine has get_context and set_context; *)
(* of its writes it is assumed that they land before they return, or not   *)
(* at all.  There may be none: nothing is then saved.  Left out: the       *)
(* resources themselves (a transfer is the save it makes before its owner  *)
(* leaves), the activity flag of members, and the clock (a vote after      *)
(* voting_ends_at raises and changes nothing: it is a vote not made).      *)
(***************************************************************************)
EXTENDS Integers, Sequences, FiniteSets

CONSTANTS
  Agents,
  Communities,
  Roles,       \* roles members join in
  Choices,     \* what a vote may say
  Levels,      \* length of the escalation path
  Callers,     \* tasks that call the manager
  MaxMembers,  \* bound: member records ever made
  MaxStored,   \* bound: of these, when they are stored
  StoredWays,  \* bound: algorithms asked for a decision that is stored
  MaxCalls,    \* bound: calls made to a manager that stores
  MaxFailures  \* bound: writes and loads that fail

ASSUME CommunityAssumption ==
  /\ Roles \subseteq {"leader", "coordinator", "contributor"}
  /\ {"for", "against"} \subseteq Choices /\ "none" \notin Choices
  /\ Levels \in Nat \ {0} /\ MaxMembers \in Nat /\ MaxStored \in 0 .. MaxMembers
  /\ MaxCalls \in Nat /\ MaxFailures \in Nat

VARIABLES
  engine,      \* whether the manager has a context engine
  mem,         \* the manager's dictionaries: communities, members, decision
  stored,      \* what is stored under each of their keys
  byCommunity, \* community_members
  byAgent,     \* member_communities
  lastId,      \* member ids given out (uuids, never given twice)
  saves,       \* for each caller, the key its call is saving
  calls,       \* calls made, where they are bounded
  failures,    \* writes and loads that failed
  copy,        \* for each caller, what is to be written under that key
  acked,       \* the vote of each member that was acknowledged (history)
  durable      \* members whose acknowledged vote was written (history)

vars == <<engine, mem, stored, byCommunity, byAgent, lastId, calls, failures, saves, copy, acked, durable>>

votesGiven == <<acked, durable>>

Ids == 1 .. MaxMembers
Keys == <<"communities", "members", "decision">>
AllKeys == {Keys[i] : i \in 1 .. Len(Keys)}
\* due: the write of the key has not landed.
Idle == [at |-> 0, kind |-> "none", who |-> 0, what |-> "none", due |-> FALSE]

\* by: how a decision came to be approved (history).
Unvoted(status, level) ==
  [status |-> status, votes |-> [ch \in Choices |-> {}], level |-> level, by |-> "none"]
NoDecision == Unvoted("none", 0)
Empty == [communities |-> <<>>, members |-> <<>>, decision |-> NoDecision]

Known == DOMAIN mem.members
Put(f, k, v) == [x \in DOMAIN f \cup {k} |-> IF x = k THEN v ELSE f[x]]

-----------------------------------------------------------------------------
(* Storage *)

\* What is held under some of the keys.
Part(d, keys) ==
  [communities |-> IF "communities" \in keys THEN d.communities ELSE Empty.communities,
   members     |-> IF "members" \in keys THEN d.members ELSE Empty.members,
   decision    |-> IF "decision" \in keys THEN d.decision ELSE Empty.decision]

\* A caller whose call has changed the memory starts to save it: its first
\* key is copied.  kind, who and what say how the call goes on.
Start(t, kind, who, what) ==
  /\ saves' = [saves EXCEPT ![t] =
       [at |-> 1, kind |-> kind, who |-> who, what |-> what, due |-> TRUE]]
  /\ copy' = [copy EXCEPT ![t] = Part(mem', {Keys[1]})]
  /\ UNCHANGED stored

\* _save_to_storage: nothing is done without a context engine.
Saving(kind, who, what) ==
  IF engine THEN \E t \in Callers : saves[t] = Idle /\ Start(t, kind, who, what)
            ELSE UNCHANGED <<saves, copy, stored>>

\* The write of a key is over: its copy is stored ...
WriteOver(t) ==
  /\ saves[t].due
  /\ saves' = [saves EXCEPT ![t].due = FALSE]
  /\ copy' = [copy EXCEPT ![t] = Empty]
  /\ UNCHANGED <<engine, mem, byCommunity, byAgent, lastId, votesGiven>>

Lands(t) ==
  /\ WriteOver(t)
  /\ stored' = [stored EXCEPT ![Keys[saves[t].at]] = copy[t][Keys[saves[t].at]]]
  /\ UNCHANGED failures

\* ... or it has failed, which is logged: the call goes on as if it had not.
Fails(t) ==
  /\ failures < MaxFailures /\ failures' = failures + 1
  /\ WriteOver(t)
  /\ UNCHANGED stored

SaveKeyRostered(t) ==                  \* mutant: records of members that left are not saved
  /\ saves[t].at \in 1 .. Len(Keys) - 1 /\ ~saves[t].due
  /\ saves' = [saves EXCEPT ![t].at = @ + 1, ![t].due = TRUE]
  /\ LET inRoster == {m \in Known : \E c \in DOMAIN byCommunity : m \in byCommunity[c]}
     IN  copy' = [copy EXCEPT ![t] =
           Part([mem EXCEPT !.members = [m \in inRoster |-> mem.members[m]]],
                {Keys[saves[t].at + 1]})]
  /\ UNCHANGED <<engine, mem, stored, byCommunity, byAgent, lastId, failures, votesGiven>>
\* The next key is copied, as the memory is now.
SaveKey(t) ==
  /\ saves[t].at \in 1 .. Len(Keys) - 1 /\ ~saves[t].due
  /\ saves' = [saves EXCEPT ![t].at = @ + 1, ![t].due = TRUE]
  /\ copy' = [copy EXCEPT ![t] = Part(mem, {Keys[saves[t].at + 1]})]
  /\ UNCHANGED <<engine, mem, stored, byCommunity, byAgent, lastId, failures, votesGiven>>

LastKeyOver(t) == saves[t].at = Len(Keys) /\ ~saves[t].due

\* A vote is stored with the record of its voter, and no write under way
\* would put an older state over it.
Written(m, choice) ==
  /\ m \in stored.decision.votes[choice] /\ m \in DOMAIN stored.members
  /\ \A t \in Callers : saves[t].due =>
       /\ Keys[saves[t].at] = "decision" => m \in copy[t].decision.votes[choice]
       /\ Keys[saves[t].at] = "members" => m \in DOMAIN copy[t].members

\* The call returns; a vote that still stands is now acknowledged, whether it
\* was written or not.
Saved(t) ==
  /\ LastKeyOver(t) /\ saves[t].kind \in {"plain", "vote"}
  /\ LET m == saves[t].who
         choice == saves[t].what
     IN  IF saves[t].kind = "vote" /\ m \in mem.decision.votes[choice]
         THEN /\ acked' = [acked EXCEPT ![m] = choice]
              /\ durable' = IF Written(m, choice) THEN durable \cup {m} ELSE durable \ {m}
         ELSE UNCHANGED votesGiven
  /\ saves' = [saves EXCEPT ![t] = Idle]
  /\ UNCHANGED <<engine, mem, stored, byCommunity, byAgent, lastId, failures, copy>>

\* create_community saves a second time, after its creator has joined.
SavedAgain(t) ==
  /\ LastKeyOver(t) /\ saves[t].kind = "create"
  /\ UNCHANGED <<engine, mem, byCommunity, byAgent, lastId, failures, votesGiven>>
  /\ Start(t, "plain", 0, "none")

\* The process stops; the next manager loads what is stored, but for keys
\* whose load fails (which is logged), and rebuilds its indexes.
Restart ==
  \E lost \in SUBSET AllKeys :
    LET d == Part(stored, AllKeys \ lost)
        voters == IF {"members", "decision"} \cap lost = {} THEN durable ELSE {}
        failed == IF engine THEN Cardinality(lost) ELSE 0
    IN  /\ ~engine => lost = AllKeys
        /\ failures + failed <= MaxFailures /\ failures' = failures + failed
        /\ mem' = d
        /\ byCommunity' = [c \in DOMAIN d.communities |-> d.communities[c].members]
        /\ byAgent' = [a \in Agents |->
             {c \in DOMAIN d.communities :
                \E m \in DOMAIN d.members :
                  d.members[m] = a /\ m \in d.communities[c].members}]
        /\ saves' = [t \in Callers |-> Idle]
        /\ copy' = [t \in Callers |-> Empty]
        /\ acked' = [m \in Ids |-> IF m \in voters THEN acked[m] ELSE "none"]
        /\ durable' = voters
        /\ UNCHANGED <<engine, stored, lastId>>

-----------------------------------------------------------------------------
(* Membership *)

\* _find_member_by_agent_id
MemberOf(c, a) == {m \in byCommunity[c] \cap Known : mem.members[m] = a}

NoCommunity == [members |-> {}, leaders |-> {}, coordinators |-> {}]

\* The record of a new member, and its places in a community.
Joined(c, a, role, community) ==
  LET m == lastId + 1 IN
  /\ lastId < (IF engine THEN MaxStored ELSE MaxMembers) /\ lastId' = m
  /\ mem' = [mem EXCEPT
       !.members = Put(@, m, a),
       !.communities = Put(@, c,
         [community EXCEPT
            !.members = @ \cup {m},
            !.leaders = IF role = "leader" THEN @ \cup {m} ELSE @,
            !.coordinators = IF role = "coordinator" THEN @ \cup {m} ELSE @])]
  /\ byAgent' = [byAgent EXCEPT ![a] = @ \cup {c}]
  /\ UNCHANGED <<engine, votesGiven>>

\* create_community: the creator joins it as its leader ...
CreateCommunity(c, a) ==
  /\ c \notin DOMAIN mem.communities
  /\ Joined(c, a, "leader", NoCommunity)
  /\ byCommunity' = Put(byCommunity, c, {lastId + 1})
  /\ Saving("create", 0, "none")

\* ... if one is given.
CreateAlone(c) ==
  /\ c \notin DOMAIN mem.communities
  /\ mem' = [mem EXCEPT !.communities = Put(@, c, NoCommunity)]
  /\ byCommunity' = Put(byCommunity, c, {})
  /\ Saving("plain", 0, "none")
  /\ UNCHANGED <<engine, byAgent, lastId, votesGiven>>

\* add_member_to_community: an agent has one membership in a community.
AddMember(c, a, role) ==
  /\ c \in DOMAIN mem.communities /\ MemberOf(c, a) = {}
  /\ Joined(c, a, role, mem.communities[c])
  /\ byCommunity' = [byCommunity EXCEPT ![c] = @ \cup {lastId + 1}]
  /\ Saving("plain", 0, "none")

LeaveIndexed(c, m) ==                  \* mutant: the index of the community is left as it was
  /\ mem' = [mem EXCEPT
       !.communities[c] = [members |-> @.members \ {m},
                           leaders |-> @.leaders \ {m},
                           coordinators |-> @.coordinators \ {m}]]
  /\ byAgent' = [byAgent EXCEPT ![mem.members[m]] = @ \ {c}]
  /\ UNCHANGED <<engine, byCommunity, lastId, votesGiven>>
\* The member leaves the lists of the community and the indexes.
Leave(c, m) ==
  /\ mem' = [mem EXCEPT
       !.communities[c] = [members |-> @.members \ {m},
                           leaders |-> @.leaders \ {m},
                           coordinators |-> @.coordinators \ {m}]]
  /\ byCommunity' = [byCommunity EXCEPT ![c] = @ \ {m}]
  /\ byAgent' = [byAgent EXCEPT ![mem.members[m]] = @ \ {c}]
  /\ UNCHANGED <<engine, lastId, votesGiven>>

\* remove_member_from_community, when there are resources to transfer: the
\* transfer is saved before the member leaves.
Transfer(c, m) ==
  /\ engine /\ c \in DOMAIN mem.communities /\ m \in Known
  /\ UNCHANGED <<engine, mem, byCommunity, byAgent, lastId, votesGiven>>
  /\ Saving("leave", m, c)

Removed(t) ==
  /\ LastKeyOver(t) /\ saves[t].kind = "leave"
  /\ Leave(saves[t].what, saves[t].who) /\ UNCHANGED failures
  /\ Start(t, "plain", 0, "none")

\* ... and otherwise the member leaves at once.
RemoveMember(c, m) ==
  /\ c \in DOMAIN mem.communities /\ m \in Known
  /\ Leave(c, m)
  /\ Saving("plain", 0, "none")

-----------------------------------------------------------------------------
(* The decision *)

Decision == mem.decision

\* propose_decision, by any known member.
Propose(c, m) ==
  /\ c \in DOMAIN mem.communities /\ m \in Known /\ Decision.status = "none"
  /\ mem' = [mem EXCEPT !.decision.status = "proposed"]
  /\ Saving("plain", 0, "none")
  /\ UNCHANGED <<engine, byCommunity, byAgent, lastId, votesGiven>>

OpenToVotes == Decision.status \in {"proposed", "voting"}

RecastOver(m, choice) ==               \* mutant: an earlier vote against is not taken back
  [ch \in Choices |-> IF ch = choice THEN Decision.votes[ch] \cup {m}
                      ELSE IF ch = "against" THEN Decision.votes[ch]
                      ELSE Decision.votes[ch] \ {m}]
\* The votes without the earlier one of the member, and with its choice.
Recast(m, choice) ==
  [ch \in Choices |-> IF ch = choice THEN Decision.votes[ch] \cup {m}
                                     ELSE Decision.votes[ch] \ {m}]

\* vote_on_decision: any known member, of whatever community, active or not.
\* Where nothing is saved it is acknowledged at once.
Vote(m, choice) ==
  /\ m \in Known /\ OpenToVotes
  /\ mem' = [mem EXCEPT !.decision.votes = Recast(m, choice), !.decision.status = "voting"]
  /\ Saving("vote", m, choice)
  /\ acked' = [acked EXCEPT ![m] = IF engine THEN "none" ELSE choice]
  /\ durable' = durable \ {m}
  /\ UNCHANGED <<engine, byCommunity, byAgent, lastId>>

\* A choice that is none of the three raises, once the earlier vote is gone.
VoteInvalid(m) ==
  /\ m \in Known /\ OpenToVotes
  /\ mem' = [mem EXCEPT !.decision.votes = Recast(m, "invalid")]
  /\ acked' = [acked EXCEPT ![m] = "none"]
  /\ durable' = durable \ {m}
  /\ UNCHANGED <<engine, stored, byCommunity, byAgent, lastId, saves, copy>>

Count(votes, ch) == Cardinality(votes[ch])

\* Delegated proof: what a voter counts for in a community.
Standing(c, m) ==
  CASE m \in mem.communities[c].leaders -> 3
    [] m \notin mem.communities[c].leaders
         /\ m \in mem.communities[c].coordinators -> 2
    [] OTHER -> 1
Score(c, voters) ==
  LET of(n) == Cardinality({m \in voters \cap Known : Standing(c, m) = n})
  IN  of(1) + 2 * of(2) + 3 * of(3)

Algorithms == {"simple_majority", "supermajority", "unanimous", "weighted_voting", "delegated_proof"}

\* The consensus algorithms.  Reputation and contribution stay 0, and every
\* weight is the base weight.
Passes(algorithm, c, votes) ==
  LET yes == Count(votes, "for")
      no  == Count(votes, "against")
  IN CASE algorithm = "simple_majority" -> 2 * yes > yes + no
       [] algorithm = "supermajority"   -> yes + no > 0 /\ 100 * yes >= 67 * (yes + no)
       [] algorithm = "unanimous"       -> no = 0 /\ yes > 0
       [] algorithm = "weighted_voting" ->
            Cardinality(votes["for"] \cap Known) > Cardinality(votes["against"] \cap Known)
       [] algorithm = "delegated_proof" ->
            Score(c, votes["for"]) > Score(c, votes["against"])

Decide(approved, how) ==
  /\ mem' = [mem EXCEPT !.decision.status = IF approved THEN "approved" ELSE "rejected",
                        !.decision.by = IF approved THEN how ELSE "none"]
  /\ UNCHANGED <<engine, stored, byCommunity, byAgent, lastId, saves, copy, votesGiven>>

\* evaluate_decision, at any time and as often as it is asked; not saved.
Evaluate(c, algorithm) ==
  /\ c \in DOMAIN mem.communities /\ Decision.status # "none"
  /\ engine => algorithm \in StoredWays
  /\ Decide(Passes(algorithm, c, Decision.votes), algorithm)

\* _select_arbitrator: a leader, or else a coordinator, with a record.
Arbitrators(c) ==
  (mem.communities[c].leaders \cup mem.communities[c].coordinators) \cap Known

\* _arbitration_resolution: two fifths of the votes are enough.
Arbitrate(c) ==
  /\ c \in DOMAIN mem.communities /\ Decision.status # "none" /\ Arbitrators(c) # {}
  /\ LET yes == Count(Decision.votes, "for")
         no  == Count(Decision.votes, "against")
     IN  Decide(yes + no > 0 /\ 10 * yes >= 4 * (yes + no), "arbitration")

EscalateKeepsStatus ==                 \* mutant: a decided decision stays decided
  /\ Decision.status # "none" /\ Decision.level < Levels
  /\ mem' = [mem EXCEPT !.decision.level = @ + 1, !.decision.votes = NoDecision.votes]
  /\ acked' = [m \in Ids |-> "none"] /\ durable' = {}
  /\ UNCHANGED <<engine, stored, byCommunity, byAgent, lastId, saves, copy>>
\* _escalation_resolution: every level but the last puts the decision to the
\* vote again, the last leaves it to others; not saved.
Escalate ==
  /\ Decision.status # "none" /\ Decision.level < Levels
  /\ IF Decision.level + 1 < Levels
     THEN /\ mem' = [mem EXCEPT !.decision = Unvoted("proposed", Decision.level + 1)]
          /\ acked' = [m \in Ids |-> "none"] /\ durable' = {}
     ELSE mem' = [mem EXCEPT !.decision.level = @ + 1] /\ UNCHANGED votesGiven
  /\ UNCHANGED <<engine, stored, byCommunity, byAgent, lastId, saves, copy>>

-----------------------------------------------------------------------------
Init ==
  /\ engine \in BOOLEAN
  /\ mem = Empty /\ stored = Empty
  /\ byCommunity = <<>> /\ byAgent = [a \in Agents |-> {}]
  /\ lastId = 0 /\ calls = 0 /\ failures = 0
  /\ saves = [t \in Callers |-> Idle] /\ copy = [t \in Callers |-> Empty]
  /\ acked = [m \in Ids |-> "none"] /\ durable = {}

Membership ==
  \E c \in Communities :
    \/ CreateAlone(c)
    \/ \E a \in Agents : CreateCommunity(c, a) \/ \E role \in Roles : AddMember(c, a, role)
    \/ \E m \in Ids : RemoveMember(c, m) \/ Transfer(c, m)

Deciding ==
  \/ \E c \in Communities : \/ Arbitrate(c)
                            \/ \E m \in Ids : Propose(c, m)
                            \/ \E algorithm \in Algorithms : Evaluate(c, algorithm)
  \/ \E m \in Ids : VoteInvalid(m) \/ \E choice \in Choices : Vote(m, choice)
  \/ Escalate

Storing == \E t \in Callers : Lands(t) \/ Fails(t) \/ SaveKey(t) \/ Saved(t) \/ SavedAgain(t) \/ Removed(t)

Counted == IF engine THEN calls < MaxCalls /\ calls' = calls + 1 ELSE UNCHANGED calls

Next ==
  \/ (Membership \/ Deciding) /\ Counted /\ UNCHANGED failures
  \/ (Storing \/ Restart) /\ UNCHANGED calls

Spec == Init /\ [][Next]_vars

-----------------------------------------------------------------------------
(* Properties *)

Decisions == [status : {"none", "proposed", "voting", "approved", "rejected"},
              votes  : [Choices -> SUBSET Ids],
              level  : 0 .. Levels,
              by     : Algorithms \cup {"none", "arbitration"}]

Calls == [at : 0 .. Len(Keys), kind : {"none", "plain", "vote", "create", "leave"},
          who : Ids \cup {0}, what : Choices \cup Communities \cup {"none"}, due : BOOLEAN]

\* What the manager holds, what is copied and what is stored are of these
\* types, with members up to the last.
Content(d, last) ==
  /\ d = [communities |-> d.communities, members |-> d.members, decision |-> d.decision]
  /\ DOMAIN d.communities \subseteq Communities
  /\ \A c \in DOMAIN d.communities :
       d.communities[c] \in [members : SUBSET Ids, leaders : SUBSET Ids, coordinators : SUBSET Ids]
  /\ DOMAIN d.members \subseteq 1 .. last
  /\ \A m \in DOMAIN d.members : d.members[m] \in Agents
  /\ d.decision \in Decisions

StateOK ==
  /\ engine \in BOOLEAN
  /\ Content(mem, lastId) /\ Content(stored, lastId)
  /\ DOMAIN byCommunity \subseteq Communities
  /\ \A c \in DOMAIN byCommunity : byCommunity[c] \subseteq Ids
  /\ byAgent \in [Agents -> SUBSET Communities]
  /\ lastId \in 0 .. MaxMembers
  /\ saves \in [Callers -> Calls]
  /\ DOMAIN copy = Callers /\ \A t \in Callers : Content(copy[t], lastId)
  /\ acked \in [Ids -> Choices \cup {"none"}] /\ durable \subseteq Ids

BoundsOK == calls \in 0 .. MaxCalls /\ failures \in 0 .. MaxFailures

\* Type invariant.
TypeOK == StateOK /\ BoundsOK

\* A member counts at most once in a tally, however often it votes, whatever
\* it votes, and across escalations and restarts.
CountsOnce(d) ==
  \A m \in Ids : \A ch1, ch2 \in Choices : m \in d.votes[ch1] /\ m \in d.votes[ch2] => ch1 = ch2
OneVote == CountsOnce(mem.decision)

\* A vote that was acknowledged is counted and its voter is on record, until
\* its member or an escalation takes it back.  Through a restart this holds
\* of the votes that are durable: that were written when they were
\* acknowledged, with no older copy still to be written over them, and that
\* are loaded; no later save of any call, whole, in part or overtaken, loses
\* one of these.  An acknowledged vote whose write failed, or was followed by
\* an older one, is lost with the process.
AckedVoteCounts ==
  \A m \in Ids : acked[m] # "none" => m \in mem.decision.votes[acked[m]] /\ m \in Known

\* An approved decision has, in the votes as they are now, the support that
\* the code of its way of approval asks for, up to each threshold: in no
\* order of votes, evaluations, arbitrations, escalations and restarts does an
\* approval outlive its votes.  Weights depend on the records and roles at the
\* time of the evaluation, which both change: of them it remains that somebody
\* voted for.  Unanimity is that of the votes cast, not of all active members
\* as the comment in _unanimous_consensus has it.
Supported(d) ==
  d.status = "approved" =>
    LET yes == Count(d.votes, "for")
        no  == Count(d.votes, "against")
    IN  /\ yes > 0
        /\ d.by = "simple_majority" => yes > no
        /\ d.by = "supermajority" => 33 * yes >= 67 * no
        /\ d.by = "unanimous" => no = 0
        /\ d.by = "arbitration" => 3 * yes >= 2 * no
ApprovedHasSupport == Supported(mem.decision)

\* The index of each community is its list of members, and an agent is only
\* indexed under communities it is a member of.  (The reverse fails: a second
\* removal of an old record takes a community from the index of an agent that
\* has joined again.)
IndexesAgree ==
  /\ DOMAIN byCommunity = DOMAIN mem.communities
  /\ \A c \in DOMAIN byCommunity : byCommunity[c] = mem.communities[c].members
  /\ \A a \in Agents : \A c \in byAgent[a] : c \in DOMAIN byCommunity /\ MemberOf(c, a) # {}
=============================================================================
