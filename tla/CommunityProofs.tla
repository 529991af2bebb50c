-------------------------- MODULE CommunityProofs --------------------------
(***************************************************************************)
(* Proofs about Community, for every set of agents, communities, callers   *)
(* and choices and every bound: votes count once, an acknowledged vote is  *)
(* counted for as long as the process runs and, if it was written, after   *)
(* restarts too, an approval has the support its algorithm asks for, and   *)
(* the indexes agree with the rosters.  Whatever is copied or stored is as *)
(* sound as the memory it was taken from, so that it may be written late,  *)
(* in part or not at all, and loaded in part.                              *)
(***************************************************************************)
EXTENDS Community, FiniteSetTheorems, TLAPS

\* A call that is on its way has its member on record.
CallsKnown ==
  \A t \in Callers :
    /\ saves[t].kind = "vote" => saves[t].who \in Known /\ saves[t].what \in Choices
    /\ saves[t].kind = "leave" => saves[t].who \in Known /\ saves[t].what \in DOMAIN mem.communities

\* A tally that is right, wherever it is held.
Sound(d) == CountsOnce(d) /\ Supported(d)
AllSound ==
  Sound(mem.decision) /\ Sound(stored.decision) /\ \A t \in Callers : Sound(copy[t].decision)

\* A durable vote stays written: neither what is stored nor any copy that may
\* still be stored lacks it.
WrittenStays == \A m \in durable : acked[m] # "none" /\ Written(m, acked[m])

IInv == StateOK /\ CallsKnown /\ AllSound /\ AckedVoteCounts /\ WrittenStays /\ IndexesAgree
-----------------------------------------------------------------------------
(* The keys, and what is held under them. *)

LEMMA KeysAre ==
  /\ Len(Keys) = 3 /\ Keys[1] = "communities" /\ Keys[2] = "members" /\ Keys[3] = "decision"
  /\ AllKeys = {"communities", "members", "decision"}
<1>1. Len(Keys) = 3 /\ Keys[1] = "communities" /\ Keys[2] = "members" /\ Keys[3] = "decision"
  BY DEF Keys
<1> QED BY <1>1 DEF AllKeys

LEMMA Types ==
  ASSUME StateOK
  PROVE  /\ mem = [communities |-> mem.communities, members |-> mem.members, decision |-> mem.decision]
         /\ stored = [communities |-> stored.communities, members |-> stored.members,
                      decision |-> stored.decision]
         /\ mem.decision \in Decisions /\ stored.decision \in Decisions
         /\ lastId \in Nat /\ lastId <= MaxMembers /\ MaxMembers \in Nat /\ Levels \in Nat
         /\ Known \subseteq Ids
         /\ saves \in [Callers -> Calls] /\ acked \in [Ids -> Choices \cup {"none"}]
BY CommunityAssumption DEF StateOK, Content, Known, Ids

LEMMA ContentGrows ==
  ASSUME NEW d, NEW n \in Nat, NEW k \in Nat, n <= k, Content(d, n)
  PROVE  Content(d, k)
BY DEF Content

LEMMA NothingKept ==
  ASSUME NEW n \in Nat
  PROVE  /\ Content(Empty, n) /\ Sound(Empty.decision)
         /\ Empty.decision.votes = [ch \in Choices |-> {}] /\ Empty.decision \in Decisions
         /\ DOMAIN Empty.communities = {} /\ DOMAIN Empty.members = {}
<1> DEFINE d == Unvoted("none", 0)
<1>1. d \in Decisions /\ d.votes = [ch \in Choices |-> {}] /\ d.status = "none"
  BY CommunityAssumption DEF Unvoted, Decisions
<1>2. Empty = [communities |-> <<>>, members |-> <<>>, decision |-> d]
  BY DEF Empty, NoDecision
<1> HIDE DEF d
<1>3. /\ Empty.decision = d
      /\ DOMAIN Empty.communities = {} /\ DOMAIN Empty.members = {}
  BY <1>2
<1>4. Content(Empty, n)
  BY <1>1, <1>2, <1>3 DEF Content
<1>5. Sound(Empty.decision)
  BY <1>1, <1>3 DEF Sound, CountsOnce, Supported
<1> QED BY <1>1, <1>3, <1>4, <1>5

\* A part of what is held, be it copied or loaded, is as sound.
LEMMA PartKeeps ==
  ASSUME NEW d, NEW keys, NEW n \in Nat, Content(d, n), Sound(d.decision)
  PROVE  /\ Content(Part(d, keys), n) /\ Sound(Part(d, keys).decision)
         /\ "members" \in keys => Part(d, keys).members = d.members
         /\ "decision" \in keys => Part(d, keys).decision = d.decision
<1>1. /\ Part(d, keys).communities = (IF "communities" \in keys THEN d.communities ELSE Empty.communities)
      /\ Part(d, keys).members = (IF "members" \in keys THEN d.members ELSE Empty.members)
      /\ Part(d, keys).decision = (IF "decision" \in keys THEN d.decision ELSE Empty.decision)
      /\ Part(d, keys) = [communities |-> Part(d, keys).communities,
                          members |-> Part(d, keys).members,
                          decision |-> Part(d, keys).decision]
  BY DEF Part
<1>2. Content(Part(d, keys), n)
  BY <1>1, NothingKept DEF Content
<1>3. Sound(Part(d, keys).decision)
  BY <1>1, NothingKept
<1> QED BY <1>1, <1>2, <1>3
-----------------------------------------------------------------------------
(* A call that saves *)

\* Copies that are not of the decision or the records leave written votes alone.
LEMMA StartKeeps ==
  ASSUME IInv, Content(mem', lastId'), Sound(mem'.decision),
         lastId' \in Nat, lastId <= lastId',
         Known \subseteq Known', DOMAIN mem.communities \subseteq DOMAIN mem'.communities,
         NEW t \in Callers, NEW kind \in {"plain", "vote", "create", "leave"},
         NEW who \in Ids \cup {0}, NEW what \in Choices \cup Communities \cup {"none"},
         Start(t, kind, who, what),
         kind = "vote" => who \in Known' /\ what \in Choices,
         kind = "leave" => who \in Known' /\ what \in DOMAIN mem'.communities
  PROVE  /\ saves' \in [Callers -> Calls] /\ stored' = stored /\ Content(stored', lastId')
         /\ DOMAIN copy' = Callers /\ \A u \in Callers : Content(copy'[u], lastId')
         /\ \A u \in Callers : Sound(copy'[u].decision)
         /\ CallsKnown'
         /\ \A m, ch : Written(m, ch) => Written(m, ch)'
<1>0. /\ saves \in [Callers -> Calls] /\ lastId \in Nat /\ Content(stored, lastId)
      /\ DOMAIN copy = Callers /\ \A u \in Callers : Content(copy[u], lastId)
  BY Types DEF IInv, StateOK
<1>1. [at |-> 1, kind |-> kind, who |-> who, what |-> what, due |-> TRUE] \in Calls
  BY KeysAre DEF Calls
<1>2. /\ saves' \in [Callers -> Calls] /\ stored' = stored
      /\ saves'[t] = [at |-> 1, kind |-> kind, who |-> who, what |-> what, due |-> TRUE]
      /\ \A u \in Callers \ {t} : saves'[u] = saves[u]
  BY <1>0, <1>1 DEF Start
<1>3. /\ DOMAIN copy' = Callers /\ copy'[t] = Part(mem', {Keys[1]})
      /\ \A u \in Callers \ {t} : copy'[u] = copy[u]
  BY <1>0 DEF Start
<1>4. Content(stored', lastId') /\ \A u \in Callers : Content(copy'[u], lastId')
  BY <1>0, <1>2, <1>3, ContentGrows, PartKeeps
<1>5. \A u \in Callers : Sound(copy'[u].decision)
  BY <1>3, PartKeeps DEF IInv, AllSound
<1>6. CallsKnown'
  BY <1>2 DEF IInv, CallsKnown, Known
<1>7. ASSUME NEW m, NEW ch, Written(m, ch)
      PROVE  Written(m, ch)'
  <2>1. /\ m \in stored'.decision.votes[ch] /\ m \in DOMAIN stored'.members
    BY <1>2, <1>7 DEF Written
  <2>2. ASSUME NEW u \in Callers, saves'[u].due
        PROVE  /\ Keys[saves'[u].at] = "decision" => m \in copy'[u].decision.votes[ch]
               /\ Keys[saves'[u].at] = "members" => m \in DOMAIN copy'[u].members
    <3>1. CASE u = t
      BY <1>2, <3>1, KeysAre
    <3>2. CASE u # t
      BY <1>2, <1>3, <1>7, <2>2, <3>2 DEF Written
    <3> QED BY <3>1, <3>2
  <2> QED BY <2>1, <2>2 DEF Written
<1> QED BY <1>2, <1>3, <1>4, <1>5, <1>6, <1>7

\* ... and without a context engine nothing is copied.
LEMMA SavingKeeps ==
  ASSUME IInv, Content(mem', lastId'), Sound(mem'.decision),
         lastId' \in Nat, lastId <= lastId',
         Known \subseteq Known', DOMAIN mem.communities \subseteq DOMAIN mem'.communities,
         NEW kind \in {"plain", "vote", "create", "leave"},
         NEW who \in Ids \cup {0}, NEW what \in Choices \cup Communities \cup {"none"},
         Saving(kind, who, what),
         kind = "vote" => who \in Known' /\ what \in Choices,
         kind = "leave" => who \in Known' /\ what \in DOMAIN mem'.communities
  PROVE  /\ saves' \in [Callers -> Calls] /\ stored' = stored /\ Content(stored', lastId')
         /\ DOMAIN copy' = Callers /\ \A u \in Callers : Content(copy'[u], lastId')
         /\ \A u \in Callers : Sound(copy'[u].decision)
         /\ CallsKnown'
         /\ \A m, ch : Written(m, ch) => Written(m, ch)'
<1>1. CASE engine
  <2>1. PICK t \in Callers : Start(t, kind, who, what)
    BY <1>1 DEF Saving
  <2> QED BY <2>1, StartKeeps
<1>2. CASE ~engine
  <2>1. saves' = saves /\ copy' = copy /\ stored' = stored
    BY <1>2 DEF Saving
  <2>2. /\ saves \in [Callers -> Calls] /\ lastId \in Nat /\ Content(stored, lastId)
        /\ DOMAIN copy = Callers /\ \A u \in Callers : Content(copy[u], lastId)
    BY Types DEF IInv, StateOK
  <2>3. Content(stored', lastId') /\ \A u \in Callers : Content(copy'[u], lastId')
    BY <2>1, <2>2, ContentGrows
  <2>4. CallsKnown'
    BY <2>1 DEF IInv, CallsKnown, Known
  <2>5. \A m, ch : Written(m, ch) => Written(m, ch)'
    BY <2>1 DEF Written
  <2> QED BY <2>1, <2>2, <2>3, <2>4, <2>5 DEF IInv, AllSound
<1> QED BY <1>1, <1>2
-----------------------------------------------------------------------------
(* Membership *)

\* A member joins with an id of its own.
LEMMA JoinedTypes ==
  ASSUME IInv, NEW c \in Communities, NEW a \in Agents, NEW role, NEW community,
         community \in [members : SUBSET Ids, leaders : SUBSET Ids, coordinators : SUBSET Ids],
         Joined(c, a, role, community)
  PROVE  /\ Content(mem', lastId') /\ mem'.decision = mem.decision
         /\ lastId' = lastId + 1 /\ lastId' \in 0 .. MaxMembers /\ lastId' \in Ids
         /\ lastId' \notin Known /\ Known' = Known \cup {lastId'}
         /\ mem'.members[lastId'] = a /\ \A m \in Known : mem'.members[m] = mem.members[m]
         /\ DOMAIN mem'.communities = DOMAIN mem.communities \cup {c}
         /\ mem'.communities[c].members = community.members \cup {lastId'}
         /\ \A d \in DOMAIN mem.communities \ {c} : mem'.communities[d] = mem.communities[d]
<1> DEFINE m == lastId + 1
<1> DEFINE joined == [community EXCEPT
            !.members = @ \cup {m},
            !.leaders = IF role = "leader" THEN @ \cup {m} ELSE @,
            !.coordinators = IF role = "coordinator" THEN @ \cup {m} ELSE @]
<1>0. StateOK
  BY DEF IInv
<1>1. lastId' = m /\ m \in 0 .. MaxMembers /\ m \in Ids /\ m \notin 1 .. lastId
  BY <1>0, Types, CommunityAssumption DEF Joined, Ids
<1>2. mem' = [communities |-> Put(mem.communities, c, joined),
              members |-> Put(mem.members, m, a), decision |-> mem.decision]
  BY <1>0, Types DEF Joined
<1>3. /\ joined \in [members : SUBSET Ids, leaders : SUBSET Ids, coordinators : SUBSET Ids]
      /\ joined.members = community.members \cup {m}
  BY <1>1
<1> HIDE DEF joined, m
<1>4. /\ DOMAIN mem.members \subseteq 1 .. lastId
      /\ \A x \in DOMAIN mem.members : mem.members[x] \in Agents
      /\ DOMAIN mem.communities \subseteq Communities
      /\ \A d \in DOMAIN mem.communities :
           mem.communities[d] \in [members : SUBSET Ids, leaders : SUBSET Ids, coordinators : SUBSET Ids]
      /\ mem.decision \in Decisions
  BY <1>0 DEF StateOK, Content
<1>5. /\ mem'.members = Put(mem.members, m, a)
      /\ mem'.communities = Put(mem.communities, c, joined)
      /\ mem'.decision = mem.decision
  BY <1>2
<1>6. /\ DOMAIN mem'.members = DOMAIN mem.members \cup {m}
      /\ mem'.members[m] = a
      /\ \A x \in DOMAIN mem.members : mem'.members[x] = mem.members[x]
  BY <1>1, <1>4, <1>5 DEF Put
<1>7. /\ DOMAIN mem'.communities = DOMAIN mem.communities \cup {c}
      /\ mem'.communities[c] = joined
      /\ \A d \in DOMAIN mem.communities \ {c} : mem'.communities[d] = mem.communities[d]
  BY <1>5 DEF Put
<1>8. DOMAIN mem'.members \subseteq 1 .. lastId'
  BY <1>0, <1>1, <1>4, <1>6, Types DEF m
<1>9. Content(mem', lastId')
  <2>1. mem' = [communities |-> mem'.communities, members |-> mem'.members, decision |-> mem'.decision]
    BY <1>2, <1>5
  <2>2. \A d \in DOMAIN mem'.communities :
           mem'.communities[d] \in [members : SUBSET Ids, leaders : SUBSET Ids, coordinators : SUBSET Ids]
    BY <1>3, <1>4, <1>7
  <2>3. \A x \in DOMAIN mem'.members : mem'.members[x] \in Agents
    BY <1>4, <1>6
  <2> QED BY <2>1, <2>2, <2>3, <1>4, <1>5, <1>7, <1>8 DEF Content, Decisions, Ids
<1> QED BY <1>0, <1>1, <1>3, <1>4, <1>5, <1>6, <1>7, <1>9 DEF Known, m

\* A step of membership keeps everything but the indexes as it was.
LEMMA MembershipKeeps ==
  ASSUME IInv, Content(mem', lastId'), mem'.decision = mem.decision,
         lastId' \in 0 .. MaxMembers, lastId <= lastId',
         engine' = engine, acked' = acked, durable' = durable,
         Known \subseteq Known', DOMAIN mem.communities \subseteq DOMAIN mem'.communities,
         NEW kind \in {"plain", "create", "leave"},
         NEW who \in Ids \cup {0}, NEW what \in Communities \cup {"none"},
         (\E t \in Callers : Start(t, kind, who, what)) \/ Saving(kind, who, what),
         kind = "leave" => who \in Known' /\ what \in DOMAIN mem'.communities,
         DOMAIN byCommunity' \subseteq Communities,
         \A c \in DOMAIN byCommunity' : byCommunity'[c] \subseteq Ids,
         byAgent' \in [Agents -> SUBSET Communities],
         IndexesAgree'
  PROVE  IInv'
<1>0. Sound(mem'.decision) /\ lastId' \in Nat
  BY Types DEF IInv, AllSound
<1>1. /\ saves' \in [Callers -> Calls] /\ stored' = stored /\ Content(stored', lastId')
      /\ DOMAIN copy' = Callers /\ \A u \in Callers : Content(copy'[u], lastId')
      /\ \A u \in Callers : Sound(copy'[u].decision)
      /\ CallsKnown'
      /\ \A m, ch : Written(m, ch) => Written(m, ch)'
  <2>1. CASE \E t \in Callers : Start(t, kind, who, what)
    BY <1>0, <2>1, StartKeeps
  <2>2. CASE Saving(kind, who, what)
    BY <1>0, <2>2, SavingKeeps
  <2> QED BY <2>1, <2>2
<1>2. StateOK'
  BY <1>1 DEF IInv, StateOK
<1>3. AllSound'
  BY <1>0, <1>1 DEF IInv, AllSound
<1>4. AckedVoteCounts' /\ WrittenStays'
  BY <1>1 DEF IInv, AckedVoteCounts, WrittenStays
<1> QED BY <1>1, <1>2, <1>3, <1>4 DEF IInv

\* An agent that joins a community is indexed under it.
LEMMA JoinIndexed ==
  ASSUME IInv, NEW c \in Communities, NEW a \in Agents, NEW role, NEW community,
         community \in [members : SUBSET Ids, leaders : SUBSET Ids, coordinators : SUBSET Ids],
         Joined(c, a, role, community),
         c \in DOMAIN byCommunity => byCommunity[c] = community.members,
         c \notin DOMAIN byCommunity => community.members = {},
         DOMAIN byCommunity' = DOMAIN byCommunity \cup {c},
         byCommunity'[c] = community.members \cup {lastId'},
         \A d \in DOMAIN byCommunity \ {c} : byCommunity'[d] = byCommunity[d]
  PROVE  /\ IndexesAgree'
         /\ DOMAIN byCommunity' \subseteq Communities
         /\ \A d \in DOMAIN byCommunity' : byCommunity'[d] \subseteq Ids
         /\ byAgent' \in [Agents -> SUBSET Communities]
<1>1. /\ lastId' \in Ids /\ lastId' \notin Known /\ Known' = Known \cup {lastId'}
      /\ mem'.members[lastId'] = a /\ \A m \in Known : mem'.members[m] = mem.members[m]
      /\ DOMAIN mem'.communities = DOMAIN mem.communities \cup {c}
      /\ mem'.communities[c].members = community.members \cup {lastId'}
      /\ \A d \in DOMAIN mem.communities \ {c} : mem'.communities[d] = mem.communities[d]
  BY JoinedTypes
<1>2. /\ byAgent \in [Agents -> SUBSET Communities]
      /\ DOMAIN byCommunity \subseteq Communities
      /\ \A d \in DOMAIN byCommunity : byCommunity[d] \subseteq Ids
      /\ DOMAIN byCommunity = DOMAIN mem.communities
      /\ \A d \in DOMAIN byCommunity : byCommunity[d] = mem.communities[d].members
      /\ \A b \in Agents : \A d \in byAgent[b] : d \in DOMAIN byCommunity /\ MemberOf(d, b) # {}
  BY DEF IInv, StateOK, IndexesAgree
<1>3. /\ byAgent' = [byAgent EXCEPT ![a] = @ \cup {c}]
      /\ byAgent' \in [Agents -> SUBSET Communities]
  BY <1>2 DEF Joined
<1>4. \A d \in DOMAIN byCommunity' : byCommunity'[d] = mem'.communities[d].members
  BY <1>1, <1>2
<1>5. ASSUME NEW b \in Agents, NEW d \in byAgent'[b]
      PROVE  d \in DOMAIN byCommunity' /\ MemberOf(d, b)' # {}
  <2>1. CASE b = a /\ d = c
    <3>1. lastId' \in MemberOf(c, a)'
      BY <1>1 DEF MemberOf
    <3> QED BY <2>1, <3>1
  <2>2. CASE ~(b = a /\ d = c)
    <3>1. d \in byAgent[b]
      BY <1>2, <1>3, <1>5, <2>2
    <3>2. PICK m : m \in MemberOf(d, b)
      BY <1>2, <3>1
    <3>3. d \in DOMAIN byCommunity /\ m \in byCommunity[d] /\ m \in Known /\ mem.members[m] = b
      BY <1>2, <3>1, <3>2 DEF MemberOf
    <3>4. m \in byCommunity'[d] /\ m \in Known' /\ mem'.members[m] = b
      BY <1>1, <3>3
    <3> QED BY <3>3, <3>4 DEF MemberOf
  <2> QED BY <2>1, <2>2
<1>6. IndexesAgree'
  BY <1>1, <1>2, <1>4, <1>5 DEF IndexesAgree
<1>7. \A d \in DOMAIN byCommunity' : byCommunity'[d] \subseteq Ids
  BY <1>1, <1>2
<1> QED BY <1>2, <1>3, <1>6, <1>7

LEMMA CreateKeeps ==
  ASSUME IInv, NEW c \in Communities, NEW a \in Agents, CreateCommunity(c, a)
  PROVE  IInv'
<1>1. NoCommunity \in [members : SUBSET Ids, leaders : SUBSET Ids, coordinators : SUBSET Ids]
  BY DEF NoCommunity
<1>2. Joined(c, a, "leader", NoCommunity) /\ byCommunity' = Put(byCommunity, c, {lastId + 1})
  BY DEF CreateCommunity
<1>3. c \notin DOMAIN byCommunity
  BY DEF CreateCommunity, IInv, IndexesAgree
<1>4. /\ Content(mem', lastId') /\ mem'.decision = mem.decision
      /\ lastId' = lastId + 1 /\ lastId' \in 0 .. MaxMembers
      /\ Known' = Known \cup {lastId'}
      /\ DOMAIN mem'.communities = DOMAIN mem.communities \cup {c}
  BY <1>1, <1>2, JoinedTypes
<1>5. /\ DOMAIN byCommunity' = DOMAIN byCommunity \cup {c}
      /\ byCommunity'[c] = NoCommunity.members \cup {lastId'}
      /\ \A d \in DOMAIN byCommunity \ {c} : byCommunity'[d] = byCommunity[d]
  BY <1>2, <1>4 DEF Put, NoCommunity
<1>6. /\ IndexesAgree' /\ DOMAIN byCommunity' \subseteq Communities
      /\ \A d \in DOMAIN byCommunity' : byCommunity'[d] \subseteq Ids
      /\ byAgent' \in [Agents -> SUBSET Communities]
  <2>1. NoCommunity.members = {}
    BY DEF NoCommunity
  <2> QED BY <1>1, <1>2, <1>3, <1>5, <2>1, JoinIndexed
<1>7. Saving("create", 0, "none")
  BY DEF CreateCommunity
<1>8. engine' = engine /\ acked' = acked /\ durable' = durable /\ lastId <= lastId'
  BY <1>2, <1>4, Types DEF Joined, IInv, votesGiven
<1> QED BY <1>4, <1>6, <1>7, <1>8, MembershipKeeps

LEMMA CreateAloneKeeps ==
  ASSUME IInv, NEW c \in Communities, CreateAlone(c)
  PROVE  IInv'
<1>1. /\ NoCommunity \in [members : SUBSET Ids, leaders : SUBSET Ids, coordinators : SUBSET Ids]
      /\ NoCommunity.members = {}
  BY DEF NoCommunity
<1> HIDE DEF NoCommunity
<1>2. /\ mem' = [communities |-> Put(mem.communities, c, NoCommunity),
                 members |-> mem.members, decision |-> mem.decision]
      /\ byCommunity' = Put(byCommunity, c, {})
      /\ byAgent' = byAgent /\ lastId' = lastId /\ engine' = engine
      /\ acked' = acked /\ durable' = durable /\ Saving("plain", 0, "none")
  BY Types DEF CreateAlone, IInv, votesGiven
<1>3. /\ mem'.communities = Put(mem.communities, c, NoCommunity)
      /\ mem'.members = mem.members /\ mem'.decision = mem.decision /\ Known' = Known
  BY <1>2 DEF Known
<1>4. /\ DOMAIN mem'.communities = DOMAIN mem.communities \cup {c}
      /\ mem'.communities[c] = NoCommunity
      /\ \A d \in DOMAIN mem.communities \ {c} : mem'.communities[d] = mem.communities[d]
      /\ DOMAIN byCommunity' = DOMAIN byCommunity \cup {c} /\ byCommunity'[c] = {}
      /\ \A d \in DOMAIN byCommunity \ {c} : byCommunity'[d] = byCommunity[d]
  BY <1>2, <1>3 DEF Put
<1>5. /\ byAgent \in [Agents -> SUBSET Communities]
      /\ DOMAIN byCommunity \subseteq Communities
      /\ \A d \in DOMAIN byCommunity : byCommunity[d] \subseteq Ids
      /\ DOMAIN byCommunity = DOMAIN mem.communities
      /\ \A d \in DOMAIN byCommunity : byCommunity[d] = mem.communities[d].members
      /\ \A b \in Agents : \A d \in byAgent[b] : d \in DOMAIN byCommunity /\ MemberOf(d, b) # {}
  BY DEF IInv, StateOK, IndexesAgree
<1>6. c \notin DOMAIN byCommunity
  BY <1>5 DEF CreateAlone
<1>7. Content(mem', lastId')
  BY <1>1, <1>2, <1>3, <1>4 DEF IInv, StateOK, Content
<1>8. ASSUME NEW b \in Agents, NEW d \in byAgent'[b]
      PROVE  d \in DOMAIN byCommunity' /\ MemberOf(d, b)' # {}
  <2>1. d \in DOMAIN byCommunity /\ MemberOf(d, b) # {} /\ d # c
    BY <1>2, <1>5, <1>6, <1>8
  <2>2. MemberOf(d, b)' = MemberOf(d, b)
    BY <1>3, <1>4, <2>1 DEF MemberOf
  <2> QED BY <1>4, <2>1, <2>2
<1>9. \A d \in DOMAIN byCommunity' : byCommunity'[d] = mem'.communities[d].members
  BY <1>1, <1>4, <1>5
<1>10. IndexesAgree'
  BY <1>4, <1>5, <1>8, <1>9 DEF IndexesAgree
<1>11. /\ DOMAIN byCommunity' \subseteq Communities
       /\ \A d \in DOMAIN byCommunity' : byCommunity'[d] \subseteq Ids
       /\ byAgent' \in [Agents -> SUBSET Communities]
  BY <1>2, <1>4, <1>5
<1>12. lastId' \in 0 .. MaxMembers /\ lastId <= lastId'
  BY <1>2, Types DEF IInv, StateOK
<1> QED BY <1>2, <1>3, <1>4, <1>7, <1>10, <1>11, <1>12, MembershipKeeps

LEMMA AddKeeps ==
  ASSUME IInv, NEW c \in Communities, NEW a \in Agents, NEW role \in Roles, AddMember(c, a, role)
  PROVE  IInv'
<1> DEFINE community == mem.communities[c]
<1>0. c \in DOMAIN mem.communities
  BY DEF AddMember
<1>1. community \in [members : SUBSET Ids, leaders : SUBSET Ids, coordinators : SUBSET Ids]
  BY <1>0 DEF IInv, StateOK, Content
<1>2. /\ Joined(c, a, role, community)
      /\ byCommunity' = [byCommunity EXCEPT ![c] = @ \cup {lastId + 1}]
  BY DEF AddMember
<1>3. c \in DOMAIN byCommunity /\ byCommunity[c] = community.members
  BY <1>0 DEF IInv, IndexesAgree
<1> HIDE DEF community
<1>4. /\ Content(mem', lastId') /\ mem'.decision = mem.decision
      /\ lastId' = lastId + 1 /\ lastId' \in 0 .. MaxMembers
      /\ Known' = Known \cup {lastId'}
      /\ DOMAIN mem'.communities = DOMAIN mem.communities \cup {c}
  BY <1>1, <1>2, JoinedTypes
<1>5. /\ DOMAIN byCommunity' = DOMAIN byCommunity \cup {c}
      /\ byCommunity'[c] = community.members \cup {lastId'}
      /\ \A d \in DOMAIN byCommunity \ {c} : byCommunity'[d] = byCommunity[d]
  BY <1>2, <1>3, <1>4
<1>6. /\ IndexesAgree' /\ DOMAIN byCommunity' \subseteq Communities
      /\ \A d \in DOMAIN byCommunity' : byCommunity'[d] \subseteq Ids
      /\ byAgent' \in [Agents -> SUBSET Communities]
  BY <1>1, <1>2, <1>3, <1>5, JoinIndexed
<1>7. Saving("plain", 0, "none")
  BY DEF AddMember
<1>8. engine' = engine /\ acked' = acked /\ durable' = durable /\ lastId <= lastId'
  BY <1>2, <1>4, Types DEF Joined, IInv, votesGiven
<1> QED BY <1>4, <1>6, <1>7, <1>8, MembershipKeeps

\* A member leaves the lists of one community and the indexes alike.
LEMMA LeaveIndexes ==
  ASSUME IInv, NEW c \in DOMAIN mem.communities, NEW m \in Known, Leave(c, m)
  PROVE  /\ Content(mem', lastId') /\ mem'.decision = mem.decision /\ Known' = Known
         /\ DOMAIN mem'.communities = DOMAIN mem.communities
         /\ DOMAIN byCommunity' \subseteq Communities
         /\ \A d \in DOMAIN byCommunity' : byCommunity'[d] \subseteq Ids
         /\ byAgent' \in [Agents -> SUBSET Communities]
         /\ IndexesAgree'
<1> DEFINE a == mem.members[m]
<1> DEFINE left == [members |-> mem.communities[c].members \ {m},
                    leaders |-> mem.communities[c].leaders \ {m},
                    coordinators |-> mem.communities[c].coordinators \ {m}]
<1>1. /\ mem' = [communities |-> [mem.communities EXCEPT ![c] = left],
                 members |-> mem.members, decision |-> mem.decision]
      /\ lastId' = lastId
  BY Types DEF Leave, IInv
<1>2. /\ mem.communities[c].members \subseteq Ids /\ a \in Agents
      /\ left \in [members : SUBSET Ids, leaders : SUBSET Ids, coordinators : SUBSET Ids]
  BY DEF IInv, StateOK, Content, Known
<1>3. left.members = mem.communities[c].members \ {m}
  OBVIOUS
<1> HIDE DEF left
<1>4. /\ mem'.members = mem.members /\ mem'.decision = mem.decision /\ Known' = Known
      /\ DOMAIN mem'.communities = DOMAIN mem.communities
      /\ mem'.communities[c] = left
      /\ \A d \in DOMAIN mem.communities \ {c} : mem'.communities[d] = mem.communities[d]
  BY <1>1 DEF Known
<1>5. Content(mem', lastId')
  BY <1>1, <1>2, <1>4 DEF IInv, StateOK, Content, Ids, Decisions
<1>6. /\ byAgent \in [Agents -> SUBSET Communities]
      /\ DOMAIN byCommunity \subseteq Communities
      /\ \A d \in DOMAIN byCommunity : byCommunity[d] \subseteq Ids
      /\ DOMAIN byCommunity = DOMAIN mem.communities
      /\ \A d \in DOMAIN byCommunity : byCommunity[d] = mem.communities[d].members
      /\ \A b \in Agents : \A d \in byAgent[b] : d \in DOMAIN byCommunity /\ MemberOf(d, b) # {}
  BY DEF IInv, StateOK, IndexesAgree
<1> HIDE DEF a
<1>7. /\ byCommunity' = [byCommunity EXCEPT ![c] = @ \ {m}]
      /\ byAgent' = [byAgent EXCEPT ![a] = @ \ {c}]
  BY DEF Leave, a
<1>8. /\ DOMAIN byCommunity' = DOMAIN byCommunity
      /\ byCommunity'[c] = byCommunity[c] \ {m}
      /\ \A d \in DOMAIN byCommunity \ {c} : byCommunity'[d] = byCommunity[d]
      /\ byAgent' \in [Agents -> SUBSET Communities]
  BY <1>2, <1>6, <1>7
<1>9. ASSUME NEW b \in Agents, NEW d \in byAgent'[b]
      PROVE  d \in DOMAIN byCommunity' /\ MemberOf(d, b)' # {}
  <2>1. d \in byAgent[b] /\ ~(b = a /\ d = c)
    BY <1>2, <1>6, <1>7, <1>9
  <2>2. PICK x : x \in byCommunity[d] /\ x \in Known /\ mem.members[x] = b
    BY <1>6, <2>1 DEF MemberOf
  <2>3. d \in DOMAIN byCommunity' /\ x \in byCommunity'[d]
    BY <1>6, <1>8, <2>1, <2>2 DEF a
  <2> QED BY <1>4, <2>2, <2>3 DEF MemberOf
<1>10. \A d \in DOMAIN byCommunity' : byCommunity'[d] = mem'.communities[d].members
  BY <1>3, <1>4, <1>6, <1>8
<1>11. IndexesAgree'
  BY <1>4, <1>6, <1>8, <1>9, <1>10 DEF IndexesAgree
<1>12. \A d \in DOMAIN byCommunity' : byCommunity'[d] \subseteq Ids
  BY <1>6, <1>8
<1> QED BY <1>4, <1>5, <1>6, <1>8, <1>11, <1>12

LEMMA RemoveKeeps ==
  ASSUME IInv, NEW c \in Communities, NEW m \in Ids, RemoveMember(c, m)
  PROVE  IInv'
<1>1. c \in DOMAIN mem.communities /\ m \in Known /\ Leave(c, m)
  BY DEF RemoveMember
<1>2. Saving("plain", 0, "none")
  BY DEF RemoveMember
<1>3. /\ lastId' = lastId /\ lastId' \in 0 .. MaxMembers /\ lastId <= lastId'
      /\ engine' = engine /\ acked' = acked /\ durable' = durable
  BY <1>1, Types DEF Leave, IInv, votesGiven
<1> QED BY <1>1, <1>2, <1>3, LeaveIndexes, MembershipKeeps

LEMMA RemovedKeeps ==
  ASSUME IInv, NEW t \in Callers, Removed(t)
  PROVE  IInv'
<1>1. saves[t].kind = "leave" /\ Leave(saves[t].what, saves[t].who) /\ Start(t, "plain", 0, "none")
  BY DEF Removed
<1>2. saves[t].what \in DOMAIN mem.communities /\ saves[t].who \in Known
  BY <1>1 DEF IInv, CallsKnown
<1>3. /\ lastId' = lastId /\ lastId' \in 0 .. MaxMembers /\ lastId <= lastId'
      /\ engine' = engine /\ acked' = acked /\ durable' = durable
  BY <1>1, Types DEF Leave, IInv, votesGiven
<1> QED BY <1>1, <1>2, <1>3, LeaveIndexes, MembershipKeeps

\* A step that leaves the memory and the indexes alone and starts to save.
LEMMA SaveOnlyKeeps ==
  ASSUME IInv, UNCHANGED <<engine, mem, byCommunity, byAgent, lastId, votesGiven>>,
         NEW kind \in {"plain", "leave"},
         NEW who \in Ids \cup {0}, NEW what \in Communities \cup {"none"},
         (\E t \in Callers : Start(t, kind, who, what)) \/ Saving(kind, who, what),
         kind = "leave" => who \in Known /\ what \in DOMAIN mem.communities
  PROVE  IInv'
<1>1. /\ mem' = mem /\ lastId' = lastId /\ engine' = engine /\ acked' = acked /\ durable' = durable
      /\ byCommunity' = byCommunity /\ byAgent' = byAgent /\ Known' = Known
  BY DEF votesGiven, Known
<1>2. Content(mem', lastId') /\ lastId' \in 0 .. MaxMembers /\ lastId <= lastId'
  BY <1>1, Types DEF IInv, StateOK
<1>3. /\ IndexesAgree' /\ DOMAIN byCommunity' \subseteq Communities
      /\ \A c \in DOMAIN byCommunity' : byCommunity'[c] \subseteq Ids
      /\ byAgent' \in [Agents -> SUBSET Communities]
  BY <1>1 DEF IInv, StateOK, IndexesAgree, MemberOf
<1> QED BY <1>1, <1>2, <1>3, MembershipKeeps

LEMMA TransferKeeps ==
  ASSUME IInv, NEW c \in Communities, NEW m \in Ids, Transfer(c, m)
  PROVE  IInv'
<1>1. Saving("leave", m, c) /\ m \in Known /\ c \in DOMAIN mem.communities
  BY DEF Transfer
<1> QED BY <1>1, SaveOnlyKeeps DEF Transfer

LEMMA SavedAgainKeeps ==
  ASSUME IInv, NEW t \in Callers, SavedAgain(t)
  PROVE  IInv'
BY SaveOnlyKeeps DEF SavedAgain
-----------------------------------------------------------------------------
(* The decision *)

\* A step that changes only the decision keeps the rosters, the records and
\* the indexes.
LEMMA DecisionFrame ==
  ASSUME IInv, NEW d \in Decisions, mem' = [mem EXCEPT !.decision = d],
         UNCHANGED <<engine, byCommunity, byAgent, lastId>>
  PROVE  /\ Content(mem', lastId') /\ mem'.decision = d
         /\ mem'.communities = mem.communities /\ mem'.members = mem.members /\ Known' = Known
         /\ lastId' \in 0 .. MaxMembers /\ lastId' \in Nat /\ lastId <= lastId'
         /\ IndexesAgree' /\ DOMAIN byCommunity' \subseteq Communities
         /\ \A c \in DOMAIN byCommunity' : byCommunity'[c] \subseteq Ids
         /\ byAgent' \in [Agents -> SUBSET Communities]
<1>1. mem' = [communities |-> mem.communities, members |-> mem.members, decision |-> d]
  BY Types DEF IInv
<1>2. /\ mem'.decision = d /\ mem'.communities = mem.communities /\ mem'.members = mem.members
      /\ Known' = Known
  BY <1>1 DEF Known
<1>3. Content(mem', lastId')
  BY <1>1, <1>2 DEF IInv, StateOK, Content
<1>4. lastId' \in 0 .. MaxMembers /\ lastId' \in Nat /\ lastId <= lastId'
  BY Types DEF IInv, StateOK
<1>5. /\ IndexesAgree' /\ DOMAIN byCommunity' \subseteq Communities
      /\ \A c \in DOMAIN byCommunity' : byCommunity'[c] \subseteq Ids
      /\ byAgent' \in [Agents -> SUBSET Communities]
  BY <1>2 DEF IInv, StateOK, IndexesAgree, MemberOf
<1> QED BY <1>2, <1>3, <1>4, <1>5

\* A step that changes only the decision, saved or not, takes back no vote
\* that it leaves acknowledged.
LEMMA DecisionKeeps ==
  ASSUME IInv, NEW d \in Decisions, mem' = [mem EXCEPT !.decision = d],
         UNCHANGED <<engine, byCommunity, byAgent, lastId>>,
         \/ UNCHANGED <<stored, saves, copy>>
         \/ \E who \in Known, what \in Choices : Saving("vote", who, what)
         \/ Saving("plain", 0, "none"),
         acked' \in [Ids -> Choices \cup {"none"}], durable' \subseteq durable,
         \A m \in Ids : acked'[m] # "none" => m \in d.votes[acked'[m]] /\ m \in Known,
         \A m \in durable' : acked'[m] = acked[m],
         Sound(d)
  PROVE  IInv'
<1>1. /\ Content(mem', lastId') /\ mem'.decision = d /\ mem'.communities = mem.communities
      /\ mem'.members = mem.members /\ Known' = Known
      /\ lastId' \in Nat /\ lastId <= lastId'
      /\ IndexesAgree' /\ DOMAIN byCommunity' \subseteq Communities
      /\ \A c \in DOMAIN byCommunity' : byCommunity'[c] \subseteq Ids
      /\ byAgent' \in [Agents -> SUBSET Communities]
  BY DecisionFrame
<1>2. /\ saves' \in [Callers -> Calls] /\ stored' = stored /\ Content(stored', lastId')
      /\ DOMAIN copy' = Callers /\ \A u \in Callers : Content(copy'[u], lastId')
      /\ \A u \in Callers : Sound(copy'[u].decision)
      /\ CallsKnown'
      /\ \A m, ch : Written(m, ch) => Written(m, ch)'
  <2>1. CASE UNCHANGED <<stored, saves, copy>>
    <3>1. CallsKnown'
      BY <1>1, <2>1 DEF IInv, CallsKnown
    <3>2. \A m, ch : Written(m, ch) => Written(m, ch)'
      BY <2>1 DEF Written
    <3> QED BY <2>1, <3>1, <3>2 DEF IInv, StateOK, AllSound
  <2>2. CASE \E who \in Known, what \in Choices : Saving("vote", who, what)
    <3>1. PICK who \in Known, what \in Choices : Saving("vote", who, what)
      BY <2>2
    <3>2. who \in Ids
      BY Types DEF IInv
    <3> QED BY <1>1, <3>1, <3>2, SavingKeeps
  <2>3. CASE Saving("plain", 0, "none")
    BY <1>1, <2>3, SavingKeeps
  <2> QED BY <2>1, <2>2, <2>3
<1>3. StateOK'
  BY <1>1, <1>2 DEF IInv, StateOK
<1>4. AllSound'
  BY <1>1, <1>2 DEF IInv, AllSound
<1>5. AckedVoteCounts'
  BY <1>1 DEF AckedVoteCounts
<1>6. WrittenStays'
  BY <1>2 DEF IInv, WrittenStays
<1> QED BY <1>1, <1>2, <1>3, <1>4, <1>5, <1>6 DEF IInv

\* The earlier vote of a member is taken back before the new one counts.
LEMMA RecastOnce ==
  ASSUME NEW m \in Ids, NEW choice, mem.decision \in Decisions, CountsOnce(mem.decision)
  PROVE  /\ Recast(m, choice) \in [Choices -> SUBSET Ids]
         /\ \A ch \in Choices : m \in Recast(m, choice)[ch] <=> ch = choice
         /\ \A x \in Ids \ {m} : \A ch \in Choices :
              x \in Recast(m, choice)[ch] <=> x \in mem.decision.votes[ch]
         /\ \A x \in Ids : \A ch1, ch2 \in Choices :
              x \in Recast(m, choice)[ch1] /\ x \in Recast(m, choice)[ch2] => ch1 = ch2
<1>1. mem.decision.votes \in [Choices -> SUBSET Ids]
  BY DEF Decisions
<1>2. /\ Recast(m, choice) \in [Choices -> SUBSET Ids]
      /\ \A ch \in Choices : m \in Recast(m, choice)[ch] <=> ch = choice
      /\ \A x \in Ids \ {m} : \A ch \in Choices :
           x \in Recast(m, choice)[ch] <=> x \in mem.decision.votes[ch]
  BY <1>1 DEF Recast, Decision
<1> QED BY <1>2 DEF CountsOnce

LEMMA ProposeKeeps ==
  ASSUME IInv, NEW c \in Communities, NEW m \in Ids, Propose(c, m)
  PROVE  IInv'
<1> DEFINE d == [mem.decision EXCEPT !.status = "proposed"]
<1>1. /\ d \in Decisions /\ d.votes = mem.decision.votes /\ d.status = "proposed"
      /\ mem' = [mem EXCEPT !.decision = d]
  BY Types DEF Propose, IInv, Decisions
<1> HIDE DEF d
<1>2. /\ UNCHANGED <<engine, byCommunity, byAgent, lastId>> /\ acked' = acked /\ durable' = durable
      /\ Saving("plain", 0, "none")
  BY DEF Propose, votesGiven
<1>3. Sound(d)
  BY <1>1 DEF IInv, AllSound, Sound, CountsOnce, Supported
<1>4. acked' \in [Ids -> Choices \cup {"none"}]
  BY <1>2, Types DEF IInv
<1>5. \A x \in Ids : acked'[x] # "none" => x \in d.votes[acked'[x]] /\ x \in Known
  BY <1>1, <1>2 DEF IInv, AckedVoteCounts
<1>6. durable' \subseteq durable /\ \A x \in durable' : acked'[x] = acked[x]
  BY <1>2
<1> QED BY <1>1, <1>2, <1>3, <1>4, <1>5, <1>6, DecisionKeeps

\* No other member's vote is touched.
LEMMA VoteKeeps ==
  ASSUME IInv, NEW m \in Ids, NEW choice \in Choices, Vote(m, choice)
  PROVE  IInv'
<1> DEFINE d == [mem.decision EXCEPT !.votes = Recast(m, choice), !.status = "voting"]
<1>0. mem.decision \in Decisions /\ CountsOnce(mem.decision) /\ m \in Known
  BY Types DEF IInv, AllSound, Sound, Vote
<1>1. /\ d \in Decisions /\ d.votes = Recast(m, choice) /\ d.status = "voting"
      /\ mem' = [mem EXCEPT !.decision = d]
  <2>1. Recast(m, choice) \in [Choices -> SUBSET Ids]
    BY <1>0, RecastOnce
  <2> QED BY <1>0, <2>1, Types DEF Vote, IInv, Decisions
<1> HIDE DEF d
<1>2. /\ UNCHANGED <<engine, byCommunity, byAgent, lastId>> /\ Saving("vote", m, choice)
      /\ acked' = [acked EXCEPT ![m] = IF engine THEN "none" ELSE choice]
      /\ durable' = durable \ {m}
  BY DEF Vote
<1>3. Sound(d)
  BY <1>0, <1>1, RecastOnce DEF Sound, CountsOnce, Supported
<1>4. acked' \in [Ids -> Choices \cup {"none"}]
  BY <1>2, Types DEF IInv
<1>5. ASSUME NEW x \in Ids, acked'[x] # "none"
      PROVE  x \in d.votes[acked'[x]] /\ x \in Known
  <2>1. CASE x = m
    <3>1. acked'[m] = choice
      BY <1>2, <1>5, <2>1, Types DEF IInv
    <3> QED BY <1>0, <1>1, <2>1, <3>1, RecastOnce
  <2>2. CASE x # m
    <3>1. acked'[x] = acked[x] /\ acked[x] \in Choices
      BY <1>2, <1>5, <2>2, Types DEF IInv
    <3>2. x \in mem.decision.votes[acked[x]] /\ x \in Known
      BY <1>5, <3>1 DEF IInv, AckedVoteCounts
    <3> QED BY <1>0, <1>1, <2>2, <3>1, <3>2, RecastOnce
  <2> QED BY <2>1, <2>2
<1>6. \A x \in durable' : acked'[x] = acked[x]
  BY <1>2, Types DEF IInv, StateOK
<1>7. \E who \in Known, what \in Choices : Saving("vote", who, what)
  BY <1>0, <1>2
<1> QED BY <1>1, <1>2, <1>3, <1>4, <1>5, <1>6, <1>7, DecisionKeeps

LEMMA VoteInvalidKeeps ==
  ASSUME IInv, NEW m \in Ids, VoteInvalid(m)
  PROVE  IInv'
<1> DEFINE d == [mem.decision EXCEPT !.votes = Recast(m, "invalid")]
<1>0. mem.decision \in Decisions /\ CountsOnce(mem.decision)
  BY Types DEF IInv, AllSound, Sound
<1>1. /\ d \in Decisions /\ d.votes = Recast(m, "invalid") /\ d.status # "approved"
      /\ mem' = [mem EXCEPT !.decision = d]
  <2>1. Recast(m, "invalid") \in [Choices -> SUBSET Ids]
    BY <1>0, RecastOnce
  <2> QED BY <1>0, <2>1, Types DEF VoteInvalid, OpenToVotes, Decision, IInv, Decisions
<1> HIDE DEF d
<1>2. /\ UNCHANGED <<engine, byCommunity, byAgent, lastId>> /\ UNCHANGED <<stored, saves, copy>>
      /\ acked' = [acked EXCEPT ![m] = "none"] /\ acked' \in [Ids -> Choices \cup {"none"}]
      /\ durable' = durable \ {m}
  BY Types DEF VoteInvalid, IInv
<1>3. Sound(d)
  BY <1>0, <1>1, RecastOnce DEF Sound, CountsOnce, Supported
<1>4. ASSUME NEW x \in Ids, acked'[x] # "none"
      PROVE  x \in d.votes[acked'[x]] /\ x \in Known
  <2>1. x # m /\ acked'[x] = acked[x] /\ acked[x] \in Choices
    BY <1>2, <1>4, Types DEF IInv
  <2>2. x \in mem.decision.votes[acked[x]] /\ x \in Known
    BY <1>4, <2>1 DEF IInv, AckedVoteCounts
  <2> QED BY <1>0, <1>1, <2>1, <2>2, RecastOnce
<1>5. \A x \in durable' : acked'[x] = acked[x]
  BY <1>2, Types DEF IInv, StateOK
<1> QED BY <1>1, <1>2, <1>3, <1>4, <1>5, DecisionKeeps

\* What each threshold comes to in the votes for and against.
LEMMA Thresholds ==
  ASSUME NEW yes \in Nat, NEW no \in Nat
  PROVE  /\ 2 * yes > yes + no => yes > no
         /\ yes + no > 0 /\ 100 * yes >= 67 * (yes + no) => yes > 0 /\ 33 * yes >= 67 * no
         /\ yes + no > 0 /\ 10 * yes >= 4 * (yes + no) => yes > 0 /\ 3 * yes >= 2 * no
         /\ yes > no => yes > 0
OBVIOUS

LEMMA VotesAreFinite ==
  ASSUME NEW d \in Decisions, NEW ch \in Choices
  PROVE  IsFiniteSet(d.votes[ch]) /\ Count(d.votes, ch) \in Nat
<1>1. d.votes[ch] \subseteq 1 .. MaxMembers /\ MaxMembers \in Nat
  BY CommunityAssumption DEF Decisions, Ids
<1>2. IsFiniteSet(d.votes[ch])
  <2>1. IsFiniteSet(1 .. MaxMembers)
    BY <1>1, FS_Interval
  <2> QED BY <1>1, <2>1, FS_Subset
<1> QED BY <1>2, FS_CardinalityType DEF Count

\* Weights are of voters on record, so that without a voter there is none.
LEMMA NobodyWeighsNothing ==
  ASSUME NEW d \in Decisions, NEW c, Count(d.votes, "for") = 0
  PROVE  /\ Cardinality(d.votes["for"] \cap Known) = 0
         /\ Score(c, d.votes["for"]) = 0
<1>1. d.votes["for"] = {}
  BY VotesAreFinite, CommunityAssumption, FS_EmptySet DEF Count
<1>2. Cardinality({}) = 0
  BY FS_EmptySet
<1>3. d.votes["for"] \cap Known = {}
  BY <1>1
<1>4. Score(c, d.votes["for"]) = 0
  <2> DEFINE of(n) == Cardinality({m \in d.votes["for"] \cap Known : Standing(c, m) = n})
  <2>1. \A n : {m \in d.votes["for"] \cap Known : Standing(c, m) = n} = {}
    BY <1>3
  <2>2. of(1) = 0 /\ of(2) = 0 /\ of(3) = 0
    BY <1>2, <2>1
  <2>3. Score(c, d.votes["for"]) = of(1) + 2 * of(2) + 3 * of(3)
    BY DEF Score
  <2> HIDE DEF of
  <2> QED BY <2>2, <2>3
<1> QED BY <1>2, <1>3, <1>4

LEMMA WeighsAreNat ==
  ASSUME NEW d \in Decisions, NEW c, NEW ch \in Choices
  PROVE  /\ Cardinality(d.votes[ch] \cap Known) \in Nat
         /\ Score(c, d.votes[ch]) \in Nat
<1>1. IsFiniteSet(d.votes[ch])
  BY VotesAreFinite
<1>2. IsFiniteSet(d.votes[ch] \cap Known)
  BY <1>1, FS_Subset
<1>3. \A n : IsFiniteSet({m \in d.votes[ch] \cap Known : Standing(c, m) = n})
  BY <1>2, FS_Subset
<1>4. \A n : Cardinality({m \in d.votes[ch] \cap Known : Standing(c, m) = n}) \in Nat
  BY <1>3, FS_CardinalityType
<1>5. Score(c, d.votes[ch]) \in Nat
  <2> DEFINE of(n) == Cardinality({m \in d.votes[ch] \cap Known : Standing(c, m) = n})
  <2>1. of(1) \in Nat /\ of(2) \in Nat /\ of(3) \in Nat
    BY <1>4
  <2>2. Score(c, d.votes[ch]) = of(1) + 2 * of(2) + 3 * of(3)
    BY DEF Score
  <2> HIDE DEF of
  <2> QED BY <2>1, <2>2
<1> QED BY <1>2, <1>5, FS_CardinalityType

\* A decision that is decided keeps its votes, and has the support its way of
\* approval asks for.
LEMMA DecideKeeps ==
  ASSUME IInv, NEW approved \in BOOLEAN, NEW how \in Algorithms \cup {"arbitration"},
         Decide(approved, how),
         approved =>
           LET yes == Count(mem.decision.votes, "for")
               no  == Count(mem.decision.votes, "against")
           IN  /\ yes > 0
               /\ how = "simple_majority" => yes > no
               /\ how = "supermajority" => 33 * yes >= 67 * no
               /\ how = "unanimous" => no = 0
               /\ how = "arbitration" => 3 * yes >= 2 * no
  PROVE  IInv'
<1> DEFINE d == [mem.decision EXCEPT !.status = IF approved THEN "approved" ELSE "rejected",
                                     !.by = IF approved THEN how ELSE "none"]
<1>1. /\ d \in Decisions /\ d.votes = mem.decision.votes
      /\ d.status = "approved" => approved /\ d.by = how
      /\ mem' = [mem EXCEPT !.decision = d]
  BY Types DEF Decide, IInv, Decisions
<1> HIDE DEF d
<1>2. /\ UNCHANGED <<engine, byCommunity, byAgent, lastId>> /\ UNCHANGED <<stored, saves, copy>>
      /\ acked' = acked /\ durable' = durable
  BY DEF Decide, votesGiven
<1>3. acked' \in [Ids -> Choices \cup {"none"}]
  BY <1>2, Types DEF IInv
<1>4. Sound(d)
  BY <1>1 DEF IInv, AllSound, Sound, CountsOnce, Supported
<1>5. \A m \in Ids : acked'[m] # "none" => m \in d.votes[acked'[m]] /\ m \in Known
  BY <1>1, <1>2 DEF IInv, AckedVoteCounts
<1> QED BY <1>1, <1>2, <1>3, <1>4, <1>5, DecisionKeeps

LEMMA EvaluateKeeps ==
  ASSUME IInv, NEW c \in Communities, NEW algorithm \in Algorithms, Evaluate(c, algorithm)
  PROVE  IInv'
<1> DEFINE yes == Count(mem.decision.votes, "for")
           no  == Count(mem.decision.votes, "against")
           approved == Passes(algorithm, c, mem.decision.votes)
<1>0. mem.decision \in Decisions /\ {"for", "against"} \subseteq Choices
  BY Types, CommunityAssumption DEF IInv
<1>1. yes \in Nat /\ no \in Nat
  BY <1>0, VotesAreFinite
<1>2. Decide(approved, algorithm)
  BY DEF Evaluate, Decision
<1>3. approved \in BOOLEAN /\
      (approved => /\ yes > 0
                   /\ algorithm = "simple_majority" => yes > no
                   /\ algorithm = "supermajority" => 33 * yes >= 67 * no
                   /\ algorithm = "unanimous" => no = 0)
  <2>1. CASE algorithm = "simple_majority"
    BY <1>1, <2>1, Thresholds DEF Passes
  <2>2. CASE algorithm = "supermajority"
    BY <1>1, <2>2, Thresholds DEF Passes
  <2>3. CASE algorithm = "unanimous"
    BY <1>1, <2>3 DEF Passes
  <2>4. CASE algorithm = "weighted_voting"
    <3>1. Cardinality(mem.decision.votes["against"] \cap Known) \in Nat
      BY <1>0, WeighsAreNat
    <3>2. approved <=> Cardinality(mem.decision.votes["for"] \cap Known)
                         > Cardinality(mem.decision.votes["against"] \cap Known)
      BY <2>4 DEF Passes
    <3>3. yes = 0 => Cardinality(mem.decision.votes["for"] \cap Known) = 0
      BY <1>0, NobodyWeighsNothing
    <3>4. approved \in BOOLEAN
      BY <2>4 DEF Passes
    <3> HIDE DEF yes, approved
    <3> QED BY <1>1, <2>4, <3>1, <3>2, <3>3, <3>4
  <2>5. CASE algorithm = "delegated_proof"
    <3>1. Score(c, mem.decision.votes["against"]) \in Nat
      BY <1>0, WeighsAreNat
    <3>2. approved <=> Score(c, mem.decision.votes["for"]) > Score(c, mem.decision.votes["against"])
      BY <2>5 DEF Passes
    <3>3. yes = 0 => Score(c, mem.decision.votes["for"]) = 0
      BY <1>0, NobodyWeighsNothing
    <3>4. approved \in BOOLEAN
      BY <2>5 DEF Passes
    <3> HIDE DEF yes, approved
    <3> QED BY <1>1, <2>5, <3>1, <3>2, <3>3, <3>4
  <2> QED BY <2>1, <2>2, <2>3, <2>4, <2>5 DEF Algorithms
<1>4. algorithm # "arbitration"
  BY DEF Algorithms
<1> HIDE DEF approved
<1> QED BY <1>2, <1>3, <1>4, DecideKeeps

LEMMA ArbitrateKeeps ==
  ASSUME IInv, NEW c \in Communities, Arbitrate(c)
  PROVE  IInv'
<1> DEFINE yes == Count(mem.decision.votes, "for")
           no  == Count(mem.decision.votes, "against")
           approved == yes + no > 0 /\ 10 * yes >= 4 * (yes + no)
<1>1. yes \in Nat /\ no \in Nat
  BY Types, VotesAreFinite, CommunityAssumption DEF IInv
<1>2. approved => yes > 0 /\ 3 * yes >= 2 * no
  BY <1>1, Thresholds
<1>3. approved \in BOOLEAN /\ Decide(approved, "arbitration") /\ "arbitration" \notin Algorithms
  BY DEF Arbitrate, Decision, Algorithms
<1> HIDE DEF approved
<1> QED BY <1>2, <1>3, DecideKeeps DEF Algorithms

\* Put to the vote again, a decision has no votes, and none are acknowledged.
LEMMA EscalateKeeps ==
  ASSUME IInv, Escalate
  PROVE  IInv'
<1>0. /\ mem.decision \in Decisions /\ Levels \in Nat /\ mem.decision.level \in Nat
      /\ acked \in [Ids -> Choices \cup {"none"}]
  BY Types DEF IInv, Decisions
<1>1. /\ UNCHANGED <<engine, byCommunity, byAgent, lastId>> /\ UNCHANGED <<stored, saves, copy>>
  BY DEF Escalate
<1>2. CASE Decision.level + 1 < Levels
  <2> DEFINE d == Unvoted("proposed", Decision.level + 1)
  <2>1. d \in Decisions /\ d.votes = [ch \in Choices |-> {}] /\ d.status = "proposed"
    <3>1. Decision.level + 1 \in 0 .. Levels
      BY <1>0, <1>2 DEF Decision
    <3>2. d \in Decisions
      BY <3>1 DEF Unvoted, Decisions
    <3> QED BY <3>2 DEF Unvoted
  <2>2. /\ mem' = [mem EXCEPT !.decision = d]
        /\ acked' = [m \in Ids |-> "none"] /\ durable' = {}
    BY <1>2 DEF Escalate
  <2> HIDE DEF d
  <2>3. Sound(d)
    BY <2>1 DEF Sound, CountsOnce, Supported
  <2> QED BY <1>1, <2>1, <2>2, <2>3, DecisionKeeps
<1>3. CASE ~(Decision.level + 1 < Levels)
  <2> DEFINE d == [mem.decision EXCEPT !.level = @ + 1]
  <2>1. /\ d \in Decisions /\ d.votes = mem.decision.votes
        /\ d.status = mem.decision.status /\ d.by = mem.decision.by
        /\ mem' = [mem EXCEPT !.decision = d]
    BY <1>0, <1>3, Types DEF Escalate, Decisions, Decision, IInv
  <2>2. acked' = acked /\ durable' = durable
    BY <1>3 DEF Escalate, votesGiven
  <2> HIDE DEF d
  <2>3. Sound(d)
    BY <2>1 DEF IInv, AllSound, Sound, CountsOnce, Supported
  <2>4. \A m \in Ids : acked'[m] # "none" => m \in d.votes[acked'[m]] /\ m \in Known
    BY <2>1, <2>2 DEF IInv, AckedVoteCounts
  <2> QED BY <1>0, <1>1, <2>1, <2>2, <2>3, <2>4, DecisionKeeps
<1> QED BY <1>2, <1>3
-----------------------------------------------------------------------------
(* Storage *)

\* The end of a write, whatever it left stored.
LEMMA WriteOverKeeps ==
  ASSUME IInv, NEW t \in Callers, WriteOver(t),
         Content(stored', lastId), Sound(stored'.decision),
         \A m \in durable : /\ m \in stored'.decision.votes[acked[m]]
                            /\ m \in DOMAIN stored'.members
  PROVE  IInv'
<1>1. /\ saves \in [Callers -> Calls] /\ lastId \in Nat
      /\ mem' = mem /\ lastId' = lastId /\ engine' = engine /\ acked' = acked /\ durable' = durable
      /\ byCommunity' = byCommunity /\ byAgent' = byAgent
      /\ saves' = [saves EXCEPT ![t].due = FALSE] /\ copy' = [copy EXCEPT ![t] = Empty]
  BY Types DEF WriteOver, votesGiven, IInv
<1>2. [saves[t] EXCEPT !.due = FALSE] \in Calls
  BY <1>1 DEF Calls
<1>3. /\ saves' \in [Callers -> Calls] /\ saves'[t] = [saves[t] EXCEPT !.due = FALSE]
      /\ \A u \in Callers \ {t} : saves'[u] = saves[u]
  BY <1>1, <1>2
<1>4. /\ saves'[t].kind = saves[t].kind /\ saves'[t].who = saves[t].who
      /\ saves'[t].what = saves[t].what /\ saves'[t].due = FALSE
  BY <1>1, <1>3 DEF Calls
<1>5. /\ DOMAIN copy' = Callers /\ copy'[t] = Empty
      /\ \A u \in Callers \ {t} : copy'[u] = copy[u]
  BY <1>1 DEF IInv, StateOK
<1>6. /\ \A u \in Callers : Content(copy'[u], lastId) /\ Sound(copy'[u].decision)
  BY <1>1, <1>5, NothingKept DEF IInv, StateOK, AllSound
<1>7. StateOK'
  BY <1>1, <1>3, <1>5, <1>6 DEF IInv, StateOK
<1>8. CallsKnown'
  <2>1. \A u \in Callers : /\ saves'[u].kind = saves[u].kind /\ saves'[u].who = saves[u].who
                           /\ saves'[u].what = saves[u].what
    BY <1>3, <1>4
  <2> QED BY <1>1, <2>1 DEF IInv, CallsKnown, Known
<1>9. AllSound'
  BY <1>1, <1>6 DEF IInv, AllSound
<1>10. AckedVoteCounts'
  BY <1>1 DEF IInv, AckedVoteCounts, Known
<1>11. WrittenStays'
  <2> SUFFICES ASSUME NEW m \in durable
               PROVE  acked[m] # "none" /\ Written(m, acked[m])'
    BY <1>1 DEF WrittenStays, Written
  <2>1. acked[m] # "none" /\ Written(m, acked[m])
    BY DEF IInv, WrittenStays
  <2>2. ASSUME NEW u \in Callers, saves'[u].due
        PROVE  /\ Keys[saves'[u].at] = "decision" => m \in copy'[u].decision.votes[acked[m]]
               /\ Keys[saves'[u].at] = "members" => m \in DOMAIN copy'[u].members
    BY <1>3, <1>4, <1>5, <2>1, <2>2 DEF Written
  <2> QED BY <1>1, <2>1, <2>2 DEF Written
<1>12. IndexesAgree'
  BY <1>1 DEF IInv, IndexesAgree, MemberOf, Known
<1> QED BY <1>7, <1>8, <1>9, <1>10, <1>11, <1>12 DEF IInv

\* A copy that is stored has what was written before it.
LEMMA LandsKeeps ==
  ASSUME IInv, NEW t \in Callers, Lands(t)
  PROVE  IInv'
<1>1. /\ saves \in [Callers -> Calls] /\ saves[t].due /\ saves[t].at \in 0 .. 3
      /\ Content(stored, lastId) /\ Content(copy[t], lastId)
      /\ Sound(stored.decision) /\ Sound(copy[t].decision)
  BY KeysAre, Types DEF Lands, WriteOver, IInv, StateOK, AllSound, Calls
<1> DEFINE k == Keys[saves[t].at]
<1>2. stored' = [stored EXCEPT ![k] = copy[t][k]]
  BY DEF Lands
<1> HIDE DEF k
<1>3. /\ stored'.communities = (IF k = "communities" THEN copy[t].communities ELSE stored.communities)
      /\ stored'.members = (IF k = "members" THEN copy[t].members ELSE stored.members)
      /\ stored'.decision = (IF k = "decision" THEN copy[t].decision ELSE stored.decision)
      /\ stored' = [communities |-> stored'.communities, members |-> stored'.members,
                    decision |-> stored'.decision]
  <2>1. stored = [communities |-> stored.communities, members |-> stored.members,
                  decision |-> stored.decision]
    BY Types DEF IInv
  <2>2. CASE k = "communities"
    BY <1>2, <2>1, <2>2
  <2>3. CASE k = "members"
    BY <1>2, <2>1, <2>3
  <2>4. CASE k = "decision"
    BY <1>2, <2>1, <2>4
  <2>5. CASE k \notin {"communities", "members", "decision"}
    BY <1>2, <2>1, <2>5
  <2> QED BY <2>2, <2>3, <2>4, <2>5
<1>4. Content(stored', lastId)
  BY <1>1, <1>3 DEF Content
<1>5. Sound(stored'.decision)
  BY <1>1, <1>3
<1>6. ASSUME NEW m \in durable
      PROVE  m \in stored'.decision.votes[acked[m]] /\ m \in DOMAIN stored'.members
  <2>1. Written(m, acked[m])
    BY DEF IInv, WrittenStays
  <2> QED BY <1>1, <1>3, <2>1 DEF Written, k
<1> QED BY <1>4, <1>5, <1>6, WriteOverKeeps DEF Lands

\* A failed write leaves what is stored as it was.
LEMMA FailsKeeps ==
  ASSUME IInv, NEW t \in Callers, Fails(t)
  PROVE  IInv'
<1>1. stored' = stored /\ WriteOver(t)
  BY DEF Fails
<1>2. Content(stored', lastId) /\ Sound(stored'.decision)
  BY <1>1 DEF IInv, StateOK, AllSound
<1>3. \A m \in durable : m \in stored'.decision.votes[acked[m]] /\ m \in DOMAIN stored'.members
  BY <1>1 DEF IInv, WrittenStays, Written
<1> QED BY <1>1, <1>2, <1>3, WriteOverKeeps

\* A copy of the memory has every acknowledged vote.
LEMMA SaveKeyKeeps ==
  ASSUME IInv, NEW t \in Callers, SaveKey(t)
  PROVE  IInv'
<1>1. /\ saves \in [Callers -> Calls] /\ lastId \in Nat /\ saves[t].at \in {1, 2}
      /\ mem' = mem /\ stored' = stored /\ lastId' = lastId /\ engine' = engine
      /\ acked' = acked /\ durable' = durable
      /\ byCommunity' = byCommunity /\ byAgent' = byAgent
      /\ saves' = [saves EXCEPT ![t].at = @ + 1, ![t].due = TRUE]
      /\ copy' = [copy EXCEPT ![t] = Part(mem, {Keys[saves[t].at + 1]})]
  BY KeysAre, Types DEF SaveKey, votesGiven, IInv
<1>2. [saves[t] EXCEPT !.at = @ + 1, !.due = TRUE] \in Calls
  <2>1. saves[t] \in Calls /\ saves[t].at + 1 \in 0 .. Len(Keys)
    BY <1>1, KeysAre
  <2> QED BY <2>1 DEF Calls
<1>3. /\ saves' \in [Callers -> Calls] /\ saves'[t] = [saves[t] EXCEPT !.at = @ + 1, !.due = TRUE]
      /\ \A u \in Callers \ {t} : saves'[u] = saves[u]
  BY <1>1, <1>2
<1>4. /\ saves'[t].kind = saves[t].kind /\ saves'[t].who = saves[t].who
      /\ saves'[t].what = saves[t].what /\ saves'[t].at = saves[t].at + 1
  BY <1>1, <1>3 DEF Calls
<1>5. /\ DOMAIN copy' = Callers /\ copy'[t] = Part(mem, {Keys[saves[t].at + 1]})
      /\ \A u \in Callers \ {t} : copy'[u] = copy[u]
  BY <1>1 DEF IInv, StateOK
<1>6. \A u \in Callers : Content(copy'[u], lastId) /\ Sound(copy'[u].decision)
  BY <1>1, <1>5, PartKeeps DEF IInv, StateOK, AllSound
<1>7. StateOK'
  BY <1>1, <1>3, <1>5, <1>6 DEF IInv, StateOK
<1>8. CallsKnown'
  <2>1. \A u \in Callers : /\ saves'[u].kind = saves[u].kind /\ saves'[u].who = saves[u].who
                           /\ saves'[u].what = saves[u].what
    BY <1>3, <1>4
  <2> QED BY <1>1, <2>1 DEF IInv, CallsKnown, Known
<1>9. AllSound'
  BY <1>1, <1>6 DEF IInv, AllSound
<1>10. AckedVoteCounts'
  BY <1>1 DEF IInv, AckedVoteCounts, Known
<1>11. WrittenStays'
  <2> SUFFICES ASSUME NEW m \in durable
               PROVE  acked[m] # "none" /\ Written(m, acked[m])'
    BY <1>1 DEF WrittenStays, Written
  <2>1. acked[m] # "none" /\ Written(m, acked[m]) /\ m \in Ids
    BY DEF IInv, WrittenStays, StateOK
  <2>2. m \in mem.decision.votes[acked[m]] /\ m \in DOMAIN mem.members
    BY <2>1 DEF IInv, AckedVoteCounts, Known
  <2>3. ASSUME NEW u \in Callers, saves'[u].due
        PROVE  /\ Keys[saves'[u].at] = "decision" => m \in copy'[u].decision.votes[acked[m]]
               /\ Keys[saves'[u].at] = "members" => m \in DOMAIN copy'[u].members
    <3>1. CASE u = t
      <4>1. Content(mem, lastId) /\ Sound(mem.decision)
        BY DEF IInv, StateOK, AllSound
      <4> QED BY <1>1, <1>4, <1>5, <2>2, <3>1, <4>1, PartKeeps
    <3>2. CASE u # t
      BY <1>3, <1>5, <2>1, <2>3, <3>2 DEF Written
    <3> QED BY <3>1, <3>2
  <2> QED BY <1>1, <2>1, <2>3 DEF Written
<1>12. IndexesAgree'
  BY <1>1 DEF IInv, IndexesAgree, MemberOf, Known
<1> QED BY <1>7, <1>8, <1>9, <1>10, <1>11, <1>12 DEF IInv

\* A vote that is acknowledged stands in the memory, and is durable if it is
\* written by then.
LEMMA SavedKeeps ==
  ASSUME IInv, NEW t \in Callers, Saved(t)
  PROVE  IInv'
<1> DEFINE m == saves[t].who
           choice == saves[t].what
           stands == saves[t].kind = "vote" /\ m \in mem.decision.votes[choice]
<1>1. /\ saves \in [Callers -> Calls] /\ acked \in [Ids -> Choices \cup {"none"}]
      /\ durable \subseteq Ids /\ ~saves[t].due
      /\ mem' = mem /\ stored' = stored /\ lastId' = lastId /\ engine' = engine /\ copy' = copy
      /\ byCommunity' = byCommunity /\ byAgent' = byAgent
      /\ saves' = [saves EXCEPT ![t] = Idle]
  BY Types DEF Saved, LastKeyOver, IInv, StateOK
<1>2. /\ stands => /\ acked' = [acked EXCEPT ![m] = choice]
                   /\ durable' = (IF Written(m, choice) THEN durable \cup {m} ELSE durable \ {m})
      /\ ~stands => acked' = acked /\ durable' = durable
  BY DEF Saved, votesGiven
<1>3. stands => m \in Known /\ m \in Ids /\ choice \in Choices /\ choice # "none"
  BY Types, CommunityAssumption DEF IInv, CallsKnown
<1>4. stands => m \in mem.decision.votes[choice]
  OBVIOUS
<1>5. /\ saves' \in [Callers -> Calls] /\ saves'[t] = Idle
      /\ \A u \in Callers \ {t} : saves'[u] = saves[u]
  BY <1>1, KeysAre DEF Idle, Calls
<1>6. Idle.kind = "none" /\ Idle.due = FALSE
  BY DEF Idle
<1> HIDE DEF m, choice, stands, Idle
<1>7. acked' \in [Ids -> Choices \cup {"none"}] /\ durable' \subseteq Ids
  BY <1>1, <1>2, <1>3
<1>8. StateOK'
  BY <1>1, <1>5, <1>7 DEF IInv, StateOK
<1>9. CallsKnown'
  BY <1>1, <1>5, <1>6 DEF IInv, CallsKnown, Known
<1>10. AllSound'
  BY <1>1 DEF IInv, AllSound
<1>11. AckedVoteCounts'
  BY <1>1, <1>2, <1>3, <1>4 DEF IInv, AckedVoteCounts, Known
<1>12. \A x, ch : Written(x, ch) => Written(x, ch)'
  BY <1>1, <1>5, <1>6 DEF Written
<1>13. WrittenStays'
  <2> SUFFICES ASSUME NEW x \in durable'
               PROVE  acked'[x] # "none" /\ Written(x, acked'[x])
    BY <1>12 DEF WrittenStays
  <2>1. CASE stands /\ x = m
    <3>1. acked'[x] = choice
      BY <1>1, <1>2, <1>3, <2>1
    <3>2. Written(m, choice)
      BY <1>2, <2>1
    <3> QED BY <1>3, <2>1, <3>1, <3>2
  <2>2. CASE ~(stands /\ x = m)
    <3>1. x \in durable /\ acked'[x] = acked[x]
      BY <1>1, <1>2, <2>2
    <3> QED BY <3>1 DEF IInv, WrittenStays
  <2> QED BY <2>1, <2>2
<1>14. IndexesAgree'
  BY <1>1 DEF IInv, IndexesAgree, MemberOf, Known
<1> QED BY <1>8, <1>9, <1>10, <1>11, <1>13, <1>14 DEF IInv

\* Whatever was stored when the process stopped, and whatever of it is
\* loaded, is enough to go on with.
LEMMA RestartKeeps ==
  ASSUME IInv, Restart
  PROVE  IInv'
<1>0. PICK lost \in SUBSET AllKeys :
        LET d == Part(stored, AllKeys \ lost)
            voters == IF {"members", "decision"} \cap lost = {} THEN durable ELSE {}
        IN  /\ mem' = d
            /\ byCommunity' = [c \in DOMAIN d.communities |-> d.communities[c].members]
            /\ byAgent' = [a \in Agents |->
                 {c \in DOMAIN d.communities :
                    \E m \in DOMAIN d.members :
                      d.members[m] = a /\ m \in d.communities[c].members}]
            /\ saves' = [t \in Callers |-> Idle]
            /\ copy' = [t \in Callers |-> Empty]
            /\ acked' = [m \in Ids |-> IF m \in voters THEN acked[m] ELSE "none"]
            /\ durable' = voters
            /\ UNCHANGED <<engine, stored, lastId>>
  BY DEF Restart
<1> DEFINE d == Part(stored, AllKeys \ lost)
           voters == IF {"members", "decision"} \cap lost = {} THEN durable ELSE {}
<1>1. /\ mem' = d /\ stored' = stored /\ lastId' = lastId /\ engine' = engine
      /\ saves' = [t \in Callers |-> Idle] /\ copy' = [t \in Callers |-> Empty]
      /\ acked' = [m \in Ids |-> IF m \in voters THEN acked[m] ELSE "none"]
      /\ durable' = voters
      /\ byCommunity' = [c \in DOMAIN d.communities |-> d.communities[c].members]
      /\ byAgent' = [a \in Agents |->
           {c \in DOMAIN d.communities :
              \E m \in DOMAIN d.members : d.members[m] = a /\ m \in d.communities[c].members}]
  BY <1>0
<1>2. Idle \in Calls /\ Idle.kind = "none" /\ Idle.due = FALSE
  BY KeysAre DEF Idle, Calls
<1>3. /\ Content(stored, lastId) /\ Sound(stored.decision) /\ lastId \in Nat
      /\ acked \in [Ids -> Choices \cup {"none"}] /\ durable \subseteq Ids
  BY Types DEF IInv, StateOK, AllSound
<1>4. /\ Content(d, lastId) /\ Sound(d.decision)
      /\ "members" \notin lost => d.members = stored.members
      /\ "decision" \notin lost => d.decision = stored.decision
  BY <1>3, PartKeeps, KeysAre
<1>5. /\ voters \subseteq durable
      /\ voters # {} => d.members = stored.members /\ d.decision = stored.decision
  BY <1>4
<1> HIDE DEF d, voters
<1>6. /\ DOMAIN d.communities \subseteq Communities
      /\ \A c \in DOMAIN d.communities : d.communities[c].members \subseteq Ids
  BY <1>4 DEF Content
<1>7. StateOK'
  <2>1. byAgent' \in [Agents -> SUBSET Communities]
    BY <1>1, <1>6
  <2>2. saves' \in [Callers -> Calls] /\ DOMAIN copy' = Callers
    BY <1>1, <1>2
  <2>3. \A t \in Callers : Content(copy'[t], lastId')
    BY <1>1, <1>3, NothingKept
  <2>4. acked' \in [Ids -> Choices \cup {"none"}] /\ durable' \subseteq Ids
    BY <1>1, <1>3, <1>5
  <2>5. DOMAIN byCommunity' \subseteq Communities /\ \A c \in DOMAIN byCommunity' : byCommunity'[c] \subseteq Ids
    BY <1>1, <1>6
  <2> QED BY <1>1, <1>3, <1>4, <2>1, <2>2, <2>3, <2>4, <2>5 DEF IInv, StateOK
<1>8. CallsKnown'
  BY <1>1, <1>2 DEF CallsKnown
<1>9. AllSound'
  BY <1>1, <1>3, <1>4, NothingKept DEF AllSound
<1>10. ASSUME NEW m \in voters
       PROVE  acked[m] # "none" /\ m \in stored.decision.votes[acked[m]] /\ m \in DOMAIN stored.members
  BY <1>5 DEF IInv, WrittenStays, Written
<1>11. AckedVoteCounts'
  BY <1>1, <1>3, <1>5, <1>10 DEF AckedVoteCounts, Known
<1>12. WrittenStays'
  BY <1>1, <1>2, <1>3, <1>5, <1>10 DEF WrittenStays, Written
<1>13. IndexesAgree'
  <2> SUFFICES ASSUME NEW a \in Agents, NEW c \in byAgent'[a]
               PROVE  c \in DOMAIN byCommunity' /\ MemberOf(c, a)' # {}
    BY <1>1 DEF IndexesAgree
  <2>1. PICK m : /\ c \in DOMAIN d.communities /\ m \in DOMAIN d.members
                 /\ d.members[m] = a /\ m \in d.communities[c].members
    BY <1>1
  <2>2. m \in MemberOf(c, a)'
    BY <1>1, <2>1 DEF MemberOf, Known
  <2> QED BY <1>1, <2>1, <2>2
<1> QED BY <1>7, <1>8, <1>9, <1>11, <1>12, <1>13 DEF IInv
-----------------------------------------------------------------------------
(* The invariant *)

LEMMA InitIInv == Init => IInv
<1> SUFFICES ASSUME Init PROVE IInv
  OBVIOUS
<1>1. /\ engine \in BOOLEAN /\ mem = Empty /\ stored = Empty /\ DOMAIN byCommunity = {}
      /\ byAgent = [a \in Agents |-> {}] /\ lastId = 0
      /\ saves = [t \in Callers |-> Idle] /\ copy = [t \in Callers |-> Empty]
      /\ acked = [m \in Ids |-> "none"] /\ durable = {}
  BY DEF Init
<1>2. /\ Content(Empty, 0) /\ Sound(Empty.decision)
      /\ DOMAIN Empty.communities = {} /\ DOMAIN Empty.members = {}
  BY NothingKept
<1>3. Idle \in Calls /\ Idle.kind = "none"
  BY KeysAre DEF Idle, Calls
<1>4. StateOK
  BY <1>1, <1>2, <1>3, CommunityAssumption DEF StateOK
<1>5. CallsKnown /\ AllSound
  BY <1>1, <1>2, <1>3 DEF CallsKnown, AllSound
<1>6. AckedVoteCounts /\ WrittenStays
  BY <1>1 DEF AckedVoteCounts, WrittenStays
<1>7. IndexesAgree
  BY <1>1, <1>2 DEF IndexesAgree
<1> QED BY <1>4, <1>5, <1>6, <1>7 DEF IInv

LEMMA StutterKeeps == IInv /\ UNCHANGED vars => IInv'
BY DEF IInv, vars, StateOK, CallsKnown, Known, AllSound, AckedVoteCounts, WrittenStays, Written,
       IndexesAgree, MemberOf

LEMMA NextKeeps == IInv /\ [Next]_vars => IInv'
<1> SUFFICES ASSUME IInv, [Next]_vars PROVE IInv'
  OBVIOUS
<1>1. CASE Membership
  BY <1>1, CreateKeeps, CreateAloneKeeps, AddKeeps, RemoveKeeps, TransferKeeps DEF Membership
<1>2. CASE Deciding
  BY <1>2, ArbitrateKeeps, ProposeKeeps, EvaluateKeeps, VoteInvalidKeeps, VoteKeeps, EscalateKeeps
  DEF Deciding
<1>3. CASE Storing
  BY <1>3, LandsKeeps, FailsKeeps, SaveKeyKeeps, SavedKeeps, SavedAgainKeeps, RemovedKeeps DEF Storing
<1>4. CASE Restart
  BY <1>4, RestartKeeps
<1>5. CASE UNCHANGED vars
  BY <1>5, StutterKeeps
<1> QED BY <1>1, <1>2, <1>3, <1>4, <1>5 DEF Next

\* IInv is an invariant of the community: what is copied and what is stored
\* is at all times as sound as the memory, and has every durable vote.
THEOREM Invariance == Spec => []IInv
<1>1. Init => IInv
  BY InitIInv
<1>2. IInv /\ [Next]_vars => IInv'
  BY NextKeeps
<1> QED BY <1>1, <1>2, PTL DEF Spec

\* The calls and the failures stay within their bounds.
LEMMA BoundsKept == BoundsOK /\ [Next]_vars => BoundsOK'
<1> SUFFICES ASSUME BoundsOK, [Next]_vars PROVE BoundsOK'
  OBVIOUS
<1>0. calls \in 0 .. MaxCalls /\ failures \in 0 .. MaxFailures /\ MaxCalls \in Nat /\ MaxFailures \in Nat
  BY CommunityAssumption DEF BoundsOK
<1>1. CASE Counted /\ UNCHANGED failures
  BY <1>0, <1>1 DEF Counted, BoundsOK
<1>2. CASE Storing /\ UNCHANGED calls
  <2>1. PICK t \in Callers : Lands(t) \/ Fails(t) \/ SaveKey(t) \/ Saved(t) \/ SavedAgain(t) \/ Removed(t)
    BY <1>2 DEF Storing
  <2>2. failures' = failures \/ (failures < MaxFailures /\ failures' = failures + 1)
    BY <2>1 DEF Lands, Fails, SaveKey, Saved, SavedAgain, Removed
  <2> QED BY <1>0, <1>2, <2>2 DEF BoundsOK
<1>3. CASE Restart /\ UNCHANGED calls
  <2>1. PICK lost \in SUBSET AllKeys :
          LET failed == IF engine THEN Cardinality(lost) ELSE 0
          IN  failures + failed <= MaxFailures /\ failures' = failures + failed
    BY <1>3 DEF Restart
  <2>2. IsFiniteSet(AllKeys)
    <3>1. IsFiniteSet({} \cup {"communities"})
      BY FS_EmptySet, FS_AddElement
    <3>2. IsFiniteSet(({} \cup {"communities"}) \cup {"members"})
      BY <3>1, FS_AddElement
    <3>3. IsFiniteSet((({} \cup {"communities"}) \cup {"members"}) \cup {"decision"})
      BY <3>2, FS_AddElement
    <3>4. AllKeys = (({} \cup {"communities"}) \cup {"members"}) \cup {"decision"}
      BY KeysAre
    <3> QED BY <3>3, <3>4
  <2>3. Cardinality(lost) \in Nat
    BY <2>2, FS_Subset, FS_CardinalityType
  <2> QED BY <1>0, <1>3, <2>1, <2>3 DEF BoundsOK
<1>4. CASE UNCHANGED vars
  BY <1>4 DEF vars, BoundsOK
<1> QED BY <1>1, <1>2, <1>3, <1>4 DEF Next

\* Type correctness of manager, copies, storage and indexes.
THEOREM TypeCorrect == Spec => []TypeOK
<1>1. Init => BoundsOK
  BY CommunityAssumption DEF Init, BoundsOK
<1>2. IInv /\ BoundsOK => TypeOK
  BY DEF IInv, TypeOK
<1> QED BY <1>1, <1>2, BoundsKept, Invariance, PTL DEF Spec

\* vote_on_decision: no member counts twice in a tally.
THEOREM NoDoubleVote == Spec => []OneVote
<1>1. IInv => OneVote
  BY DEF IInv, AllSound, Sound, OneVote
<1> QED BY <1>1, Invariance, PTL

\* vote_on_decision, _save_data_by_key and _load_from_storage: an acknowledged
\* vote is counted, and its voter on record, while the process runs; one that
\* was written when it was acknowledged, with no older copy still to come, and
\* that is loaded, is so through every crash and restart.
THEOREM WrittenVotesSurvive == Spec => []AckedVoteCounts
<1>1. IInv => AckedVoteCounts
  BY DEF IInv
<1> QED BY <1>1, Invariance, PTL

\* DecisionEngine: no decision stays approved without the votes that its way
\* of approval asks for, threshold by threshold.
THEOREM ApprovalsSupported == Spec => []ApprovedHasSupport
<1>1. IInv => ApprovedHasSupport
  BY DEF IInv, AllSound, Sound, ApprovedHasSupport
<1> QED BY <1>1, Invariance, PTL

\* The membership indexes follow the rosters, also when they are rebuilt from
\* what could be loaded.
THEOREM IndexesFollow == Spec => []IndexesAgree
<1>1. IInv => IndexesAgree
  BY DEF IInv
<1> QED BY <1>1, Invariance, PTL
=============================================================================
