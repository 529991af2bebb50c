-------------------------- MODULE CompactionProofs --------------------------
(***************************************************************************)
(* What Compaction keeps, for every chain of compressors, every            *)
(* preserve_recent and any number of calls, notes and tasks: the types and *)
(* the breaker, the order of calls and results, what was shown, and that   *)
(* the results of the last batch are.  First the operators on histories,   *)
(* then the inductive invariant, action by action, then what it needs in   *)
(* addition for the last batch, which counts messages.                     *)
(***************************************************************************)
EXTENDS Compaction, FiniteSetTheorems, TLAPS

-----------------------------------------------------------------------------
(* What is said of a history *)

Messages == [role : {"system", "user", "assistant", "tool"},
             calls : SUBSET Ids, id : 0..MaxCalls, text : Texts]

\* Only the assistant calls tools, only a tool's message has an id, and no id
\* is above the n calls there have been.
Shaped(h, n) ==
    \A p \in DOMAIN h :
        /\ h[p] \in Messages /\ p \in Int
        /\ h[p].calls \subseteq 1..n
        /\ h[p].calls # {} => h[p].role = "assistant"
        /\ h[p].role = "tool" => h[p].id \in 1..n
        /\ h[p].role # "tool" => h[p].id = 0 /\ h[p].text = "none"

\* A call has one result.
Distinct(h) == \A p, q \in Tools(h) : h[p].id = h[q].id => p = q

\* No result in the set was swapped for a preview.
Spared(h, ids) == \A p \in Tools(h) : h[p].text = "preview" => h[p].id \notin ids

\* The results in full are among those that the budget decided to leave.
Settled(h, left) == \A p \in Tools(h) : h[p].text = "full" => h[p].id \in left

Within(h, from, to) == DOMAIN h \subseteq from..to

Follow(h) ==
    \A p \in Tools(h) : \E q \in DOMAIN h :
        /\ q < p /\ h[p].id \in h[q].calls
        /\ \A r \in DOMAIN h : q < r /\ r < p => r \in Tools(h)

Answered(h, p) == \E q \in DOMAIN h : Follows(h, p, q) /\ h[q].id \in h[p].calls

\* A message whose calls are among the lost ones, with no result anywhere.
Torn(h, p, lost) == h[p].calls \subseteq lost /\ \A q \in Tools(h) : h[q].id \notin h[p].calls

\* The order of calls and results, as ResultsFollowCalls and CallsHaveResult
\* have it.
Paired(h, lost) ==
    Follow(h) /\ \A p \in DOMAIN h : h[p].calls # {} => Answered(h, p) \/ Torn(h, p, lost)

Good(h, n, ids) == Shaped(h, n) /\ Distinct(h) /\ Spared(h, ids)

\* What a compressor does to a history: it drops messages and shortens results.
Thins(g, h) ==
    /\ DOMAIN g \subseteq DOMAIN h
    /\ \A p \in DOMAIN g :
         /\ g[p] \in Messages
         /\ g[p].role = h[p].role /\ g[p].calls = h[p].calls /\ g[p].id = h[p].id
         /\ \/ g[p].text = h[p].text
            \/ g[p].text \in {"collapsed", "cleared"} /\ h[p].role = "tool"

\* Plain messages in front of a history and behind it.
Frames(g, h) ==
    /\ DOMAIN h \subseteq DOMAIN g
    /\ \A p \in DOMAIN h : g[p] = h[p]
    /\ \A p \in DOMAIN g \ DOMAIN h :
         /\ p \in Int /\ g[p] = Plain("user")
         /\ (\A q \in DOMAIN h : p < q) \/ (\A q \in DOMAIN h : q < p)

-----------------------------------------------------------------------------
(* Operators on histories *)

LEMMA PlainIs ==
  ASSUME NEW role \in {"system", "user"}
  PROVE  /\ Plain(role) \in Messages
         /\ Plain(role).role = role /\ Plain(role).calls = {}
         /\ Plain(role).id = 0 /\ Plain(role).text = "none"
BY CompactionAssumption DEF Plain, Message, Messages, Texts, Ids

LEMMA TextIs ==
  ASSUME NEW m \in Messages, NEW text \in Texts
  PROVE  /\ [m EXCEPT !.text = text] \in Messages
         /\ [m EXCEPT !.text = text].role = m.role
         /\ [m EXCEPT !.text = text].calls = m.calls
         /\ [m EXCEPT !.text = text].id = m.id
         /\ [m EXCEPT !.text = text].text = text
BY DEF Messages

\* Thinning a history keeps all that is said of its messages one by one.
LEMMA ThinnedIsGood ==
  ASSUME NEW g, NEW h, NEW n \in Nat, NEW ids, NEW left, Thins(g, h), Good(h, n, ids)
  PROVE  Good(g, n, ids) /\ (Settled(h, left) => Settled(g, left))
<1>1. Tools(g) \subseteq Tools(h)
  BY Zenon DEF Thins, Tools
<1>2. Shaped(g, n)
  BY DEF Thins, Good, Shaped
<1>3. Distinct(g)
  BY <1>1, Zenon DEF Thins, Good, Distinct, Tools
<1>4. Spared(g, ids)
  BY <1>1 DEF Thins, Good, Spared, Tools
<1>5. Settled(h, left) => Settled(g, left)
  BY <1>1 DEF Thins, Settled, Tools
<1> QED BY <1>2, <1>3, <1>4, <1>5 DEF Good

LEMMA ThinsTwice ==
  ASSUME NEW f, NEW g, NEW h, Thins(f, g), Thins(g, h)
  PROVE  Thins(f, h)
BY Zenon DEF Thins

\* Plain messages at the ends change nothing of it.
LEMMA FramedIsGood ==
  ASSUME NEW g, NEW h, NEW n \in Nat, NEW ids, NEW left, NEW lost, Frames(g, h), Good(h, n, ids)
  PROVE  /\ Good(g, n, ids) /\ (Settled(h, left) => Settled(g, left))
         /\ Paired(h, lost) => Paired(g, lost)
<1>1. Plain("user") \in Messages /\ Plain("user").role = "user" /\ Plain("user").calls = {}
      /\ Plain("user").id = 0 /\ Plain("user").text = "none"
  BY PlainIs
<1>2. \A p \in DOMAIN g \ DOMAIN h : p \notin Tools(g) /\ g[p].calls = {}
  BY <1>1 DEF Frames, Tools
<1>3. Tools(g) = Tools(h)
  BY <1>2, Zenon DEF Frames, Tools
<1>4. Shaped(g, n)
  BY <1>1 DEF Frames, Good, Shaped
<1>5. Distinct(g) /\ Spared(g, ids) /\ (Settled(h, left) => Settled(g, left))
  BY <1>3, Zenon DEF Frames, Good, Distinct, Spared, Settled, Tools
<1>6. \A p \in DOMAIN g : p \in Int
  BY <1>4 DEF Shaped
<1>7. \A p, q \in DOMAIN h, r \in DOMAIN g : p < r /\ r < q => r \in DOMAIN h
  BY <1>6, SMT DEF Frames
<1>8. ASSUME Paired(h, lost) PROVE Follow(g)
  BY <1>3, <1>7, <1>8 DEF Paired, Follow, Frames, Tools
<1>9. ASSUME Paired(h, lost), NEW p \in DOMAIN g, g[p].calls # {}
      PROVE  Answered(g, p) \/ Torn(g, p, lost)
  <2>1. p \in DOMAIN h /\ h[p].calls # {} /\ g[p] = h[p]
    BY <1>2, <1>9 DEF Frames
  <2>2. CASE Answered(h, p)
    <3>1. PICK q \in DOMAIN h : Follows(h, p, q) /\ h[q].id \in h[p].calls
      BY <2>2, Zenon DEF Answered
    <3>2. Follows(g, p, q)
      BY <1>7, <2>1, <3>1, Zenon DEF Follows, Frames
    <3> QED BY <2>1, <3>1, <3>2, Zenon DEF Answered, Frames
  <2>3. CASE Torn(h, p, lost)
    BY <1>3, <2>1, <2>3, Zenon DEF Torn, Frames, Tools
  <2> QED BY <1>9, <2>1, <2>2, <2>3 DEF Paired
<1> QED BY <1>4, <1>5, <1>8, <1>9, Zenon DEF Good, Paired

LEMMA OnlyIs ==
  ASSUME NEW h, NEW P
  PROVE  DOMAIN Only(h, P) = P /\ \A p \in P : Only(h, P)[p] = h[p]
BY Zenon DEF Only

\* The same messages with other texts.
Bones(g, h) ==
    /\ DOMAIN g = DOMAIN h
    /\ \A p \in DOMAIN h :
         g[p].role = h[p].role /\ g[p].calls = h[p].calls /\ g[p].id = h[p].id

LEMMA BonesPaired ==
  ASSUME NEW g, NEW h, NEW lost, Bones(g, h), Paired(h, lost)
  PROVE  Paired(g, lost)
<1>1. Tools(g) = Tools(h)
  BY Zenon DEF Bones, Tools
<1>2. Tools(h) \subseteq DOMAIN h
  BY Zenon DEF Tools
<1>3. Follow(g)
  BY <1>1, <1>2 DEF Bones, Paired, Follow
<1>4. \A p, q : Follows(g, p, q) <=> Follows(h, p, q)
  BY Zenon DEF Bones, Follows
<1>5. \A p \in DOMAIN h : Answered(h, p) => Answered(g, p)
  BY <1>4 DEF Answered, Bones
<1>6. \A p \in DOMAIN h : Torn(h, p, lost) => Torn(g, p, lost)
  BY <1>1, <1>2 DEF Torn, Bones
<1> QED BY <1>3, <1>5, <1>6 DEF Bones, Paired

LEMMA TextIsSet ==
  ASSUME NEW h, NEW n \in Nat, Shaped(h, n), NEW P, NEW text \in Texts
  PROVE  /\ Bones(WithText(h, P, text), h)
         /\ \A p \in DOMAIN h :
              /\ WithText(h, P, text)[p] \in Messages
              /\ WithText(h, P, text)[p].text = IF p \in P THEN text ELSE h[p].text
<1>1. \A p \in DOMAIN h : h[p] \in Messages
  BY DEF Shaped
<1>2. DOMAIN WithText(h, P, text) = DOMAIN h
  BY Zenon DEF WithText
<1>3. \A p \in DOMAIN h : WithText(h, P, text)[p] = IF p \in P THEN [h[p] EXCEPT !.text = text] ELSE h[p]
  BY Zenon DEF WithText
<1>4. SUFFICES ASSUME NEW p \in DOMAIN h
      PROVE  LET m == WithText(h, P, text)[p]
             IN  /\ m.role = h[p].role /\ m.calls = h[p].calls /\ m.id = h[p].id
                 /\ m \in Messages /\ m.text = IF p \in P THEN text ELSE h[p].text
  BY <1>2, Zenon DEF Bones
<1>5. CASE p \in P
  <2>1. WithText(h, P, text)[p] = [h[p] EXCEPT !.text = text]
    BY <1>3, <1>5, Zenon
  <2>2. h[p] \in Messages
    BY <1>1
  <2> DEFINE m == [h[p] EXCEPT !.text = text]
  <2>3. /\ m \in Messages /\ m.role = h[p].role /\ m.calls = h[p].calls
        /\ m.id = h[p].id /\ m.text = text
    BY <2>2, TextIs
  <2> HIDE DEF m
  <2>4. WithText(h, P, text)[p] = m
    BY <2>1 DEF m
  <2> QED BY <1>5, <2>3, <2>4
<1>6. CASE p \notin P
  BY <1>1, <1>3, <1>6
<1> QED BY <1>5, <1>6

\* Shortening the results at some positions.
LEMMA Shortened ==
  ASSUME NEW h, NEW n \in Nat, Shaped(h, n), NEW P, P \subseteq Tools(h),
         NEW text \in {"collapsed", "cleared"}
  PROVE  Thins(WithText(h, P, text), h) /\ Bones(WithText(h, P, text), h)
<1>1. text \in Texts
  BY DEF Texts
<1> DEFINE g == WithText(h, P, text)
<1>2. Bones(g, h) /\ \A p \in DOMAIN h : g[p] \in Messages /\ g[p].text = IF p \in P THEN text ELSE h[p].text
  BY <1>1, TextIsSet
<1> HIDE DEF g
<1>3. \A p \in P : h[p].role = "tool"
  BY DEF Tools
<1>4. Thins(g, h)
  BY <1>2, <1>3 DEF Thins, Bones
<1> QED BY <1>2, <1>4 DEF g

-----------------------------------------------------------------------------
(* The split of a history *)

\* What is behind a message of the newer part is in it too.
Closed(U, h) == U \subseteq DOMAIN h /\ \A p \in U, q \in DOMAIN h : p < q => q \in U

LEMMA NewerIsClosed ==
  ASSUME NEW from \in Int, NEW to \in Int, NEW h, Within(h, from, to)
  PROVE  Closed(Newer(h), h)
<1>1. \A p \in DOMAIN h : p \in Int
  BY DEF Within
<1>2. IsFiniteSet(DOMAIN h)
  BY FS_Interval, FS_Subset DEF Within
<1> DEFINE after(p) == {q \in DOMAIN h : p < q}
<1>3. LastN(h, Keep) \subseteq DOMAIN h
  BY Zenon DEF LastN
<1>4. ASSUME NEW p \in LastN(h, Keep), NEW q \in DOMAIN h, p < q
      PROVE  q \in LastN(h, Keep)
  <2>1. after(q) \subseteq after(p)
    BY <1>1, <1>3, <1>4
  <2>2. IsFiniteSet(after(p))
    BY <1>2, FS_Subset
  <2>3. Cardinality(after(q)) <= Cardinality(after(p))
    BY <2>1, <2>2, FS_Subset
  <2>4. Cardinality(after(p)) < Keep
    BY <1>4, Zenon DEF LastN
  <2>5. Cardinality(after(q)) \in Nat /\ Cardinality(after(p)) \in Nat
    BY <1>2, FS_Subset, FS_CardinalityType
  <2>6. Cardinality(after(q)) < Keep
    BY <2>3, <2>4, <2>5, CompactionAssumption
  <2> QED BY <2>6, Zenon DEF LastN
<1>5. ASSUME NEW p \in Newer(h), NEW q \in DOMAIN h, p < q
      PROVE  q \in Newer(h)
  <2>1. CASE p \in LastN(h, Keep)
    BY <1>4, <1>5, <2>1 DEF Newer
  <2>2. CASE p \notin LastN(h, Keep)
    <3>1. PICK f \in LastN(h, Keep) : Follows(h, p, f)
      BY <2>2, Zenon DEF Newer
    <3>2. q = f \/ f < q
      BY <1>1, <1>3, <1>5, <3>1 DEF Follows
    <3>3. q \in LastN(h, Keep)
      BY <1>4, <3>1, <3>2
    <3> QED BY <3>3, Zenon DEF Newer
  <2> QED BY <2>1, <2>2
<1>6. Newer(h) \subseteq DOMAIN h
  BY <1>3, Zenon DEF Newer
<1> QED BY <1>5, <1>6 DEF Closed

\* The split falls between a message and the result that follows it only if
\* the result is no answer to the message.
LEMMA NewerKeepsPairs ==
  ASSUME NEW h, NEW n \in Nat, Shaped(h, n),
         NEW p \in DOMAIN h, NEW q \in Newer(h), Follows(h, p, q), h[q].id \in h[p].calls
  PROVE  p \in Newer(h)
<1>1. q \in DOMAIN h
  BY Zenon DEF Newer, LastN
<1>2. h[q].id \in 1..n
  BY DEF Shaped
<1>3. h[q].calls = {}
  BY <1>1, <1>2 DEF Shaped
<1>4. q \in LastN(h, Keep)
  BY <1>3, Zenon DEF Newer
<1> QED BY <1>4, Zenon DEF Newer

\* A result in the history makes its call an answered one.
LEMMA ResultAnswers ==
  ASSUME NEW h, NEW n \in Nat, Shaped(h, n), NEW lost, Paired(h, lost),
         NEW p \in DOMAIN h, NEW q \in DOMAIN h, h[q].id \in h[p].calls
  PROVE  Answered(h, p) /\ q \in Tools(h)
<1>1. h[q].id \in 1..n /\ h[p].calls # {}
  BY DEF Shaped
<1>2. q \in Tools(h)
  BY <1>1 DEF Shaped, Tools
<1> QED BY <1>1, <1>2 DEF Paired, Torn

\* What the recent part keeps: every answered call, and the results of those.
LEMMA RecentIs ==
  ASSUME NEW from \in Int, NEW to \in Int, NEW h, Within(h, from, to),
         NEW n \in Nat, Shaped(h, n), NEW lost, Paired(h, lost)
  PROVE  /\ DOMAIN Recent(h) \subseteq Newer(h) /\ Newer(h) \subseteq DOMAIN h
         /\ \A p \in DOMAIN Recent(h) : Recent(h)[p] = h[p]
         /\ \A p \in Newer(h) :
              p \in DOMAIN Recent(h) <=>
                /\ h[p].calls # {} => Answered(h, p)
                /\ (h[p].role = "tool" => \E q \in Newer(h) : q < p /\ h[p].id \in h[q].calls)
<1> DEFINE U == Newer(h)
           g == Only(h, U)
           kept == {p \in DOMAIN g : g[p].calls # {} =>
                      \E q \in DOMAIN g : Follows(g, p, q) /\ g[q].id \in g[p].calls}
           stay == {p \in kept : g[p].role = "tool" => \E q \in kept : q < p /\ g[p].id \in g[q].calls}
<1>1. DOMAIN g = U /\ \A p \in U : g[p] = h[p]
  BY OnlyIs
<1>2. Closed(U, h)
  BY NewerIsClosed
<1>3. ASSUME NEW p \in U, Answered(h, p)
      PROVE  \E q \in U : Follows(g, p, q) /\ h[q].id \in h[p].calls
  <2>1. PICK q \in DOMAIN h : Follows(h, p, q) /\ h[q].id \in h[p].calls
    BY <1>3, Zenon DEF Answered
  <2>2. q \in U
    BY <1>2, <2>1, Zenon DEF Closed, Follows
  <2>3. Follows(g, p, q)
    BY <1>1, <1>2, <2>1, Zenon DEF Closed, Follows
  <2> QED BY <2>1, <2>2, <2>3
<1>4. ASSUME NEW p \in U, NEW q \in U, h[q].id \in h[p].calls
      PROVE  Answered(h, p)
  BY <1>2, <1>4, ResultAnswers DEF Closed
<1>8. kept = {p \in U : h[p].calls # {} => Answered(h, p)}
  <2>1. kept = {p \in U : h[p].calls # {} => \E q \in U : Follows(g, p, q) /\ h[q].id \in h[p].calls}
    BY <1>1
  <2>2. ASSUME NEW p \in U
        PROVE  (\E q \in U : Follows(g, p, q) /\ h[q].id \in h[p].calls) <=> Answered(h, p)
    BY <1>3, <1>4, Zenon
  <2> HIDE DEF kept, g, U
  <2> QED BY <2>1, <2>2, Zenon
<1>5. Recent(h) = Only(g, stay)
  BY DEF Recent, Sanitized
<1>6. stay = {p \in U : /\ h[p].calls # {} => Answered(h, p)
                        /\ h[p].role = "tool" => \E q \in U : q < p /\ h[p].id \in h[q].calls}
  <2>1. \A p \in U : g[p] = h[p]
    BY <1>1
  <2>4. stay = {p \in kept : g[p].role = "tool" => \E q \in kept : q < p /\ g[p].id \in g[q].calls}
    OBVIOUS
  <2>5. kept \subseteq U
    BY <1>8
  <2> HIDE DEF kept, g, U, stay
  <2>2. ASSUME NEW p \in U
        PROVE  (\E q \in kept : q < p /\ g[p].id \in g[q].calls)
                 <=> \E q \in U : q < p /\ h[p].id \in h[q].calls
    <3>1. ASSUME NEW q \in kept, q < p, g[p].id \in g[q].calls
          PROVE  q \in U /\ h[p].id \in h[q].calls
      BY <2>1, <2>5, <3>1
    <3>2. ASSUME NEW q \in U, q < p, h[p].id \in h[q].calls
          PROVE  q \in kept /\ g[p].id \in g[q].calls
      BY <1>4, <1>8, <2>1, <3>2
    <3> QED BY <2>5, <3>1, <3>2, Zenon
  <2>3. \A p \in U : p \in stay <=>
          /\ h[p].calls # {} => Answered(h, p)
          /\ h[p].role = "tool" => \E q \in U : q < p /\ h[p].id \in h[q].calls
    BY <1>8, <2>1, <2>2, <2>4, Zenon
  <2>6. stay \subseteq U
    BY <2>4, <2>5
  <2> QED BY <2>3, <2>6, Zenon
<1> HIDE DEF U, g, kept, stay
<1>7. DOMAIN Recent(h) = stay /\ \A p \in stay : Recent(h)[p] = g[p]
  BY <1>5, OnlyIs
<1> QED BY <1>1, <1>2, <1>6, <1>7, Zenon DEF U, Closed

-----------------------------------------------------------------------------
(* The compressors *)

\* What every stage of a compression keeps.
Kept(h) == Good(h, asked, shown) /\ Paired(h, cut) /\ Settled(h, seen \ previews)

LEMMA ThinnedIsKept ==
  ASSUME asked \in Nat, NEW g, NEW h, Thins(g, h), Kept(h), Paired(g, cut)
  PROVE  Kept(g)
BY ThinnedIsGood DEF Kept

LEMMA FramedIsKept ==
  ASSUME asked \in Nat, NEW g, NEW h, Frames(g, h), Kept(h)
  PROVE  Kept(g)
BY FramedIsGood DEF Kept

LEMMA MicroKeeps ==
  ASSUME asked \in Nat, NEW h, Kept(h), NEW compactable, compactable \subseteq Tools(h)
  PROVE  Kept(Micro(h, compactable)) /\ DOMAIN Micro(h, compactable) = DOMAIN h
<1> DEFINE old == {p \in compactable : Cardinality({q \in compactable : p < q}) >= Keep}
           g == WithText(h, old, "cleared")
<1>1. Shaped(h, asked) /\ old \subseteq Tools(h)
  BY DEF Kept, Good
<1> HIDE DEF old
<1>2. Thins(g, h) /\ Bones(g, h)
  BY <1>1, Shortened
<1>3. Micro(h, compactable) = g
  BY Zenon DEF Micro, old
<1> HIDE DEF g
<1>4. Kept(g)
  BY <1>2, BonesPaired, ThinnedIsKept DEF Kept
<1> QED BY <1>2, <1>3, <1>4 DEF Bones

LEMMA RecentKeeps ==
  ASSUME asked \in Nat, NEW from \in Int, NEW to \in Int, NEW h, Within(h, from, to), Kept(h)
  PROVE  Kept(Recent(h)) /\ DOMAIN Recent(h) \subseteq DOMAIN h
<1> DEFINE U == Newer(h)
           R == Recent(h)
<1>1. Shaped(h, asked) /\ Paired(h, cut)
  BY DEF Kept, Good
<1>2. /\ DOMAIN R \subseteq U /\ U \subseteq DOMAIN h
      /\ \A p \in DOMAIN R : R[p] = h[p]
      /\ \A p \in U : p \in DOMAIN R <=>
           /\ h[p].calls # {} => Answered(h, p)
           /\ (h[p].role = "tool" => \E q \in U : q < p /\ h[p].id \in h[q].calls)
  BY <1>1, RecentIs
<1>3. Closed(U, h)
  BY NewerIsClosed
<1> HIDE DEF U, R
<1>4. \A p \in DOMAIN h : p \in Int /\ (h[p].calls # {} => h[p].role # "tool")
  BY <1>1 DEF Shaped
<1>5. \A p \in U : h[p].calls # {} /\ Answered(h, p) => p \in DOMAIN R
  BY <1>2, <1>4
<1>6. Thins(R, h)
  BY <1>1, <1>2 DEF Thins, Shaped
<1>7. Follow(R)
  <2> SUFFICES ASSUME NEW p \in Tools(R)
               PROVE  \E q \in DOMAIN R : /\ q < p /\ R[p].id \in R[q].calls
                                         /\ \A r \in DOMAIN R : q < r /\ r < p => r \in Tools(R)
    BY Zenon DEF Follow
  <2>1. p \in DOMAIN R /\ p \in U /\ p \in Tools(h) /\ h[p].role = "tool"
    BY <1>2 DEF Tools
  <2>2. PICK o \in U : o < p /\ h[p].id \in h[o].calls
    BY <1>2, <2>1
  <2>3. PICK q \in DOMAIN h : /\ q < p /\ h[p].id \in h[q].calls
                              /\ \A r \in DOMAIN h : q < r /\ r < p => r \in Tools(h)
    BY <1>1, <2>1, Zenon DEF Paired, Follow
  <2>4. o \notin Tools(h)
    BY <1>2, <1>4, <2>2 DEF Tools
  <2>5. ~(q < o)
    BY <1>2, <2>2, <2>3, <2>4
  <2>6. q = o \/ o < q
    BY <1>2, <1>4, <2>2, <2>3, <2>5
  <2>7. q \in U
    BY <1>3, <2>2, <2>3, <2>6 DEF Closed
  <2>8. q \in DOMAIN R /\ R[p].id \in R[q].calls
    <3>1. Answered(h, q) /\ h[q].calls # {}
      BY <1>1, <1>2, <2>1, <2>3, ResultAnswers
    <3> QED BY <1>2, <1>5, <2>1, <2>3, <2>7, <3>1
  <2>9. \A r \in DOMAIN R : r \in Tools(h) => r \in Tools(R)
    BY <1>2 DEF Tools
  <2> QED BY <1>2, <2>3, <2>8, <2>9
<1>8. ASSUME NEW p \in DOMAIN R, R[p].calls # {} PROVE Answered(R, p)
  <2>1. p \in U /\ p \in DOMAIN h /\ R[p] = h[p] /\ h[p].calls # {}
    BY <1>2, <1>8
  <2>2. PICK q \in DOMAIN h : Follows(h, p, q) /\ h[q].id \in h[p].calls
    BY <1>2, <1>8, <2>1, Zenon DEF Answered
  <2>3. p < q
    BY <2>2 DEF Follows
  <2>4. q \in U
    BY <1>3, <2>1, <2>3 DEF Closed
  <2>5. q \in DOMAIN R
    <3>1. q \in Tools(h)
      BY <1>1, <2>1, <2>2, ResultAnswers
    <3>2. h[q].calls = {}
      BY <1>4, <3>1 DEF Tools
    <3> QED BY <1>2, <2>1, <2>2, <2>3, <2>4, <3>2
  <2>6. Follows(R, p, q)
    BY <1>2, <2>2, Zenon DEF Follows
  <2> QED BY <1>2, <2>1, <2>2, <2>5, <2>6, Zenon DEF Answered
<1>9. Kept(R)
  BY <1>6, <1>7, <1>8, ThinnedIsKept DEF Paired
<1> QED BY <1>2, <1>9 DEF R

LEMMA CollapsedKeeps ==
  ASSUME asked \in Nat, NEW from \in Int, NEW to \in Int, NEW h, Within(h, from, to), Kept(h)
  PROVE  Kept(Collapsed(h)) /\ DOMAIN Collapsed(h) \subseteq DOMAIN h
<1> DEFINE U == Newer(h)
           older == DOMAIN h \ U
           all == older \cup DOMAIN Recent(h)
           g == Only(h, all)
           long == {p \in older : h[p].text \in {"full", "preview"}}
<1>1. Shaped(h, asked) /\ Paired(h, cut)
  BY DEF Kept, Good
<1>2. /\ DOMAIN Recent(h) \subseteq U /\ U \subseteq DOMAIN h
      /\ \A p \in U : p \in DOMAIN Recent(h) <=>
           /\ h[p].calls # {} => Answered(h, p)
           /\ (h[p].role = "tool" => \E q \in U : q < p /\ h[p].id \in h[q].calls)
  BY <1>1, RecentIs
<1>3. Closed(U, h)
  BY NewerIsClosed
<1>4. DOMAIN g = all /\ \A p \in all : g[p] = h[p]
  BY OnlyIs
<1>5. Collapsed(h) = WithText(g, long, "collapsed")
  BY DEF Collapsed
<1>6. \A p \in DOMAIN h : p \in Int /\ (h[p].calls # {} => h[p].role # "tool")
  BY <1>1 DEF Shaped
<1>7. ASSUME NEW p \in DOMAIN h, NEW q \in U, Follows(h, p, q), h[q].id \in h[p].calls
      PROVE  p \in U
  BY <1>1, <1>7, NewerKeepsPairs
<1>8. all \subseteq DOMAIN h /\ long \subseteq all
  BY <1>2
<1>9. \A p \in long : h[p].role = "tool"
  BY <1>1 DEF Shaped
<1>10. \A p \in DOMAIN h : p \notin U => p \in all
  OBVIOUS
<1>11. \A p \in U : p \in all <=>
           /\ h[p].calls # {} => Answered(h, p)
           /\ (h[p].role = "tool" => \E q \in U : q < p /\ h[p].id \in h[q].calls)
  BY <1>2
<1>20. DOMAIN h \ U \subseteq all
  OBVIOUS
<1> HIDE DEF U, older, all, g, long
<1>12. \A p \in DOMAIN h : h[p].calls # {} /\ Answered(h, p) => p \in all
  BY <1>6, <1>10, <1>11
<1>13. Thins(g, h)
  BY <1>1, <1>4, <1>8 DEF Thins, Shaped
<1>14. Follow(g)
  <2> SUFFICES ASSUME NEW p \in Tools(g)
               PROVE  \E q \in DOMAIN g : /\ q < p /\ g[p].id \in g[q].calls
                                         /\ \A r \in DOMAIN g : q < r /\ r < p => r \in Tools(g)
    BY Zenon DEF Follow
  <2>1. p \in all /\ p \in Tools(h)
    BY <1>4, <1>8 DEF Tools
  <2>2. PICK q \in DOMAIN h : /\ q < p /\ h[p].id \in h[q].calls
                              /\ \A r \in DOMAIN h : q < r /\ r < p => r \in Tools(h)
    BY <1>1, <2>1, Zenon DEF Paired, Follow
  <2>3. q \in all
    <3>1. Answered(h, q) /\ h[q].calls # {}
      BY <1>1, <2>1, <2>2, ResultAnswers DEF Tools
    <3> QED BY <1>12, <3>1
  <2>4. \A r \in all : r \in Tools(h) => r \in Tools(g)
    BY <1>4 DEF Tools
  <2> QED BY <1>4, <1>8, <2>1, <2>2, <2>3, <2>4
<1>15. ASSUME NEW p \in DOMAIN g, g[p].calls # {} PROVE Answered(g, p) \/ Torn(g, p, cut)
  <2>1. p \in all /\ p \in DOMAIN h /\ g[p] = h[p] /\ h[p].calls # {}
    BY <1>4, <1>8, <1>15
  <2>2. CASE Torn(h, p, cut)
    BY <1>4, <1>8, <2>1, <2>2 DEF Torn, Tools
  <2>3. CASE Answered(h, p)
    <3>1. PICK q \in DOMAIN h : Follows(h, p, q) /\ h[q].id \in h[p].calls
      BY <2>3, Zenon DEF Answered
    <3>2. p < q
      BY <3>1 DEF Follows
    <3>3. h[q].calls = {}
      BY <1>1, <1>6, <2>1, <3>1, ResultAnswers DEF Tools
    <3>4. q \in all
      <4>1. CASE q \in U
        BY <1>7, <1>11, <2>1, <3>1, <3>2, <3>3, <4>1
      <4>2. CASE q \notin U
        BY <1>10, <4>2
      <4> QED BY <4>1, <4>2
    <3>5. Follows(g, p, q)
      BY <1>4, <1>8, <3>1, Zenon DEF Follows
    <3> QED BY <1>4, <2>1, <3>1, <3>4, <3>5, Zenon DEF Answered
  <2> QED BY <1>1, <2>1, <2>2, <2>3 DEF Paired
<1>16. Kept(g)
  BY <1>13, <1>14, <1>15, ThinnedIsKept DEF Paired
<1>17. Shaped(g, asked) /\ long \subseteq Tools(g)
  BY <1>4, <1>8, <1>9, <1>16 DEF Kept, Good, Tools
<1> DEFINE k == WithText(g, long, "collapsed")
<1>18. Thins(k, g) /\ Bones(k, g)
  BY <1>17, Shortened
<1> HIDE DEF k
<1>19. Kept(k)
  BY <1>16, <1>18, BonesPaired, ThinnedIsKept DEF Kept
<1> QED BY <1>4, <1>5, <1>8, <1>18, <1>19 DEF k, Bones

-----------------------------------------------------------------------------
(* Positions *)

LEMMA LowestIs ==
  ASSUME low \in Int, high \in Int, NEW h, Within(h, low, high)
  PROVE  Lowest(h) \in Int /\ (low <= high + 1 => Lowest(h) <= high + 1)
         /\ \A p \in DOMAIN h : p \in Int /\ Lowest(h) <= p
<1>1. \A p \in DOMAIN h : p \in Int /\ low <= p /\ p <= high
  BY DEF Within
<1>2. CASE \E p \in DOMAIN h : \A q \in DOMAIN h : p <= q
  <2>1. Lowest(h) \in DOMAIN h /\ \A q \in DOMAIN h : Lowest(h) <= q
    BY <1>2, Zenon DEF Lowest
  <2> QED BY <1>1, <2>1
<1>3. CASE ~\E p \in DOMAIN h : \A q \in DOMAIN h : p <= q
  <2>1. Lowest(h) = low
    BY <1>3, Zenon DEF Lowest
  <2> QED BY <1>1, <2>1
<1> QED BY <1>2, <1>3

\* The bounds that a compression leaves.
Bounded(h) ==
    Lowest(h) \in Int /\ Lowest(h) <= high + 1 /\ Within(h, Lowest(h), high)

LEMMA WithinIsBounded ==
  ASSUME low \in Int, high \in Int, low <= high + 1, NEW h, Within(h, low, high)
  PROVE  Bounded(h)
BY LowestIs DEF Bounded, Within

LEMMA HeadedIs ==
  ASSUME low \in Int, high \in Int, low <= high + 1, NEW h, Within(h, low, high), NEW n \in 1..2
  PROVE  /\ Frames(Headed(h, n), h) /\ Bounded(Headed(h, n))
         /\ \A p \in DOMAIN Headed(h, n) \ DOMAIN h, q \in DOMAIN h : p < q
<1> DEFINE l == Lowest(h)
           P == (l - n)..(l - 1)
           g == Headed(h, n)
<1>1. l \in Int /\ l <= high + 1 /\ \A p \in DOMAIN h : p \in Int /\ l <= p /\ p <= high
  BY LowestIs DEF Within
<1>2. /\ DOMAIN g = DOMAIN h \cup P
      /\ \A p \in P : g[p] = Plain("user")
      /\ \A p \in DOMAIN h \ P : g[p] = h[p]
  <2>1. g = At(h, P, Plain("user"))
    BY Zenon DEF Headed
  <2> HIDE DEF P, g
  <2> QED BY ONLY <2>1, Zenon DEF At
<1> HIDE DEF l, g
<1>3. \A p \in P : p \in Int /\ l - n <= p /\ p <= high /\ \A q \in DOMAIN h : p < q
  BY <1>1
<1>4. l - n \in P
  BY <1>1
<1>5. \A p \in DOMAIN h : p \notin P
  BY <1>1
<1>6. Frames(g, h)
  BY <1>2, <1>3, <1>5 DEF Frames
<1>7. l - n \in DOMAIN g /\ \A q \in DOMAIN g : q \in Int /\ l - n <= q /\ q <= high
  BY <1>1, <1>2, <1>3, <1>4
<1>8. Lowest(g) \in DOMAIN g /\ \A q \in DOMAIN g : Lowest(g) <= q
  BY <1>7, Zenon DEF Lowest
<1>9. Bounded(g)
  BY <1>1, <1>7, <1>8 DEF Bounded, Within
<1>10. \A p \in DOMAIN g \ DOMAIN h, q \in DOMAIN h : p < q
  BY <1>2, <1>3
<1> QED BY <1>6, <1>9, <1>10 DEF g

LEMMA SummarisedKeeps ==
  ASSUME asked \in Nat, low \in Int, high \in Int, low <= high + 1,
         NEW h, Within(h, low, high), Kept(h)
  PROVE  Kept(Summarised(h)) /\ Bounded(Summarised(h))
<1>1. Kept(Recent(h)) /\ Within(Recent(h), low, high)
  BY RecentKeeps, Zenon DEF Within
<1>2. Frames(Summarised(h), Recent(h)) /\ Bounded(Summarised(h))
  BY <1>1, HeadedIs DEF Summarised
<1> QED BY <1>1, <1>2, FramedIsKept

LEMMA AppendedIs ==
  ASSUME low \in Int, high \in Int, NEW h, Within(h, low, high), low <= high + 1, NEW m
  PROVE  /\ DOMAIN Appended(h, m) = DOMAIN h \cup {high + 1}
         /\ Appended(h, m)[high + 1] = m
         /\ \A p \in DOMAIN h : Appended(h, m)[p] = h[p] /\ p \in Int /\ p < high + 1
         /\ Within(Appended(h, m), low, high + 1)
<1> DEFINE g == Appended(h, m)
           top == high + 1
<1>1. g = [p \in DOMAIN h \cup {top} |-> IF p \in {top} THEN m ELSE h[p]]
  BY Zenon DEF Appended, At
<1>2. \A p \in DOMAIN h : p \in Int /\ low <= p /\ p < top
  BY DEF Within
<1>3. \A p \in DOMAIN h : p # top
  BY <1>2
<1> HIDE DEF g
<1>4. DOMAIN g = DOMAIN h \cup {top} /\ g[top] = m /\ \A p \in DOMAIN h : g[p] = h[p]
  <2> HIDE DEF top
  <2> QED BY ONLY <1>1, <1>3, Zenon
<1>5. Within(g, low, top)
  BY <1>2, <1>4 DEF Within
<1> QED BY <1>2, <1>4, <1>5 DEF g

LEMMA NoteFrames ==
  ASSUME low \in Int, high \in Int, NEW h, Within(h, low, high), low <= high + 1
  PROVE  Frames(Appended(h, Plain("user")), h)
<1> DEFINE note == Plain("user")
           g == Appended(h, note)
<1> HIDE DEF note
<1>1. /\ DOMAIN g = DOMAIN h \cup {high + 1}
      /\ g[high + 1] = note
      /\ \A p \in DOMAIN h : g[p] = h[p] /\ p \in Int /\ p < high + 1
  BY AppendedIs
<1> HIDE DEF g
<1>2. Frames(g, h)
  BY <1>1 DEF Frames, note
<1> QED BY <1>2 DEF g, note

-----------------------------------------------------------------------------
(* The inductive invariant *)

Ranges ==
    /\ chain \in Chains
    /\ low \in Int /\ high \in Int /\ low <= high + 1
    /\ pc \in {"compress", "call", "again", "batch", "stage", "over"}
    /\ mode \in {"before", "after", "reactive"} /\ stage \in 0..(Len(chain) + 1)
    /\ proactive \in BOOLEAN
    /\ asked \in 0..MaxCalls /\ notes \in 0..MaxNotes /\ tasks \in 0..MaxTasks
    /\ since \in 0..notes
    /\ previews \subseteq seen /\ batch \cup cut \subseteq 1..asked
    /\ seen \cup shown \cup latest \subseteq 1..asked

\* The breaker has been asked before a compression that may fail, and the one
\* that is forced comes once.
Breaker ==
    /\ failures \in 0..(MaxFailures + 1) /\ reactive \in BOOLEAN
    /\ ~reactive => failures <= MaxFailures
    /\ pc = "stage" => IF mode = "reactive"
                       THEN reactive /\ failures <= MaxFailures
                       ELSE failures < MaxFailures

Spoken == shown \subseteq seen /\ previews \cap shown = {}

Current ==
    /\ Within(history, low, high) /\ Good(history, asked, shown)
    /\ pc \in {"compress", "call", "again", "over"} => Paired(history, cut)
    /\ pc \in {"call", "again"} => Settled(history, seen \ previews)

Copy == IF pc = "stage"
        THEN Within(working, low, high) /\ Kept(working)
        ELSE working = <<>> /\ mode = "before" /\ stage = 0

\* The message at c has called the tools of the batch: only results come after
\* it, and all other calls are answered or torn.
Open(c) ==
    /\ history[c].calls = latest
    /\ \A p \in DOMAIN history : c < p => p \in Tools(history)
    /\ \A p \in DOMAIN history \ {c} :
         /\ history[p].calls \cap latest = {}
         /\ history[p].calls # {} => Answered(history, p) \/ Torn(history, p, cut)
    /\ IF batch = latest THEN c = high ELSE Answered(history, c)

BatchOpen == pc = "batch" =>
    IF latest = {}
    THEN batch = {} /\ Paired(history, cut)
    ELSE /\ batch \subseteq latest /\ batch \cap shown = {}
         /\ \A p \in Tools(history) : history[p].id \notin batch
         /\ Follow(history)
         /\ \E c \in DOMAIN history : Open(c)

IInv == Ranges /\ Breaker /\ Spoken /\ Current /\ Copy /\ BatchOpen

LEMMA InvariantIsTyped == IInv => TypeOK
<1> SUFFICES ASSUME IInv PROVE TypeOK
  OBVIOUS
<1>1. asked \in 0..MaxCalls
  BY DEF IInv, Ranges
<1>2. ASSUME NEW h, Within(h, low, high), Shaped(h, asked) PROVE IsHistory(h)
  BY <1>2, Zenon DEF IsHistory, Within, Shaped, Messages
<1>3. IsHistory(history)
  BY <1>2 DEF IInv, Current, Good
<1>4. IsHistory(working)
  <2>1. CASE pc = "stage"
    BY <1>2, <2>1 DEF IInv, Copy, Kept, Good
  <2>2. CASE pc # "stage"
    <3>1. working = <<>>
      BY <2>2 DEF IInv, Copy
    <3>2. DOMAIN working = {}
      BY <3>1
    <3> QED BY <3>2, Zenon DEF IsHistory
  <2> QED BY <2>1, <2>2
<1> QED BY <1>3, <1>4 DEF IInv, Ranges, Breaker, TypeOK

LEMMA StartIs ==
  ASSUME NEW n \in Nat, NEW ids, NEW left, NEW lost
  PROVE  Good(Start, n, ids) /\ Paired(Start, lost) /\ Within(Start, 1, 2) /\ Settled(Start, left)
<1>1. /\ Plain("user") \in Messages /\ Plain("user").role = "user" /\ Plain("user").calls = {}
      /\ Plain("user").id = 0 /\ Plain("user").text = "none"
      /\ Plain("system") \in Messages /\ Plain("system").role = "system" /\ Plain("system").calls = {}
      /\ Plain("system").id = 0 /\ Plain("system").text = "none"
  BY PlainIs
<1>2. DOMAIN Start = 1..2 /\ \A p \in 1..2 : Start[p] \in {Plain("system"), Plain("user")}
  BY DEF Start
<1>3. Tools(Start) = {} /\ \A p \in DOMAIN Start : Start[p].calls = {}
  BY <1>1, <1>2 DEF Tools
<1>4. Shaped(Start, n)
  BY <1>1, <1>2 DEF Shaped
<1> QED BY <1>2, <1>3, <1>4 DEF Good, Distinct, Spared, Settled, Paired, Follow, Within

LEMMA Initially == Init => IInv
<1> SUFFICES ASSUME Init PROVE IInv
  OBVIOUS
<1>1. Good(history, asked, shown) /\ Paired(history, cut) /\ Within(history, low, high)
  BY StartIs DEF Init
<1>2. Len(chain) \in Nat
  BY CompactionAssumption DEF Init
<1>5. MaxFailures \in Nat /\ MaxCalls \in Nat /\ MaxNotes \in Nat /\ MaxTasks \in Nat
  BY CompactionAssumption
<1>6. /\ chain \in Chains /\ low = 1 /\ high = 2 /\ pc = "compress" /\ mode = "before" /\ stage = 0
      /\ failures = 0 /\ reactive = FALSE /\ proactive = FALSE
      /\ seen = {} /\ previews = {} /\ batch = {} /\ cut = {} /\ shown = {} /\ latest = {}
      /\ asked = 0 /\ notes = 0 /\ tasks = 0 /\ since = 0
  BY DEF Init
<1>3. Ranges
  <2>1. stage \in 0..(Len(chain) + 1) /\ low <= high + 1 /\ since \in 0..notes
    BY <1>2, <1>6
  <2>2. asked \in 0..MaxCalls /\ notes \in 0..MaxNotes /\ tasks \in 0..MaxTasks
    BY <1>5, <1>6
  <2>3. low \in Int /\ high \in Int
    BY <1>6
  <2>6. proactive \in BOOLEAN
    BY <1>6, Zenon
  <2>4. previews \subseteq seen /\ batch \cup cut \subseteq 1..asked /\ seen \cup shown \cup latest \subseteq 1..asked
    BY <1>6
  <2>5. pc \in {"compress", "call", "again", "batch", "stage", "over"} /\ mode \in {"before", "after", "reactive"}
    BY <1>6
  <2> QED BY <1>6, <2>1, <2>2, <2>3, <2>4, <2>5, <2>6, Zenon DEF Ranges
<1>4. Breaker /\ Spoken
  <2>1. failures \in 0..(MaxFailures + 1) /\ failures <= MaxFailures
    BY <1>5, <1>6
  <2> QED BY <1>6, <2>1 DEF Breaker, Spoken
<1> QED BY <1>1, <1>3, <1>4 DEF Init, IInv, Current, Copy, BatchOpen

-----------------------------------------------------------------------------
(* Parts of actions *)

\* The budget before a compression.
LEMMA BudgetKeeps ==
  ASSUME asked \in Nat, Good(history, asked, shown), Paired(history, cut), Spoken,
         previews \subseteq seen, seen \subseteq 1..asked,
         NEW selected \in SUBSET Replaceable(history), Budget(history, selected)
  PROVE  LET g == Budgeted(history, previews')
         IN  /\ Good(g, asked, shown) /\ Paired(g, cut)
             /\ Settled(g, seen' \ previews') /\ DOMAIN g = DOMAIN history
             /\ shown \subseteq seen' /\ previews' \cap shown = {}
             /\ previews' \subseteq seen' /\ seen' \subseteq 1..asked
<1> DEFINE h == history
           s == seen'
           v == previews'
<1>0. /\ Good(h, asked, shown) /\ Paired(h, cut) /\ selected \subseteq Replaceable(h)
      /\ s = seen \cup Fresh(h) /\ v = previews \cup selected
  BY DEF Budget
<1> SUFFICES
      /\ Good(Budgeted(h, v), asked, shown) /\ Paired(Budgeted(h, v), cut)
      /\ Settled(Budgeted(h, v), s \ v) /\ DOMAIN Budgeted(h, v) = DOMAIN h
      /\ shown \subseteq s /\ v \cap shown = {} /\ v \subseteq s /\ s \subseteq 1..asked
  OBVIOUS
<1> HIDE DEF h, s, v
<1> DEFINE P == {p \in Tools(h) : h[p].id \in v /\ h[p].text \in {"full", "cleared"}}
           g == WithText(h, P, "preview")
<1>1. Budgeted(h, v) = g
  BY Zenon DEF Budgeted
<1>2. Shaped(h, asked) /\ Distinct(h) /\ Spared(h, shown)
  BY <1>0 DEF Good
<1>3. /\ P \subseteq Tools(h)
      /\ \A p \in Tools(h) : p \in P <=> h[p].id \in v /\ h[p].text \in {"full", "cleared"}
  OBVIOUS
<1> HIDE DEF P
<1>4. Bones(g, h) /\ \A p \in DOMAIN h : g[p] \in Messages /\ g[p].text = IF p \in P THEN "preview" ELSE h[p].text
  BY <1>2, TextIsSet DEF Texts
<1> HIDE DEF g
<1>5. Tools(g) = Tools(h) /\ Tools(h) \subseteq DOMAIN h
  BY <1>4 DEF Tools, Bones
<1>6. selected \subseteq Fresh(h) /\ selected \cap seen = {}
  BY <1>0 DEF Replaceable, Fresh
<1>7. \A p \in Tools(h) : h[p].id \in 1..asked
  BY <1>2 DEF Shaped, Tools
<1>8. Fresh(h) \subseteq 1..asked
  BY <1>7 DEF Fresh
<1>9. shown \subseteq s /\ v \cap shown = {} /\ v \subseteq s /\ s \subseteq 1..asked
  BY <1>0, <1>6, <1>8 DEF Spoken
<1>10. Shaped(g, asked)
  <2> SUFFICES ASSUME NEW p \in DOMAIN h
               PROVE  /\ g[p] \in Messages /\ p \in Int
                      /\ g[p].calls \subseteq 1..asked
                      /\ g[p].calls # {} => g[p].role = "assistant"
                      /\ g[p].role = "tool" => g[p].id \in 1..asked
                      /\ g[p].role # "tool" => g[p].id = 0 /\ g[p].text = "none"
    BY <1>4 DEF Shaped, Bones
  <2>1. p \in P => h[p].role = "tool"
    BY <1>3 DEF Tools
  <2> QED BY <1>2, <1>4, <2>1 DEF Shaped, Bones
<1>11. Distinct(g)
  BY <1>2, <1>4, <1>5 DEF Distinct, Bones
<1>12. Spared(g, shown)
  BY <1>2, <1>3, <1>4, <1>5, <1>9 DEF Spared, Bones
<1>13. Settled(g, s \ v)
  <2> SUFFICES ASSUME NEW p \in Tools(h), g[p].text = "full" PROVE h[p].id \in s \ v
    BY <1>4, <1>5 DEF Settled, Bones
  <2>1. p \notin P /\ h[p].text = "full"
    BY <1>4, <1>5
  <2>2. h[p].id \notin v
    BY <1>3, <2>1
  <2>3. h[p].id \in seen \cup Fresh(h)
    BY <2>1 DEF Fresh
  <2> QED BY <1>0, <2>2, <2>3
<1> QED BY <1>0, <1>1, <1>4, <1>9, <1>10, <1>11, <1>12, <1>13, BonesPaired DEF Good, Bones

\* The model sees the results in full.
LEMMA SeesKeeps ==
  ASSUME IInv, pc \in {"call", "again"}, Sees
  PROVE  /\ Good(history, asked, shown') /\ shown' \subseteq seen /\ previews \cap shown' = {}
         /\ shown' \subseteq 1..asked
<1>1. Good(history, asked, shown) /\ Settled(history, seen \ previews)
  BY DEF IInv, Current
<1>2. shown' = shown \cup {history[p].id : p \in {q \in Tools(history) : history[q].text = "full"}}
  BY DEF Sees
<1>3. shown' \subseteq seen /\ previews \cap shown' = {}
  BY <1>1, <1>2 DEF IInv, Spoken, Settled
<1>4. Spared(history, shown')
  BY <1>1, <1>2 DEF Good, Spared, Distinct
<1> QED BY <1>1, <1>3, <1>4 DEF Good, IInv, Ranges

\* The attempt is over.
LEMMA LeavesKeep ==
  ASSUME IInv, Leaves, working' = <<>>, mode' = "before", stage' = 0, proactive' = proactive,
         UNCHANGED <<chain, budget, counts, notes>>,
         shown' \subseteq seen, previews \cap shown' = {}, shown' \subseteq 1..asked
  PROVE  Ranges' /\ Spoken' /\ Current' /\ Copy' /\ BatchOpen'
<1>1. /\ history' = Start /\ low' = 1 /\ high' = 2 /\ pc' = "over"
      /\ batch' = {} /\ cut' = {} /\ latest' = {} /\ since' = 0
  BY DEF Leaves
<1>2. UNCHANGED <<chain, seen, previews, asked, tasks, notes>>
  BY DEF budget, counts
<1>3. Ranges'
  <2>1. Len(chain) \in Nat /\ notes \in Nat
    BY CompactionAssumption DEF IInv, Ranges
  <2>2. stage' \in 0..(Len(chain') + 1) /\ since' \in 0..notes'
    BY <1>1, <1>2, <2>1
  <2>3. low' \in Int /\ high' \in Int /\ low' <= high' + 1
    BY <1>1
  <2>4. seen' \cup shown' \cup latest' \subseteq 1..asked'
    BY <1>1, <1>2 DEF IInv, Ranges
  <2> QED BY <1>1, <1>2, <2>2, <2>3, <2>4, Zenon DEF IInv, Ranges
<1>4. Spoken'
  BY <1>2 DEF Spoken
<1>5. Current'
  <2>1. asked' \in Nat
    BY <1>2 DEF IInv, Ranges
  <2>2. Good(Start, asked', shown') /\ Paired(Start, cut') /\ Within(Start, 1, 2)
    BY <2>1, StartIs
  <2> QED BY <1>1, <2>2 DEF Current
<1>6. Copy' /\ BatchOpen'
  BY <1>1 DEF Copy, BatchOpen
<1> QED BY <1>3, <1>4, <1>5, <1>6

\* A compression settles for h.
LEMMA SettleKeeps ==
  ASSUME IInv, pc = "stage", NEW h, Kept(h), Bounded(h), NEW did \in BOOLEAN, Settle(h, did)
  PROVE  /\ Ranges' /\ Spoken' /\ Current' /\ Copy' /\ BatchOpen'
         /\ pc' # "stage" /\ reactive' = reactive
<1>1. /\ working' = <<>> /\ mode' = "before" /\ stage' = 0
      /\ UNCHANGED <<chain, reactive, seen, previews, asked, tasks, notes, shown>>
  BY DEF Settle, budget, counts
<1>2. CASE mode = "reactive" /\ ~did
  <2>1. Leaves /\ proactive' = proactive
    BY <1>2 DEF Settle
  <2>2. shown' \subseteq seen /\ previews \cap shown' = {} /\ shown' \subseteq 1..asked
    BY <1>1 DEF IInv, Spoken, Ranges
  <2>3. UNCHANGED <<chain, budget, counts, notes>>
    BY <1>1 DEF budget, counts
  <2>4. Ranges' /\ Spoken' /\ Current' /\ Copy' /\ BatchOpen'
    BY <1>1, <2>1, <2>2, <2>3, LeavesKeep
  <2>5. pc' # "stage"
    BY <2>1 DEF Leaves
  <2> QED BY <1>1, <2>4, <2>5
<1>3. CASE ~(mode = "reactive" /\ ~did)
  <2>1. /\ history' = h
        /\ pc' = CASE mode = "before" -> "call" [] mode = "after" -> "compress" [] OTHER -> "again"
        /\ proactive' = (proactive \/ (did /\ mode # "reactive"))
        /\ low' = Lowest(h)
        /\ UNCHANGED <<high, batch, cut, latest, since>>
    BY <1>3 DEF Settle, pending
  <2>2. pc' \in {"call", "compress", "again"}
    BY <2>1
  <2>3. Ranges'
    <3>1. Len(chain) \in Nat
      BY CompactionAssumption DEF IInv, Ranges
    <3>2. stage' \in 0..(Len(chain') + 1)
      BY <1>1, <3>1
    <3>3. low' \in Int /\ high' \in Int /\ low' <= high' + 1
      BY <2>1 DEF Bounded, IInv, Ranges
    <3>4. proactive' \in BOOLEAN
      BY <2>1, Zenon
    <3>5. pc' \in {"compress", "call", "again", "batch", "stage", "over"}
      BY <2>2
    <3> QED BY <1>1, <2>1, <3>2, <3>3, <3>4, <3>5, Zenon DEF IInv, Ranges
  <2>4. Spoken'
    BY <1>1 DEF IInv, Spoken
  <2>5. Current'
    BY <1>1, <2>1, <2>2 DEF Current, Bounded, Kept
  <2>6. Copy' /\ BatchOpen'
    BY <1>1, <2>2 DEF Copy, BatchOpen
  <2> QED BY <1>1, <2>2, <2>3, <2>4, <2>5, <2>6
<1> QED BY <1>2, <1>3

\* A batch whose calls all have their results.
LEMMA BatchPaired ==
  ASSUME IInv, pc = "batch", batch = {}
  PROVE  Paired(history, cut)
<1>1. CASE latest = {}
  BY <1>1 DEF IInv, BatchOpen
<1>2. CASE latest # {}
  <2>1. PICK c \in DOMAIN history : Open(c)
    BY <1>2 DEF IInv, BatchOpen
  <2>2. Follow(history)
    BY <1>2 DEF IInv, BatchOpen
  <2>3. Answered(history, c)
    BY <1>2, <2>1 DEF Open
  <2> QED BY <2>1, <2>2, <2>3 DEF Open, Paired
<1> QED BY <1>1, <1>2

\* The breaker outside a compression.
LEMMA BreakerRests ==
  ASSUME IInv, pc' # "stage", UNCHANGED <<failures, reactive>>
  PROVE  Breaker'
BY DEF IInv, Breaker

-----------------------------------------------------------------------------
(* The budget and the stages of a compression *)

LEMMA CompressKeeps ==
  ASSUME IInv, NEW how \in {"before", "after"}, Compress(how), Paired(history, cut),
         pc # "stage", proactive' \in BOOLEAN
  PROVE  IInv'
<1>1. PICK selected \in SUBSET Replaceable(history) : Budget(history, selected)
  BY DEF Compress
<1>2. /\ UNCHANGED <<chain, low, high, failures, reactive, batch, cut, notes, asked, tasks, shown, latest, since>>
  BY DEF Compress, pending, ends, counts, observed
<1> DEFINE g == Budgeted(history, previews')
<1>3. Good(history, asked, shown) /\ asked \in Nat /\ Spoken /\ previews \subseteq seen /\ seen \subseteq 1..asked
  BY DEF IInv, Current, Ranges
<1>4. /\ Good(g, asked, shown) /\ Paired(g, cut)
      /\ Settled(g, seen' \ previews') /\ DOMAIN g = DOMAIN history
      /\ shown \subseteq seen' /\ previews' \cap shown = {} /\ previews' \subseteq seen' /\ seen' \subseteq 1..asked
  BY <1>1, <1>3, BudgetKeeps
<1> HIDE DEF g
<1>5. Within(history, low, high) /\ Within(g, low, high)
  BY <1>4 DEF IInv, Current, Within
<1>6. Spoken'
  BY <1>2, <1>4 DEF Spoken
<1>7. \/ /\ failures < MaxFailures /\ working' = g
         /\ pc' = "stage" /\ mode' = how
         /\ UNCHANGED <<history, stage>>
      \/ /\ history' = g
         /\ pc' \in {"call", "compress"}
         /\ UNCHANGED <<working, mode, stage>>
  BY DEF Compress, compression, g
<1>8. Ranges'
  <2>1. seen' \cup shown' \cup latest' \subseteq 1..asked'
    BY <1>2, <1>4 DEF IInv, Ranges
  <2>2. pc' \in {"compress", "call", "again", "batch", "stage", "over"} /\ mode' \in {"before", "after", "reactive"}
    BY <1>7 DEF IInv, Ranges
  <2>3. stage' = stage
    BY <1>7
  <2> QED BY <1>2, <1>4, <2>1, <2>2, <2>3, Zenon DEF IInv, Ranges
<1>9. CASE /\ failures < MaxFailures /\ working' = g
           /\ pc' = "stage" /\ mode' = how
           /\ UNCHANGED <<history, stage>>
  <2>1. Breaker'
    BY <1>2, <1>9 DEF IInv, Breaker
  <2>2. Current'
    BY <1>2, <1>3, <1>5, <1>9 DEF Current
  <2>3. Copy'
    BY <1>2, <1>4, <1>5, <1>9 DEF Copy, Kept
  <2>4. BatchOpen'
    BY <1>9 DEF BatchOpen
  <2> QED BY <1>6, <1>8, <2>1, <2>2, <2>3, <2>4 DEF IInv
<1>10. CASE /\ history' = g
            /\ pc' \in {"call", "compress"}
            /\ UNCHANGED <<working, mode, stage>>
  <2>1. Breaker'
    BY <1>2, <1>10, BreakerRests
  <2>2. Current'
    BY <1>2, <1>4, <1>5, <1>10 DEF Current
  <2>3. Copy'
    BY <1>10 DEF IInv, Copy
  <2>4. BatchOpen'
    BY <1>10 DEF BatchOpen
  <2> QED BY <1>6, <1>8, <2>1, <2>2, <2>3, <2>4 DEF IInv
<1> QED BY <1>7, <1>9, <1>10

LEMMA GoOnKeeps ==
  ASSUME IInv, pc = "stage", NEW h, Kept(h), Within(h, low, high), stage <= Len(chain), GoOn(h)
  PROVE  IInv'
<1>1. /\ working' = h /\ stage' = stage + 1
      /\ UNCHANGED <<chain, history, low, high, pc, mode, failures, reactive, proactive, seen, previews,
                     batch, cut, notes, asked, tasks, shown, latest, since>>
  BY DEF GoOn, pending, ends, breaker, budget, counts, observed
<1>2. stage' \in 0..(Len(chain') + 1)
  <2>1. Len(chain) \in Nat
    BY CompactionAssumption DEF IInv, Ranges
  <2> QED BY <1>1, <2>1 DEF IInv, Ranges
<1>3. Ranges'
  BY <1>1, <1>2, Zenon DEF IInv, Ranges
<1>4. Breaker' /\ Spoken' /\ BatchOpen'
  BY <1>1 DEF IInv, Breaker, Spoken, BatchOpen
<1>5. Current'
  BY <1>1 DEF IInv, Current
<1>6. Copy'
  BY <1>1 DEF Copy, Kept
<1> QED BY <1>3, <1>4, <1>5, <1>6 DEF IInv

LEMMA CompactedKeeps ==
  ASSUME IInv, pc = "stage", NEW h, Kept(h), Bounded(h), Compacted(h)
  PROVE  IInv'
<1>1. failures' = 0 /\ Settle(h, TRUE)
  BY DEF Compacted
<1>2. Ranges' /\ Spoken' /\ Current' /\ Copy' /\ BatchOpen' /\ pc' # "stage" /\ reactive' = reactive
  BY <1>1, SettleKeeps
<1>3. Breaker'
  BY <1>1, <1>2, CompactionAssumption DEF IInv, Breaker
<1> QED BY <1>2, <1>3 DEF IInv

\* What a stage starts from.
LEMMA AtStage ==
  ASSUME IInv, pc = "stage"
  PROVE  /\ Kept(working) /\ Within(working, low, high) /\ Bounded(working)
         /\ asked \in Nat /\ low \in Int /\ high \in Int /\ low <= high + 1
         /\ Len(chain) \in Nat /\ stage \in Nat
<1>1. /\ asked \in Nat /\ low \in Int /\ high \in Int /\ low <= high + 1 /\ stage \in Nat
  BY DEF IInv, Ranges
<1>2. Len(chain) \in Nat
  BY CompactionAssumption DEF IInv, Ranges
<1>3. Kept(working) /\ Within(working, low, high)
  BY DEF IInv, Copy
<1> QED BY <1>1, <1>2, <1>3, WithinIsBounded

LEMMA HooksKeep ==
  ASSUME IInv, Hooks
  PROVE  IInv'
<1>1. pc = "stage" /\ stage = 0
  BY DEF Hooks
<1>2. /\ Kept(working) /\ Within(working, low, high) /\ Bounded(working)
      /\ asked \in Nat /\ low \in Int /\ high \in Int /\ low <= high + 1 /\ Len(chain) \in Nat
  BY <1>1, AtStage
<1>3. CASE GoOn(working)
  BY <1>1, <1>2, <1>3, GoOnKeeps
<1>4. CASE Settle(working, FALSE) /\ UNCHANGED failures
  <2>1. Ranges' /\ Spoken' /\ Current' /\ Copy' /\ BatchOpen' /\ pc' # "stage" /\ reactive' = reactive
    BY <1>1, <1>2, <1>4, SettleKeeps
  <2> QED BY <1>4, <2>1, BreakerRests DEF IInv
<1>5. CASE /\ notes < MaxNotes
           /\ notes' = notes + 1 /\ since' = since + 1
           /\ working' = Appended(working, Plain("user")) /\ high' = high + 1 /\ stage' = 1
           /\ UNCHANGED <<chain, history, low, pc, mode, breaker, budget, pending, counts, shown, latest>>
  <2>1. UNCHANGED <<chain, history, low, pc, mode, failures, reactive, proactive, seen, previews,
                    batch, cut, asked, tasks, shown, latest>>
    BY <1>5 DEF pending, breaker, budget, counts
  <2>2. Ranges'
    <3>1. stage' \in 0..(Len(chain') + 1) /\ high' \in Int /\ low' <= high' + 1
      BY <1>2, <1>5, <2>1
    <3>2. notes' \in 0..MaxNotes /\ since' \in 0..notes'
      BY <1>5, CompactionAssumption DEF IInv, Ranges
    <3> QED BY <2>1, <3>1, <3>2, Zenon DEF IInv, Ranges
  <2>3. Breaker' /\ Spoken'
    BY <2>1 DEF IInv, Breaker, Spoken
  <2>4. BatchOpen'
    BY <1>1, <2>1 DEF BatchOpen
  <2>5. Current'
    <3>1. Within(history, low, high + 1)
      BY <1>2 DEF IInv, Current, Within
    <3> QED BY <1>1, <1>5, <2>1, <3>1 DEF IInv, Current
  <2>6. Kept(Appended(working, Plain("user"))) /\ Within(Appended(working, Plain("user")), low, high + 1)
    <3>1. Frames(Appended(working, Plain("user")), working)
      BY <1>2, NoteFrames
    <3> DEFINE note == Plain("user")
    <3> HIDE DEF note
    <3>2. Within(Appended(working, note), low, high + 1)
      BY <1>2, AppendedIs
    <3> QED BY <1>2, <3>1, <3>2, FramedIsKept DEF note
  <2>7. Copy'
    BY <1>1, <1>5, <2>1, <2>6 DEF Copy, Kept
  <2> QED BY <2>2, <2>3, <2>4, <2>5, <2>7 DEF IInv
<1> QED BY <1>3, <1>4, <1>5 DEF Hooks

LEMMA StagesKeep ==
  ASSUME IInv, Microcompact \/ Collapse \/ SessionMemory \/ Summarise
  PROVE  IInv'
<1>1. pc = "stage" /\ stage <= Len(chain)
  BY DEF Microcompact, Collapse, SessionMemory, Summarise, Stage
<1>2. /\ Kept(working) /\ Within(working, low, high) /\ Bounded(working)
      /\ asked \in Nat /\ low \in Int /\ high \in Int /\ low <= high + 1
  BY <1>1, AtStage
<1>3. ASSUME NEW compactable \in SUBSET Tools(working)
      PROVE  LET h == Micro(working, compactable)
             IN  Kept(h) /\ Within(h, low, high) /\ Bounded(h)
  <2> DEFINE h == Micro(working, compactable)
  <2>1. Kept(h) /\ DOMAIN h = DOMAIN working
    BY <1>2, MicroKeeps
  <2> HIDE DEF h
  <2>2. Within(h, low, high)
    BY <1>2, <2>1 DEF Within
  <2>3. Bounded(h)
    BY <1>2, <2>2, WithinIsBounded
  <2> QED BY <2>1, <2>2, <2>3 DEF h
<1>4. CASE Microcompact
  <2>1. PICK compactable \in SUBSET Tools(working) :
          GoOn(Micro(working, compactable)) \/ Compacted(Micro(working, compactable))
    BY <1>4 DEF Microcompact
  <2> QED BY <1>1, <1>3, <2>1, GoOnKeeps, CompactedKeeps
<1>5. CASE Collapse
  <2>1. GoOn(working) \/ GoOn(Collapsed(working)) \/ Compacted(Collapsed(working))
    BY <1>5 DEF Collapse
  <2>2. Kept(Collapsed(working)) /\ Within(Collapsed(working), low, high)
    BY <1>2, CollapsedKeeps, Zenon DEF Within
  <2>3. Bounded(Collapsed(working))
    BY <1>2, <2>2, WithinIsBounded
  <2> QED BY <1>1, <1>2, <2>1, <2>2, <2>3, GoOnKeeps, CompactedKeeps
<1>6. CASE SessionMemory
  <2>1. GoOn(working) \/ Compacted(Summarised(working))
    BY <1>6 DEF SessionMemory
  <2> QED BY <1>1, <1>2, <2>1, SummarisedKeeps, GoOnKeeps, CompactedKeeps
<1>7. CASE Summarise
  <2>1. CASE Compacted(Headed(working, 1))
    <3>1. Frames(Headed(working, 1), working) /\ Bounded(Headed(working, 1))
      BY <1>2, HeadedIs
    <3>2. Kept(Headed(working, 1))
      BY <1>2, <3>1, FramedIsKept
    <3> QED BY <1>1, <2>1, <3>1, <3>2, CompactedKeeps
  <2>2. ASSUME NEW compactable \in SUBSET Tools(working), Compacted(Summarised(Micro(working, compactable)))
        PROVE  IInv'
    BY <1>1, <1>2, <1>3, <2>2, SummarisedKeeps, CompactedKeeps
  <2> QED BY <1>7, <2>1, <2>2 DEF Summarise
<1> QED BY <1>4, <1>5, <1>6, <1>7

LEMMA EndsKeep ==
  ASSUME IInv, StageFails \/ ChainEnds
  PROVE  IInv'
<1>1. pc = "stage" /\ failures' \in {failures + 1, 0} /\ Settle(working, FALSE)
  BY DEF StageFails, ChainEnds
<1>2. Ranges' /\ Spoken' /\ Current' /\ Copy' /\ BatchOpen' /\ pc' # "stage" /\ reactive' = reactive
  BY <1>1, AtStage, SettleKeeps
<1>3. Breaker'
  BY <1>1, <1>2, CompactionAssumption DEF IInv, Breaker
<1> QED BY <1>2, <1>3 DEF IInv

LEMMA TooLongKeeps ==
  ASSUME IInv, TooLong
  PROVE  IInv'
<1>1. /\ pc = "call" /\ ~reactive /\ reactive' = TRUE
      /\ working' = history /\ mode' = "reactive" /\ stage' = 0 /\ pc' = "stage"
      /\ UNCHANGED <<chain, history, low, high, failures, proactive, seen, previews, batch, cut, notes, asked,
                     tasks, shown, latest, since>>
  BY DEF TooLong, pending, ends, budget, counts, observed
<1>2. Ranges'
  <2>1. Len(chain) \in Nat
    BY CompactionAssumption DEF IInv, Ranges
  <2>2. stage' \in 0..(Len(chain') + 1)
    BY <1>1, <2>1
  <2> QED BY <1>1, <2>2, Zenon DEF IInv, Ranges
<1>3. Breaker'
  BY <1>1 DEF IInv, Breaker
<1>4. Spoken' /\ Current' /\ BatchOpen'
  BY <1>1 DEF IInv, Spoken, Current, BatchOpen
<1>5. Copy'
  BY <1>1 DEF IInv, Current, Copy, Kept
<1> QED BY <1>2, <1>3, <1>4, <1>5 DEF IInv

-----------------------------------------------------------------------------
(* The loop *)

\* One message more, behind all others.
Extends(g, h, top) ==
    /\ DOMAIN g = DOMAIN h \cup {top} /\ top \in Int
    /\ \A p \in DOMAIN h : g[p] = h[p] /\ p \in Int /\ p < top

LEMMA ExtendedKeeps ==
  ASSUME NEW g, NEW h, NEW top, Extends(g, h, top)
  PROVE  /\ \A p \in DOMAIN h : Answered(h, p) => Answered(g, p)
         /\ (Follow(h) /\ g[top].role # "tool") => Follow(g)
         /\ \A lost : \A p \in DOMAIN h :
              Torn(h, p, lost) /\ (g[top].role = "tool" => g[top].id \notin h[p].calls) => Torn(g, p, lost)
         /\ \A c \in DOMAIN h :
              (Follow(h) /\ g[top].id \in h[c].calls /\ \A p \in DOMAIN h : c < p => p \in Tools(h))
                => Follow(g)
<1>1. \A p \in Tools(h) : p \in Tools(g) /\ p \in DOMAIN h
  BY Zenon DEF Extends, Tools
<1>2. \A p, q \in DOMAIN h : Follows(h, p, q) => Follows(g, p, q)
  <2> SUFFICES ASSUME NEW p \in DOMAIN h, NEW q \in DOMAIN h, Follows(h, p, q) PROVE Follows(g, p, q)
    OBVIOUS
  <2>1. ~(top < q)
    BY DEF Extends
  <2> QED BY <2>1, Zenon DEF Extends, Follows
<1>3. \A p \in DOMAIN h : Answered(h, p) => Answered(g, p)
  BY <1>2, Zenon DEF Answered, Extends
<1>4. ASSUME Follow(h), NEW p \in Tools(h)
      PROVE  \E q \in DOMAIN g : /\ q < p /\ g[p].id \in g[q].calls
                                /\ \A r \in DOMAIN g : q < r /\ r < p => r \in Tools(g)
  <2>1. PICK q \in DOMAIN h : /\ q < p /\ h[p].id \in h[q].calls
                              /\ \A r \in DOMAIN h : q < r /\ r < p => r \in Tools(h)
    BY <1>4, Zenon DEF Follow
  <2>2. ~(top < p)
    BY <1>1 DEF Extends
  <2> QED BY <1>1, <2>1, <2>2, Zenon DEF Extends
<1>5. ASSUME Follow(h), g[top].role # "tool" PROVE Follow(g)
  <2>1. Tools(g) = Tools(h)
    BY <1>1, <1>5, Zenon DEF Extends, Tools
  <2> QED BY <1>4, <1>5, <2>1, Zenon DEF Follow
<1>6. ASSUME NEW c \in DOMAIN h, Follow(h), g[top].id \in h[c].calls,
             \A p \in DOMAIN h : c < p => p \in Tools(h)
      PROVE  Follow(g)
  <2>1. \A p \in Tools(g) : p = top \/ p \in Tools(h)
    BY Zenon DEF Extends, Tools
  <2>2. c \in DOMAIN g /\ c < top /\ g[top].id \in g[c].calls
    BY <1>6 DEF Extends
  <2>3. \A r \in DOMAIN g : c < r /\ r < top => r \in Tools(g)
    BY <1>1, <1>6 DEF Extends
  <2> QED BY <1>4, <1>6, <2>1, <2>2, <2>3, Zenon DEF Follow
<1>7. \A lost : \A p \in DOMAIN h :
        Torn(h, p, lost) /\ (g[top].role = "tool" => g[top].id \notin h[p].calls) => Torn(g, p, lost)
  BY DEF Torn, Extends, Tools
<1> QED BY <1>3, <1>5, <1>6, <1>7

LEMMA ExtendedIsShaped ==
  ASSUME NEW g, NEW h, NEW top, Extends(g, h, top), NEW n \in Nat, NEW k \in Nat, n <= k,
         Shaped(h, n), g[top] \in Messages, g[top].calls \subseteq 1..k,
         g[top].calls # {} => g[top].role = "assistant",
         g[top].role = "tool" => g[top].id \in 1..k,
         g[top].role # "tool" => g[top].id = 0 /\ g[top].text = "none"
  PROVE  Shaped(g, k)
BY DEF Extends, Shaped

LEMMA HistoryExtends ==
  ASSUME IInv, NEW m, history' = Appended(history, m)
  PROVE  /\ Extends(history', history, high + 1) /\ history'[high + 1] = m
         /\ Within(history', low, high + 1)
<1>1. low \in Int /\ high \in Int /\ low <= high + 1 /\ Within(history, low, high)
  BY DEF IInv, Ranges, Current
<1>2. /\ DOMAIN Appended(history, m) = DOMAIN history \cup {high + 1}
      /\ Appended(history, m)[high + 1] = m
      /\ \A p \in DOMAIN history : Appended(history, m)[p] = history[p] /\ p \in Int /\ p < high + 1
      /\ Within(Appended(history, m), low, high + 1)
  BY <1>1, AppendedIs
<1> QED BY <1>1, <1>2 DEF Extends

LEMMA AsksToolsKeeps ==
  ASSUME IInv, AsksTools
  PROVE  IInv'
<1>0. PICK top : top = high + 1
  OBVIOUS
<1> DEFINE m == Message("assistant", batch', 0, "none")
<1>1. PICK n \in 1..MaxBatch :
        asked + n <= MaxCalls /\ asked' = asked + n /\ batch' = (asked + 1)..(asked + n)
  BY DEF AsksTools
<1>2. /\ pc \in {"call", "again"} /\ pc' = "batch" /\ Sees
      /\ history' = Appended(history, m) /\ high' = top
      /\ latest' = batch' /\ since' = 0
      /\ UNCHANGED <<chain, low, working, mode, stage, failures, reactive, proactive, seen, previews,
                     cut, notes, tasks>>
  BY <1>0 DEF AsksTools, compression, breaker, budget
<1>3. n \in Nat /\ n >= 1 /\ asked \in Nat /\ MaxCalls \in Nat
  BY CompactionAssumption DEF IInv, Ranges
<1>4. /\ batch' # {} /\ batch' \subseteq Ids /\ batch' \subseteq 1..asked' /\ asked <= asked'
      /\ asked' \in 0..MaxCalls /\ batch' \cap (1..asked) = {} /\ asked' \in Nat
  <2>1. asked + 1 \in batch'
    BY <1>1, <1>3
  <2>2. /\ \A id \in batch' : id \in 1..MaxCalls /\ id \in 1..asked' /\ id \notin 1..asked
    BY <1>1, <1>3
  <2>3. asked <= asked' /\ asked' \in 0..MaxCalls /\ asked' \in Nat
    BY <1>1, <1>3
  <2> QED BY <2>1, <2>2, <2>3, Zenon DEF Ids
<1>5. /\ m \in Messages /\ m.role = "assistant" /\ m.calls = batch' /\ m.id = 0 /\ m.text = "none"
  BY <1>3, <1>4 DEF Message, Messages, Texts
<1> HIDE DEF m
<1>6. Extends(history', history, top) /\ history'[top] = m /\ Within(history', low, top)
  BY <1>0, <1>2, HistoryExtends
<1>7. /\ Good(history, asked, shown') /\ shown' \subseteq seen /\ previews \cap shown' = {}
      /\ shown' \subseteq 1..asked
  BY <1>2, SeesKeeps
<1>8. Paired(history, cut) /\ Shaped(history, asked)
  BY <1>2, <1>7 DEF IInv, Current, Good
<1>9. Tools(history') = Tools(history)
  BY <1>5, <1>6 DEF Extends, Tools
<1>10. Shaped(history', asked')
  BY <1>3, <1>4, <1>5, <1>6, <1>8, ExtendedIsShaped
<1>11. Good(history', asked', shown')
  BY <1>6, <1>7, <1>9, <1>10 DEF Good, Distinct, Spared, Extends, Tools
<1>12. /\ Follow(history')
       /\ \A p \in DOMAIN history : history[p].calls # {} => Answered(history', p) \/ Torn(history', p, cut)
  BY <1>5, <1>6, <1>8, ExtendedKeeps DEF Paired
<1>13. Ranges'
  <2>1. high' \in Int /\ low' <= high' + 1
    BY <1>0, <1>2 DEF IInv, Ranges
  <2>2. since' \in 0..notes'
    BY <1>2 DEF IInv, Ranges
  <2>3. seen' \cup shown' \cup latest' \subseteq 1..asked'
    BY <1>2, <1>3, <1>4, <1>7 DEF IInv, Ranges
  <2>4. batch' \cup cut' \subseteq 1..asked'
    <3>1. cut \subseteq 1..asked
      BY DEF IInv, Ranges
    <3>2. cut' \subseteq 1..asked'
      BY <1>2, <1>3, <1>4, <3>1
    <3> QED BY <1>4, <3>2
  <2> QED BY <1>2, <1>4, <2>1, <2>2, <2>3, <2>4, Zenon DEF IInv, Ranges
<1>14. Breaker' /\ Spoken'
  BY <1>2, <1>7, BreakerRests DEF Spoken
<1>15. Current' /\ Copy'
  BY <1>2, <1>6, <1>11 DEF IInv, Current, Copy
<1>16. BatchOpen'
  <2>1. Open(top)'
    <3>1. \A p \in DOMAIN history' : p = top \/ (p \in DOMAIN history /\ history'[p] = history[p] /\ ~(top < p))
      BY <1>6 DEF Extends
    <3>2. history'[top].calls = latest' /\ ~(top < top)
      BY <1>2, <1>5, <1>6 DEF Extends
    <3>3. \A p \in DOMAIN history : history[p].calls \subseteq 1..asked
      BY <1>8 DEF Shaped
    <3>4. \A p \in DOMAIN history' : top < p => p \in Tools(history')
      BY <3>1, <3>2
    <3>5. \A p \in DOMAIN history' \ {top} :
            /\ history'[p].calls \cap latest' = {}
            /\ history'[p].calls # {} => Answered(history', p) \/ Torn(history', p, cut')
      BY <1>2, <1>4, <1>12, <3>1, <3>3
    <3>6. batch' = latest' /\ top = high'
      BY <1>2
    <3> QED BY <3>2, <3>4, <3>5, <3>6, Zenon DEF Open
  <2>2. \A p \in Tools(history') : history'[p].id \notin batch'
    BY <1>4, <1>6, <1>8, <1>9 DEF Shaped, Tools, Extends
  <2>3. batch' \cap shown' = {}
    BY <1>4, <1>7
  <2>4. top \in DOMAIN history'
    BY <1>6 DEF Extends
  <2>5. latest' = batch' /\ latest' # {} /\ Follow(history')
    BY <1>2, <1>4, <1>12
  <2> QED BY <2>1, <2>2, <2>3, <2>4, <2>5 DEF BatchOpen
<1> QED BY <1>13, <1>14, <1>15, <1>16 DEF IInv

LEMMA AddsNoteKeeps ==
  ASSUME IInv, AddsNote
  PROVE  IInv'
<1>1. /\ pc \in {"call", "again"} /\ pc' = "compress" /\ Sees
      /\ notes < MaxNotes /\ notes' = notes + 1
      /\ history' = Appended(history, Plain("user")) /\ high' = high + 1
      /\ latest' = {} /\ since' = 0
      /\ UNCHANGED <<chain, low, working, mode, stage, failures, reactive, proactive, seen, previews,
                     batch, cut, asked, tasks>>
  BY DEF AddsNote, pending, compression, breaker, budget, counts
<1>2. low \in Int /\ high \in Int /\ low <= high + 1 /\ Within(history, low, high) /\ asked \in Nat
  BY DEF IInv, Ranges, Current
<1>3. /\ Good(history, asked, shown') /\ shown' \subseteq seen /\ previews \cap shown' = {}
      /\ shown' \subseteq 1..asked
  BY <1>1, SeesKeeps
<1>4. Frames(history', history)
  BY <1>1, <1>2, NoteFrames
<1>5. Within(history', low, high + 1)
  <2> DEFINE note == Plain("user")
  <2> HIDE DEF note
  <2>1. history' = Appended(history, note)
    BY <1>1 DEF note
  <2> QED BY <2>1, HistoryExtends
<1>6. Good(history', asked, shown') /\ Paired(history', cut)
  <2>1. Paired(history, cut)
    BY <1>1 DEF IInv, Current
  <2> QED BY <1>2, <1>3, <1>4, <2>1, FramedIsGood
<1>7. Ranges'
  <2>1. high' \in Int /\ low' <= high' + 1
    BY <1>1, <1>2
  <2>2. notes' \in 0..MaxNotes /\ since' \in 0..notes'
    BY <1>1, CompactionAssumption DEF IInv, Ranges
  <2>3. seen' \cup shown' \cup latest' \subseteq 1..asked'
    BY <1>1, <1>3 DEF IInv, Ranges
  <2> QED BY <1>1, <2>1, <2>2, <2>3, Zenon DEF IInv, Ranges
<1>8. Breaker' /\ Spoken'
  BY <1>1, <1>3, BreakerRests DEF Spoken
<1>9. Current' /\ Copy' /\ BatchOpen'
  BY <1>1, <1>5, <1>6 DEF IInv, Current, Copy, BatchOpen
<1> QED BY <1>7, <1>8, <1>9 DEF IInv

LEMMA OverKeeps ==
  ASSUME IInv, AnswersTask \/ Raises
  PROVE  IInv'
<1>1. /\ pc # "stage" /\ Leaves
      /\ UNCHANGED <<chain, compression, breaker, budget, notes, counts>>
  BY DEF AnswersTask, Raises
<1>2. shown' \subseteq seen /\ previews \cap shown' = {} /\ shown' \subseteq 1..asked
  <2>1. CASE AnswersTask
    BY <2>1, SeesKeeps DEF AnswersTask
  <2>2. CASE Raises
    BY <2>2 DEF Raises, IInv, Spoken, Ranges
  <2> QED BY <2>1, <2>2
<1>3. working' = <<>> /\ mode' = "before" /\ stage' = 0 /\ proactive' = proactive /\ UNCHANGED <<failures, reactive>>
  BY <1>1 DEF IInv, Copy, compression, breaker
<1>4. Ranges' /\ Spoken' /\ Current' /\ Copy' /\ BatchOpen'
  BY <1>1, <1>2, <1>3, LeavesKeep
<1>5. pc' # "stage"
  BY <1>1 DEF Leaves
<1>6. Breaker'
  BY <1>3, <1>5, BreakerRests
<1> QED BY <1>4, <1>6 DEF IInv

LEMMA ToolAnswersKeeps ==
  ASSUME IInv, ToolAnswers
  PROVE  IInv'
<1>0. PICK top : top = high + 1
  OBVIOUS
<1>1. PICK id \in batch, text \in {"full", "preview"} :
        /\ batch' = batch \ {id}
        /\ history' = Appended(history, Message("tool", {}, id, text))
  BY DEF ToolAnswers
<1>2. /\ pc = "batch" /\ batch # {} /\ high' = top
      /\ UNCHANGED <<chain, low, working, mode, stage, pc, failures, reactive, proactive, seen, previews,
                     cut, notes, asked, tasks, shown, latest, since>>
  BY <1>0 DEF ToolAnswers, compression, breaker, budget, counts, observed
<1>3. asked \in Nat /\ asked <= MaxCalls /\ MaxCalls \in Nat /\ batch \subseteq 1..asked /\ high \in Int /\ low <= high + 1
  BY CompactionAssumption DEF IInv, Ranges
<1>4. Good(history, asked, shown) /\ Within(history, low, high)
  BY DEF IInv, Current
<1>5. /\ latest # {} /\ batch \subseteq latest /\ batch \cap shown = {}
      /\ \A p \in Tools(history) : history[p].id \notin batch
      /\ Follow(history)
  BY <1>2 DEF IInv, BatchOpen
<1>6. PICK c \in DOMAIN history : Open(c)
  BY <1>2, <1>5 DEF IInv, BatchOpen
<1> DEFINE m == Message("tool", {}, id, text)
<1>7. /\ m \in Messages /\ m.role = "tool" /\ m.calls = {} /\ m.id = id /\ m.text = text
      /\ id \in 1..asked /\ text # "none"
  BY <1>3 DEF Message, Messages, Texts, Ids
<1> HIDE DEF m
<1>8. Extends(history', history, top) /\ history'[top] = m /\ Within(history', low, top)
  <2>1. history' = Appended(history, m)
    BY <1>1 DEF m
  <2> QED BY <1>0, <2>1, HistoryExtends
<1>9. /\ \A p \in Tools(history') : p = top \/ (p \in Tools(history) /\ history'[p] = history[p])
      /\ \A p \in Tools(history) : p \in Tools(history')
      /\ top \in Tools(history')
  BY <1>7, <1>8, Zenon DEF Extends, Tools
<1>10. Good(history', asked, shown)
  <2>1. Shaped(history', asked)
    <3>1. Shaped(history, asked) /\ asked <= asked
      BY <1>3, <1>4 DEF Good
    <3> QED BY <1>3, <1>7, <1>8, <3>1, ExtendedIsShaped
  <2>2. Distinct(history')
    BY <1>4, <1>5, <1>7, <1>8, <1>9 DEF Good, Distinct
  <2>3. Spared(history', shown)
    BY <1>4, <1>5, <1>7, <1>8, <1>9 DEF Good, Spared
  <2> QED BY <2>1, <2>2, <2>3 DEF Good
<1>11. id \in history[c].calls /\ history[c].calls = latest
  BY <1>5, <1>6 DEF Open
<1>12. Follow(history') /\ \A p \in DOMAIN history : Answered(history, p) => Answered(history', p)
  BY <1>5, <1>6, <1>7, <1>8, <1>11, ExtendedKeeps DEF Open
<1>13. Answered(history', c)
  <2>1. CASE batch = latest
    <3>1. c = high
      BY <1>6, <2>1 DEF Open
    <3>2. \A r \in DOMAIN history' : r = top \/ ~(c < r)
      BY <1>3, <1>4, <1>8, <3>1 DEF Extends, Within
    <3>3. top \in DOMAIN history' /\ c < top /\ ~(top < top)
      BY <1>8 DEF Extends
    <3>4. Follows(history', c, top)
      BY <3>2, <3>3, Zenon DEF Follows
    <3>5. history'[top].id \in history'[c].calls
      BY <1>7, <1>8, <1>11 DEF Extends
    <3> QED BY <3>3, <3>4, <3>5, Zenon DEF Answered
  <2>2. CASE batch # latest
    BY <1>6, <1>12, <2>2 DEF Open
  <2> QED BY <2>1, <2>2
<1>14. Open(c)'
  <2>1. \A p \in DOMAIN history' : p = top \/ (p \in DOMAIN history /\ history'[p] = history[p])
    BY <1>8 DEF Extends
  <2>2. history'[c].calls = latest'
    BY <1>2, <1>8, <1>11 DEF Extends
  <2>3. \A p \in DOMAIN history' : c < p => p \in Tools(history')
    BY <1>6, <1>9, <2>1 DEF Open
  <2>4. \A p \in DOMAIN history' \ {c} :
          /\ history'[p].calls \cap latest' = {}
          /\ history'[p].calls # {} => Answered(history', p) \/ Torn(history', p, cut')
    <3> SUFFICES ASSUME NEW p \in DOMAIN history' \ {c}
                 PROVE  /\ history'[p].calls \cap latest' = {}
                        /\ history'[p].calls # {} => Answered(history', p) \/ Torn(history', p, cut')
      OBVIOUS
    <3>1. CASE p = top
      BY <1>7, <1>8, <3>1
    <3>2. CASE p # top
      <4>1. p \in DOMAIN history /\ history'[p] = history[p] /\ history[p].calls \cap latest = {}
        BY <1>6, <2>1, <3>2 DEF Open
      <4>2. history'[top].id \notin history[p].calls
        BY <1>5, <1>7, <1>8, <4>1
      <4>3. history[p].calls # {} => Answered(history, p) \/ Torn(history, p, cut)
        BY <1>6, <4>1 DEF Open
      <4>4. Torn(history, p, cut) => Torn(history', p, cut)
        BY <1>8, <4>1, <4>2, ExtendedKeeps
      <4> QED BY <1>2, <1>12, <4>1, <4>3, <4>4
    <3> QED BY <3>1, <3>2
  <2>5. batch' # latest'
    BY <1>1, <1>2, <1>5
  <2> QED BY <1>13, <2>2, <2>3, <2>4, <2>5, Zenon DEF Open
<1>15. BatchOpen'
  <2>1. latest' = latest /\ batch' \subseteq latest' /\ batch' \cap shown' = {}
    BY <1>1, <1>2, <1>5
  <2>2. \A p \in Tools(history') : history'[p].id \notin batch'
    BY <1>1, <1>5, <1>7, <1>8, <1>9
  <2>3. c \in DOMAIN history'
    BY <1>8 DEF Extends
  <2> QED BY <1>5, <1>12, <1>14, <2>1, <2>2, <2>3, Zenon DEF BatchOpen
<1>16. Ranges'
  <2>1. high' \in Int /\ low' <= high' + 1 /\ batch' \cup cut' \subseteq 1..asked'
    BY <1>0, <1>1, <1>2, <1>3 DEF IInv, Ranges
  <2> QED BY <1>2, <2>1, Zenon DEF IInv, Ranges
<1>17. Breaker' /\ Spoken' /\ Current' /\ Copy'
  BY <1>2, <1>8, <1>10 DEF IInv, Breaker, Spoken, Current, Copy
<1> QED BY <1>15, <1>16, <1>17 DEF IInv

\* The rest of the batch is lost: its message is answered by now or torn.
LEMMA StopMatchKeeps ==
  ASSUME IInv, StopMatch
  PROVE  IInv'
<1>1. /\ pc = "batch" /\ batch # {} /\ cut' = cut \cup batch /\ batch' = {} /\ pc' = "compress"
      /\ UNCHANGED <<chain, low, working, mode, stage, failures, reactive, proactive, seen, previews,
                     asked, tasks, shown>>
  BY DEF StopMatch, compression, breaker, budget, counts
<1>2. /\ Good(history, asked, shown) /\ Within(history, low, high)
      /\ asked \in Nat /\ low \in Int /\ high \in Int /\ low <= high + 1
  BY DEF IInv, Current, Ranges
<1>3. /\ latest # {} /\ \A p \in Tools(history) : history[p].id \notin batch
      /\ Follow(history)
  BY <1>1 DEF IInv, BatchOpen
<1>4. PICK c \in DOMAIN history : Open(c)
  BY <1>1, <1>3 DEF IInv, BatchOpen
<1>5. ASSUME NEW p \in DOMAIN history, history[p].calls # {}
      PROVE  Answered(history, p) \/ Torn(history, p, cut')
  <2>1. CASE p = c /\ batch = latest
    <3>1. history[p].calls = batch
      BY <1>4, <2>1 DEF Open
    <3> QED BY <1>1, <1>3, <3>1 DEF Torn
  <2>2. CASE p = c /\ batch # latest
    BY <1>4, <2>2 DEF Open
  <2>3. CASE p # c
    <3>1. Answered(history, p) \/ Torn(history, p, cut)
      BY <1>4, <1>5, <2>3 DEF Open
    <3> QED BY <1>1, <3>1 DEF Torn
  <2> QED BY <2>1, <2>2, <2>3
<1>6. Paired(history, cut')
  BY <1>3, <1>5 DEF Paired
<1>7. \/ /\ notes < MaxNotes /\ notes' = notes + 1
         /\ history' = Appended(history, Plain("user")) /\ high' = high + 1
         /\ latest' = {} /\ since' = 0
      \/ latest' = latest \ batch /\ UNCHANGED <<history, high, notes, since>>
  BY DEF StopMatch
<1>8. /\ Good(history', asked, shown) /\ Paired(history', cut') /\ Within(history', low, high')
      /\ high' \in Int /\ low <= high' + 1
      /\ notes' \in 0..MaxNotes /\ since' \in 0..notes' /\ latest' \subseteq latest
  <2>1. notes \in 0..MaxNotes /\ since \in 0..notes /\ MaxNotes \in Nat
    BY CompactionAssumption DEF IInv, Ranges
  <2>2. CASE UNCHANGED <<history, high, notes, since>> /\ latest' = latest \ batch
    BY <1>2, <1>6, <2>1, <2>2
  <2>3. CASE /\ notes < MaxNotes /\ notes' = notes + 1
             /\ history' = Appended(history, Plain("user")) /\ high' = high + 1
             /\ latest' = {} /\ since' = 0
    <3>1. Frames(history', history)
      BY <1>2, <2>3, NoteFrames
    <3>2. Good(history', asked, shown) /\ Paired(history', cut')
      BY <1>2, <1>6, <3>1, FramedIsGood
    <3>3. Within(history', low, high + 1)
      <4> DEFINE note == Plain("user")
      <4> HIDE DEF note
      <4>1. history' = Appended(history, note)
        BY <2>3 DEF note
      <4> QED BY <4>1, HistoryExtends
    <3> QED BY <1>2, <2>1, <2>3, <3>2, <3>3
  <2> QED BY <1>7, <2>2, <2>3
<1>9. Ranges'
  <2>1. batch' \cup cut' \subseteq 1..asked' /\ seen' \cup shown' \cup latest' \subseteq 1..asked'
    BY <1>1, <1>8 DEF IInv, Ranges
  <2>2. high' \in Int /\ low' <= high' + 1 /\ pc' \in {"compress", "call", "again", "batch", "stage", "over"}
    BY <1>1, <1>8
  <2> QED BY <1>1, <1>8, <2>1, <2>2, Zenon DEF IInv, Ranges
<1>10. Breaker' /\ Spoken'
  BY <1>1, BreakerRests DEF IInv, Spoken
<1>11. Current' /\ Copy' /\ BatchOpen'
  BY <1>1, <1>8 DEF IInv, Current, Copy, BatchOpen
<1> QED BY <1>9, <1>10, <1>11 DEF IInv

LEMMA SuppressKeeps ==
  ASSUME IInv, Suppress
  PROVE  IInv'
<1> DEFINE U == {p \in DOMAIN history : history[p].calls # latest}
<1>1. /\ pc = "batch" /\ Cardinality(batch) = 1 /\ batch = latest
      /\ batch' = {} /\ latest' = {}
      /\ history' = Only(history, U)
      /\ high' = high - 1
      /\ UNCHANGED <<chain, low, working, mode, stage, pc, failures, reactive, proactive, seen, previews,
                     cut, notes, asked, tasks, shown, since>>
  BY DEF Suppress, compression, breaker, budget, counts
<1>2. latest # {}
  BY <1>1, FS_EmptySet
<1>3. PICK c \in DOMAIN history : Open(c)
  BY <1>1, <1>2 DEF IInv, BatchOpen
<1>4. Follow(history)
  BY <1>1, <1>2 DEF IInv, BatchOpen
<1>5. /\ Good(history, asked, shown) /\ Shaped(history, asked) /\ Within(history, low, high)
      /\ asked \in Nat /\ low \in Int /\ high \in Int
  BY DEF IInv, Current, Good, Ranges
<1>6. c = high /\ history[c].calls = latest
  BY <1>1, <1>3 DEF Open
<1>7. U = DOMAIN history \ {c}
  BY <1>2, <1>3, <1>6 DEF Open
<1> HIDE DEF U
<1>8. /\ DOMAIN history' = DOMAIN history \ {c}
      /\ \A p \in DOMAIN history \ {c} : history'[p] = history[p]
  BY <1>1, <1>7, OnlyIs
<1>9. \A p \in DOMAIN history : p \in Int /\ low <= p /\ p <= c
  BY <1>5, <1>6 DEF Within
<1>10. Within(history', low, high - 1) /\ low <= high
  BY <1>5, <1>6, <1>8, <1>9 DEF Within
<1>11. Thins(history', history)
  BY <1>5, <1>8 DEF Thins, Shaped
<1>12. Good(history', asked, shown)
  BY <1>5, <1>11, ThinnedIsGood
<1>13. history[c].role = "assistant" /\ history[c].id = 0 /\ c \notin Tools(history)
  BY <1>2, <1>5, <1>6 DEF Shaped, Tools
<1>14. Tools(history') = Tools(history)
  BY <1>8, <1>13, Zenon DEF Tools
<1>15. Follow(history')
  <2> SUFFICES ASSUME NEW p \in Tools(history)
               PROVE  \E q \in DOMAIN history' :
                        /\ q < p /\ history'[p].id \in history'[q].calls
                        /\ \A r \in DOMAIN history' : q < r /\ r < p => r \in Tools(history')
    BY <1>14, Zenon DEF Follow
  <2>1. PICK q \in DOMAIN history :
          /\ q < p /\ history[p].id \in history[q].calls
          /\ \A r \in DOMAIN history : q < r /\ r < p => r \in Tools(history)
    BY <1>4, Zenon DEF Follow
  <2>2. p \in DOMAIN history /\ p # c
    BY <1>13 DEF Tools
  <2>3. q # c
    BY <1>9, <2>1, <2>2
  <2> QED BY <1>8, <1>14, <2>1, <2>2, <2>3
<1>16. ASSUME NEW p \in DOMAIN history', history'[p].calls # {}
       PROVE  Answered(history', p) \/ Torn(history', p, cut)
  <2>1. p \in DOMAIN history \ {c} /\ history'[p] = history[p]
    BY <1>8
  <2>2. CASE Torn(history, p, cut)
    BY <1>8, <1>14, <2>1, <2>2, <1>13 DEF Torn, Tools
  <2>3. CASE Answered(history, p)
    <3>1. PICK q \in DOMAIN history : Follows(history, p, q) /\ history[q].id \in history[p].calls
      BY <2>3, Zenon DEF Answered
    <3>2. history[q].id \in 1..asked
      BY <1>5, <2>1, <3>1 DEF Shaped
    <3>3. q # c
      BY <1>13, <3>2
    <3>4. Follows(history', p, q)
      BY <1>8, <3>1, Zenon DEF Follows
    <3> QED BY <1>8, <2>1, <3>1, <3>3, <3>4, Zenon DEF Answered
  <2> QED BY <1>3, <1>16, <2>1, <2>2, <2>3, Zenon DEF Open
<1>17. Paired(history', cut)
  BY <1>15, <1>16, Zenon DEF Paired
<1>18. Ranges'
  <2>1. high' \in Int /\ low' <= high' + 1
    BY <1>1, <1>5, <1>10
  <2>2. batch' \cup cut' \subseteq 1..asked' /\ seen' \cup shown' \cup latest' \subseteq 1..asked'
    BY <1>1 DEF IInv, Ranges
  <2> QED BY <1>1, <2>1, <2>2, Zenon DEF IInv, Ranges
<1>19. Breaker' /\ Spoken'
  BY <1>1 DEF IInv, Breaker, Spoken
<1>20. Current' /\ Copy' /\ BatchOpen'
  BY <1>1, <1>10, <1>12, <1>17 DEF IInv, Current, Copy, BatchOpen
<1> QED BY <1>18, <1>19, <1>20 DEF IInv

LEMMA RestartKeeps ==
  ASSUME IInv, Restart
  PROVE  IInv'
<1>1. /\ pc = "over" /\ tasks < MaxTasks /\ tasks' = tasks + 1 /\ pc' = "compress"
      /\ UNCHANGED <<chain, history, low, high, working, mode, stage, failures, reactive, proactive, seen,
                     previews, batch, cut, notes, asked, shown, latest, since>>
  BY DEF Restart, pending, ends, compression, breaker, budget, observed
<1>2. Ranges'
  <2>1. tasks' \in 0..MaxTasks
    BY <1>1, CompactionAssumption DEF IInv, Ranges
  <2> QED BY <1>1, <2>1, Zenon DEF IInv, Ranges
<1>3. Breaker' /\ Spoken' /\ Current' /\ Copy' /\ BatchOpen'
  BY <1>1 DEF IInv, Breaker, Spoken, Current, Copy, BatchOpen
<1> QED BY <1>2, <1>3 DEF IInv

LEMMA CompressionsKeep ==
  ASSUME IInv, BeforeCall \/ AfterBatch
  PROVE  IInv'
<1>1. CASE BeforeCall
  <2>1. pc = "compress" /\ proactive' = FALSE /\ Compress("before")
    BY <1>1 DEF BeforeCall
  <2>2. Paired(history, cut)
    BY <2>1 DEF IInv, Current
  <2>3. proactive' \in BOOLEAN
    BY <2>1, Zenon
  <2> QED BY <2>1, <2>2, <2>3, CompressKeeps
<1>2. CASE AfterBatch
  <2>1. pc = "batch" /\ batch = {} /\ proactive' = proactive
    BY <1>2 DEF AfterBatch
  <2>2. Paired(history, cut)
    BY <2>1, BatchPaired
  <2>3. CASE Compress("after")
    <3>1. proactive' \in BOOLEAN
      BY <2>1, Zenon DEF IInv, Ranges
    <3> QED BY <2>1, <2>2, <2>3, <3>1, CompressKeeps
  <2>4. CASE /\ pc' = "compress"
             /\ UNCHANGED <<chain, history, ends, compression, failures, reactive, budget, pending, notes, counts, observed>>
    <3>1. /\ pc' = "compress"
          /\ UNCHANGED <<chain, history, low, high, working, mode, stage, failures, reactive, proactive, seen,
                         previews, batch, cut, notes, asked, tasks, shown, latest, since>>
      BY <2>1, <2>4 DEF pending, ends, compression, budget, counts, observed
    <3>2. Ranges'
      BY <3>1, Zenon DEF IInv, Ranges
    <3>3. Breaker' /\ Spoken' /\ Copy' /\ BatchOpen'
      BY <2>1, <3>1 DEF IInv, Breaker, Spoken, Copy, BatchOpen
    <3>4. Current'
      BY <2>2, <3>1 DEF IInv, Current
    <3> QED BY <3>2, <3>3, <3>4 DEF IInv
  <2> QED BY <1>2, <2>3, <2>4 DEF AfterBatch
<1> QED BY <1>1, <1>2

LEMMA Inductive == IInv /\ [Next]_vars => IInv'
<1> SUFFICES ASSUME IInv, [Next]_vars PROVE IInv'
  OBVIOUS
<1>1. CASE BeforeCall \/ AfterBatch
  BY <1>1, CompressionsKeep
<1>2. CASE Hooks
  BY <1>2, HooksKeep
<1>3. CASE Microcompact \/ Collapse \/ SessionMemory \/ Summarise
  BY <1>3, StagesKeep
<1>4. CASE StageFails \/ ChainEnds
  BY <1>4, EndsKeep
<1>5. CASE AsksTools
  BY <1>5, AsksToolsKeeps
<1>6. CASE AddsNote
  BY <1>6, AddsNoteKeeps
<1>7. CASE AnswersTask \/ Raises
  BY <1>7, OverKeeps
<1>8. CASE TooLong
  BY <1>8, TooLongKeeps
<1>9. CASE ToolAnswers
  BY <1>9, ToolAnswersKeeps
<1>10. CASE Suppress
  BY <1>10, SuppressKeeps
<1>11. CASE Restart
  BY <1>11, RestartKeeps
<1>12. CASE StopMatch
  BY <1>12, StopMatchKeeps
<1>13. CASE UNCHANGED vars
  <2>1. UNCHANGED <<chain, history, low, high, pc, working, mode, stage, failures, reactive, proactive, seen,
                    previews, batch, cut, notes, asked, tasks, shown, latest, since>>
    BY <1>13 DEF vars
  <2>2. Ranges'
    BY <2>1, Zenon DEF IInv, Ranges
  <2>3. Breaker' /\ Spoken' /\ Copy' /\ BatchOpen'
    BY <2>1 DEF IInv, Breaker, Spoken, Copy, Kept, BatchOpen, Open
  <2>4. Current'
    BY <2>1 DEF IInv, Current
  <2> QED BY <2>2, <2>3, <2>4 DEF IInv
<1> QED
  BY <1>1, <1>2, <1>3, <1>4, <1>5, <1>6, <1>7, <1>8, <1>9, <1>10, <1>11, <1>12, <1>13 DEF Next

-----------------------------------------------------------------------------
(* The last batch *)

Behind(h, c) == {q \in DOMAIN h : c < q}

Legible == {"full", "preview"}

\* The message at c called the tools of the last batch, some more if a stop
\* match has cut it short: no more comes after it
\* than their results and the instructions of hooks, and the results that are
\* there can be read.
TailFrom(h, c) ==
    /\ latest \subseteq h[c].calls
    /\ Cardinality(Behind(h, c)) <= Cardinality(latest \ batch) + since
    /\ \A id \in latest \ batch : \E p \in Tools(h) :
         c < p /\ h[p].id = id /\ h[p].text \in Legible

TailOf(h) == \E c \in DOMAIN h : TailFrom(h, c)

Fits == latest # {} /\ Cardinality(latest \ batch) + since <= Keep

LastBatch ==
    /\ pc # "batch" => batch = {}
    /\ Fits => TailOf(history) /\ (pc = "stage" => TailOf(working))

LEMMA OneMore ==
  ASSUME NEW S, IsFiniteSet(S), NEW x, NEW T, T \subseteq S \cup {x}
  PROVE  Cardinality(T) <= Cardinality(S) + 1 /\ Cardinality(T) \in Nat /\ Cardinality(S) \in Nat
<1> DEFINE U == S \cup {x}
<1>1. IsFiniteSet(U) /\ Cardinality(U) = IF x \in S THEN Cardinality(S) ELSE Cardinality(S) + 1
  BY FS_AddElement
<1>2. T \subseteq U
  OBVIOUS
<1> HIDE DEF U
<1>3. Cardinality(T) <= Cardinality(U) /\ IsFiniteSet(T)
  BY <1>1, <1>2, FS_Subset
<1>4. Cardinality(T) \in Nat /\ Cardinality(U) \in Nat /\ Cardinality(S) \in Nat
  BY <1>1, <1>3, FS_CardinalityType
<1> QED BY <1>1, <1>3, <1>4

\* A history that keeps the message at c and the legible results behind it.
LEMMA TailStays ==
  ASSUME NEW h, IsFiniteSet(DOMAIN h), NEW c \in DOMAIN h, TailFrom(h, c),
         NEW g, c \in DOMAIN g, g[c].calls = h[c].calls, Cardinality(latest \ batch) + since \in Nat,
         \A p \in DOMAIN g : c < p => p \in DOMAIN h,
         \A p \in Tools(h) : c < p /\ h[p].id \in latest /\ h[p].text \in Legible =>
           p \in Tools(g) /\ g[p].id = h[p].id /\ g[p].text \in Legible
  PROVE  TailOf(g)
<1>1. Behind(g, c) \subseteq Behind(h, c)
  BY DEF Behind
<1>2. IsFiniteSet(Behind(h, c))
  BY FS_Subset DEF Behind
<1>3. /\ Cardinality(Behind(g, c)) <= Cardinality(Behind(h, c))
      /\ Cardinality(Behind(g, c)) \in Nat /\ Cardinality(Behind(h, c)) \in Nat
  BY <1>1, <1>2, FS_Subset, FS_CardinalityType
<1>4. Cardinality(Behind(g, c)) <= Cardinality(latest \ batch) + since
  BY <1>3 DEF TailFrom
<1>5. \A id \in latest \ batch : \E p \in Tools(g) :
        c < p /\ g[p].id = id /\ g[p].text \in Legible
  BY DEF TailFrom
<1> QED BY <1>4, <1>5 DEF TailFrom, TailOf

LEMMA BatchCounted ==
  ASSUME IInv
  PROVE  /\ IsFiniteSet(latest) /\ IsFiniteSet(latest \ batch)
         /\ Cardinality(latest \ batch) \in Nat /\ Cardinality(latest) \in Nat /\ since \in Nat
         /\ Cardinality(latest \ batch) <= Cardinality(latest)
<1>1. latest \subseteq 1..asked /\ asked \in Nat /\ since \in Nat
  BY CompactionAssumption DEF IInv, Ranges
<1>2. IsFiniteSet(1..asked)
  BY <1>1, FS_Interval
<1>3. IsFiniteSet(latest)
  BY <1>1, <1>2, FS_Subset
<1>4. latest \ batch \subseteq latest
  OBVIOUS
<1> QED BY <1>1, <1>3, <1>4, FS_Subset, FS_CardinalityType

\* The results of a batch that fits are within the last Keep messages, and so
\* is the call.
LEMMA TailIsRecent ==
  ASSUME IInv, Fits, NEW h, Within(h, low, high), NEW c \in DOMAIN h, TailFrom(h, c)
  PROVE  /\ IsFiniteSet(DOMAIN h)
         /\ \A p \in DOMAIN h : c < p =>
              /\ IsFiniteSet(Behind(h, p)) /\ Cardinality(Behind(h, p)) \in Nat
              /\ Cardinality(Behind(h, p)) < Keep
              /\ p \in LastN(h, Keep)
<1>1. low \in Int /\ high \in Int /\ Keep \in Nat
  BY CompactionAssumption DEF IInv, Ranges
<1>2. IsFiniteSet(DOMAIN h)
  BY <1>1, FS_Interval, FS_Subset DEF Within
<1>3. \A p \in DOMAIN h : p \in Int
  BY DEF Within
<1>4. ASSUME NEW p \in DOMAIN h, c < p
      PROVE  /\ IsFiniteSet(Behind(h, p)) /\ Cardinality(Behind(h, p)) \in Nat
             /\ Cardinality(Behind(h, p)) < Keep
  <2>1. IsFiniteSet(Behind(h, c)) /\ IsFiniteSet(Behind(h, p))
    BY <1>2, FS_Subset DEF Behind
  <2>2. Behind(h, p) \subseteq Behind(h, c) /\ p \in Behind(h, c) /\ p \notin Behind(h, p)
    BY <1>3, <1>4 DEF Behind
  <2>3. Behind(h, p) # Behind(h, c)
    BY <2>2
  <2>4. Cardinality(Behind(h, p)) < Cardinality(Behind(h, c))
    BY <2>1, <2>2, <2>3, FS_Subset, FS_CardinalityType
  <2>5. Cardinality(Behind(h, p)) \in Nat /\ Cardinality(Behind(h, c)) \in Nat
    BY <2>1, FS_CardinalityType
  <2>6. Cardinality(Behind(h, c)) <= Keep
    BY <1>1, <2>5, BatchCounted DEF TailFrom, Fits
  <2> QED BY <1>1, <2>1, <2>4, <2>5, <2>6
<1>5. \A p \in DOMAIN h : Cardinality(Behind(h, p)) < Keep => p \in LastN(h, Keep)
  BY Zenon DEF LastN, Behind
<1> QED BY <1>2, <1>4, <1>5

LEMMA CountFits ==
  ASSUME IInv PROVE Cardinality(latest \ batch) + since \in Nat
BY BatchCounted

LEMMA TailMicro ==
  ASSUME IInv, Fits, NEW h, Within(h, low, high), Kept(h), TailOf(h),
         NEW compactable, compactable \subseteq Tools(h)
  PROVE  TailOf(Micro(h, compactable))
<1> DEFINE old == {p \in compactable : Cardinality({q \in compactable : p < q}) >= Keep}
           g == WithText(h, old, "cleared")
<1>1. PICK c \in DOMAIN h : TailFrom(h, c)
  BY DEF TailOf
<1>2. /\ IsFiniteSet(DOMAIN h)
      /\ \A p \in DOMAIN h : c < p =>
           /\ IsFiniteSet(Behind(h, p)) /\ Cardinality(Behind(h, p)) \in Nat
           /\ Cardinality(Behind(h, p)) < Keep
  BY <1>1, TailIsRecent
<1>3. ASSUME NEW p \in DOMAIN h, c < p PROVE p \notin old
  <2> DEFINE behind == {q \in compactable : p < q}
  <2>1. behind \subseteq Behind(h, p)
    BY DEF Behind, Tools
  <2>2. Cardinality(behind) <= Cardinality(Behind(h, p)) /\ Cardinality(behind) \in Nat
    BY <1>2, <1>3, <2>1, FS_Subset, FS_CardinalityType
  <2>3. Cardinality(behind) < Keep
    BY <1>2, <1>3, <2>2, CompactionAssumption
  <2>4. ~(Cardinality(behind) >= Keep)
    BY <2>2, <2>3, CompactionAssumption
  <2> QED BY <2>4
<1>4. Shaped(h, asked) /\ asked \in Nat
  BY DEF Kept, Good, IInv, Ranges
<1>5. Micro(h, compactable) = g
  BY Zenon DEF Micro
<1> HIDE DEF old
<1>6. Bones(g, h) /\ \A p \in DOMAIN h : g[p].text = IF p \in old THEN "cleared" ELSE h[p].text
  BY <1>4, TextIsSet DEF Texts
<1> HIDE DEF g
<1>7. Tools(g) = Tools(h) /\ Tools(h) \subseteq DOMAIN h
  BY <1>6 DEF Bones, Tools
<1>8. TailOf(g)
  BY <1>1, <1>2, <1>3, <1>6, <1>7, CountFits, TailStays DEF Bones
<1> QED BY <1>5, <1>8

\* What the recent part keeps of a batch that fits: the call and every result.
LEMMA TailInRecent ==
  ASSUME IInv, Fits, batch = {}, NEW h, Within(h, low, high), Kept(h), NEW c \in DOMAIN h, TailFrom(h, c)
  PROVE  /\ c \in DOMAIN Recent(h)
         /\ \A p \in Tools(h) : c < p /\ h[p].id \in latest => p \in DOMAIN Recent(h)
<1>1. /\ asked \in Nat /\ low \in Int /\ high \in Int /\ Shaped(h, asked) /\ Paired(h, cut)
  BY DEF IInv, Ranges, Kept, Good
<1>2. /\ DOMAIN Recent(h) \subseteq Newer(h) /\ Newer(h) \subseteq DOMAIN h
      /\ \A p \in Newer(h) : p \in DOMAIN Recent(h) <=>
           /\ h[p].calls # {} => Answered(h, p)
           /\ (h[p].role = "tool" => \E q \in Newer(h) : q < p /\ h[p].id \in h[q].calls)
  BY <1>1, RecentIs
<1>3. \A p \in DOMAIN h : c < p => p \in Newer(h)
  BY TailIsRecent, Zenon DEF Newer
<1>4. latest \subseteq h[c].calls /\ latest # {} /\ h[c].calls # {}
  BY DEF TailFrom, Fits
<1>10. Answered(h, c)
  <2>1. PICK id \in latest \ batch : TRUE
    BY <1>4
  <2>2. PICK p \in Tools(h) : h[p].id = id
    BY DEF TailFrom
  <2>3. p \in DOMAIN h /\ h[p].id \in h[c].calls
    BY <1>4, <2>2 DEF Tools
  <2> QED BY <1>1, <2>3, ResultAnswers
<1>5. PICK q \in DOMAIN h : Follows(h, c, q) /\ h[q].id \in h[c].calls
  BY <1>10, Zenon DEF Answered
<1>6. q \in Newer(h)
  BY <1>3, <1>5 DEF Follows
<1>7. c \in Newer(h)
  BY <1>1, <1>5, <1>6, NewerKeepsPairs
<1>8. h[c].role = "assistant"
  BY <1>1, <1>4 DEF Shaped
<1>9. c \in DOMAIN Recent(h)
  BY <1>2, <1>7, <1>8, <1>10
<1>11. \A p \in Tools(h) : p \in DOMAIN h /\ h[p].calls = {}
  BY <1>1 DEF Shaped, Tools
<1> QED BY <1>2, <1>3, <1>4, <1>7, <1>9, <1>11 DEF Tools

LEMMA TailRecent ==
  ASSUME IInv, Fits, batch = {}, NEW h, Within(h, low, high), Kept(h), TailOf(h)
  PROVE  TailOf(Recent(h))
<1>1. PICK c \in DOMAIN h : TailFrom(h, c)
  BY DEF TailOf
<1>2. /\ c \in DOMAIN Recent(h)
      /\ \A p \in Tools(h) : c < p /\ h[p].id \in latest => p \in DOMAIN Recent(h)
  BY <1>1, TailInRecent
<1>3. /\ asked \in Nat /\ low \in Int /\ high \in Int /\ Shaped(h, asked) /\ Paired(h, cut)
  BY DEF IInv, Ranges, Kept, Good
<1>4. DOMAIN Recent(h) \subseteq DOMAIN h /\ \A p \in DOMAIN Recent(h) : Recent(h)[p] = h[p]
  BY <1>3, RecentIs
<1>5. IsFiniteSet(DOMAIN h)
  BY <1>1, TailIsRecent
<1> DEFINE g == Recent(h)
<1> HIDE DEF g
<1>6. \A p \in Tools(h) : p \in DOMAIN g => p \in Tools(g)
  BY <1>4 DEF Tools, g
<1>7. TailOf(g)
  BY <1>1, <1>2, <1>4, <1>5, <1>6, CountFits, TailStays DEF g
<1> QED BY <1>7 DEF g

LEMMA TailCollapsed ==
  ASSUME IInv, Fits, batch = {}, NEW h, Within(h, low, high), Kept(h), TailOf(h)
  PROVE  TailOf(Collapsed(h))
<1> DEFINE older == DOMAIN h \ Newer(h)
           all == older \cup DOMAIN Recent(h)
           g == Only(h, all)
           long == {p \in older : h[p].text \in {"full", "preview"}}
           k == WithText(g, long, "collapsed")
<1>1. PICK c \in DOMAIN h : TailFrom(h, c)
  BY DEF TailOf
<1>2. /\ c \in DOMAIN Recent(h)
      /\ \A p \in Tools(h) : c < p /\ h[p].id \in latest => p \in DOMAIN Recent(h)
  BY <1>1, TailInRecent
<1>3. /\ asked \in Nat /\ low \in Int /\ high \in Int /\ Shaped(h, asked) /\ Paired(h, cut)
  BY DEF IInv, Ranges, Kept, Good
<1>4. DOMAIN Recent(h) \subseteq Newer(h) /\ Newer(h) \subseteq DOMAIN h
  BY <1>3, RecentIs
<1>5. IsFiniteSet(DOMAIN h)
  BY <1>1, TailIsRecent
<1>6. DOMAIN g = all /\ \A p \in all : g[p] = h[p]
  BY OnlyIs
<1>7. Collapsed(h) = k
  BY DEF Collapsed
<1>8. all \subseteq DOMAIN h /\ DOMAIN Recent(h) \subseteq all /\ \A p \in DOMAIN Recent(h) : p \notin long
  BY <1>4
<1> HIDE DEF older, all, g, long
<1>9. Shaped(g, asked)
  BY <1>3, <1>6, <1>8 DEF Shaped
<1>10. Bones(k, g) /\ \A p \in DOMAIN g : k[p].text = IF p \in long THEN "collapsed" ELSE g[p].text
  BY <1>3, <1>9, TextIsSet DEF Texts
<1> HIDE DEF k
<1>11. /\ DOMAIN k = all
       /\ \A p \in all : k[p].role = h[p].role /\ k[p].calls = h[p].calls /\ k[p].id = h[p].id
       /\ \A p \in all : p \notin long => k[p].text = h[p].text
  BY <1>6, <1>10 DEF Bones
<1>12. \A p \in Tools(h) : p \in all => p \in Tools(k)
  BY <1>11 DEF Tools
<1>13. TailOf(k)
  BY <1>1, <1>2, <1>5, <1>8, <1>11, <1>12, CountFits, TailStays
<1> QED BY <1>7, <1>13

LEMMA TailHeaded ==
  ASSUME IInv, Fits, NEW h, Within(h, low, high), TailOf(h), NEW n \in 1..2
  PROVE  TailOf(Headed(h, n))
<1>1. PICK c \in DOMAIN h : TailFrom(h, c)
  BY DEF TailOf
<1>2. low \in Int /\ high \in Int /\ low <= high + 1
  BY DEF IInv, Ranges
<1> DEFINE g == Headed(h, n)
<1>3. /\ Frames(g, h)
      /\ \A p \in DOMAIN g \ DOMAIN h, q \in DOMAIN h : p < q
  BY <1>2, HeadedIs
<1>4. IsFiniteSet(DOMAIN h)
  BY <1>1, TailIsRecent
<1>5. \A p \in DOMAIN h : p \in Int
  BY DEF Within
<1> HIDE DEF g
<1>6. DOMAIN h \subseteq DOMAIN g /\ \A p \in DOMAIN h : g[p] = h[p]
  BY <1>3 DEF Frames
<1>7. \A p \in DOMAIN g : c < p => p \in DOMAIN h
  BY <1>3, <1>5 DEF Frames
<1>8. \A p \in Tools(h) : p \in Tools(g) /\ g[p] = h[p]
  BY <1>6 DEF Tools
<1>9. TailOf(g)
  BY <1>1, <1>4, <1>6, <1>7, <1>8, CountFits, TailStays
<1> QED BY <1>9 DEF g

LEMMA TailSummarised ==
  ASSUME IInv, Fits, batch = {}, NEW h, Within(h, low, high), Kept(h), TailOf(h)
  PROVE  TailOf(Summarised(h))
<1>1. asked \in Nat /\ low \in Int /\ high \in Int
  BY DEF IInv, Ranges
<1>2. Within(Recent(h), low, high)
  BY <1>1, RecentKeeps, Zenon DEF Within
<1>3. TailOf(Recent(h))
  BY TailRecent
<1> QED BY <1>2, <1>3, TailHeaded DEF Summarised

LEMMA TailBudgeted ==
  ASSUME IInv, Fits, TailOf(history), NEW replaced
  PROVE  TailOf(Budgeted(history, replaced))
<1> DEFINE P == {p \in Tools(history) : history[p].id \in replaced /\ history[p].text \in {"full", "cleared"}}
           g == WithText(history, P, "preview")
<1>1. PICK c \in DOMAIN history : TailFrom(history, c)
  BY DEF TailOf
<1>2. Within(history, low, high) /\ Shaped(history, asked) /\ asked \in Nat
  BY DEF IInv, Ranges, Current, Good
<1>3. Budgeted(history, replaced) = g
  BY Zenon DEF Budgeted
<1> HIDE DEF P
<1>4. Bones(g, history) /\ \A p \in DOMAIN history : g[p].text = IF p \in P THEN "preview" ELSE history[p].text
  BY <1>2, TextIsSet DEF Texts
<1> HIDE DEF g
<1>5. Tools(g) = Tools(history) /\ Tools(history) \subseteq DOMAIN history
  BY <1>4 DEF Bones, Tools
<1>6. \A p \in DOMAIN history : history[p].text \in Legible => g[p].text \in Legible
  BY <1>4 DEF Legible
<1>7. IsFiniteSet(DOMAIN history)
  BY <1>1, <1>2, TailIsRecent
<1>8. TailOf(g)
  BY <1>1, <1>4, <1>5, <1>6, <1>7, CountFits, TailStays DEF Bones
<1> QED BY <1>3, <1>8

LEMMA TailRests ==
  ASSUME NEW g, TailOf(g), UNCHANGED <<latest, batch, since>>
  PROVE  (history' = g => TailOf(history)') /\ (working' = g => TailOf(working)')
<1>1. PICK c \in DOMAIN g : TailFrom(g, c)
  BY DEF TailOf
<1>2. /\ latest' \subseteq g[c].calls
      /\ Cardinality(Behind(g, c)) <= Cardinality(latest' \ batch') + since'
      /\ \A id \in latest' \ batch' : \E p \in Tools(g) :
           c < p /\ g[p].id = id /\ g[p].text \in Legible
  BY <1>1 DEF TailFrom
<1>3. ASSUME history' = g PROVE TailOf(history)'
  BY <1>2, <1>3 DEF TailOf, TailFrom, Behind, Tools
<1>4. ASSUME working' = g PROVE TailOf(working)'
  BY <1>2, <1>4 DEF TailOf, TailFrom, Behind, Tools
<1> QED BY <1>3, <1>4

LEMMA BatchForgotten ==
  ASSUME latest' = {}, pc' # "batch" => batch' = {}
  PROVE  LastBatch'
BY DEF LastBatch, Fits

LEMMA SettleKeepsTail ==
  ASSUME IInv, LastBatch, pc = "stage", NEW h, Fits => TailOf(h), NEW did \in BOOLEAN, Settle(h, did)
  PROVE  LastBatch'
<1>1. CASE mode = "reactive" /\ ~did
  <2>1. latest' = {} /\ batch' = {}
    BY <1>1 DEF Settle, Leaves
  <2> QED BY <2>1, BatchForgotten
<1>2. CASE ~(mode = "reactive" /\ ~did)
  <2>1. /\ history' = h /\ UNCHANGED <<latest, batch, since>>
        /\ pc' = CASE mode = "before" -> "call" [] mode = "after" -> "compress" [] OTHER -> "again"
    BY <1>2 DEF Settle, pending
  <2>2. pc' # "stage"
    BY <2>1
  <2>3. batch' = {} /\ Fits' = Fits
    BY <2>1 DEF LastBatch, Fits
  <2>4. ASSUME Fits PROVE TailOf(history)'
    BY <2>1, <2>4, TailRests
  <2> QED BY <2>2, <2>3, <2>4 DEF LastBatch
<1> QED BY <1>1, <1>2

LEMMA GoOnKeepsTail ==
  ASSUME IInv, LastBatch, pc = "stage", NEW h, Fits => TailOf(h), GoOn(h)
  PROVE  LastBatch'
<1>1. /\ working' = h
      /\ UNCHANGED <<history, pc, batch, latest, since>>
  BY DEF GoOn, pending, observed
<1>2. batch' = {} /\ Fits' = Fits
  BY <1>1 DEF LastBatch, Fits
<1>3. ASSUME Fits PROVE TailOf(history)' /\ TailOf(working)'
  BY <1>1, <1>3, TailRests DEF LastBatch
<1> QED BY <1>2, <1>3 DEF LastBatch

LEMMA CompressKeepsTail ==
  ASSUME IInv, LastBatch, NEW how \in {"before", "after"}, Compress(how), batch = {}
  PROVE  LastBatch'
<1> DEFINE g == Budgeted(history, previews')
<1>1. UNCHANGED <<batch, latest, since>>
  BY DEF Compress, pending, observed
<1>2. \/ working' = g /\ history' = history
      \/ history' = g /\ pc' # "stage"
  BY DEF Compress
<1>3. Fits => TailOf(g)
  BY TailBudgeted DEF LastBatch
<1> HIDE DEF g
<1>4. batch' = {} /\ Fits' = Fits
  BY <1>1 DEF Fits
<1>5. ASSUME Fits PROVE TailOf(history)' /\ (pc' = "stage" => TailOf(working)')
  <2>1. TailOf(history)
    BY <1>5 DEF LastBatch
  <2> QED BY <1>1, <1>2, <1>3, <1>5, <2>1, TailRests
<1> QED BY <1>4, <1>5 DEF LastBatch

\* A hook's instruction comes behind the results.
LEMMA HooksKeepTail ==
  ASSUME IInv, LastBatch, Hooks
  PROVE  LastBatch'
<1>1. pc = "stage"
  BY DEF Hooks
<1>2. CASE GoOn(working)
  BY <1>1, <1>2, GoOnKeepsTail DEF LastBatch
<1>3. CASE Settle(working, FALSE)
  BY <1>1, <1>3, SettleKeepsTail DEF LastBatch
<1>4. CASE /\ since' = since + 1
           /\ working' = Appended(working, Plain("user"))
           /\ UNCHANGED <<history, low, pc, mode, breaker, budget, pending, counts, shown, latest>>
  <2>1. batch' = {} /\ batch = {} /\ latest' = latest /\ history' = history
    BY <1>1, <1>4 DEF LastBatch, pending
  <2>2. since \in Nat /\ Cardinality(latest) \in Nat /\ Keep \in Nat
    BY BatchCounted, CompactionAssumption
  <2>3. Fits' => Fits
    BY <1>4, <2>1, <2>2 DEF Fits
  <2>4. ASSUME Fits PROVE TailOf(history)'
    <3>1. PICK c \in DOMAIN history : TailFrom(history, c)
      BY <2>4 DEF LastBatch, TailOf
    <3>2. Cardinality(Behind(history, c)) \in Nat
      <4>1. Within(history, low, high)
        BY DEF IInv, Current
      <4>2. IsFiniteSet(DOMAIN history)
        BY <2>4, <3>1, <4>1, TailIsRecent
      <4> QED BY <4>2, FS_Subset, FS_CardinalityType DEF Behind
    <3>3. Cardinality(latest \ batch) \in Nat
      BY BatchCounted
    <3>4. Cardinality(Behind(history, c)) <= Cardinality(latest \ batch) + since'
      BY <1>4, <2>2, <3>1, <3>2, <3>3 DEF TailFrom
    <3>5. TailFrom(history, c)'
      BY <2>1, <3>1, <3>4 DEF TailFrom, Behind, Tools
    <3> QED BY <2>1, <3>5 DEF TailOf
  <2>5. ASSUME Fits PROVE TailOf(working)'
    <3> DEFINE note == Plain("user")
               h == working
               g == Appended(h, note)
    <3> HIDE DEF note
    <3>1. PICK c \in DOMAIN h : TailFrom(h, c)
      BY <1>1, <2>5 DEF LastBatch, TailOf
    <3>2. Within(h, low, high) /\ low \in Int /\ high \in Int /\ low <= high + 1
      BY <1>1, AtStage
    <3>3. IsFiniteSet(Behind(h, c)) /\ Cardinality(Behind(h, c)) \in Nat
      <4>1. IsFiniteSet(DOMAIN h)
        BY <2>5, <3>1, <3>2, TailIsRecent
      <4> QED BY <4>1, FS_Subset, FS_CardinalityType DEF Behind
    <3>4. /\ DOMAIN g = DOMAIN h \cup {high + 1}
          /\ \A p \in DOMAIN h : g[p] = h[p]
      BY <3>2, AppendedIs
    <3>5. working' = g
      BY <1>4 DEF note
    <3> HIDE DEF g, h
    <3>6. Behind(g, c) \subseteq Behind(h, c) \cup {high + 1}
      BY <3>4 DEF Behind
    <3>7. Cardinality(Behind(g, c)) <= Cardinality(Behind(h, c)) + 1 /\ Cardinality(Behind(g, c)) \in Nat
      BY <3>3, <3>6, OneMore
    <3>8. Cardinality(latest \ batch) \in Nat
      BY BatchCounted
    <3>9. Cardinality(Behind(g, c)) <= Cardinality(latest \ batch) + since'
      BY <1>4, <2>2, <3>1, <3>3, <3>7, <3>8 DEF TailFrom
    <3>10. \A p \in Tools(h) : p \in Tools(g) /\ g[p] = h[p]
      BY <3>4 DEF Tools
    <3>11. /\ c \in DOMAIN g /\ latest \subseteq g[c].calls
           /\ \A id \in latest \ batch : \E p \in Tools(g) : c < p /\ g[p].id = id /\ g[p].text \in Legible
      BY <3>1, <3>4, <3>10 DEF TailFrom
    <3>12. /\ c \in DOMAIN working' /\ latest' \subseteq working'[c].calls
           /\ Cardinality(Behind(working', c)) <= Cardinality(latest' \ batch') + since'
           /\ \A id \in latest' \ batch' : \E p \in Tools(working') :
                c < p /\ working'[p].id = id /\ working'[p].text \in Legible
      BY <1>4, <2>1, <3>5, <3>9, <3>11
    <3> QED BY <3>12 DEF TailOf, TailFrom, Behind, Tools
  <2> QED BY <2>1, <2>3, <2>4, <2>5 DEF LastBatch
<1> QED BY <1>2, <1>3, <1>4 DEF Hooks

LEMMA StagesKeepTail ==
  ASSUME IInv, LastBatch, Microcompact \/ Collapse \/ SessionMemory \/ Summarise \/ StageFails \/ ChainEnds
  PROVE  LastBatch'
<1>1. pc = "stage"
  BY DEF Microcompact, Collapse, SessionMemory, Summarise, Stage, StageFails, ChainEnds
<1>2. Kept(working) /\ Within(working, low, high) /\ asked \in Nat
  BY <1>1, AtStage
<1>3. (Fits => TailOf(working)) /\ batch = {}
  BY <1>1 DEF LastBatch
<1>4. ASSUME NEW compactable \in SUBSET Tools(working)
      PROVE  LET h == Micro(working, compactable)
             IN  Kept(h) /\ Within(h, low, high) /\ (Fits => TailOf(h))
  <2> DEFINE h == Micro(working, compactable)
  <2>1. Kept(h) /\ DOMAIN h = DOMAIN working
    BY <1>2, MicroKeeps
  <2>2. Fits => TailOf(h)
    BY <1>2, <1>3, TailMicro
  <2> HIDE DEF h
  <2>3. Within(h, low, high)
    BY <1>2, <2>1 DEF Within
  <2> QED BY <2>1, <2>2, <2>3 DEF h
<1>5. CASE Microcompact
  <2>1. PICK compactable \in SUBSET Tools(working) :
          GoOn(Micro(working, compactable)) \/ Compacted(Micro(working, compactable))
    BY <1>5 DEF Microcompact
  <2> QED BY <1>1, <1>4, <2>1, GoOnKeepsTail, SettleKeepsTail DEF Compacted
<1>6. CASE Collapse
  <2>1. GoOn(working) \/ GoOn(Collapsed(working)) \/ Compacted(Collapsed(working))
    BY <1>6 DEF Collapse
  <2>2. Fits => TailOf(Collapsed(working))
    BY <1>2, <1>3, TailCollapsed
  <2> QED BY <1>1, <1>3, <2>1, <2>2, GoOnKeepsTail, SettleKeepsTail DEF Compacted
<1>7. CASE SessionMemory
  <2>1. GoOn(working) \/ Compacted(Summarised(working))
    BY <1>7 DEF SessionMemory
  <2>2. Fits => TailOf(Summarised(working))
    BY <1>2, <1>3, TailSummarised
  <2> QED BY <1>1, <1>3, <2>1, <2>2, GoOnKeepsTail, SettleKeepsTail DEF Compacted
<1>8. CASE Summarise
  <2>1. CASE Compacted(Headed(working, 1))
    <3>1. Fits => TailOf(Headed(working, 1))
      BY <1>2, <1>3, TailHeaded
    <3> QED BY <1>1, <2>1, <3>1, SettleKeepsTail DEF Compacted
  <2>2. ASSUME NEW compactable \in SUBSET Tools(working), Compacted(Summarised(Micro(working, compactable)))
        PROVE  LastBatch'
    <3>1. Fits => TailOf(Summarised(Micro(working, compactable)))
      BY <1>3, <1>4, TailSummarised
    <3> QED BY <1>1, <2>2, <3>1, SettleKeepsTail DEF Compacted
  <2> QED BY <1>8, <2>1, <2>2 DEF Summarise
<1>9. CASE StageFails \/ ChainEnds
  <2>1. Settle(working, FALSE)
    BY <1>9 DEF StageFails, ChainEnds
  <2> QED BY <1>1, <1>3, <2>1, SettleKeepsTail
<1> QED BY <1>5, <1>6, <1>7, <1>8, <1>9

\* The call of a new batch is the last message, and none of its results is in.
LEMMA AsksToolsKeepsTail ==
  ASSUME IInv, AsksTools
  PROVE  LastBatch'
<1>0. PICK top : top = high + 1
  OBVIOUS
<1> DEFINE m == Message("assistant", batch', 0, "none")
<1>1. pc' = "batch" /\ history' = Appended(history, m) /\ latest' = batch' /\ since' = 0
  BY DEF AsksTools
<1>2. m.calls = batch'
  BY DEF Message
<1> HIDE DEF m
<1>3. Extends(history', history, top) /\ history'[top] = m
  BY <1>0, <1>1, HistoryExtends
<1>4. \A p \in DOMAIN history' : ~(top < p)
  BY <1>3 DEF Extends
<1>5. Behind(history', top) = {}
  BY <1>4 DEF Behind
<1>6. latest' \ batch' = {} /\ Cardinality({}) = 0
  BY <1>1, FS_EmptySet
<1>7. TailFrom(history, top)'
  <2>1. Cardinality(Behind(history', top)) <= Cardinality(latest' \ batch') + since'
    BY <1>1, <1>5, <1>6
  <2> QED BY <1>1, <1>2, <1>3, <1>6, <2>1 DEF TailFrom, Behind
<1>8. top \in DOMAIN history'
  BY <1>3 DEF Extends
<1>9. TailOf(history)'
  BY <1>7, <1>8 DEF TailOf
<1> QED BY <1>1, <1>9 DEF LastBatch

\* One result more, of one call that waits no longer.
LEMMA ToolAnswersKeepsTail ==
  ASSUME IInv, LastBatch, ToolAnswers
  PROVE  LastBatch'
<1>0. PICK top : top = high + 1
  OBVIOUS
<1>1. PICK id \in batch, text \in {"full", "preview"} :
        /\ batch' = batch \ {id}
        /\ history' = Appended(history, Message("tool", {}, id, text))
  BY DEF ToolAnswers
<1>2. /\ pc = "batch" /\ pc' = pc /\ latest' = latest /\ since' = since
  BY DEF ToolAnswers, observed
<1> DEFINE m == Message("tool", {}, id, text)
<1>3. m.role = "tool" /\ m.id = id /\ m.text \in Legible
  BY DEF Message, Legible
<1> HIDE DEF m
<1>4. Extends(history', history, top) /\ history'[top] = m
  <2>1. history' = Appended(history, m)
    BY <1>1 DEF m
  <2> QED BY <1>0, <2>1, HistoryExtends
<1>5. batch \subseteq latest
  BY <1>1, <1>2 DEF IInv, BatchOpen
<1>13. latest' \ batch' = (latest \ batch) \cup {id} /\ id \notin latest \ batch
  BY <1>1, <1>2, <1>5
<1>14. Cardinality(latest' \ batch') = Cardinality(latest \ batch) + 1
  BY <1>13, BatchCounted, FS_AddElement
<1>21. Fits' => Fits
  <2>1. Cardinality(latest \ batch) \in Nat /\ since \in Nat /\ Keep \in Nat
    BY BatchCounted, CompactionAssumption
  <2> QED BY <1>2, <1>14, <2>1 DEF Fits
<1>6. SUFFICES ASSUME Fits PROVE TailOf(history)'
  BY <1>2, <1>21 DEF LastBatch
<1>7. PICK c \in DOMAIN history : TailFrom(history, c)
  BY <1>6 DEF LastBatch, TailOf
<1>8. Within(history, low, high)
  BY DEF IInv, Current
<1>9. IsFiniteSet(Behind(history, c)) /\ Cardinality(Behind(history, c)) \in Nat
  <2>1. IsFiniteSet(DOMAIN history)
    BY <1>6, <1>7, <1>8, TailIsRecent
  <2> QED BY <2>1, FS_Subset, FS_CardinalityType DEF Behind
<1>10. Behind(history', c) \subseteq Behind(history, c) \cup {top}
  BY <1>4 DEF Behind, Extends
<1>11. Cardinality(Behind(history', c)) <= Cardinality(Behind(history, c)) + 1
  BY <1>9, <1>10, OneMore
<1>12. Cardinality(Behind(history', c)) \in Nat
  BY <1>9, <1>10, OneMore
<1>15. Cardinality(Behind(history', c)) <= Cardinality(latest' \ batch') + since'
  <2>1. since \in Nat /\ Cardinality(latest \ batch) \in Nat
    BY BatchCounted
  <2> QED BY <1>2, <1>7, <1>9, <1>11, <1>12, <1>14, <2>1 DEF TailFrom
<1>16. c \in DOMAIN history' /\ history'[c] = history[c] /\ c < top /\ top \in Tools(history')
  BY <1>3, <1>4 DEF Extends, Tools
<1>17. \A p \in Tools(history) : p \in Tools(history') /\ history'[p] = history[p]
  BY <1>4 DEF Extends, Tools
<1>18. ASSUME NEW i \in latest' \ batch'
       PROVE  \E p \in Tools(history') : c < p /\ history'[p].id = i /\ history'[p].text \in Legible
  <2>1. CASE i = id
    BY <1>3, <1>4, <1>16, <2>1
  <2>2. CASE i # id
    BY <1>7, <1>13, <1>17, <2>2 DEF TailFrom
  <2> QED BY <2>1, <2>2
<1>19. latest' \subseteq history'[c].calls
  BY <1>2, <1>7, <1>16 DEF TailFrom
<1>20. TailFrom(history, c)'
  BY <1>15, <1>18, <1>19 DEF TailFrom, Behind, Tools
<1> QED BY <1>16, <1>20 DEF TailOf

\* A batch that is cut short has the results it has, unless a note follows.
LEMMA StopMatchKeepsTail ==
  ASSUME IInv, LastBatch, StopMatch
  PROVE  LastBatch'
<1>1. batch' = {} /\ pc' = "compress"
  BY DEF StopMatch
<1>2. CASE latest' = {}
  BY <1>1, <1>2, BatchForgotten
<1>3. CASE latest' = latest \ batch /\ UNCHANGED <<history, since>>
  <2>2. Fits' => Fits
    <3>1. since' = since
      BY <1>3
    <3>2. latest' # {} => latest # {}
      BY <1>3
    <3>3. latest' \ batch' = latest \ batch
      BY <1>1, <1>3
    <3> QED BY <3>1, <3>2, <3>3 DEF Fits
  <2>3. latest' \ batch' = latest \ batch /\ latest' \subseteq latest
    BY <1>1, <1>3
  <2>4. ASSUME Fits PROVE TailOf(history)'
    <3>1. PICK c \in DOMAIN history : TailFrom(history, c)
      BY <2>4 DEF LastBatch, TailOf
    <3>2. TailFrom(history, c)'
      BY <1>3, <2>3, <3>1 DEF TailFrom, Behind, Tools
    <3> QED BY <1>3, <3>2 DEF TailOf
  <2> QED BY <1>1, <2>2, <2>4 DEF LastBatch
<1> QED BY <1>2, <1>3 DEF StopMatch

LEMMA TailInductive == IInv /\ LastBatch /\ [Next]_vars => LastBatch'
<1> SUFFICES ASSUME IInv, LastBatch, [Next]_vars PROVE LastBatch'
  OBVIOUS
<1>1. CASE BeforeCall
  <2>1. Compress("before") /\ batch = {}
    BY <1>1 DEF BeforeCall, LastBatch
  <2> QED BY <2>1, CompressKeepsTail
<1>2. CASE AfterBatch
  <2>1. CASE Compress("after")
    <3>1. batch = {}
      BY <1>2 DEF AfterBatch
    <3> QED BY <2>1, <3>1, CompressKeepsTail
  <2>2. CASE pc' = "compress" /\ UNCHANGED <<history, pending, observed>>
    <3>1. batch = {} /\ UNCHANGED <<history, batch, latest, since>>
      BY <1>2, <2>2 DEF AfterBatch, pending, observed
    <3>2. batch' = {} /\ Fits' = Fits
      BY <3>1 DEF Fits
    <3>3. ASSUME Fits PROVE TailOf(history)'
      BY <3>1, <3>3, TailRests DEF LastBatch
    <3> QED BY <2>2, <3>2, <3>3 DEF LastBatch
  <2> QED BY <1>2, <2>1, <2>2 DEF AfterBatch
<1>3. CASE Hooks
  BY <1>3, HooksKeepTail
<1>4. CASE Microcompact \/ Collapse \/ SessionMemory \/ Summarise \/ StageFails \/ ChainEnds
  BY <1>4, StagesKeepTail
<1>5. CASE AsksTools
  BY <1>5, AsksToolsKeepsTail
<1>6. CASE AddsNote
  <2>1. latest' = {} /\ batch' = {}
    BY <1>6 DEF AddsNote, pending, LastBatch
  <2> QED BY <2>1, BatchForgotten
<1>7. CASE AnswersTask \/ Raises
  <2>1. latest' = {} /\ batch' = {}
    BY <1>7 DEF AnswersTask, Raises, Leaves
  <2> QED BY <2>1, BatchForgotten
<1>8. CASE TooLong
  <2>1. /\ working' = history /\ history' = history /\ batch = {}
        /\ UNCHANGED <<batch, latest, since>>
    BY <1>8 DEF TooLong, pending, observed, LastBatch
  <2>2. batch' = {} /\ Fits' = Fits
    BY <2>1 DEF Fits
  <2>3. ASSUME Fits PROVE TailOf(history)' /\ TailOf(working)'
    BY <2>1, <2>3, TailRests DEF LastBatch
  <2> QED BY <2>2, <2>3 DEF LastBatch
<1>9. CASE ToolAnswers
  BY <1>9, ToolAnswersKeepsTail
<1>10. CASE Suppress
  <2>1. latest' = {} /\ batch' = {}
    BY <1>10 DEF Suppress
  <2> QED BY <2>1, BatchForgotten
<1>11. CASE Restart
  <2>1. pc = "over" /\ pc' = "compress" /\ UNCHANGED <<history, batch, latest, since>>
    BY <1>11 DEF Restart, pending, observed
  <2>2. batch' = {} /\ Fits' = Fits
    BY <2>1 DEF LastBatch, Fits
  <2>3. ASSUME Fits PROVE TailOf(history)'
    BY <2>1, <2>3, TailRests DEF LastBatch
  <2> QED BY <2>1, <2>2, <2>3 DEF LastBatch
<1>12. CASE StopMatch
  BY <1>12, StopMatchKeepsTail
<1>13. CASE UNCHANGED vars
  <2>1. UNCHANGED <<history, working, pc, batch, latest, since>>
    BY <1>13 DEF vars, pending
  <2>2. Fits' = Fits /\ pc' = pc /\ batch' = batch
    BY <2>1 DEF Fits
  <2>3. ASSUME Fits PROVE TailOf(history)' /\ (pc = "stage" => TailOf(working)')
    BY <2>1, <2>3, TailRests DEF LastBatch
  <2> QED BY <2>2, <2>3 DEF LastBatch
<1> QED
  BY <1>1, <1>2, <1>3, <1>4, <1>5, <1>6, <1>7, <1>8, <1>9, <1>10, <1>11, <1>12, <1>13 DEF Next

-----------------------------------------------------------------------------
(* The theorems *)

LEMMA Invariant == Spec => []IInv
BY Initially, Inductive, PTL DEF Spec

\* A history holds well-formed messages between its bounds whatever is put in
\* front of it, and the breaker lets at most MaxFailures compressions fail,
\* with one more for the forced one (compression/runner.py, hybrid_agent.py).
THEOREM TypeCorrect == Spec => []TypeOK
BY Invariant, InvariantIsTyped, PTL

\* Whatever the chain of compressors drops, clears and collapses, every result
\* that the model is sent comes after its call, only results in between
\* (split_preserving_tool_pairs, sanitize_messages_for_compaction).
THEOREM ResultsStayBehindCalls == Spec => []ResultsFollowCalls
<1>1. IInv => ResultsFollowCalls
  BY DEF IInv, Current, Paired, Follow, ResultsFollowCalls, Sent
<1> QED BY <1>1, Invariant, PTL

\* No assistant message that calls tools is sent without a result behind it,
\* unless its first result has matched a stop condition in a task that went on
\* (hybrid_agent.py, _execute_tool_batch): no compressor leaves a call alone.
THEOREM CallsKeepResult == Spec => []CallsHaveResult
<1>1. IInv => CallsHaveResult
  BY DEF IInv, Current, Paired, Torn, Answered, CallsHaveResult, Sent
<1> QED BY <1>1, Invariant, PTL

\* The budget, which is applied to every history anew, never turns into a
\* preview what the model has been sent in full, although compressions clear
\* and drop results in between (tool_budget.py: seen_ids and replacements).
THEOREM FullStaysFull == Spec => []ShownStays
<1>1. IInv => ShownStays
  BY DEF IInv, Current, Good, Spared, ShownStays, Sent
<1> QED BY <1>1, Invariant, PTL

\* The results of the last batch, as long as the instructions of hooks behind
\* them leave them among the last preserve_recent messages, reach the model
\* whole or as a preview, whichever compressors the chain has and however often
\* they run (compressors/*.py, split_preserving_tool_pairs).
THEOREM LatestReaches == Spec => []LatestShown
<1>1. Init => LastBatch
  BY DEF Init, LastBatch, Fits
<1>2. IInv /\ LastBatch => LatestShown
  <2> SUFFICES ASSUME IInv, LastBatch, Sent, Cardinality(latest) + since <= Keep, NEW id \in latest
               PROVE  \E p \in Tools(history) :
                        history[p].id = id /\ history[p].text \in {"full", "preview"}
    BY DEF LatestShown
  <2>1. batch = {} /\ Fits
    BY DEF LastBatch, Fits, Sent
  <2>2. PICK c \in DOMAIN history : TailFrom(history, c)
    BY <2>1 DEF LastBatch, TailOf
  <2> QED BY <2>1, <2>2 DEF TailFrom, Legible
<1> QED BY <1>1, <1>2, Invariant, TailInductive, PTL DEF Spec
=============================================================================
