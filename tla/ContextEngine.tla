--------------------------- MODULE ContextEngine ---------------------------
(***************************************************************************)
(* The conversation of one session in the context engine: a list in Redis  *)
(* with a list in memory to fall back on, the permanent log beside them,   *)
(* the session's record, and compression, which reads a page of the        *)
(* history and puts what it keeps in the place of all of it.  Nothing is   *)
(* locked: every call to Redis, to the permanent backend or to the model   *)
(* is an await at which the other callers run, and any call to Redis may   *)
(* fail.                                                                   *)
(***************************************************************************)
EXTENDS Naturals, Sequences, FiniteSets

CONSTANTS
    Callers,        \* tasks that use the engine
    MaxMessages,    \* bound: messages added in a run
    MaxCalls,       \* bound: other operations begun in a run
    Limit,          \* conversation_limit
    Page,           \* default limit of get_conversation_history
    Keep,           \* keep_recent of the compression
    MaxOutages      \* bound: calls to Redis that fail

ASSUME EngineAssumption ==
    /\ IsFiniteSet(Callers)
    /\ MaxMessages \in Nat /\ MaxCalls \in Nat /\ MaxOutages \in Nat
    /\ Limit \in Nat \ {0} /\ Page \in Nat \ {0} /\ Keep \in Nat \ {0}

VARIABLES
    usesRedis,  \* a Redis client was given
    redis,      \* conversation:<id>, head first
    memory,     \* _memory_conversations[<id>]
    record,     \* status of the session in Redis and in memory
    logged,     \* how often the permanent backend holds each message
    call,       \* each caller's operation, with what it holds across awaits
    sent,       \* adds begun
    calls,      \* other operations begun
    outages,
    done,       \* messages whose add has returned
    before,     \* for each message, those done when its add began
    unlogged,   \* messages the permanent backend refused
    intact      \* no history has been replaced yet

vars == <<usesRedis, redis, memory, record, logged, call, sent, calls, outages,
          done, before, unlogged, intact>>
lists == <<redis, memory, intact>>
counts == <<sent, calls, before>>

Messages == 1..MaxMessages

(* at: what the caller awaits; of: the message it adds (0: none); copy: what *)
(* its compression has read, then what it keeps; filled: how much of that is *)
(* back in Redis; seen: the status it is about to store.                     *)
CallOf(at, m) == [at |-> at, of |-> m, copy |-> <<>>, filled |-> 0, seen |-> "none"]
Idle == CallOf("idle", 0)
Summary == 0
Statuses == {"none", "active", "ended"}

LastN(s, n) == IF Len(s) <= n THEN s ELSE SubSeq(s, Len(s) - n + 1, Len(s))
Reversed(s) == [i \in 1..Len(s) |-> s[Len(s) + 1 - i]]
Elements(s) == {s[i] : i \in 1..Len(s)}

(* A page of the history as each store gives it. *)
RedisPage == Reversed(LastN(redis, Page))
MemoryPage == LastN(memory, Page)

Init ==
    /\ usesRedis \in BOOLEAN
    /\ redis = <<>> /\ memory = <<>> /\ intact = TRUE
    /\ record = [redis |-> "none", memory |-> "none"]
    /\ logged = [m \in Messages |-> 0]
    /\ call = [c \in Callers |-> Idle]
    /\ sent = 0 /\ calls = 0 /\ outages = 0 /\ done = {} /\ unlogged = {}
    /\ before = [m \in Messages |-> {}]

At(c, where) == call[c].at = where
Goto(c, where) == call' = [call EXCEPT ![c].at = where] /\ UNCHANGED done

Return(c) ==
    /\ call' = [call EXCEPT ![c] = Idle]
    /\ done' = IF call[c].of = 0 THEN done ELSE done \cup {call[c].of}

(* An operation other than an add begins. *)
Begins(c) ==
    /\ At(c, "idle") /\ calls < MaxCalls
    /\ calls' = calls + 1
    /\ UNCHANGED <<logged, sent, before, unlogged>>

(* A call to Redis goes through, or raises. *)
Answers == usesRedis /\ UNCHANGED <<usesRedis, outages>>
Fails ==
    /\ usesRedis /\ outages < MaxOutages
    /\ outages' = outages + 1
    /\ UNCHANGED usesRedis
Local == ~usesRedis /\ UNCHANGED <<usesRedis, outages>>

-----------------------------------------------------------------------------
(* Adding a message *)

BeginAdd(c) ==
    /\ At(c, "idle") /\ sent < MaxMessages
    /\ sent' = sent + 1
    /\ before' = [before EXCEPT ![sent + 1] = done]
    /\ call' = [call EXCEPT ![c] = CallOf("push", sent + 1)]
    /\ UNCHANGED <<usesRedis, lists, record, logged, calls, outages, done, unlogged>>

\* mutant: rpush, as the refill of a compression does
PushBehind(c) ==
    /\ At(c, "push") /\ Answers
    /\ redis' = Append(redis, call[c].of)
    /\ Goto(c, "trim")
    /\ UNCHANGED <<memory, intact, record, logged, counts, unlogged>>

Push(c) ==
    /\ At(c, "push") /\ Answers
    /\ redis' = <<call[c].of>> \o redis
    /\ Goto(c, "trim")
    /\ UNCHANGED <<memory, intact, record, logged, counts, unlogged>>

\* mutant: one message more than the limit stays
TrimLoose(c) ==
    /\ At(c, "trim") /\ Answers
    /\ redis' = LastN(redis, Limit + 1)
    /\ Goto(c, "expire")
    /\ UNCHANGED <<memory, intact, record, logged, counts, unlogged>>

Trim(c) ==
    /\ At(c, "trim") /\ Answers
    /\ redis' = LastN(redis, Limit)
    /\ Goto(c, "expire")
    /\ UNCHANGED <<memory, intact, record, logged, counts, unlogged>>

Expire(c) ==
    /\ At(c, "expire") /\ Answers
    /\ Goto(c, "log")
    /\ UNCHANGED <<lists, record, logged, counts, unlogged>>

\* mutant: the list in memory is made anew for every message
StoreAlone(c) ==
    /\ \/ At(c, "push") /\ (Local \/ Fails)
       \/ (At(c, "trim") \/ At(c, "expire")) /\ Fails
    /\ memory' = <<call[c].of>>
    /\ Goto(c, "log")
    /\ UNCHANGED <<redis, intact, record, logged, counts, unlogged>>

(* Without Redis, or after a call to it has raised, the message goes into    *)
(* memory, also when it has reached Redis already.                           *)
StoreInMemory(c) ==
    /\ \/ At(c, "push") /\ (Local \/ Fails)
       \/ (At(c, "trim") \/ At(c, "expire")) /\ Fails
    /\ memory' = LastN(Append(memory, call[c].of), Limit)
    /\ Goto(c, "log")
    /\ UNCHANGED <<redis, intact, record, logged, counts, unlogged>>

(* Without Redis the record is refreshed in the same breath. *)
AfterLog(c) == IF usesRedis THEN Goto(c, "look") ELSE Return(c)

\* mutant: an append that fails raises into the handler, which appends again
LogAgain(c) ==
    /\ At(c, "log")
    /\ \/ /\ logged' = [logged EXCEPT ![call[c].of] = @ + 1]
          /\ AfterLog(c)
          /\ UNCHANGED unlogged
       \/ call[c].of \notin unlogged /\ unlogged' = unlogged \cup {call[c].of} /\ Goto(c, "log") /\ UNCHANGED logged
    /\ UNCHANGED <<usesRedis, lists, record, counts, outages>>

Log(c) ==
    /\ At(c, "log")
    /\ \/ logged' = [logged EXCEPT ![call[c].of] = @ + 1] /\ UNCHANGED unlogged
       \/ unlogged' = unlogged \cup {call[c].of} /\ UNCHANGED logged
    /\ AfterLog(c)
    /\ UNCHANGED <<usesRedis, lists, record, counts, outages>>

-----------------------------------------------------------------------------
(* The session's record *)

Store(c, status) ==
    /\ call' = [call EXCEPT ![c].at = "write", ![c].seen = status]
    /\ UNCHANGED done

BeginCreate(c) ==
    /\ Begins(c)
    /\ \/ usesRedis /\ Store(c, "active") /\ UNCHANGED record
       \/ ~usesRedis /\ record' = [record EXCEPT !.memory = "active"] /\ UNCHANGED <<call, done>>
    /\ UNCHANGED <<usesRedis, lists, outages>>

BeginEnd(c) ==
    /\ Begins(c)
    /\ \/ usesRedis /\ Goto(c, "look") /\ UNCHANGED record
       \/ /\ ~usesRedis /\ record.memory # "none"
          /\ record' = [record EXCEPT !.memory = "ended"]
          /\ UNCHANGED <<call, done>>
    /\ UNCHANGED <<usesRedis, lists, outages>>

(* An add writes back the status it has read, an end writes its own. *)
NextStatus(c, status) == IF call[c].of = 0 THEN "ended" ELSE status

Found(c, status) ==
    IF status = "none"
    THEN Return(c)
    ELSE Store(c, NextStatus(c, status))

Look(c) ==
    /\ At(c, "look")
    /\ \/ Answers /\ Found(c, IF record.redis # "none" THEN record.redis ELSE record.memory)
       \/ Fails /\ Found(c, record.memory)
    /\ UNCHANGED <<lists, record, logged, counts, unlogged>>


Write(c) ==
    /\ At(c, "write")
    /\ \/ Answers /\ record' = [record EXCEPT !.redis = call[c].seen] /\ Goto(c, "renew")
       \/ Fails /\ record' = [record EXCEPT !.memory = call[c].seen] /\ Return(c)
    /\ UNCHANGED <<lists, logged, counts, unlogged>>

Renew(c) ==
    /\ At(c, "renew")
    /\ \/ Answers /\ UNCHANGED record
       \/ Fails /\ record' = [record EXCEPT !.memory = call[c].seen]
    /\ Return(c)
    /\ UNCHANGED <<lists, logged, counts, unlogged>>

(* cleanup_expired_sessions: what was idle when the records were read goes,  *)
(* record first; without Redis all of it at once.                            *)
BeginCleanup(c) ==
    /\ Begins(c)
    /\ \/ /\ Answers /\ record.redis # "none"
          /\ Goto(c, "purge")
          /\ UNCHANGED <<lists, record>>
       \/ /\ Local /\ record.memory # "none"
          /\ record' = [record EXCEPT !.memory = "none"]
          /\ memory' = <<>> /\ intact' = FALSE
          /\ UNCHANGED <<redis, call, done>>

Purge(c) ==
    /\ At(c, "purge")
    /\ \/ Answers /\ record' = [record EXCEPT !.redis = "none"] /\ Goto(c, "wipe")
       \/ Fails /\ Return(c) /\ UNCHANGED record
    /\ UNCHANGED <<lists, logged, counts, unlogged>>

Wipe(c) ==
    /\ At(c, "wipe")
    /\ \/ Answers /\ redis' = <<>> /\ intact' = FALSE
       \/ Fails /\ UNCHANGED <<redis, intact>>
    /\ Return(c)
    /\ UNCHANGED <<memory, record, logged, counts, unlogged>>

-----------------------------------------------------------------------------
(* Compression *)

BeginCompress(c) ==
    /\ Begins(c)
    /\ Goto(c, "read")
    /\ UNCHANGED <<usesRedis, lists, record, outages>>

Carry(c, where, messages) ==
    /\ call' = [call EXCEPT ![c].at = where, ![c].copy = messages]
    /\ UNCHANGED <<done, memory, intact>>

(* With Redis the kept messages go through a delete and a push for each;     *)
(* without it they take the list's place at once.                            *)
Replace(c, kept) ==
    IF usesRedis
    THEN Carry(c, "delete", kept)
    ELSE memory' = kept /\ intact' = FALSE /\ Return(c)

(* Truncation keeps the last messages of the page.  The strategies that ask  *)
(* a model do so only when there are more than that.                         *)
Compress(c, page) ==
    IF page = <<>>
    THEN Return(c) /\ UNCHANGED <<memory, intact>>
    ELSE \/ Replace(c, LastN(page, Keep))
         \/ Len(page) > Keep /\ Carry(c, "model", page)

Read(c) ==
    /\ At(c, "read")
    /\ \/ Answers /\ Compress(c, RedisPage)
       \/ (Fails \/ Local) /\ Compress(c, MemoryPage)
    /\ UNCHANGED <<redis, record, logged, counts, unlogged>>

(* A summary stands before the kept messages, or is left out of the history  *)
(* (as are the similar messages of the semantic strategy).                   *)
Model(c) ==
    /\ At(c, "model")
    /\ \/ Replace(c, <<Summary>> \o LastN(call[c].copy, Keep))
       \/ Replace(c, LastN(call[c].copy, Keep))
       \/ Return(c) /\ UNCHANGED <<memory, intact>>
    /\ UNCHANGED <<usesRedis, redis, record, logged, counts, outages, unlogged>>

(* What raises on the way puts all that is kept into memory.                 *)
KeepInMemory(c) ==
    /\ Fails
    /\ memory' = call[c].copy /\ intact' = FALSE
    /\ Return(c)
    /\ UNCHANGED redis

Delete(c) ==
    /\ At(c, "delete")
    /\ \/ Answers /\ redis' = <<>> /\ intact' = FALSE /\ Goto(c, "refill") /\ UNCHANGED memory
       \/ KeepInMemory(c)
    /\ UNCHANGED <<record, logged, counts, unlogged>>

Refill(c) ==
    /\ At(c, "refill")
    /\ \/ /\ Answers
          /\ IF call[c].filled < Len(call[c].copy)
             THEN /\ redis' = Append(redis, call[c].copy[call[c].filled + 1])
                  /\ call' = [call EXCEPT ![c].filled = @ + 1]
                  /\ UNCHANGED done
             ELSE Return(c) /\ UNCHANGED redis
          /\ UNCHANGED <<memory, intact>>
       \/ KeepInMemory(c)
    /\ UNCHANGED <<record, logged, counts, unlogged>>

-----------------------------------------------------------------------------

Step(c) ==
    \/ BeginAdd(c) \/ Push(c) \/ Trim(c) \/ Expire(c) \/ StoreInMemory(c) \/ Log(c)
    \/ BeginCreate(c) \/ BeginEnd(c) \/ Look(c) \/ Write(c) \/ Renew(c)
    \/ BeginCleanup(c) \/ Purge(c) \/ Wipe(c)
    \/ BeginCompress(c) \/ Read(c) \/ Model(c) \/ Delete(c) \/ Refill(c)

Next == \E c \in Callers : Step(c)

Spec == Init /\ [][Next]_vars

-----------------------------------------------------------------------------
(* Properties *)

Entries == Messages \cup {Summary}
Adding == {"push", "trim", "expire", "log"}
Positions == {"idle", "look", "write", "renew", "purge", "wipe",
              "read", "model", "delete", "refill"} \cup Adding

(* Types of the stores and of the callers; only an add carries a message.    *)
TypeOK ==
    /\ usesRedis \in BOOLEAN /\ intact \in BOOLEAN
    /\ redis \in Seq(Entries) /\ memory \in Seq(Entries)
    /\ record \in [{"redis", "memory"} -> Statuses]
    /\ logged \in [Messages -> Nat]
    /\ call \in [Callers -> [at : Positions, of : 0..MaxMessages, copy : Seq(Entries),
                              filled : Nat, seen : Statuses]]
    /\ \A c \in Callers : call[c].at \in Adding => call[c].of # 0
    /\ sent \in 0..MaxMessages /\ calls \in 0..MaxCalls /\ outages \in 0..MaxOutages
    /\ done \subseteq 1..sent /\ unlogged \subseteq 1..sent
    /\ before \in [Messages -> SUBSET Messages]

(* Every message whose add has returned is in the permanent log exactly      *)
(* once, or not at all if the backend refused it: the append that sits in    *)
(* the try block of _store_conversation_message never runs a second time in  *)
(* its handler.                                                              *)
LoggedOnce == \A m \in done : logged[m] = IF m \in unlogged THEN 0 ELSE 1

(* Until a history is replaced, a message whose add had returned before      *)
(* another's began is never shown after it, in either store, whatever adds   *)
(* overlap and fail: get_conversation_history turns round what lpush built.  *)
InOrder == intact =>
    \A list \in {Reversed(redis), memory} :
        \A i, j \in 1..Len(list) : i < j => list[j] \notin before[list[i]]

(* Until a history is replaced, and within its limit, no message whose add   *)
(* has returned is lost: the store that raised and the one that took over    *)
(* hold them all between them.                                               *)
NothingLost == (intact /\ sent <= Limit) => done \subseteq Elements(redis) \cup Elements(memory)

(* The list in Redis outgrows conversation_limit only by the adds that have  *)
(* pushed and not yet trimmed, and by those whose trim raised.               *)
HistoryBounded == intact =>
    Len(redis) <= Limit + outages + Cardinality({c \in Callers : At(c, "trim")})

(* As long as Redis answers every call nothing is kept in memory, where a    *)
(* record or a history would come to light, out of date, at the next outage. *)
NoShadow == (usesRedis /\ outages = 0) => (memory = <<>> /\ record.memory = "none")

(* What the docstring of CompressionConfig says of every strategy: whatever  *)
(* is compressed, the last keep_recent messages stay in the history.         *)
RecentKept == (\A c \in Callers : At(c, "idle")) =>
    {m \in done : m > sent - Keep} \subseteq Elements(IF usesRedis THEN redis ELSE memory)
=============================================================================
