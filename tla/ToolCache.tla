----------------------------- MODULE ToolCache -----------------------------
(***************************************************************************)
(* One search through the two caches it passes: that of ToolExecutor, for  *)
(* calls by run and run_async, and that of the decorator around            *)
(* _cached_search_web, whose key has the fingerprint of the routing and    *)
(* whose results last as long as the strategy says.  Both keep their       *)
(* entries in the one LRU cache of the executor.                           *)
(***************************************************************************)
EXTENDS Naturals, SequencesExt

CONSTANTS
    Threads,    \* callers, one call each at a time
    Size,       \* cache_size
    DefaultTtl, \* cache_ttl
    Ttls,       \* what the strategy may say of a result
    Retries,    \* retry_attempts
    MaxTime     \* bound on the clock

ASSUME CacheAssumption ==
    /\ Size \in Nat \ {0} /\ DefaultTtl \in Nat \ {0} /\ Retries \in Nat \ {0}
    /\ Ttls \subseteq Nat \ {0} /\ MaxTime \in Nat

(* The keys of one query: the executor's has the arguments only.             *)
Configs == {"old", "new"}
Outer == "arguments"
Keys == Configs \cup {Outer}

VARIABLES
    now,
    config,     \* the routing that is configured
    store,      \* _cache: entries, the least recently used first
    deadline,   \* _cache_ttl_dict
    call,       \* the calls
    flaws       \* history: what was wrong with entries that each cache has handed out

cacheVars == <<now, config, store, deadline, call, flaws>>

NoValue == [from |-> "none", ok |-> FALSE, ttl |-> 0, at |-> 0]
Idle == [pc |-> "idle", via |-> "direct", fp |-> "old", value |-> NoValue, tries |-> 0, waited |-> FALSE]

CacheInit ==
    /\ now = 0 /\ config = "old"
    /\ store = <<>> /\ deadline = <<>>
    /\ call = [t \in Threads |-> Idle]
    /\ flaws = [cache \in {"executor", "decorator"} |-> {}]

-----------------------------------------------------------------------------
(* ExecutionUtils, each operation under its lock                             *)

Has(key) == \E i \in DOMAIN store : store[i].key = key
Place(key) == CHOOSE i \in DOMAIN store : store[i].key = key
Entry(key) == store[Place(key)]
Without(key) == IF Has(key) THEN RemoveAt(store, Place(key)) ELSE store

\* mutant: the time to live is not looked at
FoundWhenThere(key) == Has(key)

Found(key) == Has(key) /\ ~(key \in DOMAIN deadline /\ now > deadline[key])

(* get_from_cache: a hit is the most recently used, and what has expired is  *)
(* removed.                                                                  *)
Hit(key) ==
    /\ Found(key)
    /\ store' = Append(Without(key), Entry(key))
    /\ UNCHANGED deadline

Miss(key) ==
    /\ ~Found(key)
    /\ store' = Without(key)
    /\ deadline' = IF Has(key) THEN [k \in DOMAIN deadline \ {key} |-> deadline[k]] ELSE deadline

(* add_to_cache.  The deadline of an entry that is evicted stays behind.     *)
Add(key, value, ttl) ==
    /\ store' = LET others == Without(key)
                IN  Append(IF Len(others) = Size THEN Tail(others) ELSE others,
                           [key |-> key, value |-> value])
    /\ deadline' = [k \in DOMAIN deadline \cup {key} |-> IF k = key THEN now + ttl ELSE deadline[k]]

-----------------------------------------------------------------------------
(* A call                                                                    *)

Goto(t, pc) == call' = [call EXCEPT ![t].pc = pc]
Drop(t) == call' = [call EXCEPT ![t] = Idle]

(* An entry is handed out to a call that is made under the routing fp.       *)
Handed(cache, value, fp) ==
    flaws' = [flaws EXCEPT ![cache] = @
        \cup {f \in {"stale"} : value.ok /\ now - value.at > value.ttl}
        \cup {f \in {"failure"} : ~value.ok}
        \cup {f \in {"outdated"} : fp = "new" /\ value.from = "old"}]

(* The method returns: to its caller, to the executor, or to nobody.         *)
Hand(t, value) ==
    IF call[t].via # "direct" /\ call[t].waited
    THEN call' = [call EXCEPT ![t] = [Idle EXCEPT !.pc = "fill", !.via = call[t].via, !.value = value, !.waited = TRUE]]
    ELSE Drop(t)

Begin(t) ==
    /\ call[t].pc = "idle"
    /\ \E via \in {"direct", "run", "run_async"} :
        call' = [call EXCEPT ![t] = [Idle EXCEPT !.pc = IF via = "direct" THEN "key" ELSE "outer",
                                                 !.via = via, !.waited = TRUE]]
    /\ UNCHANGED <<now, config, store, deadline, flaws>>

(* The look of execute and execute_async.                                    *)
OuterLook(t) ==
    /\ call[t].pc = "outer"
    /\ \/ Hit(Outer) /\ Handed("executor", Entry(Outer).value, config) /\ Drop(t)
       \/ Miss(Outer) /\ Goto(t, "key") /\ UNCHANGED flaws
    /\ UNCHANGED <<now, config>>

(* search_web takes the fingerprint of the routing for the key.              *)
MakeKey(t) ==
    /\ call[t].pc = "key"
    /\ call' = [call EXCEPT ![t].pc = "inner", ![t].fp = config]
    /\ UNCHANGED <<now, config, store, deadline, flaws>>

(* The look of the decorator.                                                *)
InnerLook(t) ==
    /\ call[t].pc = "inner"
    /\ LET key == call[t].fp
       IN  \/ Hit(key) /\ Handed("decorator", Entry(key).value, key) /\ Hand(t, Entry(key).value)
           \/ Miss(key) /\ Goto(t, "search") /\ UNCHANGED flaws
    /\ UNCHANGED <<now, config>>

\* mutant: the envelope of a failure is a result as any other
SearchKeepsAll(t) ==
    /\ call[t].pc = "search"
    /\ \E ok \in BOOLEAN, ttl \in Ttls :
        call' = [call EXCEPT ![t].pc = "store",
                             ![t].value = [from |-> config, ok |-> ok, ttl |-> ttl, at |-> 0]]
    /\ UNCHANGED <<now, config, store, deadline, flaws>>

(* The search is done as configured by now.  A failure that is returned in   *)
(* an envelope is not for the decorator's cache.                             *)
Search(t) ==
    /\ call[t].pc = "search"
    /\ \/ \E ttl \in Ttls :
            call' = [call EXCEPT ![t].pc = "store",
                                 ![t].value = [from |-> config, ok |-> TRUE, ttl |-> ttl, at |-> 0]]
       \/ Hand(t, [NoValue EXCEPT !.from = config])
    /\ UNCHANGED <<now, config, store, deadline, flaws>>

(* It raises: run_async tries again while somebody waits for it, each time   *)
(* from the start of the method.                                             *)
Raises(t) ==
    /\ call[t].pc = "search"
    /\ IF call[t].via = "run_async" /\ call[t].waited /\ call[t].tries + 1 < Retries
       THEN call' = [call EXCEPT ![t].pc = "key", ![t].tries = @ + 1]
       ELSE Drop(t)
    /\ UNCHANGED <<now, config, store, deadline, flaws>>

\* mutant: the key is made of the routing as it is when the result is stored
StoreAsIs(t) ==
    /\ call[t].pc = "store"
    /\ LET value == [call[t].value EXCEPT !.at = now]
       IN  Add(config, value, value.ttl) /\ Hand(t, value)
    /\ UNCHANGED <<now, config, flaws>>

Store(t) ==
    /\ call[t].pc = "store"
    /\ LET value == [call[t].value EXCEPT !.at = now]
       IN  Add(call[t].fp, value, value.ttl) /\ Hand(t, value)
    /\ UNCHANGED <<now, config, flaws>>

(* execute and execute_async keep what they are given, for the default time. *)
OuterStore(t) ==
    /\ call[t].pc = "fill"
    /\ Add(Outer, call[t].value, DefaultTtl)
    /\ Drop(t)
    /\ UNCHANGED <<now, config, flaws>>

(* The one timeout of all attempts.  A thread that has begun goes on.        *)
TimesOut(t) ==
    /\ call[t].via = "run_async" /\ call[t].waited
    /\ call[t].pc \in {"key", "inner", "search", "store"}
    /\ \/ call' = [call EXCEPT ![t].waited = FALSE]
       \/ call[t].pc = "key" /\ Drop(t)
    /\ UNCHANGED <<now, config, store, deadline, flaws>>

-----------------------------------------------------------------------------
(* clear_search_cache                                                        *)
Clear ==
    /\ store # <<>>
    /\ store' = <<>> /\ deadline' = <<>>
    /\ UNCHANGED <<now, config, call, flaws>>

(* The routing is rolled out: a setting, or a backend that is registered.    *)
RollOut ==
    /\ config = "old" /\ config' = "new"
    /\ UNCHANGED <<now, store, deadline, call, flaws>>

Tick ==
    /\ now < MaxTime /\ now' = now + 1
    /\ UNCHANGED <<config, store, deadline, call, flaws>>

CacheNext ==
    \/ \E t \in Threads :
        \/ Begin(t) \/ OuterLook(t) \/ MakeKey(t) \/ InnerLook(t) \/ Search(t) \/ Raises(t)
        \/ Store(t) \/ OuterStore(t) \/ TimesOut(t)
    \/ Clear \/ RollOut \/ Tick

CacheSpec == CacheInit /\ [][CacheNext]_cacheVars

-----------------------------------------------------------------------------
(* Properties *)

Values == [from : Configs \cup {"none"}, ok : BOOLEAN, ttl : Ttls \cup {0}, at : 0..MaxTime]

TypeOK ==
    /\ now \in 0..MaxTime /\ config \in Configs
    /\ store \in Seq([key : Keys, value : Values]) /\ Len(store) <= Size
    /\ DOMAIN deadline \subseteq Keys /\ \A k \in DOMAIN deadline : deadline[k] \in Nat
    /\ call \in [Threads -> [pc : {"idle", "outer", "key", "inner", "search", "store", "fill"},
                             via : {"direct", "run", "run_async"}, fp : Configs, value : Values,
                             tries : 0..Retries, waited : BOOLEAN]]
    /\ flaws \in [{"executor", "decorator"} -> SUBSET {"stale", "failure", "outdated"}]

(* The decorator's cache hands out nothing older than the strategy allows,   *)
(* although entries of other kinds and threads that were given up fill it.   *)
FreshKept == "stale" \notin flaws["decorator"]

(* The decorator's cache hands out no failure.                               *)
FailuresKeptOut == "failure" \notin flaws["decorator"]

(* Whoever asks after a roll-out gets nothing from the decorator's cache     *)
(* that was searched before it, also of searches that were under way.        *)
RollOutKept == "outdated" \notin flaws["decorator"]

(* What the decorator's cache hands out is what a search made for this call  *)
(* could have answered, through evictions, expiry, retries, and threads that *)
(* were given up.                                                            *)
DecoratorKeeps == FreshKept /\ FailuresKeptOut /\ RollOutKept

(* The same of both caches, which does not hold: no failure is handed out ...*)
FailuresNotCached == \A cache \in DOMAIN flaws : "failure" \notin flaws[cache]

(* ... and nothing that was searched before the roll-out.                    *)
RollOutMisses == \A cache \in DOMAIN flaws : "outdated" \notin flaws[cache]

(* ... nor anything older than its strategy allows.                          *)
TtlKept == \A cache \in DOMAIN flaws : "stale" \notin flaws[cache]
=============================================================================
