----------------------------- MODULE Compaction -----------------------------
(***************************************************************************)
(* The message history of a task while its agent compresses it: the budget *)
(* of tool results and the chain of compressors before every call of the   *)
(* model, after a batch of tools, and when the model says that the prompt  *)
(* is too long.  A history is a function from positions, which are         *)
(* integers, to messages: a message keeps its position for as long as it   *)
(* stays, and what a compressor puts in front gets smaller ones.           *)
(***************************************************************************)
EXTENDS Integers, FiniteSets, Sequences

CONSTANTS
    Keep,           \* preserve_recent
    Chains,         \* chains a policy or a strategy may name
    MaxFailures,    \* max_consecutive_failures
    MaxBatch,       \* bound: tool calls in one answer of the model
    MaxCalls,       \* bound: tool calls in a run
    MaxNotes,       \* bound: other messages the loop appends
    MaxTasks        \* bound: attempts or tasks after the first

Stages == {"microcompact", "collapse", "session_memory", "llm"}

ASSUME CompactionAssumption ==
    /\ Keep \in Nat \ {0} /\ MaxFailures \in Nat /\ MaxBatch \in Nat \ {0}
    /\ MaxCalls \in Nat /\ MaxNotes \in Nat /\ MaxTasks \in Nat
    /\ \A chain \in Chains : chain \in Seq(Stages)

VARIABLES
    chain,      \* the chain of this agent
    history,    \* messages of the loop
    working,    \* what the compression in progress has made of it, or <<>>
    low, high,  \* bounds of the positions in use
    pc,         \* "compress", "call", "again", "batch", "stage", "over"
    mode,       \* what compresses: "before", "after" or "reactive"
    stage,      \* next stage of the chain
    failures,   \* consecutive_failures
    reactive,   \* reactive_compact_used
    proactive,  \* proactive_compact_used_this_iteration
    seen,       \* results the budget has looked at
    previews,   \* results it has replaced
    batch,      \* calls of the last batch that wait for a result
    cut,        \* calls of the history that never get one (history)
    asked,      \* tool calls so far: their ids are 1..asked
    notes, tasks,
    shown,      \* results the model was given in full
    latest,     \* calls of the last batch, until the loop appends another message
    since       \* instructions of hooks appended after its results

vars == <<chain, history, working, low, high, pc, mode, stage, failures, reactive, proactive,
          seen, previews, batch, cut, asked, notes, tasks, shown, latest, since>>
ends == <<low, high>>
budget == <<seen, previews>>
pending == <<batch, cut>>
breaker == <<failures, reactive, proactive>>
counts == <<asked, tasks>>
observed == <<shown, latest, since>>
compression == <<working, mode, stage>>

-----------------------------------------------------------------------------
(* Histories *)

(* "preview" also for an output that was offloaded as it came in.            *)
Texts == {"none", "full", "preview", "collapsed", "cleared"}
Ids == 1..MaxCalls
Message(role, calls, id, text) == [role |-> role, calls |-> calls, id |-> id, text |-> text]
Plain(role) == Message(role, {}, 0, "none")

Tools(h) == {p \in DOMAIN h : h[p].role = "tool"}
Only(h, positions) == [p \in positions |-> h[p]]
Follows(h, p, q) == p < q /\ \A r \in DOMAIN h : ~(p < r /\ r < q)

At(h, positions, m) == [p \in DOMAIN h \cup positions |-> IF p \in positions THEN m ELSE h[p]]
Appended(h, m) == At(h, {high + 1}, m)

Lowest(h) ==
    IF \E p \in DOMAIN h : \A q \in DOMAIN h : p <= q
    THEN CHOOSE p \in DOMAIN h : \A q \in DOMAIN h : p <= q
    ELSE low

(* A boundary marker and, unless there was nothing to summarise, a summary.  *)
Headed(h, n) == At(h, (Lowest(h) - n)..(Lowest(h) - 1), Plain("user"))

Start == [p \in 1..2 |-> Plain(IF p = 1 THEN "system" ELSE "user")]

LastN(h, n) == {p \in DOMAIN h : Cardinality({q \in DOMAIN h : p < q}) < n}

\* mutant: the split is taken where it falls
NewerAnywhere(h) == LastN(h, Keep)

(* split_preserving_tool_pairs: a call whose result begins the newer part    *)
(* goes with it.                                                             *)
Newer(h) ==
    LET last == LastN(h, Keep)
    IN  last \cup {p \in DOMAIN h \ last :
                     \E q \in last : Follows(h, p, q) /\ h[q].id \in h[p].calls}

\* mutant: a result is kept whether or not its call is
SanitizedCalls(h) ==
    Only(h, {p \in DOMAIN h : h[p].calls # {} =>
               \E q \in DOMAIN h : Follows(h, p, q) /\ h[q].id \in h[p].calls})

(* sanitize_messages_for_compaction: a call is kept if a result of it comes  *)
(* next, a result if a call of it that is kept comes before.                 *)
Sanitized(h) ==
    LET calls == {p \in DOMAIN h : h[p].calls # {} =>
                    \E q \in DOMAIN h : Follows(h, p, q) /\ h[q].id \in h[p].calls}
    IN  Only(h, {p \in calls : h[p].role = "tool" =>
                   \E q \in calls : q < p /\ h[p].id \in h[q].calls})

Recent(h) == Sanitized(Only(h, Newer(h)))

WithText(h, positions, text) ==
    [p \in DOMAIN h |-> IF p \in positions THEN [h[p] EXCEPT !.text = text] ELSE h[p]]

-----------------------------------------------------------------------------
(* The compressors *)

\* mutant: one result fewer is kept
MicroOneMore(h, compactable) ==
    LET old == {p \in compactable : Cardinality({q \in compactable : p < q}) >= Keep - 1}
    IN  WithText(h, old, "cleared")

(* Microcompact: of the compactable results (by the tool's name or by their  *)
(* length, unless they hold a verdict) all but the last are cleared.         *)
Micro(h, compactable) ==
    LET old == {p \in compactable : Cardinality({q \in compactable : p < q}) >= Keep}
    IN  WithText(h, old, "cleared")

(* Collapse: the long texts of the older part are shortened.                 *)
Collapsed(h) ==
    LET older == DOMAIN h \ Newer(h)
        recent == Recent(h)
        kept == Only(h, older \cup DOMAIN recent)
    IN  WithText(kept, {p \in older : h[p].text \in {"full", "preview"}}, "collapsed")

(* Session memory and the summariser: the older part gives way to a summary. *)
Summarised(h) == Headed(Recent(h), 2)

-----------------------------------------------------------------------------
(* The task *)

Init ==
    /\ chain \in Chains
    /\ history = Start /\ working = <<>> /\ low = 1 /\ high = 2
    /\ pc = "compress" /\ mode = "before" /\ stage = 0
    /\ failures = 0 /\ reactive = FALSE /\ proactive = FALSE
    /\ seen = {} /\ previews = {} /\ batch = {} /\ cut = {}
    /\ asked = 0 /\ notes = 0 /\ tasks = 0
    /\ shown = {} /\ latest = {} /\ since = 0

(* What the budget replaces for good: of the results it has not looked at,   *)
(* the largest of a group that is over the limit.                            *)
Fresh(h) == {h[p].id : p \in {q \in Tools(h) : h[q].text \in {"full", "cleared"}}} \ seen
Replaceable(h) == {h[p].id : p \in {q \in Tools(h) : h[q].text = "full"}} \ seen

(* A result once replaced is replaced again wherever it is found.            *)
Budgeted(h, replaced) ==
    WithText(h, {p \in Tools(h) : h[p].id \in replaced /\ h[p].text \in {"full", "cleared"}}, "preview")

\* mutant: the results left as they are are not marked as seen
BudgetForgets(h, selected) ==
    /\ seen' = seen \cup selected
    /\ previews' = previews \cup selected

Budget(h, selected) ==
    /\ seen' = seen \cup Fresh(h)
    /\ previews' = previews \cup selected

(* Whether the history is over the threshold is left open: a message may be  *)
(* of any length.  A compression that is not needed, or not tried again      *)
(* after too many failures, leaves what the budget has done.                 *)
Compress(how) ==
    /\ \E selected \in SUBSET Replaceable(history) : Budget(history, selected)
    /\ \/ /\ failures < MaxFailures
          /\ working' = Budgeted(history, previews')
          /\ pc' = "stage" /\ mode' = how
          /\ UNCHANGED <<history, stage>>
       \/ /\ history' = Budgeted(history, previews')
          /\ pc' = IF how = "before" THEN "call" ELSE "compress"
          /\ UNCHANGED compression
    /\ UNCHANGED <<chain, ends, failures, reactive, pending, notes, counts, observed>>

BeforeCall == pc = "compress" /\ proactive' = FALSE /\ Compress("before")

(* compact_after_tool_batch, not twice in an iteration.                      *)
AfterBatch ==
    /\ pc = "batch" /\ batch = {}
    /\ \/ ~proactive /\ failures < MaxFailures /\ Compress("after")
       \/ pc' = "compress" /\ UNCHANGED <<chain, history, ends, compression, failures, reactive, budget, pending, notes, counts, observed>>
    /\ UNCHANGED proactive

(* The task is over, or its attempt has failed, and its messages are gone.   *)
Leaves ==
    /\ history' = Start /\ low' = 1 /\ high' = 2 /\ pc' = "over"
    /\ batch' = {} /\ cut' = {} /\ latest' = {} /\ since' = 0

(* A compression ends: it has compacted the history to h, or leaves h.       *)
Settle(h, did) ==
    /\ working' = <<>> /\ mode' = "before" /\ stage' = 0
    /\ IF mode = "reactive" /\ ~did
       THEN Leaves /\ UNCHANGED proactive
       ELSE /\ history' = h
            /\ pc' = CASE mode = "before" -> "call" [] mode = "after" -> "compress" [] OTHER -> "again"
            /\ proactive' = (proactive \/ (did /\ mode # "reactive"))
            /\ low' = Lowest(h)
            /\ UNCHANGED <<high, pending, latest, since>>
    /\ UNCHANGED <<chain, reactive, budget, counts, notes, shown>>

(* What a stage has made of the working copy, if the chain goes on.          *)
GoOn(h) ==
    /\ working' = h /\ stage' = stage + 1
    /\ UNCHANGED <<chain, history, ends, pc, mode, breaker, budget, pending, notes, counts, observed>>

Compacted(h) == failures' = 0 /\ Settle(h, TRUE)

Stage(name) == pc = "stage" /\ stage \in 1..Len(chain) /\ chain[stage] = name

(* Before the chain a hook may forbid it, or append an instruction.          *)
Hooks ==
    /\ pc = "stage" /\ stage = 0
    /\ \/ GoOn(working)
       \/ Settle(working, FALSE) /\ UNCHANGED failures
       \/ /\ notes < MaxNotes
          /\ notes' = notes + 1 /\ since' = since + 1
          /\ working' = Appended(working, Plain("user")) /\ high' = high + 1 /\ stage' = 1
          /\ UNCHANGED <<chain, history, low, pc, mode, breaker, budget, pending, counts, shown, latest>>

(* Results with a verdict in them are protected.                             *)
Microcompact ==
    /\ Stage("microcompact")
    /\ \E compactable \in SUBSET Tools(working) :
         LET h == Micro(working, compactable)
         IN  \/ GoOn(h)
             \/ mode # "reactive" /\ h # working /\ Compacted(h)

Collapse ==
    /\ Stage("collapse")
    /\ \/ GoOn(working)
       \/ /\ Cardinality(DOMAIN working) > Keep + 2
          /\ \/ GoOn(Collapsed(working))
             \/ mode # "reactive" /\ Compacted(Collapsed(working))

SessionMemory ==
    /\ Stage("session_memory")
    /\ \/ GoOn(working)
       \/ Cardinality(DOMAIN working) > Keep + 4 /\ Compacted(Summarised(working))

(* Within the recent messages there is nothing to summarise; otherwise they  *)
(* are microcompacted once more.                                             *)
Summarise ==
    /\ Stage("llm")
    /\ IF Cardinality(DOMAIN working) <= Keep
       THEN Compacted(Headed(working, 1))
       ELSE \E compactable \in SUBSET Tools(working) :
              Compacted(Summarised(Micro(working, compactable)))

(* A hook, the session memory or the summariser raises.                      *)
StageFails ==
    /\ pc = "stage"
    /\ failures' = failures + 1
    /\ Settle(working, FALSE)

ChainEnds ==
    /\ pc = "stage" /\ stage > Len(chain)
    /\ failures' = 0
    /\ Settle(working, FALSE)

(* The model is called: it has now seen the results as they stand.           *)
Sees == shown' = shown \cup {history[p].id : p \in {q \in Tools(history) : history[q].text = "full"}}

AsksTools ==
    /\ pc \in {"call", "again"}
    /\ \E n \in 1..MaxBatch :
         /\ asked + n <= MaxCalls
         /\ asked' = asked + n
         /\ batch' = (asked + 1)..(asked + n)
    /\ history' = Appended(history, Message("assistant", batch', 0, "none")) /\ high' = high + 1
    /\ pc' = "batch"
    /\ Sees /\ latest' = batch' /\ since' = 0
    /\ UNCHANGED <<chain, low, compression, breaker, budget, cut, notes, tasks>>

(* The feedback on an answer that is refused, a handoff, or the summary of a *)
(* nested run (as the assistant's, which makes no difference here).          *)
AddsNote ==
    /\ pc \in {"call", "again"} /\ notes < MaxNotes
    /\ notes' = notes + 1
    /\ history' = Appended(history, Plain("user")) /\ high' = high + 1
    /\ pc' = "compress"
    /\ Sees /\ latest' = {} /\ since' = 0
    /\ UNCHANGED <<chain, low, compression, breaker, budget, pending, counts>>

AnswersTask ==
    /\ pc \in {"call", "again"}
    /\ Sees /\ Leaves
    /\ UNCHANGED <<chain, compression, breaker, budget, notes, counts>>

(* The prompt is too long: once in the life of the agent it is compressed by *)
(* force and sent again.                                                     *)
TooLong ==
    /\ pc = "call" /\ ~reactive
    /\ reactive' = TRUE
    /\ working' = history /\ mode' = "reactive" /\ stage' = 0 /\ pc' = "stage"
    /\ UNCHANGED <<chain, history, ends, failures, proactive, budget, pending, notes, counts, observed>>

(* The model, a hook or a plugin raises, or a stop match ends the task.      *)
Raises ==
    /\ pc \in {"call", "again", "batch"}
    /\ Leaves
    /\ UNCHANGED <<chain, compression, breaker, budget, notes, counts, shown>>

(* A tool's result, or its error, in the order of the calls.                 *)
ToolAnswers ==
    /\ pc = "batch" /\ batch # {}
    /\ \E id \in batch, text \in {"full", "preview"} :
         /\ \A other \in batch : id <= other
         /\ batch' = batch \ {id}
         /\ history' = Appended(history, Message("tool", {}, id, text))
    /\ high' = high + 1
    /\ UNCHANGED <<chain, low, compression, pc, breaker, budget, cut, notes, counts, observed>>

(* A result matches tool_result_stop_conditions: it is not put in the        *)
(* history, and neither are those of the calls behind it.  If the answer is  *)
(* refused, or a nested run was drained, the task goes on all the same, with *)
(* or without a message about it; otherwise it is over (Raises).             *)
StopMatch ==
    /\ pc = "batch" /\ batch # {}
    /\ cut' = cut \cup batch /\ batch' = {}
    /\ pc' = "compress"
    /\ \/ /\ notes < MaxNotes
          /\ notes' = notes + 1
          /\ history' = Appended(history, Plain("user")) /\ high' = high + 1
          /\ latest' = {} /\ since' = 0
       \/ latest' = latest \ batch /\ UNCHANGED <<history, high, notes, since>>
    /\ UNCHANGED <<chain, low, compression, breaker, budget, counts, shown>>

(* suppress_from_llm: a call that came alone leaves no trace.                *)
Suppress ==
    /\ pc = "batch" /\ Cardinality(batch) = 1 /\ batch = latest
    /\ batch' = {} /\ latest' = {}
    /\ history' = Only(history, {p \in DOMAIN history : history[p].calls # latest})
    /\ high' = high - 1
    /\ UNCHANGED <<chain, low, compression, pc, breaker, budget, cut, notes, counts, shown, since>>

(* The next attempt or task: a new history, and the agent's own state.       *)
Restart ==
    /\ pc = "over" /\ tasks < MaxTasks
    /\ tasks' = tasks + 1 /\ pc' = "compress"
    /\ UNCHANGED <<chain, history, ends, compression, breaker, budget, pending, asked, notes, observed>>

Next ==
    \/ BeforeCall \/ AfterBatch
    \/ Hooks \/ Microcompact \/ Collapse \/ SessionMemory
    \/ Summarise \/ StageFails \/ ChainEnds
    \/ AsksTools \/ AddsNote \/ AnswersTask \/ TooLong \/ Raises
    \/ ToolAnswers \/ StopMatch \/ Suppress \/ Restart

Spec == Init /\ [][Next]_vars

-----------------------------------------------------------------------------
(* Properties *)

IsHistory(h) ==
    /\ DOMAIN h \subseteq low..high
    /\ \A p \in DOMAIN h : h[p] \in [role : {"system", "user", "assistant", "tool"},
                                     calls : SUBSET Ids, id : 0..MaxCalls, text : Texts]

(* Types; and the breaker lets no more than MaxFailures attempts fail, but   *)
(* for the one that is forced.                                               *)
TypeOK ==
    /\ chain \in Chains
    /\ low \in Int /\ high \in Int
    /\ IsHistory(history) /\ IsHistory(working)
    /\ pc \in {"compress", "call", "again", "batch", "stage", "over"}
    /\ mode \in {"before", "after", "reactive"} /\ stage \in 0..(Len(chain) + 1)
    /\ failures \in 0..(MaxFailures + 1) /\ reactive \in BOOLEAN /\ proactive \in BOOLEAN
    /\ asked \in 0..MaxCalls /\ notes \in 0..MaxNotes /\ tasks \in 0..MaxTasks
    /\ since \in 0..notes
    /\ previews \subseteq seen /\ batch \cup cut \subseteq 1..asked
    /\ seen \cup shown \cup latest \subseteq 1..asked

Sent == pc \in {"call", "again"}

(* Every tool result the model is sent comes after the call it answers, with *)
(* nothing but results in between, whatever was compressed on the way.       *)
ResultsFollowCalls == Sent =>
    \A p \in Tools(history) : \E q \in DOMAIN history :
        /\ q < p /\ history[p].id \in history[q].calls
        /\ \A r \in DOMAIN history : q < r /\ r < p => r \in Tools(history)

(* No message of the model that calls tools is left without any result, but  *)
(* one whose first result has matched a stop condition in a task that goes   *)
(* on: the compressors leave no call alone, and suppression none either.     *)
CallsHaveResult == Sent =>
    \A p \in DOMAIN history : history[p].calls # {} /\ ~(history[p].calls \subseteq cut) =>
        \E q \in DOMAIN history : Follows(history, p, q) /\ history[q].id \in history[p].calls

(* Every call the model is sent has its result, but one that a stop match    *)
(* has cut off.                                                              *)
CallsAnswered == Sent =>
    \A p \in DOMAIN history : \A id \in history[p].calls \ cut :
        \E q \in DOMAIN history : p < q /\ history[q].id = id

(* What the model has seen in full is never swapped for a preview later.     *)
ShownStays == Sent =>
    \A p \in Tools(history) : history[p].text = "preview" => history[p].id \notin shown

(* The results of the last batch, as far as they and the instructions of     *)
(* hooks behind them fit into preserve_recent, reach the next call of the    *)
(* model, and are neither cleared nor collapsed.                             *)
LatestShown == (Sent /\ Cardinality(latest) + since <= Keep) =>
    \A id \in latest : \E p \in Tools(history) :
        history[p].id = id /\ history[p].text \in {"full", "preview"}
=============================================================================
