------------------------------- MODULE Usage -------------------------------
(***************************************************************************)
(* What a model session cost: the usage row read from its transcript       *)
(* (src/lib/llm_usage.py), the ledger it is appended to, and the split of  *)
(* a benchmark cell's ledger into audit and finalization spend             *)
(* (src/lib/benchmark.py).                                                 *)
(*                                                                         *)
(* Tokens are units of input: a request costs one, and a claude message   *)
(* reports growing snapshots.  A transcript is a sequence of events        *)
(* [type, id, n].  codex keeps a rollout per thread beside its stream.     *)
(***************************************************************************)
EXTENDS Naturals, FiniteSets, Sequences, SequencesExt

CONSTANTS
    Backends,   \* of "claude", "codex", "oss", "grok", "gemini"
    Threads,    \* the threads a codex transcript may start
    MaxSpend,   \* bound: requests of one transcript
    MaxEvents,  \* bound: events of one transcript
    MaxRows     \* bound: rows of the ledger

VARIABLES
    backend,    \* of the session under way
    kind,       \* "session", "direct" (a model-direct cell), "decision"; "none" between two
    stream,     \* its transcript
    spent,      \* thread -> requests made
    kids,       \* requests its subagents made
    spawned,    \* TRUE: it delegated
    tail,       \* requests since its last terminal event
    rollouts,   \* threads whose rollout can be read
    row,        \* the usage row read, not yet appended
    ledger,     \* logs/index.jsonl
    marker,     \* the clock of .finalization_started; 0: not written
    now

session == <<backend, kind, stream, spent, kids, spawned, tail, rollouts>>
vars == <<session, row, ledger, marker, now>>

NoRow == [n |-> 0, estimated |-> FALSE, floor |-> FALSE, stamp |-> 0]
Total(s) == FoldFunctionOnSet(LAMBDA a, b : a + b, 0, s, DOMAIN s)
Events(type) == SelectSeq(stream, LAMBDA e : e.type = type)
Sum(es) == FoldLeft(LAMBDA a, e : a + e.n, 0, es)

-----------------------------------------------------------------------------
(* The backends, as the reader knows them *)

(* subagents whose spend the session's own usage does not carry *)
Unattributed == {"codex", "oss", "grok"}
Emit(type, id, n) == stream' = Append(stream, [type |-> type, id |-> id, n |-> n])
Room == kind # "none" /\ row = NoRow /\ Len(stream) < MaxEvents
Started == {t \in Threads : \E i \in 1 .. Len(stream) : stream[i] = [type |-> "thread.started", id |-> t, n |-> 0]}

(* the largest snapshot of one message *)
Largest(id) ==
    LET ns == {0} \cup {stream[i].n : i \in {j \in 1 .. Len(stream) : stream[j].type = "assistant" /\ stream[j].id = id}}
    IN CHOOSE n \in ns : \A o \in ns : o <= n

Open(b, k) ==
    /\ kind = "none" /\ Len(ledger) < MaxRows
    /\ marker # 0 => k = "decision"
    /\ k = "direct" => ledger = <<>>
    /\ ledger # <<>> /\ ledger[1].stamp = 0 => k = "decision" /\ marker # 0
    /\ backend' = b /\ kind' = k
    /\ stream' = <<>> /\ spent' = [t \in Threads |-> 0]
    /\ kids' = 0 /\ spawned' = FALSE /\ tail' = 0
    /\ rollouts' \in (IF b = "codex" THEN SUBSET Threads ELSE {{}})
    /\ UNCHANGED <<row, ledger, marker, now>>

StartThread(t) ==
    /\ Room /\ backend = "codex" /\ t \notin Started
    /\ Emit("thread.started", t, 0)
    /\ UNCHANGED <<backend, kind, spent, kids, spawned, tail, rollouts, row, ledger, marker, now>>

(* a request: what the stream says of it depends on the backend *)
Ask(t) ==
    /\ Room /\ Total(spent) + kids < MaxSpend
    /\ backend = "codex" => t \in Started
    /\ spent' = [spent EXCEPT ![t] = @ + 1]
    /\ tail' = IF backend = "oss" THEN 0 ELSE tail + 1
    /\ CASE backend = "claude" -> \E id \in 1 .. 2 : Emit("assistant", id, Largest(id) + 1)
         [] backend = "oss" -> Emit("step_finish", t, 1)
         [] backend = "grok" -> Emit("usage", t, 1) \/ stream' = stream
         [] OTHER -> stream' = stream
    /\ UNCHANGED <<backend, kind, kids, spawned, rollouts, row, ledger, marker, now>>

(* a message's last snapshot may come again *)
Repeat ==
    /\ Room /\ stream # <<>> /\ Last(stream).type \in {"assistant", "result"}
    /\ backend = "claude"
    /\ stream' = Append(stream, Last(stream))
    /\ UNCHANGED <<backend, kind, spent, kids, spawned, tail, rollouts, row, ledger, marker, now>>

(* a subagent, and its request: claude's stream and codex's rollout show the spawn *)
Delegate(t) ==
    /\ Room /\ ~ spawned /\ Total(spent) + kids < MaxSpend /\ backend # "gemini"
    /\ backend = "codex" => t \in Started /\ spent[t] > 0
    /\ spawned' = TRUE /\ kids' = kids + 1
    /\ tail' = IF backend \in Unattributed THEN tail ELSE tail + 1
    /\ IF backend = "codex" THEN stream' = stream ELSE Emit("spawn", 1, 0)
    /\ UNCHANGED <<backend, kind, spent, rollouts, row, ledger, marker, now>>

(* a terminal event: what was spent so far (gemini may not say) *)
Report(t) ==
    /\ Room /\ tail > 0 /\ backend # "oss"
    /\ tail' = IF backend = "codex" THEN tail - spent[t] ELSE 0
    /\ CASE backend = "claude" -> Emit("result", 1, Total(spent) + kids)
         [] backend = "codex" -> t \in Started /\ spent[t] > 0
                                 /\ (\A i \in 1 .. Len(stream) : stream[i].type = "turn.completed" => stream[i].id # t)
                                 /\ Emit("turn.completed", t, spent[t])
         [] backend = "grok" -> Events("end") = <<>> /\ Emit("end", t, Total(spent))
         [] OTHER -> Events("end") = <<>> /\ Emit("end", t, Total(spent) + kids)
    /\ UNCHANGED <<backend, kind, spent, kids, spawned, rollouts, row, ledger, marker, now>>

-----------------------------------------------------------------------------
(* Reading the transcript *)

(* _codex_rollout_usage: every thread of the transcript, or none *)
Rolled == backend = "codex" /\ Started # {} /\ \A t \in Started : t \in rollouts /\ spent[t] > 0

(* Bug: the cumulative snapshots are added up *)
ModelUsageSummed == Sum(Events("result"))

(* claude's modelUsage is cumulative: the largest snapshot *)
ModelUsage ==
    LET ns == {stream[i].n : i \in {j \in 1 .. Len(stream) : stream[j].type = "result"}}
    IN CHOOSE m \in ns : \A n \in ns : n <= m

(* every other terminal event is one invocation's total *)
Terminals == SelectSeq(stream, LAMBDA e : e.type \in {"turn.completed", "step_finish", "end"})

(* _claude_per_request_usage: the largest snapshot of each message, summed *)
PerRequest == Largest(1) + Largest(2)

(* _delegation_events_from_text, and the rollout's own count *)
Delegations ==
    IF backend = "codex" THEN Rolled /\ spawned
    ELSE Events("spawn") # <<>>

Raw ==
    CASE Rolled -> <<Total([t \in Started |-> spent[t]]), FALSE>>
      [] ~ Rolled /\ Events("result") # <<>> -> <<ModelUsage, FALSE>>
      [] ~ Rolled /\ Events("result") = <<>> /\ Terminals # <<>> -> <<Sum(Terminals), FALSE>>
      [] OTHER ->
            CASE backend = "claude" /\ Events("assistant") # <<>> -> <<PerRequest, TRUE>>
              [] backend = "grok" /\ Events("usage") # <<>> -> <<Sum(Events("usage")), FALSE>>
              [] backend = "gemini" \/ (backend = "grok" /\ Events("usage") = <<>>)
                    \/ (kind = "decision" /\ ~ (backend = "claude" /\ Events("assistant") # <<>>))
                        -> <<1, TRUE>>
              [] OTHER -> <<0, FALSE>>

(* _mark_delegation: spend it cannot see makes a row a floor *)
Floor == Delegations /\ backend \in Unattributed

Estimated == Raw[2] \/ Floor

(* what the reader never sees, kept beside the row for the properties *)
Truth == [backend |-> backend, real |-> Total(spent) + kids, kids |-> kids, tail |-> tail,
          phase |-> IF marker = 0 THEN "wall" ELSE "final"]

(* extract_usage_from_text; a rollout that was used is removed *)
Extract ==
    /\ kind # "none" /\ row = NoRow /\ Total(spent) > 0
    /\ row' = [n |-> Raw[1], estimated |-> Estimated, floor |-> Floor, stamp |-> 0] @@ Truth
    /\ rollouts' = IF Rolled THEN rollouts \ Started ELSE rollouts
    /\ UNCHANGED <<backend, kind, stream, spent, kids, spawned, tail, ledger, marker, now>>

Close == /\ kind' = "none" /\ row' = NoRow /\ stream' = <<>>
         /\ spent' = [t \in Threads |-> 0] /\ kids' = 0 /\ spawned' = FALSE /\ tail' = 0
         /\ rollouts' = {} /\ UNCHANGED backend

(* run_agent's event and append_usage_event carry the time, a model-direct row does not *)
Record ==
    /\ row # NoRow
    /\ now' = now + 1
    /\ ledger' = Append(ledger, [row EXCEPT !.stamp = IF kind = "direct" THEN 0 ELSE now + 1])
    /\ Close /\ UNCHANGED marker

(* append_usage_event is best effort: a full disk loses a decision's row *)
Lose ==
    /\ row # NoRow /\ kind = "decision"
    /\ Close /\ UNCHANGED <<ledger, marker, now>>

(* _stamp_finalization_start: once per cell *)
Finalize ==
    /\ kind = "none" /\ marker = 0
    /\ now' = now + 1 /\ marker' = now + 1
    /\ UNCHANGED <<session, row, ledger>>

-----------------------------------------------------------------------------
(* What a cell publishes *)

(* harvest_finalization_tokens, and harvest_wall_tokens its complement *)
IsFinal(r) == marker # 0 /\ r.stamp # 0 /\ r.stamp >= marker

FinalTokens == Sum(SelectSeq(ledger, LAMBDA r : IsFinal(r)))
WallRows == SelectSeq(ledger, LAMBDA r : marker = 0 \/ r.stamp = 0 \/ r.stamp < marker)

(* harvest_tokens *)
SourceOf(r) == CASE r.estimated -> "estimated" [] ~ r.estimated /\ r.n > 0 -> "measured" [] OTHER -> "unknown"
RowSources == {SourceOf(WallRows[i]) : i \in 1 .. Len(WallRows)}

TokenSource ==
    IF RowSources = {} \/ "unknown" \in RowSources THEN "unknown"
    ELSE IF Cardinality(RowSources) = 1 THEN CHOOSE s \in RowSources : TRUE ELSE "mixed"

(* _tokens_for_cell: the wall's own rows, or the whole less finalization *)
Published == IF marker # 0 THEN Sum(WallRows) ELSE Sum(ledger) - FinalTokens

Init ==
    /\ backend = "claude" /\ kind = "none" /\ stream = <<>>
    /\ spent = [t \in Threads |-> 0] /\ kids = 0 /\ spawned = FALSE /\ tail = 0 /\ rollouts = {}
    /\ row = NoRow /\ ledger = <<>> /\ marker = 0 /\ now = 0

Next ==
    \/ \E b \in Backends, k \in {"session", "direct", "decision"} : Open(b, k)
    \/ \E t \in Threads : StartThread(t) \/ Ask(t) \/ Delegate(t) \/ Report(t)
    \/ Repeat \/ Extract \/ Record \/ Lose \/ Finalize

Spec == Init /\ [][Next]_vars

-----------------------------------------------------------------------------
TypeOK ==
    /\ kind = "none" => row = NoRow /\ stream = <<>>
    /\ rollouts \subseteq Threads /\ marker \in 0 .. now
    /\ \A i \in 1 .. Len(ledger) : ledger[i].floor => ledger[i].estimated

Rows == {ledger[i] : i \in 1 .. Len(ledger)}

(* A row that is not marked estimated counts neither more than was spent nor  *)
(* less than the backend had reported when it ended, and an estimate from      *)
(* claude's own messages never counts more than was spent: repeated snapshots,*)
(* cumulative totals and threads that appear twice are counted once.          *)
MeasuredIsExact ==
    /\ \A r \in Rows : r.backend = "claude" => r.n <= r.real
    /\ \A r \in Rows : ~ r.estimated /\ r.n > 0 =>
        r.n <= r.real /\ r.n + r.tail + (IF r.backend \in Unattributed THEN r.kids ELSE 0) >= r.real

(* What is published for the audit is what its own sessions and decisions     *)
(* used: with the finalization's share it makes up the whole ledger, whoever  *)
(* wrote the rows and whether or not they carry a clock.                      *)
WallIsAudit ==
    /\ Published + FinalTokens = Sum(ledger)
    /\ Published = Sum(SelectSeq(ledger, LAMBDA r : r.phase = "wall"))

(* A cell whose tokens read as measured has no session whose spend is not in  *)
(* the total.                                                                 *)
UnknownShows ==
    TokenSource = "measured" => \A r \in Rows : r.phase = "wall" => r.n > 0 /\ ~ r.estimated

(* A codex rollout is removed only by the reading that counts it in full: it  *)
(* is the only record of its thread's spend.                                  *)
RolloutCounted ==
    kind' = kind /\ rollouts' # rollouts /\ kind # "none" =>
        /\ row'.n = Total([t \in rollouts \ rollouts' |-> spent[t]])
        /\ \A t \in rollouts \ rollouts' : spent[t] > 0

=============================================================================
