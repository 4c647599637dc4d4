------------------------------- MODULE TurnLoop -------------------------------
(* engine/coordinator.py, the loop of a run: _run_inner, _send_inner, _drive  *)
(* and the helpers that change the transcript, over a session that is the     *)
(* DurableTranscript of that module.  A turn's tools are one step here;       *)
(* ToolExecution looks inside it.  The model's answer, the loop guard's       *)
(* verdict, the output check and the spending are any they could be.          *)
(*                                                                            *)
(* A process runs one Coordinator, which is asked for runs one after another; *)
(* after a crash a new one resumes the session.  What happens between two     *)
(* awaits at which something can interfere is one action.                     *)
EXTENDS Integers, Sequences, FiniteSets, SequencesExt

CONSTANTS MaxTurns,       \* max_turns
          MaxRuns,        \* bound: run() or send() calls in the whole behaviour
          MaxCrashes,     \* bound: crashes
          OutputRetries,  \* output_retries
          Options         \* of "guard", "schema", "compactor", "token_budget": those in use

ASSUME ConstantsAssumption ==
    /\ MaxTurns \in Nat \ {0} /\ MaxRuns \in Nat \ {0} /\ MaxCrashes \in Nat
    /\ OutputRetries \in Nat
    /\ Options \subseteq {"guard", "schema", "compactor", "token_budget"}

VARIABLES
    pc,          \* "idle", or what the run in progress awaits
    msgs,        \* the transcript: `messages`, and live_messages between sends
    disk,        \* what session.load() would return
    entry,       \* the entry point in use: "run" or "send"
    live,        \* live_messages is not None
    resume,      \* the `resume` field
    i, budget,   \* _drive's loop counter and bound
    once,        \* which of "recovery" and "wrapup" this run has sent
    attempts,    \* output_attempts
    trips,       \* the guard's _consecutive_trips
    spent,       \* _over_budget()
    completed, cancelled,   \* the two fields a caller reads
    token,       \* the CancelToken
    outcome,     \* history: how the last run ended
    output,      \* of the fields output and output_error: "valid", "error" or "none"
    runs, crashes

control == <<entry, i, budget, once, attempts>>
counters == <<runs, crashes>>
vars == <<pc, msgs, disk, entry, live, resume, i, budget, once, attempts, trips, spent,
          completed, cancelled, token, outcome, output, runs, crashes>>

\* A message.  An assistant message has tool calls, or a text: none, one the output
\* schema accepts, or any other.  (A text beside calls is left out.)
Asst(calls, text) == [k |-> "asst", calls |-> calls, text |-> text]
Texts == {"none"} \cup (IF "schema" \in Options THEN {"json", "other"} ELSE {})
ModelAnswers == {Asst(FALSE, text) : text \in Texts} \cup {Asst(TRUE, "none")}
Text    == [k |-> "text"]       \* a user message: the task, a nudge, a summary
Results == [k |-> "results"]    \* tool_result blocks, synthesised ones too
Empty   == [k |-> "empty"]      \* the results of a tool_use turn without calls

IsAsst(m) == m.k = "asst"
HasCalls(m) == IsAsst(m) /\ m.calls

\* _is_pending_tool_turn
IsPendingToolTurn(ms) == ms # <<>> /\ HasCalls(Last(ms))

AssistantTurns(ms) == Cardinality({n \in DOMAIN ms : IsAsst(ms[n])})

\* Mutant: the calls stay unanswered.
InterjectedUnanswered(ms) == Append(ms, Text)

\* _append_interjection: the calls are answered first, as not executed.
Interjected(ms) == ms \o (IF Last(ms).calls THEN <<Results, Text>> ELSE <<Text>>)

ToolResults(a) == IF a.calls THEN Results ELSE Empty

\* to_openai_messages: each result is a message of its own, and a list without any
\* comes to nothing.  (The places of the messages that are sent.)
ToOpenAIMessages(ms) == {n \in DOMAIN ms : ms[n] # Empty}

\* LoopGuard.should_abort
AbortAfter == 2

\* last_assistant_text: that of the last assistant message that has one
FinalText(ms) == LET said == SelectSeq(ms, LAMBDA m : IsAsst(m) /\ m.text # "none")
                 IN  IF said = <<>> THEN "none" ELSE Last(said).text

\* _persist
Persist(ms, d) == disk' = [msgs |-> ms, done |-> d]

Stop(how) == pc' = "idle" /\ outcome' = how

\* Mutant: the early exits of the loop leave no word about the output.
ReturnsAsIs(how, out) == Stop(how) /\ output' = out

\* The loop returns; _note_missing_output says so where there is no output.
Returns(how, out) ==
    /\ Stop(how)
    /\ output' = IF "schema" \in Options /\ out = "none" THEN "error" ELSE out
-------------------------------------------------------------------------------
Init == /\ pc = "idle" /\ msgs = <<>> /\ disk = [msgs |-> <<>>, done |-> FALSE]
        /\ entry \in {"run", "send"} /\ live = FALSE /\ resume \in BOOLEAN
        /\ i = 0 /\ budget = 0 /\ once = {} /\ attempts = 0 /\ trips = 0
        /\ spent = FALSE /\ completed = FALSE /\ cancelled = FALSE /\ token = FALSE
        /\ outcome = "none" /\ output = "none"
        /\ runs = 0 /\ crashes = 0

\* Mutant: a resumed run has the whole budget again.
BeginDriveAfresh(ms) ==
    pc' = "top" /\ i' = 0 /\ budget' = MaxTurns /\ once' = {} /\ attempts' = 0

\* _drive's local variables, on a transcript that is ready to be continued
BeginDrive(ms) ==
    /\ pc' = "top"
    /\ i' = 0
    /\ budget' = IF entry = "send" THEN MaxTurns
                 ELSE IF AssistantTurns(ms) > MaxTurns THEN 0
                 ELSE MaxTurns - AssistantTurns(ms)
    /\ once' = {} /\ attempts' = 0

\* Mutant: no session is ever resumed.
LoadedNever  == resume /\ FALSE

\* There is a session to resume.
Loaded == resume /\ disk.msgs # <<>>

\* _run_inner up to the loop or to the pending tool turn.  A session that is done is
\* returned as it is.
Run ==
    /\ pc = "idle" /\ entry = "run" /\ runs < MaxRuns
    /\ runs' = runs + 1
    /\ output' = "none"
    /\ IF Loaded
       THEN /\ msgs' = disk.msgs
            /\ completed' = disk.done
            /\ UNCHANGED disk
            /\ IF disk.done
               THEN Stop("found done") /\ UNCHANGED <<i, budget, once, attempts>>
               ELSE /\ outcome' = "none"
                    /\ IF IsPendingToolTurn(disk.msgs)
                       THEN pc' = "repair" /\ UNCHANGED <<i, budget, once, attempts>>
                       ELSE BeginDrive(disk.msgs)
       ELSE /\ msgs' = <<Text>>
            /\ Persist(<<Text>>, FALSE)
            /\ completed' = FALSE
            /\ outcome' = "none"
            /\ BeginDrive(<<Text>>)
    /\ UNCHANGED <<entry, live, resume, trips, spent, cancelled, token, crashes>>

\* _send_inner up to the loop or to the pending tool turn
Send ==
    LET ms == IF live THEN msgs ELSE IF Loaded THEN disk.msgs ELSE <<>>
    IN  /\ pc = "idle" /\ entry = "send" /\ runs < MaxRuns
        /\ runs' = runs + 1
        /\ output' = "none"
        /\ completed' = FALSE
        /\ outcome' = "none"
        /\ live' = TRUE
        /\ resume' = (resume /\ (live \/ disk.msgs = <<>>))
        /\ IF IsPendingToolTurn(ms)
           THEN pc' = "repair" /\ msgs' = ms /\ UNCHANGED <<disk, i, budget, once, attempts>>
           ELSE /\ msgs' = Append(ms, Text)
                /\ Persist(Append(ms, Text), FALSE)
                /\ BeginDrive(Append(ms, Text))
        /\ UNCHANGED <<entry, trips, spent, cancelled, token, crashes>>

\* The pending turn's tools have run; send() then adds the new message.
Repaired ==
    LET ms == Append(msgs, Results) \o (IF entry = "send" THEN <<Text>> ELSE <<>>)
    IN  /\ pc = "repair"
        /\ msgs' = ms
        /\ Persist(ms, FALSE)
        /\ BeginDrive(ms)
        /\ UNCHANGED <<entry, live, resume, trips, spent, completed, cancelled, token,
                       outcome, output, counters>>

\* A tool call finds the token set: CancelledRun leaves run() as an exception.
ToolsCancelled ==
    /\ \/ pc = "repair"
       \/ pc = "tools" /\ Last(msgs).calls
    /\ token
    /\ Stop("cancelled in tools")
    /\ UNCHANGED <<msgs, disk, control, live, resume, trips, spent, completed, cancelled,
                   token, output, counters>>

\* CancelToken.cancel(), from another task.  Nothing ever resets the token.
Cancel ==
    /\ pc # "idle" /\ ~token
    /\ token' = TRUE
    /\ UNCHANGED <<pc, msgs, disk, control, live, resume, trips, spent, completed,
                   cancelled, outcome, output, counters>>
-------------------------------------------------------------------------------
\* The top of _drive's loop: out of turns, cancelled, or on to the next turn.
OutOfTurns ==
    /\ pc = "top" /\ i = budget
    /\ Returns("returned", output)
    /\ Persist(msgs, FALSE)
    /\ UNCHANGED <<msgs, control, live, resume, trips, spent, completed, cancelled, token,
                   counters>>

SeeCancelled ==
    /\ pc = "top" /\ i < budget /\ token
    /\ cancelled' = TRUE
    /\ completed' = FALSE
    /\ Persist(msgs, FALSE)
    /\ Returns("cancelled between turns", output)
    /\ UNCHANGED <<msgs, control, live, resume, trips, spent, token, counters>>

\* Mutant: one turn more than the budget.
NextTurnOneTooMany ==
    /\ pc = "top" /\ i <= budget /\ ~token
    /\ pc' = "context"
    /\ UNCHANGED <<msgs, disk, control, live, resume, trips, spent, completed, cancelled,
                   token, outcome, output, counters>>

NextTurn ==
    /\ pc = "top" /\ i < budget /\ ~token
    /\ pc' = "context"
    /\ UNCHANGED <<msgs, disk, control, live, resume, trips, spent, completed, cancelled,
                   token, outcome, output, counters>>

\* compact_when_large, the facade's compactor: below its threshold, or when the
\* summary fails, the transcript stays as it is.  One that is a single message is
\* left alone here (SessionStore looks at what a save then does).
Compactions(ms) ==
    {ms} \cup (IF "compactor" \in Options /\ Len(ms) > 1 THEN {<<Text>>} ELSE {})

\* _prepare_context, then the model is called.
CallModel ==
    /\ pc = "context"
    /\ msgs' \in Compactions(msgs)
    /\ IF msgs' = msgs THEN UNCHANGED disk ELSE Persist(msgs', FALSE)
    /\ pc' = "model"
    /\ UNCHANGED <<control, live, resume, trips, spent, completed, cancelled, token,
                   outcome, output, counters>>

ModelFails ==
    /\ pc \in {"context", "model"}
    /\ Stop("failed")
    /\ UNCHANGED <<msgs, disk, control, live, resume, trips, spent, completed, cancelled,
                   token, output, counters>>
-------------------------------------------------------------------------------
\* The model answers.  What every answer changes before _drive looks at it: it is
\* in the transcript, and its usage is counted.
Answers(ms) ==
    /\ pc = "model"
    /\ msgs' = ms
    /\ spent' \in {spent, spent \/ "token_budget" \in Options}
    /\ UNCHANGED <<entry, live, resume, budget, cancelled, token, counters>>

\* _drive says something to the model and goes on with the next turn.
Interjects(ms) ==
    /\ Answers(Interjected(ms))
    /\ Persist(Interjected(ms), FALSE)
    /\ pc' = "top"
    /\ i' = i + 1
    /\ UNCHANGED <<completed, outcome, output>>

\* _drive returns with the answer as the last message.
EndsWith(ms, done, out) ==
    /\ Answers(ms)
    /\ Persist(ms, done)
    /\ completed' = done
    /\ Returns("returned", out)
    /\ UNCHANGED i

\* LoopGuard.inspect finds the answer degenerate.
Trips == "guard" \in Options /\ trips' = trips + 1

\* _guard_status of such an answer: once a nudge, then the end
GuardStatus == IF trips + 1 >= AbortAfter THEN "abort" ELSE "nudged"

Degenerate(a) ==
    LET ms == Append(msgs, a)
    IN  /\ Trips
        /\ IF GuardStatus = "abort" THEN EndsWith(ms, FALSE, output) ELSE Interjects(ms)
        /\ UNCHANGED <<once, attempts>>

\* stop_reason "max_tokens": the model is asked once for a short conclusion.
Truncated(a) ==
    LET ms == Append(msgs, a)
    IN  /\ trips' = 0
        /\ IF "recovery" \in once
           THEN EndsWith(ms, FALSE, output) /\ UNCHANGED once
           ELSE Interjects(ms) /\ once' = once \cup {"recovery"}
        /\ UNCHANGED attempts

\* The model ends its turn, and _finalize_output looks at the text.  A provider may
\* report tool calls with any stop reason.
EndTurn(a) ==
    LET ms    == Append(msgs, a)
        valid == FinalText(ms) = "json"
    IN  /\ trips' = 0
        /\ IF "schema" \notin Options
           THEN EndsWith(ms, TRUE, output) /\ UNCHANGED attempts
           ELSE IF ~valid /\ attempts < OutputRetries
           THEN Interjects(ms) /\ attempts' = attempts + 1
           ELSE EndsWith(ms, TRUE, IF valid THEN "valid" ELSE "error") /\ UNCHANGED attempts
        /\ UNCHANGED once

\* Mutant: the turn is not persisted before its tools are run.
ToolUseUnsaved(a) ==
    /\ Answers(Append(msgs, a))
    /\ pc' = "tools"
    /\ trips' = 0
    /\ UNCHANGED <<disk, i, once, attempts, completed, outcome, output>>

\* stop_reason "tool_use": the turn is persisted before its tools are run.
ToolUse(a) ==
    /\ Answers(Append(msgs, a))
    /\ Persist(Append(msgs, a), FALSE)
    /\ pc' = "tools"
    /\ trips' = 0
    /\ UNCHANGED <<i, once, attempts, completed, outcome, output>>

\* The tools have run: over the token budget, near the last turn, or neither.
ToolsDone ==
    LET ms   == Append(msgs, ToolResults(Last(msgs)))
        wrap == "wrapup" \notin once /\ budget - 1 - i <= 2
    IN  /\ pc = "tools"
        /\ IF spent
           THEN /\ msgs' = ms
                /\ Persist(ms, FALSE)
                /\ completed' = FALSE
                /\ Returns("returned", output)
                /\ UNCHANGED <<i, once>>
           ELSE /\ msgs' = IF wrap THEN Append(ms, Text) ELSE ms
                /\ Persist(msgs', FALSE)
                /\ once' = IF wrap THEN once \cup {"wrapup"} ELSE once
                /\ i' = i + 1
                /\ pc' = "top"
                /\ UNCHANGED <<completed, outcome, output>>
        /\ UNCHANGED <<entry, budget, attempts, live, resume, trips, spent, cancelled,
                       token, counters>>
-------------------------------------------------------------------------------
\* The process dies, in a run or after it.  The next one resumes the session.
Crash ==
    /\ crashes < MaxCrashes
    /\ crashes' = crashes + 1
    /\ pc' = "idle" /\ msgs' = <<>> /\ live' = FALSE /\ resume' = TRUE
    /\ i' = 0 /\ budget' = 0 /\ once' = {} /\ attempts' = 0 /\ trips' = 0
    /\ spent' = FALSE /\ completed' = FALSE /\ cancelled' = FALSE /\ token' = FALSE
    /\ outcome' = "none" /\ output' = "none"
    /\ UNCHANGED <<disk, entry, runs>>

RunStep ==
    \/ Repaired \/ ToolsCancelled
    \/ OutOfTurns \/ SeeCancelled \/ NextTurn \/ CallModel \/ ModelFails
    \/ \E a \in ModelAnswers : Degenerate(a) \/ Truncated(a) \/ EndTurn(a) \/ ToolUse(a)
    \/ ToolsDone

Next == Run \/ Send \/ RunStep \/ Cancel \/ Crash

Spec == Init /\ [][Next]_vars
-------------------------------------------------------------------------------
Messages == ModelAnswers \cup {Text, Results, Empty}

\* The types; the loop never counts past its budget.
TypeOK ==
    /\ pc \in {"idle", "repair", "top", "context", "model", "tools"}
    /\ msgs \in Seq(Messages)
    /\ disk \in [msgs : Seq(Messages), done : BOOLEAN]
    /\ entry \in {"run", "send"} /\ live \in BOOLEAN /\ resume \in BOOLEAN
    /\ budget \in 0..MaxTurns /\ i \in 0..budget
    /\ once \subseteq {"recovery", "wrapup"}
    /\ attempts \in 0..OutputRetries /\ trips \in Nat
    /\ spent \in BOOLEAN /\ completed \in BOOLEAN /\ cancelled \in BOOLEAN
    /\ token \in BOOLEAN
    /\ outcome \in {"none", "returned", "found done", "failed", "cancelled in tools",
                    "cancelled between turns"}
    /\ output \in {"none", "valid", "error"}
    /\ runs \in 0..MaxRuns /\ crashes \in 0..MaxCrashes

\* Nothing is sent between the messages at m and at n.
NextTo(wire, m, n) == m < n /\ \A k \in wire : k <= m \/ n <= k

\* coordinator.py:628-632: whatever interjections, aborts, resumptions and
\* compactions came before, what a model is sent has the results of every tool call
\* right after it, and no results without a call.
WireValid ==
    LET wire == ToOpenAIMessages(msgs)
    IN  pc = "model" =>
            \A n \in wire :
                /\ HasCalls(msgs[n]) =>
                       \E m \in wire : NextTo(wire, n, m) /\ msgs[m] = Results
                /\ msgs[n] = Results =>
                       \E m \in wire : NextTo(wire, m, n) /\ HasCalls(msgs[m])

\* coordinator.py:891-892 and :990-991: whenever a run waits for the model, for
\* tools or for the next turn, and when it is over, a crash would lose nothing.
DiskIsCurrent == pc # "idle" \/ outcome # "none" => disk.msgs = msgs

\* coordinator.py:700-701: the turns a task's transcript holds, taken over all
\* its resumed runs, do not exceed max_turns.
TurnBudget == entry = "run" => AssistantTurns(disk.msgs) <= MaxTurns

\* coordinator.py:651-657: a run that was to give an output and has returned, by
\* whichever of its exits, has given one or says why there is none; one it gives is
\* the last text the model gave, in a run that completed and is stored as done.
\* (A run that only found its session done gives neither.)
OutputOrError ==
    "schema" \in Options /\ outcome \in {"returned", "cancelled between turns"} =>
        /\ output # "none"
        /\ output = "valid" => completed /\ disk.done /\ FinalText(msgs) = "json"

\* What a session holds only grows, but for a compaction and for a caller who
\* begins a new task without resuming.
OnlyCompactionForgets ==
    [][\/ IsPrefix(disk.msgs, disk'.msgs)
       \/ pc = "context"
       \/ pc = "idle" /\ ~resume /\ ~live]_vars
===============================================================================
