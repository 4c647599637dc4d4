---------------------------- MODULE ToolExecution ----------------------------
(* engine/coordinator.py, the tool half of a turn: _run_tool_blocks,          *)
(* _handle_tool_use and what they call, with engine/session.py's ToolJournal, *)
(* the CancelToken, and the resumption of a turn that a crash or a            *)
(* cancellation cut short.                                                    *)
(*                                                                            *)
(* A call is one tool_use block of the transcript, numbered in the order in   *)
(* which the model made them; its id is chosen by the model and may repeat.   *)
(* One action is what a task does from one await to the next.                 *)
EXTENDS Integers, FiniteSets

CONSTANTS MaxCalls,     \* bound: tool_use blocks of the conversation
          Ids,          \* tool_use ids
          Parallel,     \* max_parallel_tools
          MaxCrashes,   \* bound: crashes of the process
          MaxRuns       \* bound: runs, the resumed ones included

ASSUME ConstantsAssumption ==
    /\ MaxCalls \in Nat \ {0} /\ Parallel \in Nat \ {0}
    /\ MaxCrashes \in Nat /\ MaxRuns \in Nat \ {0}

Calls == 1..MaxCalls
NoCall == 0

VARIABLES
    made,         \* calls 1..made are in the persisted transcript
    answered,     \* calls 1..answered have their tool_result there
    id,           \* the id of each call made
    run,          \* "top" of the loop, "model" (being asked), "tools", "stopped"
                  \* (the run returned) or "aborted" (it raised CancelledRun)
    task,         \* where each call of the current turn is
    stray,        \* the same for the calls an aborted run left behind
    result,       \* the call whose execution produced the result a call was given
    seen,         \* _seen_tool_ids
    journal,      \* the ToolJournal object: the call whose result each id is mapped to
    journalFile,  \* what a new ToolJournal would read
    cancelled,    \* the cancel token of the current coordinator
    effects,      \* history: how often each call's tool has taken effect
    lost,         \* history: effects a crash hit before they were recorded
    overtaken,    \* history: calls under way when the run after theirs began
    ranHere,      \* history: calls that produced their own result in this run
    crashes, runs

transcript == <<made, answered, id>>
vars == <<made, answered, id, run, task, stray, result, seen, journal, journalFile,
          cancelled, effects, lost, overtaken, ranHere, crashes, runs>>

\* "queued": not yet through the semaphore.  "deciding": in check_async.
\* "waiting" and "asking": for _elicit_lock, and holding it.  "starting": past
\* the cancellation check, TOOL_START being emitted.  "executed" and "failed":
\* the tool took effect, or ended without, and nothing is recorded yet.
Holding == {"deciding", "waiting", "asking", "starting", "executed", "failed"}
Ended == {"none", "done", "raised"}
TaskStates == Ended \cup Holding \cup {"queued"}

Idle == [n \in Calls |-> "none"]
Pending == (answered + 1)..made

Init == /\ made = 0 /\ answered = 0 /\ id \in [Calls -> Ids]   \* drawn in advance
        /\ run = "top"
        /\ task = Idle /\ stray = Idle
        /\ result = [n \in Calls |-> NoCall]
        /\ seen = {}
        /\ journal = [i \in Ids |-> NoCall] /\ journalFile = journal
        /\ cancelled = FALSE
        /\ effects = [n \in Calls |-> 0] /\ lost = effects /\ overtaken = effects
        /\ ranHere = {}
        /\ crashes = 0 /\ runs = 1
-------------------------------------------------------------------------------
\* The token is looked at between two turns.
StartTurn ==
    /\ run = "top"
    /\ run' = IF cancelled THEN "stopped" ELSE "model"
    /\ UNCHANGED <<transcript, task, stray, result, seen, journal, journalFile,
                   cancelled, effects, lost, overtaken, ranHere, crashes, runs>>

\* The model answers with tool calls.  They are persisted before they are run.
ModelCalls(k) ==
    /\ run = "model"
    /\ k > made /\ k <= MaxCalls
    /\ made' = k
    /\ run' = "tools"
    /\ task' = [n \in Calls |-> IF n \in (made + 1)..k THEN "queued" ELSE "none"]
    /\ UNCHANGED <<answered, id, stray, result, seen, journal, journalFile, cancelled,
                   effects, lost, overtaken, ranHere, crashes, runs>>

\* The model ends the run.
RunStops ==
    /\ run = "model"
    /\ run' = "stopped"
    /\ UNCHANGED <<transcript, task, stray, result, seen, journal, journalFile,
                   cancelled, effects, lost, overtaken, ranHere, crashes, runs>>

SlotFree == Cardinality({m \in Calls : task[m] \in Holding}) < Parallel
OneByOne == Parallel = 1 \/ Cardinality(Pending) = 1

\* Mutants: an id met before in this run is looked up too; none is looked up.
ReplayedWhateverSeen(n) == journal[id[n]] # NoCall
ReplayedNever(n) == n = NoCall

\* The journal has a result for the id, and not from this run.
Replayed(n) == journal[id[n]] # NoCall /\ id[n] \notin seen

\* _handle_tool_use up to its first await, behind the semaphore: the tasks get
\* through it in the order of the blocks; one after the other, a call that
\* raised ends the turn.
Begin(n) ==
    /\ task[n] = "queued"
    /\ \A m \in 1..(n - 1) : task[m] # "queued"
    /\ OneByOne => \A m \in 1..(n - 1) : task[m] \in {"none", "done"}
    /\ SlotFree
    /\ IF Replayed(n)
       THEN /\ task' = [task EXCEPT ![n] = "done"]
            /\ result' = [result EXCEPT ![n] = journal[id[n]]]
       ELSE /\ task' = [task EXCEPT ![n] = "deciding"]
            /\ UNCHANGED result
    /\ UNCHANGED <<transcript, run, stray, seen, journal, journalFile, cancelled,
                   effects, lost, overtaken, ranHere, crashes, runs>>

\* Mutant: the journal's file is not written.
RecordInMemoryOnly(n) ==
    /\ task' = [task EXCEPT ![n] = "done"]
    /\ result' = [result EXCEPT ![n] = n]
    /\ seen' = seen \cup {id[n]}
    /\ journal' = [journal EXCEPT ![id[n]] = n]
    /\ ranHere' = ranHere \cup {n}
    /\ UNCHANGED <<transcript, run, stray, journalFile, cancelled, effects, lost,
                   overtaken, crashes, runs>>

\* The end of _handle_tool_use: the result is the call's own, and recorded.
RecordResult(n) ==
    /\ task' = [task EXCEPT ![n] = "done"]
    /\ result' = [result EXCEPT ![n] = n]
    /\ seen' = seen \cup {id[n]}
    /\ journal' = [journal EXCEPT ![id[n]] = n]
    /\ journalFile' = [journalFile EXCEPT ![id[n]] = n]
    /\ ranHere' = ranHere \cup {n}
    /\ UNCHANGED <<transcript, run, stray, cancelled, effects, lost, overtaken,
                   crashes, runs>>

\* DENY, an ASK nobody approves, arguments the schema rejects: an error result
\* without a side effect, recorded like any other.
Refuse(n) == task[n] \in {"deciding", "asking"} /\ RecordResult(n)

\* _check_cancelled, then TOOL_START is emitted.
ToDispatch(n) ==
    /\ task' = [task EXCEPT ![n] = IF cancelled THEN "raised" ELSE "starting"]
    /\ UNCHANGED <<transcript, run, stray, result, seen, journal, journalFile, cancelled,
                   effects, lost, overtaken, ranHere, crashes, runs>>

Allow(n) == task[n] = "deciding" /\ ToDispatch(n)

\* Mutant: the approval lock is not given back.
AskKeepingTheLock(n) ==
    /\ \/ task[n] = "deciding" /\ task' = [task EXCEPT ![n] = "waiting"]
       \/ /\ task[n] = "waiting"
          /\ \A m \in Calls : task[m] \notin {"asking", "done"}
          /\ task' = [task EXCEPT ![n] = "asking"]
    /\ UNCHANGED <<transcript, run, stray, result, seen, journal, journalFile, cancelled,
                   effects, lost, overtaken, ranHere, crashes, runs>>

\* An ASK waits for _elicit_lock, and then for the operator.
Ask(n) ==
    /\ \/ task[n] = "deciding" /\ task' = [task EXCEPT ![n] = "waiting"]
       \/ /\ task[n] = "waiting"
          /\ \A m \in Calls : task[m] # "asking"
          /\ task' = [task EXCEPT ![n] = "asking"]
    /\ UNCHANGED <<transcript, run, stray, result, seen, journal, journalFile, cancelled,
                   effects, lost, overtaken, ranHere, crashes, runs>>

Approve(n) == task[n] = "asking" /\ ToDispatch(n)

\* _dispatch_bounded: the tool takes effect, or raises or is timed out before
\* it could.  After an effect it may still end in an error result.
Dispatch(n, effect) ==
    /\ task[n] = "starting"
    /\ task' = [task EXCEPT ![n] = IF effect THEN "executed" ELSE "failed"]
    /\ effects' = [effects EXCEPT ![n] = IF effect THEN @ + 1 ELSE @]
    /\ UNCHANGED <<transcript, run, stray, result, seen, journal, journalFile, cancelled,
                   lost, overtaken, ranHere, crashes, runs>>

Record(n) == task[n] \in {"executed", "failed"} /\ RecordResult(n)

\* Mutant: a result is appended that no call has.
AppendOneTooMany ==
    /\ run = "tools"
    /\ \A n \in Pending : task[n] = "done"
    /\ answered' = made + 1
    /\ run' = "top"
    /\ task' = Idle
    /\ UNCHANGED <<made, id, stray, result, seen, journal, journalFile, cancelled,
                   effects, lost, overtaken, ranHere, crashes, runs>>

\* gather returns: the results are appended and persisted.
AppendResults ==
    /\ run = "tools"
    /\ \A n \in Pending : task[n] = "done"
    /\ answered' = made
    /\ run' = "top"
    /\ task' = Idle
    /\ UNCHANGED <<made, id, stray, result, seen, journal, journalFile, cancelled,
                   effects, lost, overtaken, ranHere, crashes, runs>>

Cancel ==
    /\ run \in {"top", "model", "tools"} /\ ~cancelled
    /\ cancelled' = TRUE
    /\ UNCHANGED <<transcript, run, task, stray, result, seen, journal, journalFile,
                   effects, lost, overtaken, ranHere, crashes, runs>>

\* gather hands the first CancelledRun to the run and cancels no sibling.
Abort ==
    /\ run = "tools"
    /\ \E n \in Calls : task[n] = "raised"
    /\ run' = "aborted"
    /\ UNCHANGED <<transcript, task, stray, result, seen, journal, journalFile,
                   cancelled, effects, lost, overtaken, ranHere, crashes, runs>>
-------------------------------------------------------------------------------
\* What _run_inner and _send_inner do before the loop: a turn without results
\* is run again, with the journal at hand.
EnterRun ==
    /\ runs < MaxRuns
    /\ runs' = runs + 1
    /\ run' = IF answered < made THEN "tools" ELSE "top"
    /\ task' = [n \in Calls |-> IF n \in Pending THEN "queued" ELSE "none"]
    /\ result' = [n \in Calls |-> IF n \in Pending THEN NoCall ELSE result[n]]
    /\ seen' = {}
    /\ ranHere' = {}

\* Another send() or run() on the same coordinator, its token as it was.
NextRun ==
    /\ run = "stopped"
    /\ EnterRun
    /\ UNCHANGED <<transcript, stray, journal, journalFile, cancelled, effects, lost,
                   overtaken, crashes>>

\* After an aborted run the caller resumes the session with a new agent: a new
\* token, and a journal read from the file.  Of the calls left behind, those not
\* past the cancellation check can no longer take effect, and are dropped.
ResumeAborted ==
    /\ run = "aborted"
    /\ \A n \in Calls : stray[n] \in Ended
    /\ EnterRun
    /\ stray' = [n \in Calls |-> IF task[n] \in {"starting", "executed", "failed"}
                                 THEN task[n] ELSE "none"]
    /\ journal' = journalFile
    /\ cancelled' = FALSE
    /\ overtaken' = [n \in Calls |-> overtaken[n]
                         + (IF task[n] \in {"starting", "executed"} THEN 1 ELSE 0)]
    /\ UNCHANGED <<transcript, journalFile, effects, lost, crashes>>

\* A call of the aborted run goes on: its result reaches the file, and not the
\* ToolJournal object of the run that took over.
StrayDispatch(n, effect) ==
    /\ stray[n] = "starting"
    /\ stray' = [stray EXCEPT ![n] = IF effect THEN "executed" ELSE "failed"]
    /\ effects' = [effects EXCEPT ![n] = IF effect THEN @ + 1 ELSE @]
    /\ UNCHANGED <<transcript, run, task, result, seen, journal, journalFile, cancelled,
                   lost, overtaken, ranHere, crashes, runs>>

StrayRecord(n) ==
    /\ stray[n] \in {"executed", "failed"}
    /\ stray' = [stray EXCEPT ![n] = "done"]
    /\ journalFile' = [journalFile EXCEPT ![id[n]] = n]
    /\ UNCHANGED <<transcript, run, task, result, seen, journal, cancelled,
                   effects, lost, overtaken, ranHere, crashes, runs>>

\* The process dies and the session is resumed: what no file holds is gone.
CrashAndResume ==
    /\ crashes < MaxCrashes
    /\ crashes' = crashes + 1
    /\ EnterRun
    /\ lost' = [n \in Calls |-> lost[n] + (IF task[n] = "executed" THEN 1 ELSE 0)]
    /\ stray' = Idle
    /\ journal' = journalFile
    /\ cancelled' = FALSE
    /\ UNCHANGED <<transcript, journalFile, effects, overtaken>>

TaskStep(n) == \/ Begin(n) \/ Refuse(n) \/ Allow(n) \/ Ask(n) \/ Approve(n) \/ Record(n)
               \/ \E e \in BOOLEAN : Dispatch(n, e)

StrayStep(n) == StrayRecord(n) \/ \E e \in BOOLEAN : StrayDispatch(n, e)

Next == \/ StartTurn
        \/ \E k \in Calls : ModelCalls(k)
        \/ RunStops
        \/ \E n \in Calls : TaskStep(n) \/ StrayStep(n)
        \/ AppendResults
        \/ Cancel
        \/ Abort
        \/ NextRun
        \/ ResumeAborted
        \/ CrashAndResume

Spec == Init /\ [][Next]_vars

\* The event loop runs every task that can go on; a tool ends (tool_timeout) and
\* the operator answers.
FairSpec == /\ Spec
            /\ \A n \in Calls : WF_vars(TaskStep(n)) /\ WF_vars(StrayStep(n))
            /\ WF_vars(AppendResults) /\ WF_vars(Abort)
-------------------------------------------------------------------------------
\* The types; a result is never in the transcript before its call.
TypeOK ==
    /\ made \in 0..MaxCalls /\ answered \in 0..made /\ id \in [Calls -> Ids]
    /\ run \in {"top", "model", "tools", "stopped", "aborted"}
    /\ task \in [Calls -> TaskStates] /\ stray \in [Calls -> TaskStates]
    /\ result \in [Calls -> Calls \cup {NoCall}]
    /\ seen \subseteq Ids
    /\ journal \in [Ids -> Calls \cup {NoCall}]
    /\ journalFile \in [Ids -> Calls \cup {NoCall}]
    /\ cancelled \in BOOLEAN
    /\ effects \in [Calls -> Nat] /\ lost \in [Calls -> Nat] /\ overtaken \in [Calls -> Nat]
    /\ ranHere \subseteq Calls
    /\ crashes \in 0..MaxCrashes /\ runs \in 1..MaxRuns

\* session.py:167-176, ARCHITECTURE.md:75-77: a call's side effect happens once,
\* however often the turn is interrupted and resumed, but for the two windows the
\* journal leaves open: a crash between an effect and its record, and a session
\* resumed while a call of the run that was cancelled is still under way.
OnceButForTheWindows == \A n \in Calls : effects[n] <= 1 + lost[n] + overtaken[n]

\* coordinator.py:452-457: a call is never handed the result of another call
\* that this same run has executed, though the model gave both the same id.
NoResultOfThisRunReused ==
    [][\A n \in Calls : result'[n] # result[n] => result'[n] \notin ranHere]_vars

\* What the journal is for: once a call's result is in the transcript, the
\* file holds that same result, so the turn could have been resumed at any
\* point with no other outcome.  (Where no other call has the same id.)
TranscriptAgreesWithJournal ==
    \A n \in 1..answered :
        (\A m \in Calls \ {n} : id[m] # id[n]) => result[n] = n /\ journalFile[id[n]] = n

\* A turn's tool phase comes to an end: semaphore, approval lock and the order
\* in which calls are let through never leave one waiting for ever.
ToolPhaseEnds == run = "tools" ~> run # "tools"
==============================================================================
