------------------------------ MODULE EventStream ------------------------------
(* engine/coordinator.py, astream and _emit: a run feeds its events through a *)
(* bounded asyncio.Queue to a consumer that may stop at any event.  The tasks *)
(* of a turn's tool calls feed the same queue.                                *)
(*                                                                            *)
(* asyncio.Queue is modelled with its two properties that matter: putters are *)
(* woken in the order in which they began to wait, and a task that comes      *)
(* along before a woken one has resumed takes its place in the queue.         *)
(*                                                                            *)
(* engine/telemetry.py is given every event after the queue, as on_event.     *)
(* The events that decide nothing there or here are left out: TEXT, its       *)
(* deltas, COMPACTION, and the NOTICE of an output repair.                    *)
EXTENDS Integers, Sequences, SequencesExt, FiniteSets

CONSTANTS Main,         \* the task of drive(), and so of the run
          Tools,        \* the tasks of a turn's tool calls
          Capacity,     \* maxsize of the queue
          MaxTurns      \* max_turns

ASSUME StreamConstants ==
    /\ Main \notin Tools /\ Capacity \in Nat \ {0} /\ MaxTurns \in Nat \ {0}

VARIABLES
    at,         \* what each task is about to emit, or to do
    how,        \* "runs", "waits" as a putter, or "woken" in put()
    turn,       \* model turns begun
    sink,       \* _event_sink is the queue's
    token,      \* the cancel token: "none", "clear" or "set"
    queue, putters,
    consumer,   \* "gets", "holds" an event; "finishes" or "leaves" the loop, "joins";
                \* "finished" or "closed"
    delivered,  \* the events the consumer was given
    spans,      \* telemetry's open spans: the run's, its turn's and its tool calls'
    orphaned    \* history: a cancelled run left a tool call or its RUN_END behind

streamVars == <<at, how, turn, sink, token, queue, putters, consumer, delivered, spans, orphaned>>

Tasks == Tools \cup {Main}

Events == {"RUN_START", "TURN_START", "USAGE", "TOOL_DECISION", "TOOL_START", "TOOL_END",
           "NOTICE", "ERROR", "RUN_END"}

Emits(l) == l \in Events \cup {"SENTINEL"}
Ended == {"none", "done", "raised", "killed"}

StreamInit == /\ at = [t \in Tasks |-> IF t = Main THEN "RUN_START" ELSE "none"]
              /\ how = [t \in Tasks |-> "runs"]
              /\ turn = 0
              /\ sink = TRUE
              /\ token \in {"none", "clear"}
              /\ queue = <<>> /\ putters = <<>>
              /\ consumer = "gets"
              /\ delivered = <<>>
              /\ spans = {}
              /\ orphaned = FALSE

\* Where a task can be after it has emitted at l: the loop of _drive with what
\* _observed and drive() put around it, and the events of one tool call.
After(l) ==
    CASE l = "RUN_START"     -> {"top"}
      [] l = "TURN_START"    -> {"USAGE", "ERROR"}
      [] l = "USAGE"         -> {"tools", "RUN_END", "ERROR"}
      [] l \in {"NOTICE", "ERROR"} -> {"RUN_END"}
      [] l = "RUN_END"       -> {"SENTINEL"}
      [] l = "TOOL_DECISION" -> IF token = "set" THEN {"raised"} ELSE {"TOOL_START"}
      [] l = "TOOL_START"    -> {"TOOL_END"}
      [] OTHER               -> {"done"}

\* A run that comes to its tools makes a task of each call.
Moves(t, l) ==
    at' = [u \in Tasks |-> IF u = t THEN l
                           ELSE IF l = "tools" THEN "TOOL_DECISION" ELSE at[u]]
-------------------------------------------------------------------------------
\* Mutant: only the run's own span is ended.
HandledRunOnly(t, e) ==
    CASE e = "RUN_START"  -> {"run"}
      [] e = "TURN_START" -> spans \cup {"turn"}
      [] e = "USAGE"      -> spans \ {"turn"}
      [] e = "TOOL_START" -> spans \cup {t}
      [] e = "TOOL_END"   -> spans \ {t}
      [] e = "RUN_END"    -> spans \ {"run"}
      [] OTHER            -> spans

\* The open spans after telemetry has been given task t's event
Handled(t, e) ==
    CASE e = "RUN_START"  -> {"run"}
      [] e = "TURN_START" -> spans \cup {"turn"}
      [] e = "USAGE"      -> spans \ {"turn"}
      [] e = "TOOL_START" -> spans \cup {t}
      [] e = "TOOL_END"   -> spans \ {t}
      [] e = "RUN_END"    -> {}
      [] OTHER            -> spans

\* Mutant: an event is dropped when the queue is full, and the sentinel forced in.
EmitDroppingWhenFull(t) ==
    /\ Emits(at[t]) /\ how[t] # "waits"
    /\ \E l \in After(at[t]) : Moves(t, l)
    /\ queue' = IF Len(queue) < Capacity \/ at[t] = "SENTINEL"
                THEN Append(queue, <<t, at[t]>>) ELSE queue
    /\ spans' = Handled(t, at[t])
    /\ UNCHANGED <<how, turn, sink, token, putters, consumer, delivered, orphaned>>

\* _emit, or the put of the sentinel.  The sink is looked up once, before the
\* put: an event under way when the consumer leaves still goes to the queue.
Emit(t) ==
    /\ Emits(at[t]) /\ how[t] # "waits"
    /\ IF how[t] = "runs" /\ ~sink /\ at[t] # "SENTINEL"
       THEN /\ \E l \in After(at[t]) : Moves(t, l)
            /\ spans' = Handled(t, at[t])
            /\ UNCHANGED <<how, queue, putters>>
       ELSE IF Len(queue) < Capacity
       THEN /\ queue' = Append(queue, <<t, at[t]>>)
            /\ how' = [how EXCEPT ![t] = "runs"]
            /\ \E l \in After(at[t]) : Moves(t, l)
            /\ spans' = Handled(t, at[t])
            /\ UNCHANGED putters
       ELSE /\ putters' = Append(putters, t)
            /\ how' = [how EXCEPT ![t] = "waits"]
            /\ UNCHANGED <<at, queue, spans>>
    /\ UNCHANGED <<turn, sink, token, consumer, delivered, orphaned>>

\* The top of _drive's loop.
Top ==
    /\ at[Main] = "top"
    /\ IF token = "set" \/ turn = MaxTurns
       THEN Moves(Main, "NOTICE") /\ UNCHANGED turn
       ELSE Moves(Main, "TURN_START") /\ turn' = turn + 1
    /\ UNCHANGED <<how, sink, token, queue, putters, consumer, delivered, spans,
                   orphaned>>

\* Mutant: a call that raised is waited for like the others.
GatherAllDone ==
    /\ at[Main] = "tools"
    /\ \A t \in Tools : at[t] = "done"
    /\ Moves(Main, "top")
    /\ UNCHANGED <<how, turn, sink, token, queue, putters, consumer, delivered, spans,
                   orphaned>>

\* gather: every call has its result, or one has raised CancelledRun and the run
\* leaves the others behind.
Gather ==
    /\ at[Main] = "tools"
    /\ \/ /\ \A t \in Tools : at[t] = "done"
          /\ Moves(Main, "top")
          /\ UNCHANGED orphaned
       \/ /\ \E t \in Tools : at[t] = "raised"
          /\ Moves(Main, "NOTICE")
          /\ orphaned' = (orphaned \/ \E t \in Tools : at[t] \notin Ended)
    /\ UNCHANGED <<how, turn, sink, token, queue, putters, consumer, delivered, spans>>

\* Agent.cancel(), or whoever else holds the token
Cancel ==
    /\ token = "clear" /\ at[Main] # "done"
    /\ token' = "set"
    /\ UNCHANGED <<at, how, turn, sink, queue, putters, consumer, delivered, spans,
                   orphaned>>
-------------------------------------------------------------------------------
\* get_nowait wakes the putter that has waited longest.
WakesPutter ==
    IF putters = <<>> THEN UNCHANGED <<putters, how>>
    ELSE /\ putters' = Tail(putters)
         /\ how' = [how EXCEPT ![Head(putters)] = "woken"]

Get ==
    /\ consumer = "gets" /\ queue # <<>>
    /\ queue' = Tail(queue)
    /\ WakesPutter
    /\ IF Head(queue)[2] = "SENTINEL"
       THEN consumer' = "finishes" /\ UNCHANGED delivered
       ELSE consumer' = "holds" /\ delivered' = Append(delivered, Head(queue))
    /\ UNCHANGED <<at, turn, sink, token, spans, orphaned>>

\* The consumer asks for the next event, or stops.
GoOn(next) ==
    /\ consumer = "holds"
    /\ consumer' = next
    /\ UNCHANGED <<at, how, turn, sink, token, queue, putters, delivered, spans, orphaned>>

\* Where a task.cancel() at l takes the run: _observed's finally emits RUN_END, which
\* finds no queue, unless the run was putting RUN_START or that very RUN_END, and
\* drive()'s puts the sentinel, unless it was at that already.
KilledAt(l) == CASE l \in {"RUN_START", "RUN_END"} -> "SENTINEL"
                 [] l = "SENTINEL" -> "done"
                 [] OTHER -> "RUN_END"

\* What is left of a queue of tasks when the dead ones have left it.
Without(waiting, dead) ==
    LET left[n \in 0..Len(waiting)] ==
            IF n = 0 THEN <<>>
            ELSE IF waiting[n] \in dead THEN left[n - 1] ELSE Append(left[n - 1], waiting[n])
    IN  left[Len(waiting)]

\* What the run awaits is cancelled with it.
Killed ==
    LET dead == {Main} \cup (IF at[Main] = "tools"
                             THEN {t \in Tools : at[t] \notin Ended} ELSE {})
    IN  /\ at' = [t \in Tasks |-> IF t \notin dead THEN at[t]
                                  ELSE IF t = Main THEN KilledAt(at[t]) ELSE "killed"]
        /\ how' = [t \in Tasks |-> IF t \in dead THEN "runs" ELSE how[t]]
        /\ putters' = Without(putters, dead)
        /\ orphaned' = (orphaned \/ at[Main] = "RUN_END")

\* astream's finally, up to `await task`
Leave ==
    /\ consumer \in {"leaves", "finishes"}
    /\ sink' = FALSE
    /\ IF at[Main] = "done"
       THEN /\ consumer' = IF consumer = "finishes" THEN "finished" ELSE "closed"
            /\ UNCHANGED <<at, how, token, putters, orphaned>>
       ELSE /\ consumer' = "joins"
            /\ IF token = "none" THEN Killed /\ UNCHANGED token
               ELSE token' = "set" /\ UNCHANGED <<at, how, putters, orphaned>>
    /\ UNCHANGED <<turn, queue, delivered, spans>>

Join ==
    /\ consumer = "joins" /\ at[Main] = "done"
    /\ consumer' = "closed"
    /\ UNCHANGED <<at, how, turn, sink, token, queue, putters, delivered, spans, orphaned>>

TaskStep(t) == Emit(t) \/ (t = Main /\ (Top \/ Gather))

StreamNext == \/ \E t \in Tasks : TaskStep(t)
              \/ Cancel
              \/ Get \/ GoOn("gets") \/ GoOn("leaves") \/ Leave \/ Join

StreamSpec == StreamInit /\ [][StreamNext]_streamVars

\* The event loop runs what can run, and a consumer that has not stopped comes
\* back for the next event.
FairStream == /\ StreamSpec
              /\ \A t \in Tasks : WF_streamVars(TaskStep(t))
              /\ WF_streamVars(Get) /\ WF_streamVars(GoOn("gets") \/ GoOn("leaves"))
              /\ WF_streamVars(Leave) /\ WF_streamVars(Join)
-------------------------------------------------------------------------------
\* The types; the queue never holds more than its maxsize.
StreamTypeOK ==
    /\ at \in [Tasks -> Events \cup Ended \cup {"top", "tools", "SENTINEL"}]
    /\ how \in [Tasks -> {"runs", "waits", "woken"}]
    /\ turn \in 0..MaxTurns /\ sink \in BOOLEAN /\ token \in {"none", "clear", "set"}
    /\ queue \in Seq(Tasks \X (Events \cup {"SENTINEL"})) /\ Len(queue) <= Capacity
    /\ putters \in Seq(Tasks)
    /\ consumer \in {"gets", "holds", "leaves", "finishes", "joins", "closed", "finished"}
    /\ delivered \in Seq(Tasks \X Events)
    /\ spans \subseteq {"run", "turn"} \cup Tools
    /\ orphaned \in BOOLEAN

Count(s, e) == Cardinality({n \in DOMAIN s : s[n] = e})

\* coordinator.py:803-808: a consumer who goes on to the end is given the whole
\* run, whatever the queue's size and the tasks' order: RUN_START first, RUN_END
\* last, and each TOOL_START with its TOOL_END.  (Not where the run was cancelled
\* with a call under way, whose events may come after RUN_END or never.)
StreamIsComplete ==
    /\ StreamTypeOK
    /\ consumer = "finished" /\ ~orphaned =>
           /\ Head(delivered) = <<Main, "RUN_START">>
           /\ Last(delivered) = <<Main, "RUN_END">>
           /\ \A t \in Tools :
                  Count(delivered, <<t, "TOOL_START">>) = Count(delivered, <<t, "TOOL_END">>)

HasStopped == consumer \in {"leaves", "joins"}
Finished == at[Main] = "done"

\* telemetry.py:339-360: when a run is over, however it was ended -- by its own last
\* turn, an error of the model, a cancellation, a consumer that left -- every span it
\* opened has been ended.  (A call it left behind may still open one.)
SpansEnd == Finished /\ ~orphaned => spans = {}

\* A run whose events are consumed comes to its end, however small the queue, and a
\* consumer who stops while the queue has a free place gets out of the stream.
NobodyWaitsForever ==
    /\ <>(Finished \/ HasStopped)
    /\ (consumer = "joins"
           /\ Len(queue) + Cardinality({t \in Tasks : how[t] = "woken"}) < Capacity)
       ~> consumer = "closed"
===============================================================================
