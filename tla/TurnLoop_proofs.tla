---------------------------- MODULE TurnLoop_proofs ----------------------------
(* Theorems about TurnLoop, for any bounds and options.                       *)
EXTENDS TurnLoop, FiniteSetTheorems, SequenceTheorems, TLAPS

\* While a run is under way it has not ended and has no output; a conversation that
\* is kept in memory has had a run that ended, or is in one.
FlowInv ==
    /\ pc # "idle" => outcome = "none" /\ output = "none"
    /\ live => pc # "idle" \/ outcome # "none"
    /\ entry = "run" => ~live

\* What is left of the budget, with the turns the transcript holds, is no more than
\* max_turns; the turn whose tools are run is one of them already.
CountInv ==
    /\ pc \in {"context", "model", "tools"} => i < budget
    /\ entry = "run" =>
           /\ pc \in {"top", "context", "model"} =>
                  AssistantTurns(msgs) + (budget - i) <= MaxTurns
           /\ pc = "tools" => AssistantTurns(msgs) + (budget - i) <= MaxTurns + 1

IInv == TypeOK /\ FlowInv /\ DiskIsCurrent /\ CountInv /\ TurnBudget /\ OutputOrError
-------------------------------------------------------------------------------
(* Transcripts and the assistant turns in them                                *)

\* What is not the model's answer is not a turn of it.
LEMMA Kinds ==
    /\ \A a \in ModelAnswers : a \in Messages /\ IsAsst(a) /\ a.calls \in BOOLEAN
    /\ \A m \in {Text, Results, Empty} : m \in Messages /\ ~IsAsst(m)
<1>1. ASSUME NEW b \in BOOLEAN, NEW text
      PROVE  IsAsst(Asst(b, text)) /\ Asst(b, text).calls = b
  BY DEF Asst, IsAsst
<1>2. ASSUME NEW a \in ModelAnswers PROVE \E b \in BOOLEAN : \E text : a = Asst(b, text)
  BY DEF ModelAnswers
<1>3. \A a \in ModelAnswers : IsAsst(a) /\ a.calls \in BOOLEAN
  BY <1>1, <1>2
<1>4. ~IsAsst(Text) /\ ~IsAsst(Results) /\ ~IsAsst(Empty)
  BY DEF Text, Results, Empty, IsAsst
<1>5. QED
  BY <1>3, <1>4 DEF Messages

Asked(ms) == {n \in DOMAIN ms : IsAsst(ms[n])}

\* A transcript has finitely many assistant turns.
LEMMA TurnsFinite ==
    ASSUME NEW ms \in Seq(Messages)
    PROVE  IsFiniteSet(Asked(ms)) /\ AssistantTurns(ms) \in Nat
<1>1. Len(ms) \in Nat /\ DOMAIN ms = 1..Len(ms)
  OBVIOUS
<1>2. IsFiniteSet(1..Len(ms))
  BY <1>1, FS_Interval
<1>3. Asked(ms) \subseteq 1..Len(ms)
  BY <1>1 DEF Asked
<1>4. IsFiniteSet(Asked(ms))
  BY <1>2, <1>3, FS_Subset
<1>5. QED
  BY <1>4, FS_CardinalityType DEF AssistantTurns, Asked

\* A message more is one turn more if the model gave it, and none otherwise.
LEMMA TurnsOfAppend ==
    ASSUME NEW ms \in Seq(Messages), NEW m \in Messages
    PROVE  /\ Append(ms, m) \in Seq(Messages)
           /\ Last(Append(ms, m)) = m
           /\ ~IsAsst(m) => AssistantTurns(Append(ms, m)) = AssistantTurns(ms)
           /\ IsAsst(m) => AssistantTurns(Append(ms, m)) = AssistantTurns(ms) + 1
<1> DEFINE t == Append(ms, m)
           n == Len(ms) + 1
<1>1. t \in Seq(Messages) /\ Len(t) = n /\ n \in Nat /\ DOMAIN t = 1..n /\ t[n] = m
  OBVIOUS
<1>2. Last(t) = m
  BY <1>1 DEF Last
<1>3. DOMAIN ms = 1..(n - 1) /\ \A k \in 1..(n - 1) : t[k] = ms[k]
  OBVIOUS
<1>4. ASSUME ~IsAsst(m) PROVE Asked(t) = Asked(ms)
  BY <1>1, <1>3, <1>4 DEF Asked
<1>5. ASSUME IsAsst(m) PROVE Asked(t) = Asked(ms) \cup {n} /\ n \notin Asked(ms)
  BY <1>1, <1>3, <1>5 DEF Asked
<1>6. ASSUME IsAsst(m) PROVE Cardinality(Asked(ms) \cup {n}) = Cardinality(Asked(ms)) + 1
  BY <1>5, <1>6, TurnsFinite, FS_AddElement
<1>7. QED
  BY <1>1, <1>2, <1>4, <1>5, <1>6 DEF AssistantTurns, Asked

\* A new task, and a transcript that was never begun, hold no turn.
LEMMA NoTurns ==
    /\ <<>> \in Seq(Messages) /\ AssistantTurns(<<>>) = 0
    /\ <<Text>> \in Seq(Messages) /\ AssistantTurns(<<Text>>) = 0
<1>1. Asked(<<>>) = {} /\ <<>> \in Seq(Messages)
  BY DEF Asked
<1>2. AssistantTurns(<<>>) = 0
  BY <1>1, FS_EmptySet DEF AssistantTurns, Asked
<1>3. <<Text>> = Append(<<>>, Text)
  OBVIOUS
<1>4. QED
  BY <1>1, <1>2, <1>3, Kinds, TurnsOfAppend

\* What _drive says to the model, with the results before it or not, is no turn.
LEMMA TurnsOfInterjected ==
    ASSUME NEW ms \in Seq(Messages), NEW a \in ModelAnswers
    PROVE  /\ Interjected(Append(ms, a)) \in Seq(Messages)
           /\ AssistantTurns(Interjected(Append(ms, a))) = AssistantTurns(ms) + 1
<1> DEFINE t == Append(ms, a)
<1>1. t \in Seq(Messages) /\ Last(t) = a /\ AssistantTurns(t) = AssistantTurns(ms) + 1
  BY Kinds, TurnsOfAppend
<1> HIDE DEF t
<1> DEFINE u == Append(t, Results)
<1>2. t \o <<Text>> = Append(t, Text) /\ t \o <<Results, Text>> = Append(u, Text)
  BY <1>1
<1>3. u \in Seq(Messages) /\ AssistantTurns(u) = AssistantTurns(t)
  BY <1>1, Kinds, TurnsOfAppend
<1> HIDE DEF u
<1>4. \A v \in {t, u} : /\ Append(v, Text) \in Seq(Messages)
                        /\ AssistantTurns(Append(v, Text)) = AssistantTurns(ms) + 1
  BY <1>1, <1>3, Kinds, TurnsOfAppend
<1>5. Interjected(t) \in {Append(t, Text), Append(u, Text)}
  BY <1>1, <1>2, Zenon DEF Interjected
<1>6. QED
  BY <1>4, <1>5 DEF t
-------------------------------------------------------------------------------
(* Runs that begin, and runs that go on after a repair                        *)

\* The budget of a run is what the transcript leaves of max_turns.
LEMMA BudgetLeft ==
    ASSUME TypeOK, NEW ms \in Seq(Messages), BeginDrive(ms),
           entry = "run" => AssistantTurns(ms) <= MaxTurns
    PROVE  /\ budget' \in 0..MaxTurns /\ i' = 0 /\ i' \in 0..budget'
           /\ once' = {} /\ attempts' \in 0..OutputRetries /\ pc' = "top"
           /\ entry = "run" => AssistantTurns(ms) + (budget' - i') <= MaxTurns
<1> DEFINE n == AssistantTurns(ms)
<1>1. n \in Nat /\ MaxTurns \in Nat /\ OutputRetries \in Nat
  BY TurnsFinite, ConstantsAssumption DEF ConstantsAssumption
<1>2. /\ budget' = IF entry = "send" THEN MaxTurns ELSE IF n > MaxTurns THEN 0 ELSE MaxTurns - n
      /\ i' = 0 /\ once' = {} /\ attempts' = 0 /\ pc' = "top"
  BY DEF BeginDrive
<1>3. entry = "run" => n <= MaxTurns
  OBVIOUS
<1> HIDE DEF n
<1>4. budget' \in 0..MaxTurns
  BY <1>1, <1>2
<1>5. entry = "run" => n + (budget' - i') <= MaxTurns
  BY <1>1, <1>2, <1>3
<1>6. 0 \in 0..budget' /\ 0 \in 0..OutputRetries
  BY <1>1, <1>4
<1>7. QED
  BY <1>2, <1>4, <1>5, <1>6 DEF n

\* The invariant holds where a run enters the loop with what its session holds.
LEMMA Started ==
    ASSUME IInv, NEW ms \in Seq(Messages), BeginDrive(ms),
           entry = "run" => AssistantTurns(ms) <= MaxTurns,
           msgs' = ms, disk' \in [msgs : Seq(Messages), done : BOOLEAN], disk'.msgs = ms,
           outcome' = "none", output' = "none", entry' = entry,
           live' = live \/ (entry = "send" /\ live' = TRUE),
           completed' \in BOOLEAN, resume' \in BOOLEAN, runs' \in 0..MaxRuns,
           UNCHANGED <<trips, spent, cancelled, token, crashes>>
    PROVE  IInv'
<1>1. /\ budget' \in 0..MaxTurns /\ i' = 0 /\ i' \in 0..budget'
      /\ once' = {} /\ attempts' \in 0..OutputRetries /\ pc' = "top"
      /\ entry = "run" => AssistantTurns(ms) + (budget' - i') <= MaxTurns
  BY BudgetLeft DEF IInv
<1>2. live' \in BOOLEAN /\ (entry = "run" => ~live')
  <2>1. live \in BOOLEAN /\ (entry = "run" => ~live) /\ TRUE \in BOOLEAN
    BY DEF IInv, TypeOK, FlowInv
  <2>2. entry = "run" => entry # "send"
    OBVIOUS
  <2>3. CASE live' = live
    BY <2>1, <2>3, Zenon
  <2>4. CASE entry = "send" /\ live' = TRUE
    BY <2>1, <2>2, <2>4, Zenon
  <2>5. QED
    BY <2>3, <2>4, Zenon
<1>3. TypeOK'
  BY <1>1, <1>2 DEF IInv, TypeOK
<1>4. FlowInv' /\ DiskIsCurrent' /\ OutputOrError'
  BY <1>1, <1>2 DEF FlowInv, DiskIsCurrent, OutputOrError
<1>5. CountInv' /\ TurnBudget'
  BY <1>1 DEF CountInv, TurnBudget
<1>6. QED
  BY <1>3, <1>4, <1>5 DEF IInv

\* run() (coordinator.py:670-706) begins a task, resumes one or finds it done.
LEMMA RunIInv == ASSUME IInv, Run PROVE IInv'
<1>1. pc = "idle" /\ entry = "run" /\ entry' = entry /\ runs' \in 0..MaxRuns
  <2>1. pc = "idle" /\ entry = "run" /\ entry' = entry /\ runs < MaxRuns /\ runs' = runs + 1
    BY DEF Run
  <2>2. runs \in 0..MaxRuns /\ MaxRuns \in Nat
    BY ConstantsAssumption DEF IInv, TypeOK, ConstantsAssumption
  <2>3. QED
    BY <2>1, <2>2
<1>2. UNCHANGED <<live, resume, trips, spent, cancelled, token, crashes>> /\ output' = "none"
  BY DEF Run
<1>3. disk.msgs \in Seq(Messages) /\ disk.done \in BOOLEAN /\ MaxTurns \in Nat
  BY ConstantsAssumption DEF IInv, TypeOK, ConstantsAssumption
<1>4. CASE Loaded /\ disk.done
  <2>1. /\ pc' = "idle" /\ outcome' = "found done" /\ msgs' = disk.msgs /\ completed' = disk.done
        /\ UNCHANGED <<disk, i, budget, once, attempts>>
    BY <1>4 DEF Run, Stop
  <2>2. TypeOK'
    BY <1>1, <1>2, <1>3, <2>1 DEF IInv, TypeOK
  <2>3. QED
    BY <1>1, <1>2, <2>1, <2>2
    DEF IInv, FlowInv, DiskIsCurrent, CountInv, TurnBudget, OutputOrError
<1>5. CASE Loaded /\ ~disk.done /\ IsPendingToolTurn(disk.msgs)
  <2>1. /\ pc' = "repair" /\ outcome' = "none" /\ msgs' = disk.msgs /\ completed' = disk.done
        /\ UNCHANGED <<disk, i, budget, once, attempts>>
    BY <1>5 DEF Run
  <2>2. TypeOK'
    BY <1>1, <1>2, <1>3, <2>1 DEF IInv, TypeOK
  <2>3. QED
    BY <1>1, <1>2, <2>1, <2>2
    DEF IInv, FlowInv, DiskIsCurrent, CountInv, TurnBudget, OutputOrError
<1>6. CASE Loaded /\ ~disk.done /\ ~IsPendingToolTurn(disk.msgs)
  <2>1. /\ outcome' = "none" /\ msgs' = disk.msgs /\ completed' = disk.done
        /\ UNCHANGED disk /\ BeginDrive(disk.msgs)
    BY <1>6 DEF Run
  <2>2. entry = "run" => AssistantTurns(disk.msgs) <= MaxTurns
    BY DEF IInv, TurnBudget
  <2>3. /\ live' = live \/ (entry = "send" /\ live' = TRUE)
        /\ completed' \in BOOLEAN /\ resume' \in BOOLEAN
        /\ disk' \in [msgs : Seq(Messages), done : BOOLEAN] /\ disk'.msgs = disk.msgs
    BY <1>2, <1>3, <2>1 DEF IInv, TypeOK
  <2>4. QED
    BY <1>1, <1>2, <1>3, <2>1, <2>2, <2>3, Started
<1>7. CASE ~Loaded
  <2> DEFINE ms == <<Text>>
  <2>1. /\ outcome' = "none" /\ msgs' = ms /\ completed' = FALSE
        /\ disk' = [msgs |-> ms, done |-> FALSE] /\ BeginDrive(ms)
    BY <1>7 DEF Run, Persist
  <2>2. ms \in Seq(Messages) /\ AssistantTurns(ms) = 0
    BY NoTurns
  <2> HIDE DEF ms
  <2>3. disk' \in [msgs : Seq(Messages), done : BOOLEAN] /\ disk'.msgs = ms
    BY <2>1, <2>2
  <2>4. /\ live' = live \/ (entry = "send" /\ live' = TRUE)
        /\ completed' \in BOOLEAN /\ resume' \in BOOLEAN
    BY <1>2, <2>1 DEF IInv, TypeOK
  <2>5. entry = "run" => AssistantTurns(ms) <= MaxTurns
    BY <1>3, <2>2
  <2>6. QED
    BY <1>1, <1>2, <2>1, <2>2, <2>3, <2>4, <2>5, Started
<1>8. QED
  BY <1>4, <1>5, <1>6, <1>7

\* send() (coordinator.py:708-735) goes on from memory, from disk or from nothing.
LEMMA SendIInv == ASSUME IInv, Send PROVE IInv'
<1> DEFINE ms == IF live THEN msgs ELSE IF Loaded THEN disk.msgs ELSE <<>>
<1>1. pc = "idle" /\ entry = "send" /\ entry' = entry /\ runs' \in 0..MaxRuns
  <2>1. pc = "idle" /\ entry = "send" /\ entry' = entry /\ runs < MaxRuns /\ runs' = runs + 1
    BY DEF Send
  <2>2. runs \in 0..MaxRuns /\ MaxRuns \in Nat
    BY ConstantsAssumption DEF IInv, TypeOK, ConstantsAssumption
  <2>3. QED
    BY <2>1, <2>2
<1>2. /\ UNCHANGED <<trips, spent, cancelled, token, crashes>> /\ output' = "none"
      /\ completed' = FALSE /\ outcome' = "none" /\ live' = TRUE /\ resume' \in BOOLEAN
  BY DEF Send, IInv, TypeOK
<1>3. /\ IsPendingToolTurn(ms) =>
             pc' = "repair" /\ msgs' = ms /\ UNCHANGED <<disk, i, budget, once, attempts>>
      /\ ~IsPendingToolTurn(ms) =>
             /\ msgs' = Append(ms, Text)
             /\ disk' = [msgs |-> Append(ms, Text), done |-> FALSE]
             /\ BeginDrive(Append(ms, Text))
  BY DEF Send, Persist
<1>4. ms \in Seq(Messages) /\ (ms # <<>> => disk.msgs = ms)
  <2>1. msgs \in Seq(Messages) /\ disk.msgs \in Seq(Messages) /\ <<>> \in Seq(Messages)
    BY NoTurns DEF IInv, TypeOK
  <2>2. live => disk.msgs = msgs
    BY DEF IInv, FlowInv, DiskIsCurrent
  <2>3. ms \in {msgs, disk.msgs, <<>>} /\ ((ms = msgs /\ live) \/ ms = disk.msgs \/ ms = <<>>)
    OBVIOUS
  <2>4. QED
    BY <2>1, <2>2, <2>3
<1> HIDE DEF ms
<1>5. CASE IsPendingToolTurn(ms)
  <2>1. /\ pc' = "repair" /\ msgs' = ms /\ UNCHANGED <<disk, i, budget, once, attempts>>
        /\ disk.msgs = ms
    BY <1>3, <1>4, <1>5 DEF IsPendingToolTurn
  <2>2. TypeOK'
    BY <1>1, <1>2, <1>4, <2>1 DEF IInv, TypeOK
  <2>3. QED
    BY <1>1, <1>2, <2>1, <2>2
    DEF IInv, FlowInv, DiskIsCurrent, CountInv, TurnBudget, OutputOrError
<1>6. CASE ~IsPendingToolTurn(ms)
  <2> DEFINE t == Append(ms, Text)
  <2>1. msgs' = t /\ disk' = [msgs |-> t, done |-> FALSE] /\ BeginDrive(t)
    BY <1>3, <1>6
  <2>2. t \in Seq(Messages)
    BY <1>4, Kinds, TurnsOfAppend
  <2> HIDE DEF t
  <2>3. disk' \in [msgs : Seq(Messages), done : BOOLEAN] /\ disk'.msgs = t
    BY <2>1, <2>2
  <2>4. QED
    BY <1>1, <1>2, <2>1, <2>2, <2>3, Started
<1>7. QED
  BY <1>5, <1>6

\* The pending calls of a resumed transcript are answered (coordinator.py:724-733).
LEMMA RepairedIInv == ASSUME IInv, Repaired PROVE IInv'
<1> DEFINE u == Append(msgs, Results)
           ms == u \o (IF entry = "send" THEN <<Text>> ELSE <<>>)
<1>1. /\ pc = "repair" /\ msgs' = ms /\ disk' = [msgs |-> ms, done |-> FALSE] /\ BeginDrive(ms)
      /\ UNCHANGED <<entry, live, resume, trips, spent, completed, cancelled, token,
                     outcome, output, runs, crashes>>
  BY DEF Repaired, Persist, counters
<1>2. /\ outcome = "none" /\ output = "none" /\ disk.msgs = msgs /\ msgs \in Seq(Messages)
      /\ live \in BOOLEAN /\ resume \in BOOLEAN /\ completed \in BOOLEAN /\ runs \in 0..MaxRuns
      /\ entry = "run" => AssistantTurns(msgs) <= MaxTurns
      /\ entry \in {"run", "send"}
  BY <1>1 DEF IInv, TypeOK, FlowInv, DiskIsCurrent, TurnBudget
<1>3. u \in Seq(Messages) /\ AssistantTurns(u) = AssistantTurns(msgs)
  BY <1>2, Kinds, TurnsOfAppend
<1> HIDE DEF u
<1>4. /\ entry = "send" => ms = Append(u, Text)
      /\ entry = "run" => ms = u
  BY <1>3
<1>5. ms \in Seq(Messages) /\ (entry = "run" => AssistantTurns(ms) <= MaxTurns)
  BY <1>2, <1>3, <1>4, Kinds, TurnsOfAppend
<1> HIDE DEF ms
<1>6. disk' \in [msgs : Seq(Messages), done : BOOLEAN] /\ disk'.msgs = ms
  BY <1>1, <1>5
<1>7. QED
  BY <1>1, <1>2, <1>5, <1>6, Started
-------------------------------------------------------------------------------
(* Steps that leave the transcript alone                                      *)

\* Every counter may be 0.
LEMMA Zeros ==
    /\ 0 \in 0..MaxTurns /\ 0 \in 0..0 /\ 0 \in 0..OutputRetries
    /\ 0 \in 0..MaxRuns /\ 0 \in 0..MaxCrashes
    /\ {} \subseteq {"recovery", "wrapup"}
  BY ConstantsAssumption DEF ConstantsAssumption

\* The invariant holds at the start.
LEMMA InitIInv == Init => IInv
<1> SUFFICES ASSUME Init PROVE IInv
  OBVIOUS
<1>1. msgs = <<>> /\ disk = [msgs |-> <<>>, done |-> FALSE] /\ disk.msgs = <<>>
  BY DEF Init
<1>2. disk \in [msgs : Seq(Messages), done : BOOLEAN]
  BY <1>1, NoTurns
<1>3. TypeOK
  BY <1>1, <1>2, NoTurns, Zeros DEF Init, TypeOK
<1>4. TurnBudget
  BY <1>1, NoTurns, ConstantsAssumption DEF TurnBudget, ConstantsAssumption
<1>5. FlowInv /\ DiskIsCurrent /\ CountInv /\ OutputOrError
  BY DEF Init, FlowInv, DiskIsCurrent, CountInv, OutputOrError
<1>6. QED
  BY <1>3, <1>4, <1>5 DEF IInv

\* Nothing changes.
LEMMA StutterIInv == ASSUME IInv, UNCHANGED vars PROVE IInv'
<1>1. TypeOK'
  <2>1. /\ pc' = pc /\ msgs' = msgs /\ disk' = disk /\ entry' = entry /\ live' = live
        /\ resume' = resume /\ i' = i /\ budget' = budget /\ once' = once
        /\ attempts' = attempts /\ trips' = trips /\ spent' = spent
        /\ completed' = completed /\ cancelled' = cancelled /\ token' = token
        /\ outcome' = outcome /\ output' = output /\ runs' = runs /\ crashes' = crashes
    BY Zenon DEF vars
  <2>2. TypeOK
    BY Zenon DEF IInv
  <2>3. /\ (pc \in {"idle", "repair", "top", "context", "model", "tools"})'
        /\ (msgs \in Seq(Messages))' /\ (disk \in [msgs : Seq(Messages), done : BOOLEAN])'
        /\ (entry \in {"run", "send"})' /\ (live \in BOOLEAN)' /\ (resume \in BOOLEAN)'
    BY <2>1, <2>2 DEF TypeOK
  <2>4. /\ (budget \in 0..MaxTurns)' /\ (i \in 0..budget)'
        /\ (once \subseteq {"recovery", "wrapup"})' /\ (attempts \in 0..OutputRetries)'
        /\ (trips \in Nat)' /\ (runs \in 0..MaxRuns)' /\ (crashes \in 0..MaxCrashes)'
    BY <2>1, <2>2 DEF TypeOK
  <2>5. /\ (spent \in BOOLEAN)' /\ (completed \in BOOLEAN)' /\ (cancelled \in BOOLEAN)'
        /\ (token \in BOOLEAN)' /\ (output \in {"none", "valid", "error"})'
        /\ (outcome \in {"none", "returned", "found done", "failed", "cancelled in tools",
                         "cancelled between turns"})'
    BY <2>1, <2>2 DEF TypeOK
  <2>6. QED
    BY <2>3, <2>4, <2>5, Zenon DEF TypeOK
<1>2. FlowInv' /\ DiskIsCurrent'
  BY DEF IInv, vars, FlowInv, DiskIsCurrent
<1>3. CountInv' /\ TurnBudget' /\ OutputOrError'
  BY DEF IInv, vars, CountInv, TurnBudget, OutputOrError
<1>4. QED
  BY <1>1, <1>2, <1>3 DEF IInv

\* The token is set (agent.py:472-483).
LEMMA CancelIInv == ASSUME IInv, Cancel PROVE IInv'
<1>1. TypeOK' /\ FlowInv' /\ DiskIsCurrent'
  BY DEF Cancel, control, counters, IInv, TypeOK, FlowInv, DiskIsCurrent
<1>2. CountInv' /\ TurnBudget' /\ OutputOrError'
  BY DEF Cancel, control, counters, IInv, CountInv, TurnBudget, OutputOrError
<1>3. QED
  BY <1>1, <1>2 DEF IInv

\* The loop goes on to a turn of its budget (coordinator.py:857-873).
LEMMA NextTurnIInv == ASSUME IInv, NextTurn PROVE IInv'
<1>1. TypeOK' /\ FlowInv' /\ DiskIsCurrent'
  BY DEF NextTurn, control, counters, IInv, TypeOK, FlowInv, DiskIsCurrent
<1>2. CountInv' /\ TurnBudget' /\ OutputOrError'
  BY DEF NextTurn, control, counters, IInv, FlowInv, CountInv, TurnBudget, OutputOrError
<1>3. QED
  BY <1>1, <1>2 DEF IInv

\* An exception leaves the run: what it held is on disk already.
LEMMA LeavesIInv ==
    ASSUME IInv, pc # "idle", NEW how \in {"failed", "cancelled in tools"}, Stop(how),
           UNCHANGED <<msgs, disk, control, live, resume, trips, spent, completed, cancelled,
                       token, output, counters>>
    PROVE  IInv'
<1>1. TypeOK' /\ FlowInv' /\ DiskIsCurrent'
  BY DEF Stop, control, counters, IInv, TypeOK, FlowInv, DiskIsCurrent
<1>2. CountInv' /\ TurnBudget' /\ OutputOrError'
  BY DEF Stop, control, counters, IInv, CountInv, TurnBudget, OutputOrError
<1>3. QED
  BY <1>1, <1>2 DEF IInv

\* The loop returns between two turns: there is no output.
LEMMA ReturnsIInv ==
    ASSUME IInv, pc = "top", NEW how \in {"returned", "cancelled between turns"},
           Returns(how, output), Persist(msgs, FALSE),
           completed' \in BOOLEAN, cancelled' \in BOOLEAN,
           UNCHANGED <<msgs, control, live, resume, trips, spent, token, counters>>
    PROVE  IInv'
<1>1. /\ pc' = "idle" /\ outcome' = how /\ output' \in {"none", "error"}
      /\ "schema" \in Options => output' = "error"
  BY DEF Returns, Stop, IInv, FlowInv
<1>2. msgs \in Seq(Messages)
  BY DEF IInv, TypeOK
<1>3. disk' = [msgs |-> msgs, done |-> FALSE]
  BY DEF Persist
<1>4. disk'.msgs = msgs /\ disk' \in [msgs : Seq(Messages), done : BOOLEAN]
  BY <1>2, <1>3
<1>5. disk.msgs = msgs
  BY DEF IInv, DiskIsCurrent
<1>6. TypeOK' /\ FlowInv' /\ DiskIsCurrent'
  BY <1>1, <1>4 DEF control, counters, IInv, TypeOK, FlowInv, DiskIsCurrent
<1>7. CountInv' /\ TurnBudget'
  BY <1>1, <1>4, <1>5 DEF control, counters, IInv, CountInv, TurnBudget
<1>8. OutputOrError'
  BY <1>1 DEF OutputOrError
<1>9. QED
  BY <1>6, <1>7, <1>8 DEF IInv

\* A compaction leaves no turn in the transcript.
LEMMA CallModelIInv == ASSUME IInv, CallModel PROVE IInv'
<1>1. /\ pc = "context" /\ pc' = "model"
      /\ UNCHANGED <<entry, i, budget, once, attempts, live, resume, trips, spent, completed,
                     cancelled, token, outcome, output, runs, crashes>>
  BY DEF CallModel, control, counters
<1>2. msgs \in Seq(Messages) /\ disk.msgs = msgs /\ AssistantTurns(msgs) \in Nat
  BY <1>1, TurnsFinite DEF IInv, TypeOK, DiskIsCurrent
<1>3. CASE msgs' = msgs
  <2>1. disk' = disk
    BY <1>3 DEF CallModel
  <2>2. TypeOK' /\ FlowInv' /\ DiskIsCurrent'
    BY <1>1, <1>3, <2>1 DEF IInv, TypeOK, FlowInv, DiskIsCurrent
  <2>3. CountInv' /\ TurnBudget' /\ OutputOrError'
    BY <1>1, <1>3, <2>1 DEF IInv, FlowInv, CountInv, TurnBudget, OutputOrError
  <2>4. QED
    BY <2>2, <2>3 DEF IInv
<1>4. CASE msgs' # msgs
  <2> DEFINE ms == <<Text>>
  <2>1. msgs' = ms /\ disk' = [msgs |-> msgs', done |-> FALSE]
    BY <1>4 DEF CallModel, Compactions, Persist
  <2>2. ms \in Seq(Messages) /\ AssistantTurns(ms) = 0
    BY NoTurns
  <2> HIDE DEF ms
  <2>3. disk'.msgs = ms /\ disk' \in [msgs : Seq(Messages), done : BOOLEAN]
    BY <2>1, <2>2
  <2>4. TypeOK' /\ FlowInv' /\ DiskIsCurrent'
    BY <1>1, <2>1, <2>2, <2>3 DEF IInv, TypeOK, FlowInv, DiskIsCurrent
  <2>5. AssistantTurns(msgs') = 0 /\ AssistantTurns(disk'.msgs) = 0
    BY <2>1, <2>2, <2>3
  <2>6. /\ i < budget /\ i \in Nat /\ budget \in Nat /\ MaxTurns \in Nat
        /\ entry = "run" => budget - i <= MaxTurns
    <3>1. i < budget /\ (entry = "run" => AssistantTurns(msgs) + (budget - i) <= MaxTurns)
      BY <1>1 DEF IInv, CountInv
    <3>2. budget \in 0..MaxTurns /\ i \in 0..budget /\ MaxTurns \in Nat
      BY ConstantsAssumption DEF IInv, TypeOK, ConstantsAssumption
    <3>3. QED
      BY <1>2, <3>1, <3>2
  <2>7. CountInv' /\ TurnBudget'
    BY <1>1, <2>5, <2>6 DEF CountInv, TurnBudget
  <2>8. OutputOrError'
    BY <1>1 DEF IInv, FlowInv, OutputOrError
  <2>9. QED
    BY <2>4, <2>7, <2>8 DEF IInv
<1>5. QED
  BY <1>3, <1>4

\* The process dies: only what is on disk is left.
LEMMA CrashIInv == ASSUME IInv, Crash PROVE IInv'
<1>1. crashes' \in 0..MaxCrashes
  <2>1. crashes < MaxCrashes /\ crashes' = crashes + 1
    BY DEF Crash
  <2>2. crashes \in 0..MaxCrashes /\ MaxCrashes \in Nat
    BY ConstantsAssumption DEF IInv, TypeOK, ConstantsAssumption
  <2>3. QED
    BY <2>1, <2>2
<1>2. <<>> \in Seq(Messages)
  BY NoTurns
<1>3. TypeOK'
  BY <1>1, <1>2, Zeros DEF Crash, IInv, TypeOK
<1>4. QED
  BY <1>3 DEF Crash, IInv, FlowInv, DiskIsCurrent, CountInv, TurnBudget, OutputOrError
-------------------------------------------------------------------------------
(* Steps at which the model answers, and those after its tools                *)

\* The turn that is answered is within the budget, and one turn more.
LEMMA TurnIsWithin ==
    ASSUME IInv, pc = "model"
    PROVE  /\ i < budget /\ i \in Nat /\ budget \in 0..MaxTurns /\ i + 1 \in 0..budget
           /\ i \in 0..budget
           /\ entry = "run" => AssistantTurns(msgs) + 1 + (budget - (i + 1)) <= MaxTurns
           /\ entry = "run" => AssistantTurns(msgs) + 1 <= MaxTurns
           /\ entry = "run" => AssistantTurns(msgs) + 1 + (budget - i) <= MaxTurns + 1
           /\ disk.msgs = msgs /\ msgs \in Seq(Messages)
<1>1. /\ i < budget /\ budget \in 0..MaxTurns /\ i \in 0..budget /\ disk.msgs = msgs
      /\ msgs \in Seq(Messages)
      /\ entry = "run" => AssistantTurns(msgs) + (budget - i) <= MaxTurns
  BY DEF IInv, TypeOK, CountInv, DiskIsCurrent
<1>2. MaxTurns \in Nat /\ AssistantTurns(msgs) \in Nat
  BY <1>1, TurnsFinite, ConstantsAssumption DEF ConstantsAssumption
<1> DEFINE n == AssistantTurns(msgs)
<1>3. /\ n \in Nat /\ i < budget /\ i \in Nat /\ budget \in Nat
      /\ entry = "run" => n + (budget - i) <= MaxTurns
  BY <1>1, <1>2
<1> HIDE DEF n
<1>4. /\ i + 1 \in 0..budget
      /\ entry = "run" => n + 1 + (budget - (i + 1)) <= MaxTurns
      /\ entry = "run" => n + 1 <= MaxTurns
      /\ entry = "run" => n + 1 + (budget - i) <= MaxTurns + 1
  BY <1>2, <1>3
<1>5. QED
  BY <1>1, <1>3, <1>4 DEF n

\* What an answer leaves alone.
LEMMA AnswersKeeps ==
    ASSUME IInv, NEW ms, Answers(ms)
    PROVE  /\ pc = "model" /\ msgs' = ms /\ spent' \in BOOLEAN
           /\ entry' = entry /\ live' = live /\ resume' = resume /\ budget' = budget
           /\ cancelled' = cancelled /\ token' = token /\ runs' = runs /\ crashes' = crashes
           /\ outcome = "none" /\ output = "none"
<1>1. /\ pc = "model" /\ msgs' = ms /\ spent' \in {spent, spent \/ "token_budget" \in Options}
      /\ UNCHANGED <<entry, live, resume, budget, cancelled, token, runs, crashes>>
  BY DEF Answers, counters
<1>2. spent \in BOOLEAN
  BY DEF IInv, TypeOK
<1>3. (spent \/ "token_budget" \in Options) \in BOOLEAN
  BY <1>2
<1>4. outcome = "none" /\ output = "none"
  BY <1>1 DEF IInv, FlowInv
<1>5. QED
  BY <1>1, <1>2, <1>3, <1>4, Zenon

\* _drive says something in return and goes on (coordinator.py:640-646).
LEMMA InterjectsIInv ==
    ASSUME IInv, NEW a \in ModelAnswers, Interjects(Append(msgs, a)),
           once' \subseteq {"recovery", "wrapup"}, attempts' \in 0..OutputRetries,
           trips' \in Nat
    PROVE  IInv'
<1> DEFINE ms == Interjected(Append(msgs, a))
<1>1. /\ Answers(ms) /\ disk' = [msgs |-> ms, done |-> FALSE] /\ pc' = "top" /\ i' = i + 1
      /\ completed' = completed /\ outcome' = outcome /\ output' = output
  BY DEF Interjects, Persist
<1>2. /\ pc = "model" /\ msgs' = ms /\ spent' \in BOOLEAN
      /\ entry' = entry /\ live' = live /\ resume' = resume /\ budget' = budget
      /\ cancelled' = cancelled /\ token' = token /\ runs' = runs /\ crashes' = crashes
      /\ outcome = "none" /\ output = "none"
  BY <1>1, AnswersKeeps
<1>3. /\ i + 1 \in 0..budget
      /\ entry = "run" => AssistantTurns(msgs) + 1 + (budget - (i + 1)) <= MaxTurns
      /\ entry = "run" => AssistantTurns(msgs) + 1 <= MaxTurns
      /\ msgs \in Seq(Messages)
  BY <1>2, TurnIsWithin
<1>4. ms \in Seq(Messages) /\ AssistantTurns(ms) = AssistantTurns(msgs) + 1
  BY <1>3, TurnsOfInterjected
<1> HIDE DEF ms
<1>5. disk' \in [msgs : Seq(Messages), done : BOOLEAN] /\ disk'.msgs = ms
  BY <1>1, <1>4
<1>6. i' \in 0..budget'
  BY <1>1, <1>2, <1>3
<1>7. TypeOK'
  BY <1>1, <1>2, <1>4, <1>5, <1>6 DEF IInv, TypeOK
<1>8. FlowInv' /\ DiskIsCurrent' /\ OutputOrError'
  BY <1>1, <1>2, <1>5 DEF IInv, FlowInv, DiskIsCurrent, OutputOrError
<1>9. CountInv' /\ TurnBudget'
  BY <1>1, <1>2, <1>3, <1>4, <1>5 DEF CountInv, TurnBudget
<1>10. QED
  BY <1>7, <1>8, <1>9 DEF IInv

\* _drive ends with the answer (coordinator.py:961-963 and its early exits).
LEMMA EndsWithIInv ==
    ASSUME IInv, NEW a \in ModelAnswers, NEW done \in BOOLEAN,
           NEW out \in {"none", "valid", "error"}, EndsWith(Append(msgs, a), done, out),
           out = "valid" => done /\ FinalText(Append(msgs, a)) = "json",
           once' \subseteq {"recovery", "wrapup"}, attempts' \in 0..OutputRetries,
           trips' \in Nat
    PROVE  IInv'
<1> DEFINE ms == Append(msgs, a)
<1>1. /\ Answers(ms) /\ disk' = [msgs |-> ms, done |-> done] /\ i' = i
      /\ completed' = done /\ pc' = "idle" /\ outcome' = "returned"
      /\ output' = IF "schema" \in Options /\ out = "none" THEN "error" ELSE out
  BY DEF EndsWith, Persist, Returns, Stop
<1>2. /\ pc = "model" /\ msgs' = ms /\ spent' \in BOOLEAN
      /\ entry' = entry /\ live' = live /\ resume' = resume /\ budget' = budget
      /\ cancelled' = cancelled /\ token' = token /\ runs' = runs /\ crashes' = crashes
  BY <1>1, AnswersKeeps
<1>3. /\ i \in 0..budget /\ msgs \in Seq(Messages)
      /\ entry = "run" => AssistantTurns(msgs) + 1 <= MaxTurns
  BY <1>2, TurnIsWithin
<1>4. ms \in Seq(Messages) /\ AssistantTurns(ms) = AssistantTurns(msgs) + 1
  BY <1>3, Kinds, TurnsOfAppend
<1>5. out = "valid" => done /\ FinalText(ms) = "json"
  OBVIOUS
<1> HIDE DEF ms
<1>6. disk' \in [msgs : Seq(Messages), done : BOOLEAN] /\ disk'.msgs = ms /\ disk'.done = done
  BY <1>1, <1>4
<1>7. output' \in {"none", "valid", "error"} /\ (output' = "valid" => out = "valid")
      /\ ("schema" \in Options => output' # "none")
  BY <1>1
<1>8. TypeOK'
  BY <1>1, <1>2, <1>3, <1>4, <1>6, <1>7 DEF IInv, TypeOK
<1>9. FlowInv' /\ DiskIsCurrent'
  BY <1>1, <1>2, <1>6 DEF IInv, FlowInv, DiskIsCurrent
<1>10. CountInv' /\ TurnBudget'
  BY <1>1, <1>2, <1>3, <1>4, <1>6 DEF CountInv, TurnBudget
<1>11. OutputOrError'
  BY <1>1, <1>2, <1>5, <1>6, <1>7 DEF OutputOrError
<1>12. QED
  BY <1>8, <1>9, <1>10, <1>11 DEF IInv

\* The loop guard trips (coordinator.py:894-905).
LEMMA DegenerateIInv == ASSUME IInv, NEW a \in ModelAnswers, Degenerate(a) PROVE IInv'
<1>1. once' = once /\ attempts' = attempts /\ trips' = trips + 1
  BY DEF Degenerate, Trips
<1>2. /\ once' \subseteq {"recovery", "wrapup"} /\ attempts' \in 0..OutputRetries
      /\ trips' \in Nat /\ FALSE \in BOOLEAN
  <2>1. once \subseteq {"recovery", "wrapup"} /\ attempts \in 0..OutputRetries /\ trips \in Nat
    BY DEF IInv, TypeOK
  <2>2. QED
    BY <1>1, <2>1
<1>3. CASE EndsWith(Append(msgs, a), FALSE, output)
  <2>1. pc = "model"
    BY <1>3 DEF EndsWith, Answers
  <2>2. output = "none"
    BY <2>1 DEF IInv, FlowInv
  <2>3. QED
    BY <1>2, <1>3, <2>2, EndsWithIInv
<1>4. CASE Interjects(Append(msgs, a))
  BY <1>2, <1>4, InterjectsIInv
<1>5. QED
  BY <1>3, <1>4 DEF Degenerate

\* The answer was cut off (coordinator.py:907-923).
LEMMA TruncatedIInv == ASSUME IInv, NEW a \in ModelAnswers, Truncated(a) PROVE IInv'
<1>1. /\ once' \in {once, once \cup {"recovery"}} /\ attempts' = attempts /\ trips' = 0
  BY DEF Truncated
<1>2. /\ once' \subseteq {"recovery", "wrapup"} /\ attempts' \in 0..OutputRetries
      /\ trips' \in Nat /\ FALSE \in BOOLEAN
  BY <1>1 DEF IInv, TypeOK
<1>3. CASE EndsWith(Append(msgs, a), FALSE, output)
  <2>1. pc = "model"
    BY <1>3 DEF EndsWith, Answers
  <2>2. output = "none"
    BY <2>1 DEF IInv, FlowInv
  <2>3. QED
    BY <1>2, <1>3, <2>2, EndsWithIInv
<1>4. CASE Interjects(Append(msgs, a))
  BY <1>2, <1>4, InterjectsIInv
<1>5. QED
  BY <1>3, <1>4 DEF Truncated

\* The model ends its turn (coordinator.py:925-963).
LEMMA EndTurnIInv == ASSUME IInv, NEW a \in ModelAnswers, EndTurn(a) PROVE IInv'
<1> DEFINE ms == Append(msgs, a)
           valid == FinalText(ms) = "json"
<1>1. once' = once /\ trips' = 0 /\ pc = "model" /\ output = "none"
  <2>1. once' = once /\ trips' = 0 /\ pc = "model"
    BY DEF EndTurn, EndsWith, Interjects, Answers
  <2>2. QED
    BY <2>1 DEF IInv, FlowInv
<1>2. once' \subseteq {"recovery", "wrapup"} /\ trips' \in Nat /\ TRUE \in BOOLEAN
  BY <1>1 DEF IInv, TypeOK
<1>3. attempts \in 0..OutputRetries
  BY DEF IInv, TypeOK
<1>4. CASE "schema" \notin Options
  <2>1. EndsWith(ms, TRUE, output) /\ attempts' = attempts
    BY <1>4 DEF EndTurn
  <2>2. QED
    BY <1>1, <1>2, <1>3, <2>1, EndsWithIInv
<1>5. CASE "schema" \in Options /\ ~valid /\ attempts < OutputRetries
  <2>1. Interjects(ms) /\ attempts' = attempts + 1
    BY <1>5 DEF EndTurn
  <2>2. attempts' \in 0..OutputRetries
    BY <1>3, <1>5, <2>1, ConstantsAssumption DEF ConstantsAssumption
  <2>3. QED
    BY <1>2, <2>1, <2>2, InterjectsIInv
<1>6. CASE "schema" \in Options /\ ~(~valid /\ attempts < OutputRetries)
  <2> DEFINE out == IF valid THEN "valid" ELSE "error"
  <2>1. EndsWith(ms, TRUE, out) /\ attempts' = attempts
    BY <1>6 DEF EndTurn
  <2>2. out \in {"none", "valid", "error"} /\ (out = "valid" => FinalText(ms) = "json")
    OBVIOUS
  <2> HIDE DEF out
  <2>3. QED
    BY <1>2, <1>3, <2>1, <2>2, EndsWithIInv
<1>7. QED
  BY <1>4, <1>5, <1>6

\* The model calls tools: the turn is persisted first (coordinator.py:889-893).
LEMMA ToolUseIInv == ASSUME IInv, NEW a \in ModelAnswers, ToolUse(a) PROVE IInv'
<1> DEFINE ms == Append(msgs, a)
<1>1. /\ Answers(ms) /\ disk' = [msgs |-> ms, done |-> FALSE] /\ pc' = "tools" /\ i' = i
      /\ trips' = 0 /\ once' = once /\ attempts' = attempts
      /\ completed' = completed /\ outcome' = outcome /\ output' = output
  BY DEF ToolUse, Persist
<1>2. /\ pc = "model" /\ msgs' = ms /\ spent' \in BOOLEAN
      /\ entry' = entry /\ live' = live /\ resume' = resume /\ budget' = budget
      /\ cancelled' = cancelled /\ token' = token /\ runs' = runs /\ crashes' = crashes
      /\ outcome = "none" /\ output = "none"
  BY <1>1, AnswersKeeps
<1>3. /\ i \in 0..budget /\ i < budget /\ msgs \in Seq(Messages)
      /\ entry = "run" => AssistantTurns(msgs) + 1 + (budget - i) <= MaxTurns + 1
      /\ entry = "run" => AssistantTurns(msgs) + 1 <= MaxTurns
  BY <1>2, TurnIsWithin
<1>4. ms \in Seq(Messages) /\ AssistantTurns(ms) = AssistantTurns(msgs) + 1
  BY <1>3, Kinds, TurnsOfAppend
<1> HIDE DEF ms
<1>5. disk' \in [msgs : Seq(Messages), done : BOOLEAN] /\ disk'.msgs = ms
  BY <1>1, <1>4
<1>6. TypeOK'
  BY <1>1, <1>2, <1>3, <1>4, <1>5 DEF IInv, TypeOK
<1>7. FlowInv' /\ DiskIsCurrent' /\ OutputOrError'
  BY <1>1, <1>2, <1>5 DEF IInv, FlowInv, DiskIsCurrent, OutputOrError
<1>8. CountInv' /\ TurnBudget'
  BY <1>1, <1>2, <1>3, <1>4, <1>5 DEF CountInv, TurnBudget
<1>9. QED
  BY <1>6, <1>7, <1>8 DEF IInv

\* The tools have run (coordinator.py:965-992).
LEMMA ToolsDoneIInv == ASSUME IInv, ToolsDone PROVE IInv'
<1> DEFINE r    == ToolResults(Last(msgs))
           u    == Append(msgs, r)
           wrap == "wrapup" \notin once /\ budget - 1 - i <= 2
<1>1. /\ pc = "tools"
      /\ UNCHANGED <<entry, budget, attempts, live, resume, trips, spent, cancelled, token,
                     runs, crashes>>
  BY DEF ToolsDone, counters
<1>2. /\ i < budget /\ budget \in 0..MaxTurns /\ i \in 0..budget /\ disk.msgs = msgs
      /\ msgs \in Seq(Messages) /\ outcome = "none" /\ output = "none"
      /\ entry = "run" => AssistantTurns(msgs) + (budget - i) <= MaxTurns + 1
      /\ entry = "run" => AssistantTurns(msgs) <= MaxTurns
  BY <1>1 DEF IInv, TypeOK, FlowInv, CountInv, DiskIsCurrent, TurnBudget
<1>3. r \in {Results, Empty}
  BY DEF ToolResults
<1> HIDE DEF r
<1>4. u \in Seq(Messages) /\ AssistantTurns(u) = AssistantTurns(msgs)
  BY <1>2, <1>3, Kinds, TurnsOfAppend
<1>5. /\ Append(u, Text) \in Seq(Messages)
      /\ AssistantTurns(Append(u, Text)) = AssistantTurns(msgs)
  BY <1>4, Kinds, TurnsOfAppend
<1>6. CASE spent
  <2>1. /\ msgs' = u /\ disk' = [msgs |-> u, done |-> FALSE] /\ completed' = FALSE
        /\ i' = i /\ once' = once /\ pc' = "idle" /\ outcome' = "returned"
        /\ output' = IF "schema" \in Options THEN "error" ELSE "none"
    BY <1>2, <1>6 DEF ToolsDone, Persist, Returns, Stop, r
  <2> HIDE DEF u
  <2>2. disk' \in [msgs : Seq(Messages), done : BOOLEAN] /\ disk'.msgs = u
    BY <1>4, <2>1
  <2>3. TypeOK'
    BY <1>1, <1>2, <1>4, <2>1, <2>2 DEF IInv, TypeOK
  <2>4. FlowInv' /\ DiskIsCurrent' /\ OutputOrError'
    BY <1>1, <2>1, <2>2 DEF IInv, FlowInv, DiskIsCurrent, OutputOrError
  <2>5. CountInv' /\ TurnBudget'
    BY <1>1, <1>2, <1>4, <2>1, <2>2 DEF CountInv, TurnBudget
  <2>6. QED
    BY <2>3, <2>4, <2>5 DEF IInv
<1>7. CASE ~spent
  <2>1. /\ msgs' = IF wrap THEN Append(u, Text) ELSE u
        /\ disk' = [msgs |-> msgs', done |-> FALSE]
        /\ once' = IF wrap THEN once \cup {"wrapup"} ELSE once
        /\ i' = i + 1 /\ pc' = "top"
        /\ UNCHANGED <<completed, outcome, output>>
    BY <1>7 DEF ToolsDone, Persist, r
  <2> HIDE DEF u, wrap
  <2>2. msgs' \in Seq(Messages) /\ AssistantTurns(msgs') = AssistantTurns(msgs)
    BY <1>4, <1>5, <2>1
  <2>3. disk' \in [msgs : Seq(Messages), done : BOOLEAN] /\ disk'.msgs = msgs'
    BY <2>1, <2>2
  <2>4. once \subseteq {"recovery", "wrapup"}
    BY DEF IInv, TypeOK
  <2>5. once' \subseteq {"recovery", "wrapup"}
    BY <2>1, <2>4
  <2> DEFINE n == AssistantTurns(msgs)
  <2>6. n \in Nat /\ MaxTurns \in Nat
    BY <1>2, TurnsFinite, ConstantsAssumption DEF ConstantsAssumption
  <2>7. entry = "run" => n + (budget - i) <= MaxTurns + 1
    BY <1>2
  <2> HIDE DEF n
  <2>8. /\ i' \in 0..budget' /\ budget' = budget
        /\ entry = "run" => n + (budget' - i') <= MaxTurns
    BY <1>1, <1>2, <2>1, <2>6, <2>7
  <2>9. TypeOK'
    BY <1>1, <1>2, <2>1, <2>2, <2>3, <2>5, <2>8 DEF IInv, TypeOK
  <2>10. FlowInv' /\ DiskIsCurrent' /\ OutputOrError'
    BY <1>1, <1>2, <2>1, <2>3 DEF IInv, FlowInv, DiskIsCurrent, OutputOrError
  <2>11. CountInv' /\ TurnBudget'
    BY <1>1, <1>2, <2>1, <2>2, <2>3, <2>8 DEF CountInv, TurnBudget, n
  <2>12. QED
    BY <2>9, <2>10, <2>11 DEF IInv
<1>8. QED
  BY <1>6, <1>7
-------------------------------------------------------------------------------
(* The theorems                                                               *)

\* Every step preserves the invariant.
LEMMA NextIInv == ASSUME IInv, [Next]_vars PROVE IInv'
<1>1. ASSUME pc # "idle", NEW how \in {"failed", "cancelled in tools"}, Stop(how),
             UNCHANGED <<msgs, disk, control, live, resume, trips, spent, completed,
                         cancelled, token, output, counters>>
      PROVE  IInv'
  BY <1>1, LeavesIInv
<1>2. CASE Run
  BY <1>2, RunIInv
<1>3. CASE Send
  BY <1>3, SendIInv
<1>4. CASE Repaired
  BY <1>4, RepairedIInv
<1>5. CASE ToolsCancelled
  BY <1>1, <1>5 DEF ToolsCancelled
<1>6. CASE OutOfTurns
  <2>1. completed' \in BOOLEAN /\ cancelled' \in BOOLEAN
    BY <1>6 DEF OutOfTurns, IInv, TypeOK
  <2>2. /\ pc = "top" /\ Returns("returned", output) /\ Persist(msgs, FALSE)
        /\ UNCHANGED <<msgs, control, live, resume, trips, spent, token, counters>>
    BY <1>6 DEF OutOfTurns
  <2>3. QED
    BY <2>1, <2>2, ReturnsIInv
<1>7. CASE SeeCancelled
  <2>1. completed' \in BOOLEAN /\ cancelled' \in BOOLEAN
    BY <1>7 DEF SeeCancelled
  <2>2. /\ pc = "top" /\ Returns("cancelled between turns", output) /\ Persist(msgs, FALSE)
        /\ UNCHANGED <<msgs, control, live, resume, trips, spent, token, counters>>
    BY <1>7 DEF SeeCancelled
  <2>3. QED
    BY <2>1, <2>2, ReturnsIInv
<1>8. CASE NextTurn
  BY <1>8, NextTurnIInv
<1>9. CASE CallModel
  BY <1>9, CallModelIInv
<1>10. CASE ModelFails
  BY <1>1, <1>10 DEF ModelFails
<1>11. CASE \E a \in ModelAnswers : Degenerate(a) \/ Truncated(a) \/ EndTurn(a) \/ ToolUse(a)
  BY <1>11, DegenerateIInv, TruncatedIInv, EndTurnIInv, ToolUseIInv
<1>12. CASE ToolsDone
  BY <1>12, ToolsDoneIInv
<1>13. CASE Cancel
  BY <1>13, CancelIInv
<1>14. CASE Crash
  BY <1>14, CrashIInv
<1>15. CASE UNCHANGED vars
  BY <1>15, StutterIInv
<1>16. QED
  BY <1>2, <1>3, <1>4, <1>5, <1>6, <1>7, <1>8, <1>9, <1>10, <1>11, <1>12, <1>13, <1>14,
     <1>15 DEF Next, RunStep

\* The invariant holds throughout, whatever interjections, aborts, compactions,
\* cancellations, crashes and resumptions come (coordinator.py:670-1004).
THEOREM Invariance == Spec => []IInv
<1>1. IInv /\ [Next]_vars => IInv'
  BY NextIInv
<1>2. QED
  BY InitIInv, <1>1, PTL DEF Spec

\* coordinator.py:852-873: the variables have their types, and _drive never counts
\* past its budget.
THEOREM Typing == Spec => []TypeOK
<1>1. IInv => TypeOK
  BY DEF IInv
<1>2. QED
  BY Invariance, <1>1, PTL

\* coordinator.py:891-892 and :990-991: wherever a run waits, and after it, the
\* session holds what the run holds.
THEOREM Current == Spec => []DiskIsCurrent
<1>1. IInv => DiskIsCurrent
  BY DEF IInv
<1>2. QED
  BY Invariance, <1>1, PTL

\* coordinator.py:700-701: over all the runs that resumed it, a task has no more
\* turns than max_turns.
THEOREM Budget == Spec => []TurnBudget
<1>1. IInv => TurnBudget
  BY DEF IInv
<1>2. QED
  BY Invariance, <1>1, PTL

\* coordinator.py:651-657: a run that was to give an output and returned has given
\* a valid one, as a completed run that is stored as done, or has said that it has none.
THEOREM Outputs == Spec => []OutputOrError
<1>1. IInv => OutputOrError
  BY DEF IInv
<1>2. QED
  BY Invariance, <1>1, PTL
-------------------------------------------------------------------------------
(* What a session forgets                                                     *)

\* Sequences that agree over the shorter one: a prefix.
LEMMA PrefixIs ==
    ASSUME NEW s \in Seq(Messages), NEW t \in Seq(Messages), Len(s) <= Len(t),
           \A k \in 1..Len(s) : t[k] = s[k]
    PROVE  IsPrefix(s, t)
<1>1. Len(s) \in Nat /\ Len(t) \in Nat
  OBVIOUS
<1>2. SubSeq(s, 1, Len(s)) = [k \in 1..Len(s) |-> s[k]]
  BY <1>1
<1>3. SubSeq(t, 1, Len(s)) = [k \in 1..Len(s) |-> t[k]]
  BY <1>1
<1>4. QED
  BY <1>2, <1>3 DEF IsPrefix

\* What is appended to, once, twice or thrice, is a prefix of what comes out.
LEMMA Grown ==
    ASSUME NEW s \in Seq(Messages)
    PROVE  /\ IsPrefix(s, s) /\ IsPrefix(<<>>, s)
           /\ \A x, y, z \in Messages :
                  /\ IsPrefix(s, Append(s, x))
                  /\ IsPrefix(s, Append(Append(s, x), y))
                  /\ IsPrefix(s, Append(Append(Append(s, x), y), z))
<1>1. IsPrefix(s, s) /\ IsPrefix(<<>>, s)
  <2>1. Len(<<>>) = 0 /\ Len(s) \in Nat /\ <<>> \in Seq(Messages)
    OBVIOUS
  <2>2. Len(<<>>) <= Len(s) /\ \A k \in 1..Len(<<>>) : s[k] = <<>>[k]
    BY <2>1
  <2>3. IsPrefix(<<>>, s)
    BY <2>1, <2>2, PrefixIs
  <2>4. Len(s) <= Len(s) /\ \A k \in 1..Len(s) : s[k] = s[k]
    BY <2>1
  <2>5. IsPrefix(s, s)
    BY <2>4, PrefixIs
  <2>6. QED
    BY <2>3, <2>5
<1>2. ASSUME NEW x \in Messages, NEW y \in Messages, NEW z \in Messages
      PROVE  /\ IsPrefix(s, Append(s, x))
             /\ IsPrefix(s, Append(Append(s, x), y))
             /\ IsPrefix(s, Append(Append(Append(s, x), y), z))
  <2> DEFINE t == Append(s, x)
             u == Append(t, y)
             v == Append(u, z)
  <2>1. t \in Seq(Messages) /\ Len(t) = Len(s) + 1 /\ \A k \in 1..Len(s) : t[k] = s[k]
    OBVIOUS
  <2> HIDE DEF t
  <2>2. u \in Seq(Messages) /\ Len(u) = Len(s) + 2 /\ \A k \in 1..Len(s) : u[k] = s[k]
    BY <2>1
  <2> HIDE DEF u
  <2>3. v \in Seq(Messages) /\ Len(v) = Len(s) + 3 /\ \A k \in 1..Len(s) : v[k] = s[k]
    BY <2>2
  <2> HIDE DEF v
  <2>4. IsPrefix(s, t) /\ IsPrefix(s, u) /\ IsPrefix(s, v)
    BY <2>1, <2>2, <2>3, PrefixIs
  <2>5. QED
    BY <2>4 DEF t, u, v
<1>3. QED
  BY <1>1, <1>2

\* A step that keeps what the session holds.
Keeps == IsPrefix(disk.msgs, disk'.msgs)

\* An answer, with what is said in return, is added to what the session holds.
LEMMA AnswerKeeps ==
    ASSUME IInv, NEW a \in ModelAnswers,
           Degenerate(a) \/ Truncated(a) \/ EndTurn(a) \/ ToolUse(a)
    PROVE  Keeps
<1> DEFINE t == Append(msgs, a)
<1>1. pc = "model"
  BY DEF Degenerate, Truncated, EndTurn, ToolUse, EndsWith, Interjects, Answers
<1>2. disk.msgs = msgs /\ msgs \in Seq(Messages) /\ a \in Messages
  BY <1>1, Kinds DEF IInv, TypeOK, DiskIsCurrent
<1>3. disk'.msgs = t \/ disk'.msgs = Interjected(t)
  BY DEF Degenerate, Truncated, EndTurn, ToolUse, EndsWith, Interjects, Persist
<1>4. t \in Seq(Messages) /\ Last(t) = a
  BY <1>2, TurnsOfAppend
<1>5. IsPrefix(msgs, t) /\ IsPrefix(msgs, Append(t, Text))
      /\ IsPrefix(msgs, Append(Append(t, Results), Text))
  BY <1>2, Kinds, Grown
<1> HIDE DEF t
<1>6. t \o <<Text>> = Append(t, Text)
      /\ t \o <<Results, Text>> = Append(Append(t, Results), Text)
  BY <1>4
<1>7. Interjected(t) \in {Append(t, Text), Append(Append(t, Results), Text)}
  BY <1>4, <1>6, Zenon DEF Interjected
<1>8. QED
  BY <1>2, <1>3, <1>5, <1>7, Zenon DEF Keeps

\* So are results and messages.
LEMMA RunKeeps ==
    ASSUME IInv, Repaired \/ OutOfTurns \/ SeeCancelled \/ ToolsDone
    PROVE  Keeps
<1>1. pc # "idle"
  BY DEF Repaired, OutOfTurns, SeeCancelled, ToolsDone
<1>2. disk.msgs = msgs /\ msgs \in Seq(Messages)
  BY <1>1 DEF IInv, TypeOK, DiskIsCurrent
<1>3. CASE Repaired
  <2> DEFINE u == Append(msgs, Results)
  <2>1. disk'.msgs = u \o (IF entry = "send" THEN <<Text>> ELSE <<>>)
    BY <1>3 DEF Repaired, Persist
  <2>2. u \in Seq(Messages) /\ IsPrefix(msgs, u) /\ IsPrefix(msgs, Append(u, Text))
    BY <1>2, Kinds, Grown, TurnsOfAppend
  <2> HIDE DEF u
  <2>3. u \o <<Text>> = Append(u, Text) /\ u \o <<>> = u
    BY <2>2
  <2>4. disk'.msgs \in {u, Append(u, Text)}
    BY <2>1, <2>3, Zenon
  <2>5. QED
    BY <1>2, <2>2, <2>4, Zenon DEF Keeps
<1>4. CASE OutOfTurns \/ SeeCancelled
  <2>1. disk' = [msgs |-> msgs, done |-> FALSE]
    BY <1>4, Zenon DEF OutOfTurns, SeeCancelled, Persist
  <2>2. QED
    BY <1>2, <2>1, Grown DEF Keeps
<1>5. CASE ToolsDone
  <2> DEFINE r == ToolResults(Last(msgs))
  <2>1. r \in Messages
    BY Kinds DEF ToolResults
  <2>2. disk'.msgs \in {Append(msgs, r), Append(Append(msgs, r), Text)}
    BY <1>5 DEF ToolsDone, Persist
  <2> HIDE DEF r
  <2>3. IsPrefix(msgs, Append(msgs, r)) /\ IsPrefix(msgs, Append(Append(msgs, r), Text))
    BY <1>2, <2>1, Kinds, Grown
  <2>4. QED
    BY <1>2, <2>2, <2>3, Zenon DEF Keeps
<1>6. QED
  BY <1>3, <1>4, <1>5

\* A caller begins a new task over the old one only where it resumes nothing.
LEMMA BeginKeeps ==
    ASSUME IInv, Run \/ Send
    PROVE  Keeps \/ (pc = "idle" /\ ~resume /\ ~live)
<1>1. disk.msgs \in Seq(Messages) /\ msgs \in Seq(Messages)
  BY DEF IInv, TypeOK
<1>2. IsPrefix(disk.msgs, disk.msgs)
  BY <1>1, Grown
<1>3. CASE Run
  <2>1. pc = "idle" /\ ~live
    BY <1>3 DEF Run, IInv, FlowInv
  <2>2. CASE Loaded
    <3>1. disk' = disk
      BY <1>3, <2>2 DEF Run
    <3>2. QED
      BY <1>2, <3>1 DEF Keeps
  <2>3. CASE ~Loaded /\ disk.msgs = <<>>
    <3>1. disk'.msgs = <<Text>>
      BY <1>3, <2>3 DEF Run, Persist
    <3>2. IsPrefix(<<>>, <<Text>>)
      BY NoTurns, Grown
    <3>3. QED
      BY <2>3, <3>1, <3>2 DEF Keeps
  <2>4. CASE ~Loaded /\ disk.msgs # <<>>
    BY <2>1, <2>4 DEF Loaded
  <2>5. QED
    BY <2>2, <2>3, <2>4
<1>4. CASE Send
  <2> DEFINE ms == IF live THEN msgs ELSE IF Loaded THEN disk.msgs ELSE <<>>
  <2>1. pc = "idle" /\ (live => disk.msgs = msgs)
    BY <1>4 DEF Send, IInv, FlowInv, DiskIsCurrent
  <2>2. disk' = disk \/ disk'.msgs = Append(ms, Text)
    BY <1>4 DEF Send, Persist
  <2>3. ms = disk.msgs \/ (~live /\ ~resume)
    BY <2>1 DEF Loaded
  <2> HIDE DEF ms
  <2>4. IsPrefix(disk.msgs, Append(disk.msgs, Text))
    BY <1>1, Kinds, Grown
  <2>5. CASE disk' = disk
    BY <1>2, <2>5 DEF Keeps
  <2>6. CASE disk'.msgs = Append(ms, Text) /\ ms = disk.msgs
    BY <2>4, <2>6 DEF Keeps
  <2>7. QED
    BY <2>1, <2>2, <2>3, <2>5, <2>6
<1>5. QED
  BY <1>3, <1>4

\* coordinator.py:587-589 and its callers: what a session holds only grows, but for a
\* compaction and for a caller who begins a new task without resuming.
THEOREM Growth == Spec => OnlyCompactionForgets
<1> DEFINE Forgets == \/ IsPrefix(disk.msgs, disk'.msgs)
                      \/ pc = "context"
                      \/ pc = "idle" /\ ~resume /\ ~live
<1>1. ASSUME IInv, [Next]_vars PROVE Forgets
  <2>1. CASE disk' = disk
    <3>1. disk.msgs \in Seq(Messages)
      BY <1>1 DEF IInv, TypeOK
    <3>2. QED
      BY <2>1, <3>1, Grown
  <2>2. CASE Run \/ Send
    BY <1>1, <2>2, BeginKeeps DEF Keeps
  <2>3. CASE Repaired \/ OutOfTurns \/ SeeCancelled \/ ToolsDone
    BY <1>1, <2>3, RunKeeps DEF Keeps
  <2>4. CASE \E a \in ModelAnswers : Degenerate(a) \/ Truncated(a) \/ EndTurn(a) \/ ToolUse(a)
    BY <1>1, <2>4, AnswerKeeps DEF Keeps
  <2>5. CASE CallModel
    BY <2>5 DEF CallModel
  <2>6. CASE UNCHANGED vars \/ ToolsCancelled \/ NextTurn \/ ModelFails \/ Cancel \/ Crash
    <3>1. disk' = disk
      BY <2>6 DEF vars, ToolsCancelled, NextTurn, ModelFails, Cancel, Crash
    <3>2. QED
      BY <2>1, <3>1
  <2>7. QED
    BY <1>1, <2>2, <2>3, <2>4, <2>5, <2>6 DEF Next, RunStep
<1>2. IInv /\ [Next]_vars => [Forgets]_vars
  BY <1>1
<1>3. Spec => [][Forgets]_vars
  BY Invariance, <1>2, PTL DEF Spec
<1>4. QED
  BY <1>3 DEF OnlyCompactionForgets
-------------------------------------------------------------------------------
(* What the model is sent                                                     *)

\* The results of a turn's calls come right after it, and nowhere else.
Paired(ms) ==
    \A n \in DOMAIN ms :
        /\ HasCalls(ms[n]) /\ n # Len(ms) => ms[n + 1] = Results
        /\ ms[n] = Results => n > 1 /\ HasCalls(ms[n - 1])

\* A transcript ends in unanswered calls only where tools are run, and after a run.
WireInv ==
    /\ Paired(msgs) /\ Paired(disk.msgs)
    /\ pc \in {"top", "context", "model"} => ~IsPendingToolTurn(msgs)
    /\ pc = "repair" => IsPendingToolTurn(msgs)
    /\ pc = "tools" => msgs # <<>> /\ Last(msgs) \in ModelAnswers

\* Only the model's answers have calls, and nothing else is the results of any.
LEMMA Calls ==
    /\ \A m \in {Text, Results, Empty} : m \in Messages /\ ~HasCalls(m)
    /\ Results # Text /\ Results # Empty
    /\ \A a \in ModelAnswers : a \in Messages /\ a # Results /\ a # Empty
                               /\ a.calls \in BOOLEAN /\ (HasCalls(a) <=> a.calls)
<1>1. Results.k = "results" /\ Text.k = "text" /\ Empty.k = "empty"
  BY DEF Results, Text, Empty
<1>2. ASSUME NEW a \in ModelAnswers
      PROVE  a # Results /\ a # Empty /\ (HasCalls(a) <=> a.calls)
  <2>1. a.k = "asst"
    BY Kinds DEF IsAsst
  <2>2. a # Results /\ a # Empty
    BY <1>1, <2>1
  <2>3. QED
    BY <2>2, Kinds DEF HasCalls
<1>3. QED
  BY <1>1, <1>2, Kinds DEF HasCalls

\* Results are added where calls are unanswered, and only there.
LEMMA PairedAppend ==
    ASSUME NEW ms \in Seq(Messages), NEW m \in Messages, Paired(ms),
           IsPendingToolTurn(ms) => m = Results, m = Results => IsPendingToolTurn(ms)
    PROVE  /\ Append(ms, m) \in Seq(Messages) /\ Paired(Append(ms, m))
           /\ IsPendingToolTurn(Append(ms, m)) => HasCalls(m)
<1> DEFINE t == Append(ms, m)
           n == Len(ms)
<1>1. /\ n \in Nat /\ DOMAIN ms = 1..n /\ DOMAIN t = 1..(n + 1) /\ Len(t) = n + 1
      /\ t \in Seq(Messages) /\ t[n + 1] = m /\ \A k \in 1..n : t[k] = ms[k]
  OBVIOUS
<1>2. IsPendingToolTurn(ms) => n > 0 /\ HasCalls(ms[n])
  BY <1>1 DEF IsPendingToolTurn, Last
<1>3. n > 0 /\ HasCalls(ms[n]) => IsPendingToolTurn(ms)
  BY <1>1 DEF IsPendingToolTurn, Last
<1>4. IsPendingToolTurn(t) => HasCalls(m)
  BY <1>1 DEF IsPendingToolTurn, Last
<1> HIDE DEF t, n
<1>5. ASSUME NEW k \in 1..(n + 1)
      PROVE  /\ HasCalls(t[k]) /\ k # n + 1 => t[k + 1] = Results
             /\ t[k] = Results => k > 1 /\ HasCalls(t[k - 1])
  <2>1. CASE k \in 1..(n - 1)
    <3>1. k \in 1..n /\ k + 1 \in 1..n /\ k # n
      BY <1>1, <2>1
    <3>2. /\ HasCalls(ms[k]) => ms[k + 1] = Results
          /\ ms[k] = Results => k > 1 /\ HasCalls(ms[k - 1])
      BY <1>1, <3>1 DEF Paired, n
    <3>3. k > 1 => k - 1 \in 1..n
      BY <1>1, <3>1
    <3>4. QED
      BY <1>1, <3>1, <3>2, <3>3
  <2>2. CASE k = n /\ n > 0
    <3>1. k \in 1..n /\ t[k] = ms[k] /\ t[k + 1] = m /\ (k > 1 => k - 1 \in 1..n)
      BY <1>1, <2>2
    <3>2. ms[k] = Results => k > 1 /\ HasCalls(ms[k - 1])
      BY <1>1, <3>1 DEF Paired
    <3>3. HasCalls(ms[k]) => m = Results
      BY <1>3, <2>2
    <3>4. k > 1 => t[k - 1] = ms[k - 1]
      BY <1>1, <3>1
    <3>5. QED
      BY <3>1, <3>2, <3>3, <3>4
  <2>3. CASE k = n + 1
    <3>1. t[k] = m /\ k - 1 = n
      BY <1>1, <2>3
    <3>2. m = Results => n > 0 /\ HasCalls(t[n])
      BY <1>1, <1>2
    <3>3. QED
      BY <1>1, <2>3, <3>1, <3>2
  <2>4. QED
    BY <1>1, <2>1, <2>2, <2>3
<1>6. Paired(t)
  BY <1>1, <1>5 DEF Paired
<1>7. QED
  BY <1>1, <1>4, <1>6 DEF t

\* A new task, and a transcript that was never begun.
LEMMA PairedAtFirst ==
    /\ Paired(<<>>) /\ ~IsPendingToolTurn(<<>>)
    /\ Paired(<<Text>>) /\ ~IsPendingToolTurn(<<Text>>)
<1>1. Paired(<<>>) /\ ~IsPendingToolTurn(<<>>) /\ <<>> \in Seq(Messages)
  BY DEF Paired, IsPendingToolTurn
<1>2. <<Text>> = Append(<<>>, Text)
  OBVIOUS
<1>3. Paired(Append(<<>>, Text)) /\ ~IsPendingToolTurn(Append(<<>>, Text))
  BY <1>1, Calls, PairedAppend
<1>4. QED
  BY <1>1, <1>2, <1>3

\* What is said to the model comes after the results of the calls it made.
LEMMA PairedInterjected ==
    ASSUME NEW ms \in Seq(Messages), NEW a \in ModelAnswers, Paired(ms),
           ~IsPendingToolTurn(ms)
    PROVE  /\ Paired(Append(ms, a)) /\ Paired(Interjected(Append(ms, a)))
           /\ ~IsPendingToolTurn(Interjected(Append(ms, a)))
<1> DEFINE t == Append(ms, a)
<1>1. /\ t \in Seq(Messages) /\ Paired(t) /\ (IsPendingToolTurn(t) => a.calls)
  BY Calls, PairedAppend
<1>2. Last(t) = a /\ t # <<>>
  BY Kinds, TurnsOfAppend
<1>3. IsPendingToolTurn(t) <=> a.calls
  BY <1>1, <1>2, Calls DEF IsPendingToolTurn
<1> HIDE DEF t
<1>4. CASE a.calls
  <2> DEFINE u == Append(t, Results)
  <2>1. u \in Seq(Messages) /\ Paired(u) /\ ~IsPendingToolTurn(u)
    BY <1>1, <1>3, <1>4, Calls, PairedAppend
  <2>2. t \o <<Results, Text>> = Append(u, Text)
    BY <1>1
  <2> HIDE DEF u
  <2>3. Paired(Append(u, Text)) /\ ~IsPendingToolTurn(Append(u, Text))
    BY <2>1, Calls, PairedAppend
  <2>4. Interjected(t) = Append(u, Text)
    BY <1>2, <1>4, <2>2, Zenon DEF Interjected
  <2>5. QED
    BY <1>1, <2>3, <2>4 DEF t
<1>5. CASE ~a.calls
  <2>1. Paired(Append(t, Text)) /\ ~IsPendingToolTurn(Append(t, Text))
    BY <1>1, <1>3, <1>5, Calls, PairedAppend
  <2>2. t \o <<Text>> = Append(t, Text)
    BY <1>1
  <2>3. Interjected(t) = Append(t, Text)
    BY <1>2, <1>5, <2>2, Zenon DEF Interjected
  <2>4. QED
    BY <1>1, <2>1, <2>3 DEF t
<1>6. QED
  BY <1>4, <1>5

\* An answer that does not ask for tools, or whose stop_reason says so.
LEMMA AnswerWire ==
    ASSUME IInv, WireInv, NEW a \in ModelAnswers,
           Degenerate(a) \/ Truncated(a) \/ EndTurn(a) \/ ToolUse(a)
    PROVE  WireInv'
<1>1. \/ \E done, out : EndsWith(Append(msgs, a), done, out)
      \/ Interjects(Append(msgs, a))
      \/ ToolUse(a)
  BY DEF Degenerate, Truncated, EndTurn
<1>2. pc = "model"
  BY <1>1 DEF EndsWith, Interjects, ToolUse, Answers
<1>3. msgs \in Seq(Messages) /\ Paired(msgs) /\ ~IsPendingToolTurn(msgs)
  BY <1>2 DEF IInv, TypeOK, WireInv
<1>4. /\ Paired(Append(msgs, a)) /\ Paired(Interjected(Append(msgs, a)))
      /\ ~IsPendingToolTurn(Interjected(Append(msgs, a)))
  BY <1>3, PairedInterjected
<1>5. Last(Append(msgs, a)) = a /\ Append(msgs, a) # <<>>
  BY <1>3, Kinds, TurnsOfAppend
<1>6. CASE \E done, out : EndsWith(Append(msgs, a), done, out)
  <2>1. msgs' = Append(msgs, a) /\ disk'.msgs = Append(msgs, a) /\ pc' = "idle"
    BY <1>6 DEF EndsWith, Answers, Persist, Returns, Stop
  <2>2. QED
    BY <1>4, <2>1 DEF WireInv
<1>7. CASE Interjects(Append(msgs, a))
  <2>1. /\ msgs' = Interjected(Append(msgs, a)) /\ disk'.msgs = Interjected(Append(msgs, a))
        /\ pc' = "top"
    BY <1>7 DEF Interjects, Answers, Persist
  <2>2. QED
    BY <1>4, <2>1 DEF WireInv
<1>8. CASE ToolUse(a)
  <2>1. msgs' = Append(msgs, a) /\ disk'.msgs = Append(msgs, a) /\ pc' = "tools"
    BY <1>8 DEF ToolUse, Answers, Persist
  <2>2. QED
    BY <1>4, <1>5, <2>1 DEF WireInv
<1>9. QED
  BY <1>1, <1>6, <1>7, <1>8

\* A run begins with what its session holds; calls left unanswered are run first.
LEMMA BeginWire == ASSUME IInv, WireInv, Run \/ Send PROVE WireInv'
<1>1. CASE Run
  <2>1. CASE Loaded
    <3>1. msgs' = disk.msgs /\ disk' = disk
          /\ \/ pc' = "idle"
             \/ pc' = "repair" /\ IsPendingToolTurn(disk.msgs)
             \/ pc' = "top" /\ ~IsPendingToolTurn(disk.msgs)
      BY <1>1, <2>1 DEF Run, Stop, BeginDrive
    <3>2. QED
      BY <3>1 DEF WireInv
  <2>2. CASE ~Loaded
    <3>1. msgs' = <<Text>> /\ disk'.msgs = <<Text>> /\ pc' = "top"
      BY <1>1, <2>2 DEF Run, Persist, BeginDrive
    <3>2. QED
      BY <3>1, PairedAtFirst DEF WireInv
  <2>3. QED
    BY <2>1, <2>2
<1>2. CASE Send
  <2> DEFINE ms == IF live THEN msgs ELSE IF Loaded THEN disk.msgs ELSE <<>>
  <2>1. ms \in Seq(Messages) /\ Paired(ms)
    BY NoTurns, PairedAtFirst DEF IInv, TypeOK, WireInv
  <2>2. \/ IsPendingToolTurn(ms) /\ pc' = "repair" /\ msgs' = ms /\ disk' = disk
        \/ /\ ~IsPendingToolTurn(ms) /\ pc' = "top" /\ msgs' = Append(ms, Text)
           /\ disk'.msgs = Append(ms, Text)
    BY <1>2 DEF Send, Persist, BeginDrive
  <2> HIDE DEF ms
  <2>3. CASE IsPendingToolTurn(ms)
    BY <2>1, <2>2, <2>3 DEF WireInv
  <2>4. CASE ~IsPendingToolTurn(ms)
    <3>1. Paired(Append(ms, Text)) /\ ~IsPendingToolTurn(Append(ms, Text))
      BY <2>1, <2>4, Calls, PairedAppend
    <3>2. QED
      BY <2>2, <2>4, <3>1 DEF WireInv
  <2>5. QED
    BY <2>3, <2>4
<1>3. QED
  BY <1>1, <1>2

\* The results of a turn's tools are added, and something may be said after them.
LEMMA ResultsWire == ASSUME IInv, WireInv, Repaired \/ ToolsDone PROVE WireInv'
<1> DEFINE r == IF Repaired THEN Results ELSE ToolResults(Last(msgs))
           u == Append(msgs, r)
<1>1. /\ msgs \in Seq(Messages) /\ Paired(msgs) /\ r \in {Results, Empty}
      /\ IsPendingToolTurn(msgs) => r = Results
      /\ r = Results => IsPendingToolTurn(msgs)
  <2>1. msgs \in Seq(Messages) /\ Paired(msgs)
    BY DEF IInv, TypeOK, WireInv
  <2>2. CASE Repaired
    <3>1. IsPendingToolTurn(msgs)
      BY <2>2 DEF Repaired, WireInv
    <3>2. QED
      BY <2>1, <2>2, <3>1
  <2>3. CASE ~Repaired
    <3>1. msgs # <<>> /\ Last(msgs) \in ModelAnswers
      BY <2>3 DEF ToolsDone, WireInv
    <3>2. IsPendingToolTurn(msgs) <=> Last(msgs).calls
      BY <3>1, Calls DEF IsPendingToolTurn
    <3>3. r = IF Last(msgs).calls THEN Results ELSE Empty
      BY <2>3 DEF ToolResults
    <3>4. QED
      BY <2>1, <3>1, <3>2, <3>3, Calls
  <2>4. QED
    BY <2>2, <2>3
<1>2. /\ msgs' = disk'.msgs /\ pc' \in {"top", "idle"}
      /\ msgs' = u \/ msgs' = Append(u, Text)
  <2>1. CASE Repaired
    <3> DEFINE ms == u \o (IF entry = "send" THEN <<Text>> ELSE <<>>)
    <3>1. msgs' = ms /\ disk' = [msgs |-> ms, done |-> FALSE] /\ pc' = "top"
      BY <2>1 DEF Repaired, Persist, BeginDrive
    <3>2. u \in Seq(Messages)
      BY <1>1, Calls
    <3> HIDE DEF u
    <3>3. ms = u \/ ms = Append(u, Text)
      BY <3>2
    <3>4. QED
      BY <3>1, <3>3
  <2>2. CASE ToolsDone /\ ~Repaired
    <3>1. /\ disk' = [msgs |-> msgs', done |-> FALSE] /\ pc' \in {"top", "idle"}
          /\ msgs' = u \/ msgs' = Append(u, Text)
      BY <2>2 DEF ToolsDone, Persist, Returns, Stop
    <3>2. QED
      BY <3>1
  <2>3. QED
    BY <2>1, <2>2
<1> HIDE DEF r
<1>3. u \in Seq(Messages) /\ Paired(u) /\ ~IsPendingToolTurn(u)
  BY <1>1, Calls, PairedAppend
<1> HIDE DEF u
<1>4. Paired(Append(u, Text)) /\ ~IsPendingToolTurn(Append(u, Text))
  BY <1>3, Calls, PairedAppend
<1>5. QED
  BY <1>2, <1>3, <1>4 DEF WireInv

LEMMA WireStep == ASSUME IInv, WireInv, [Next]_vars PROVE WireInv'
<1>1. CASE UNCHANGED vars
  BY <1>1 DEF vars, WireInv
<1>2. CASE ToolsCancelled \/ Cancel \/ NextTurn \/ ModelFails
  <2>1. msgs' = msgs /\ disk' = disk /\ (pc' = pc \/ pc' = "idle" \/ (pc = "top" /\ pc' = "context"))
    BY <1>2 DEF ToolsCancelled, Cancel, NextTurn, ModelFails, Stop
  <2>2. QED
    BY <2>1 DEF WireInv
<1>3. CASE OutOfTurns \/ SeeCancelled
  <2>1. msgs' = msgs /\ disk' = [msgs |-> msgs, done |-> FALSE] /\ pc' = "idle"
    BY <1>3, Zenon DEF OutOfTurns, SeeCancelled, Returns, Stop, Persist
  <2>2. disk'.msgs = msgs
    BY <2>1
  <2>3. QED
    BY <2>1, <2>2 DEF WireInv
<1>4. CASE CallModel
  <2>1. /\ pc = "context" /\ pc' = "model"
        /\ \/ msgs' = msgs /\ disk' = disk
           \/ msgs' = <<Text>> /\ disk'.msgs = <<Text>>
    BY <1>4 DEF CallModel, Compactions, Persist
  <2>2. QED
    BY <2>1, PairedAtFirst DEF WireInv
<1>5. CASE Crash
  <2>1. msgs' = <<>> /\ disk' = disk /\ pc' = "idle"
    BY <1>5 DEF Crash
  <2>2. QED
    BY <2>1, PairedAtFirst DEF WireInv
<1>6. QED
  BY <1>1, <1>2, <1>3, <1>4, <1>5, BeginWire, AnswerWire, ResultsWire DEF Next, RunStep

\* Where calls and results are next to each other in the transcript they are so in
\* what is sent.
LEMMA PairedIsSent ==
    ASSUME NEW ms \in Seq(Messages), Paired(ms), ~IsPendingToolTurn(ms),
           NEW n \in ToOpenAIMessages(ms)
    PROVE  /\ HasCalls(ms[n]) => \E m \in ToOpenAIMessages(ms) :
                                    NextTo(ToOpenAIMessages(ms), n, m) /\ ms[m] = Results
           /\ ms[n] = Results => \E m \in ToOpenAIMessages(ms) :
                                    NextTo(ToOpenAIMessages(ms), m, n) /\ HasCalls(ms[m])
<1> DEFINE wire == ToOpenAIMessages(ms)
           N == Len(ms)
<1>0. N \in Nat /\ DOMAIN ms = 1..N /\ n \in 1..N
  BY DEF ToOpenAIMessages
<1>1. wire \subseteq 1..N /\ \A k \in 1..N : ms[k] # Empty => k \in wire
  BY DEF ToOpenAIMessages
<1> HIDE DEF wire
<1>2. ASSUME HasCalls(ms[n])
      PROVE  \E m \in wire : NextTo(wire, n, m) /\ ms[m] = Results
  <2>1. n # N
    <3>1. ms # <<>> /\ Last(ms) = ms[N]
      BY <1>0 DEF Last
    <3>2. QED
      BY <1>2, <3>1 DEF IsPendingToolTurn
  <2>2. ms[n + 1] = Results
    BY <1>0, <1>2, <2>1 DEF Paired
  <2>3. n + 1 \in wire
    <3> HIDE DEF N
    <3>1. n + 1 \in 1..N
      BY <1>0, <2>1
    <3>2. QED
      BY <1>1, <2>2, <3>1, Calls
  <2>4. n < n + 1 /\ \A k \in wire : k <= n \/ n + 1 <= k
    BY <1>0, <1>1
  <2>5. QED
    BY <2>2, <2>3, <2>4 DEF NextTo
<1>3. ASSUME ms[n] = Results
      PROVE  \E m \in wire : NextTo(wire, m, n) /\ HasCalls(ms[m])
  <2>1. n > 1 /\ HasCalls(ms[n - 1])
    BY <1>0, <1>3 DEF Paired
  <2>2. n - 1 \in 1..N /\ ms[n - 1] # Empty
    BY <1>0, <2>1, Calls
  <2>3. n - 1 \in wire
    BY <1>1, <2>2
  <2>4. n - 1 < n /\ \A k \in wire : k <= n - 1 \/ n <= k
    BY <1>0, <1>1
  <2>5. QED
    BY <2>1, <2>3, <2>4 DEF NextTo
<1>4. QED
  BY <1>2, <1>3 DEF wire

\* coordinator.py:628-632: whatever a conversation has been through, what the model
\* is sent has the results of every call right after it, and no results without one.
THEOREM WireAlwaysValid == Spec => []WireValid
<1>1. Init => WireInv
  BY PairedAtFirst DEF Init, WireInv
<1>2. IInv /\ WireInv /\ [Next]_vars => WireInv'
  BY WireStep
<1>3. IInv /\ WireInv => WireValid
  <2>1. ASSUME IInv, WireInv, pc = "model", NEW n \in ToOpenAIMessages(msgs)
        PROVE  /\ HasCalls(msgs[n]) =>
                     \E m \in ToOpenAIMessages(msgs) :
                        NextTo(ToOpenAIMessages(msgs), n, m) /\ msgs[m] = Results
               /\ msgs[n] = Results =>
                     \E m \in ToOpenAIMessages(msgs) :
                        NextTo(ToOpenAIMessages(msgs), m, n) /\ HasCalls(msgs[m])
    <3>1. msgs \in Seq(Messages) /\ Paired(msgs) /\ ~IsPendingToolTurn(msgs)
      BY <2>1 DEF IInv, TypeOK, WireInv
    <3>2. QED
      BY <2>1, <3>1, PairedIsSent
  <2>2. QED
    BY <2>1 DEF WireValid
<1>4. QED
  BY Invariance, <1>1, <1>2, <1>3, PTL DEF Spec
===============================================================================
