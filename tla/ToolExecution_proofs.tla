-------------------------- MODULE ToolExecution_proofs --------------------------
(* Proofs about ToolExecution, for any number of calls, ids, crashes and runs *)
(* and any max_parallel_tools.                                                *)
EXTENDS ToolExecution, TLAPS

\* The initial values have the types of their variables.
LEMMA InitTyping == Init => TypeOK
<1> USE ConstantsAssumption DEF ConstantsAssumption
<1> SUFFICES ASSUME Init PROVE TypeOK
  OBVIOUS
<1>1. Idle \in [Calls -> TaskStates]
  BY DEF Idle, TaskStates, Ended
<1>2. /\ [n \in Calls |-> NoCall] \in [Calls -> Calls \cup {NoCall}]
      /\ [i \in Ids |-> NoCall] \in [Ids -> Calls \cup {NoCall}]
      /\ [n \in Calls |-> 0] \in [Calls -> Nat]
  OBVIOUS
<1>3. /\ made \in 0..MaxCalls /\ answered \in 0..made
      /\ crashes \in 0..MaxCrashes /\ runs \in 1..MaxRuns
  BY DEF Init
<1>4. QED
  BY <1>1, <1>2, <1>3 DEF Init, TypeOK

\* No step gives a variable a value of another type.
LEMMA StepTyping == TypeOK /\ [Next]_vars => TypeOK'
<1> USE ConstantsAssumption DEF ConstantsAssumption
<1> SUFFICES ASSUME TypeOK, [Next]_vars PROVE TypeOK'
  OBVIOUS
<1> USE DEF TypeOK
<1>1. CASE StartTurn
  BY <1>1 DEF StartTurn, transcript
<1>2. ASSUME NEW k \in Calls, ModelCalls(k) PROVE TypeOK'
  <2>1. k \in 0..MaxCalls /\ k > made
    BY <1>2 DEF ModelCalls, Calls
  <2>2. task' \in [Calls -> TaskStates]
    BY <1>2 DEF ModelCalls, TaskStates, Ended
  <2>3. QED
    BY <1>2, <2>1, <2>2 DEF ModelCalls
<1>3. CASE RunStops
  BY <1>3 DEF RunStops, transcript
<1>4. ASSUME NEW n \in Calls, NEW s \in TaskStates
      PROVE  [task EXCEPT ![n] = s] \in [Calls -> TaskStates]
  OBVIOUS
<1>5. {"none", "queued", "done", "raised", "deciding", "waiting", "asking", "starting",
       "executed", "failed"} \subseteq TaskStates
  BY DEF TaskStates, Ended, Holding
<1>6. ASSUME NEW n \in Calls, RecordResult(n) PROVE TypeOK'
  BY <1>4, <1>5, <1>6 DEF RecordResult, transcript
<1>7. ASSUME NEW n \in Calls, ToDispatch(n) PROVE TypeOK'
  BY <1>4, <1>5, <1>7 DEF ToDispatch, transcript
<1>8. ASSUME NEW n \in Calls, TaskStep(n) PROVE TypeOK'
  <2>1. CASE Begin(n)
    BY <1>4, <1>5, <2>1 DEF Begin, transcript
  <2>2. CASE Ask(n)
    BY <1>4, <1>5, <2>2 DEF Ask, transcript
  <2>3. ASSUME NEW e \in BOOLEAN, Dispatch(n, e) PROVE TypeOK'
    BY <1>4, <1>5, <2>3 DEF Dispatch, transcript
  <2>4. QED
    BY <1>6, <1>7, <1>8, <2>1, <2>2, <2>3 DEF TaskStep, Refuse, Allow, Approve, Record
<1>9. ASSUME NEW n \in Calls, StrayStep(n) PROVE TypeOK'
  <2>1. CASE StrayRecord(n)
    BY <1>5, <2>1 DEF StrayRecord, transcript
  <2>2. ASSUME NEW e \in BOOLEAN, StrayDispatch(n, e) PROVE TypeOK'
    BY <1>5, <2>2 DEF StrayDispatch, transcript
  <2>3. QED
    BY <1>9, <2>1, <2>2 DEF StrayStep
<1>10. CASE AppendResults
  <2>1. Idle \in [Calls -> TaskStates]
    BY DEF Idle, TaskStates, Ended
  <2>2. QED
    BY <1>10, <2>1 DEF AppendResults
<1>11. CASE Cancel
  BY <1>11 DEF Cancel, transcript
<1>12. CASE Abort
  BY <1>12 DEF Abort, transcript
<1>13. ASSUME EnterRun
       PROVE  /\ run' \in {"top", "tools"} /\ task' \in [Calls -> TaskStates]
              /\ result' \in [Calls -> Calls \cup {NoCall}]
              /\ seen' = {} /\ ranHere' = {} /\ runs' \in 1..MaxRuns
  BY <1>5, <1>13 DEF EnterRun
<1>14. CASE NextRun
  BY <1>13, <1>14 DEF NextRun, transcript
<1>15. CASE ResumeAborted
  <2>1. stray' \in [Calls -> TaskStates] /\ overtaken' \in [Calls -> Nat]
    BY <1>5, <1>15 DEF ResumeAborted
  <2>2. QED
    BY <1>13, <1>15, <2>1 DEF ResumeAborted, transcript
<1>16. CASE CrashAndResume
  <2>1. crashes' \in 0..MaxCrashes /\ lost' \in [Calls -> Nat]
    BY <1>16 DEF CrashAndResume
  <2>2. stray' \in [Calls -> TaskStates]
    BY <1>16 DEF CrashAndResume, Idle, TaskStates, Ended
  <2>3. QED
    BY <1>13, <1>16, <2>1, <2>2 DEF CrashAndResume, transcript
<1>17. CASE UNCHANGED vars
  BY <1>17 DEF vars
<1>18. QED
  BY <1>1, <1>2, <1>3, <1>8, <1>9, <1>10, <1>11, <1>12, <1>14, <1>15, <1>16, <1>17 DEF Next

\* Every variable keeps its type: among others, no answer precedes its call.
THEOREM Typing == Spec => []TypeOK
  BY InitTyping, StepTyping, PTL DEF Spec
-------------------------------------------------------------------------------
\* Why OnceButForTheWindows holds.  A call's debt is the effects it had and the
\* one a call left behind may still have; its allowance is what the windows
\* have cost it.  A call that may still be dispatched owes at most its
\* allowance; one that owes more is answered from the journal when its turn
\* comes, since no call of its id is under way or has recorded a result in
\* this run.
Debt(n) == effects[n] + (IF stray[n] = "starting" THEN 1 ELSE 0)
Allowance(n) == lost[n] + overtaken[n]
Unsettled == {"deciding", "waiting", "asking", "starting", "failed", "raised"}

PhaseInv == /\ run \in {"top", "model", "stopped"} => answered = made
            /\ \A n \in Calls : task[n] = "none" <=> n \notin Pending
FreshInv == \A n \in Calls : n > made => effects[n] = 0 /\ stray[n] = "none"
DebtInv == \A n \in Calls : /\ Debt(n) <= Allowance(n) + 1
                            /\ task[n] \in Unsettled => Debt(n) <= Allowance(n)
QueueInv == \A n \in Calls :
    task[n] = "queued" /\ Debt(n) > Allowance(n) =>
        /\ Replayed(n)
        /\ \A m \in Calls : id[m] = id[n] => task[m] \notin Holding
FileInv == /\ \A i \in Ids : journal[i] # NoCall => journalFile[i] # NoCall
           /\ \A n \in Calls : task[n] = "done" => journalFile[id[n]] # NoCall
IInv == TypeOK /\ PhaseInv /\ FreshInv /\ DebtInv /\ QueueInv /\ FileInv

\* A task that goes on without an effect or a record keeps the invariant, if it
\* is not dispatched while it owes more than its allowance.
LEMMA TaskMoves ==
    ASSUME IInv, NEW n \in Calls, NEW s \in TaskStates \ {"none", "queued"},
           task[n] # "none",
           task' = [task EXCEPT ![n] = s],
           UNCHANGED <<made, answered, id, run, effects, stray, lost, overtaken,
                       journal, journalFile, seen>>,
           s \in Unsettled => Debt(n) <= Allowance(n),
           s = "done" => journalFile[id[n]] # NoCall,
           s \in Holding => task[n] \in Holding \/ ~Replayed(n)
    PROVE  PhaseInv' /\ FreshInv' /\ DebtInv' /\ QueueInv' /\ FileInv'
<1>1. \A m \in Calls : Debt(m)' = Debt(m) /\ Allowance(m)' = Allowance(m)
                      /\ task'[m] = (IF m = n THEN s ELSE task[m])
                      /\ Replayed(m)' = Replayed(m)
  BY DEF IInv, TypeOK, Debt, Allowance, Replayed
<1>2. PhaseInv' /\ FreshInv' /\ FileInv'
  BY <1>1 DEF IInv, PhaseInv, FreshInv, FileInv, Pending
<1>3. DebtInv'
  BY <1>1 DEF IInv, DebtInv
<1>4. QueueInv'
  BY <1>1 DEF IInv, QueueInv, Replayed
<1>5. QED
  BY <1>2, <1>3, <1>4

\* Recording a result takes a call out of reach of QueueInv: no queued call that
\* owes more than its allowance has the same id.
LEMMA ResultRecorded ==
    ASSUME IInv, NEW n \in Calls, task[n] \in Holding, RecordResult(n)
    PROVE  PhaseInv' /\ FreshInv' /\ DebtInv' /\ QueueInv' /\ FileInv'
<1>1. /\ n # NoCall /\ id[n] \in Ids
      /\ UNCHANGED <<made, answered, id, run>>
      /\ seen' = seen \cup {id[n]}
  BY DEF IInv, TypeOK, RecordResult, transcript, Calls, NoCall
<1>2. /\ \A m \in Calls : Debt(m)' = Debt(m) /\ Allowance(m)' = Allowance(m)
                         /\ task'[m] = (IF m = n THEN "done" ELSE task[m])
      /\ \A i \in Ids : /\ journal'[i] = (IF i = id[n] THEN n ELSE journal[i])
                        /\ journalFile'[i] = (IF i = id[n] THEN n ELSE journalFile[i])
  BY DEF IInv, TypeOK, RecordResult, Debt, Allowance
<1>3. PhaseInv'
  BY <1>1, <1>2 DEF IInv, PhaseInv, Pending, Holding
<1>4. FreshInv'
  BY <1>1 DEF IInv, FreshInv, RecordResult
<1>5. DebtInv'
  BY <1>2 DEF IInv, DebtInv, Unsettled
<1>6. QueueInv'
  <2> SUFFICES ASSUME NEW m \in Calls, task'[m] = "queued", Debt(m) > Allowance(m)
               PROVE  /\ Replayed(m)'
                      /\ \A k \in Calls : id[k] = id[m] => task'[k] \notin Holding
    BY <1>1, <1>2 DEF QueueInv
  <2>1. Replayed(m) /\ \A k \in Calls : id[k] = id[m] => task[k] \notin Holding
    BY <1>2 DEF IInv, QueueInv
  <2>2. id[m] # id[n] /\ id[m] \in Ids
    BY <2>1 DEF IInv, TypeOK
  <2>3. Replayed(m)'
    BY <1>1, <1>2, <2>1, <2>2 DEF Replayed
  <2>4. QED
    BY <1>2, <2>1, <2>3 DEF Holding
<1>7. FileInv'
  BY <1>1, <1>2 DEF IInv, TypeOK, FileInv
<1>8. QED
  BY <1>3, <1>4, <1>5, <1>6, <1>7

\* Every run starts with the calls that have no result yet queued, and nothing
\* seen; the crash and the resumption say what the journal and the debts are.
LEMMA RunEntered ==
    ASSUME IInv, EnterRun, UNCHANGED <<made, answered, id, journalFile>>,
           \A n \in Calls : Debt(n)' <= Allowance(n)' + 1,
           \A n \in Calls : stray'[n] # "none" => task[n] # "none" \/ stray[n] # "none",
           \A n \in Calls : effects'[n] = effects[n],
           \A n \in Pending : Debt(n)' > Allowance(n)' => journalFile[id[n]] # NoCall,
           journal' = journalFile
    PROVE  PhaseInv' /\ FreshInv' /\ DebtInv' /\ QueueInv' /\ FileInv'
<1>1. \A n \in Calls : task'[n] = IF n \in Pending THEN "queued" ELSE "none"
  BY DEF EnterRun
<1>2. PhaseInv'
  BY <1>1 DEF EnterRun, PhaseInv, Pending, IInv, TypeOK
<1>3. FreshInv'
  BY DEF IInv, TypeOK, FreshInv, PhaseInv, Pending, Calls
<1>4. DebtInv'
  BY <1>1 DEF DebtInv, Unsettled
<1>5. QueueInv'
  BY <1>1 DEF QueueInv, EnterRun, Replayed, Holding
<1>6. FileInv'
  BY <1>1 DEF FileInv
<1>7. QED
  BY <1>2, <1>3, <1>4, <1>5, <1>6

\* IInv is inductive.
LEMMA StepAccounting == IInv /\ [Next]_vars => IInv'
<1> SUFFICES ASSUME IInv, [Next]_vars
             PROVE  PhaseInv' /\ FreshInv' /\ DebtInv' /\ QueueInv' /\ FileInv'
  BY StepTyping DEF IInv
<1> DEFINE Parts == PhaseInv /\ FreshInv /\ DebtInv /\ QueueInv /\ FileInv
<1>0. \A n \in Pending : n \in Calls /\ task[n] # "none"
  <2>1. Pending \subseteq Calls
    BY ConstantsAssumption DEF ConstantsAssumption, IInv, TypeOK, Pending, Calls
  <2>2. QED
    BY <2>1 DEF IInv, PhaseInv
<1> USE DEF Pending
<1>1. ASSUME UNCHANGED <<made, answered, id, task, effects, stray, lost, overtaken,
                         journal, journalFile, seen>>,
             run' \in {"top", "model", "stopped"} => run \in {"top", "model", "stopped"}
      PROVE  Parts'
  BY <1>1 DEF IInv, PhaseInv, FreshInv, DebtInv, QueueInv, FileInv, Debt, Allowance, Replayed
<1>2. CASE StartTurn \/ RunStops \/ Cancel \/ Abort \/ UNCHANGED vars
  BY <1>1, <1>2 DEF StartTurn, RunStops, Cancel, Abort, vars, transcript
<1>3. ASSUME NEW k \in Calls, ModelCalls(k) PROVE Parts'
  <2>1. /\ answered = made /\ made' = k /\ k > made /\ run' = "tools"
        /\ UNCHANGED <<answered, id, stray, seen, journal, journalFile, effects, lost, overtaken>>
    BY <1>3 DEF ModelCalls, IInv, PhaseInv
  <2>2. \A n \in Calls : task'[n] = IF n \in (made + 1)..k THEN "queued" ELSE "none"
    BY <1>3 DEF ModelCalls
  <2>3. \A n \in Calls : Debt(n)' = Debt(n) /\ Allowance(n)' = Allowance(n)
    BY <2>1 DEF Debt, Allowance
  <2>4. \A n \in (made + 1)..k : n \in Calls /\ Debt(n) <= Allowance(n)
    <3>1. ASSUME NEW n \in (made + 1)..k PROVE n \in Calls /\ n > made
      BY <2>1, <3>1, ConstantsAssumption DEF ConstantsAssumption, IInv, TypeOK, Calls
    <3>2. ASSUME NEW n \in Calls, n > made PROVE Debt(n) <= Allowance(n)
      BY <3>2 DEF IInv, TypeOK, FreshInv, Debt, Allowance
    <3>3. QED
      BY <3>1, <3>2
  <2>5. PhaseInv' /\ FreshInv'
    BY <2>1, <2>2 DEF PhaseInv, FreshInv, IInv, TypeOK, Calls
  <2>6. DebtInv' /\ FileInv'
    BY <2>1, <2>2, <2>3 DEF DebtInv, FileInv, IInv, Unsettled
  <2>7. QueueInv'
    <3>1. \A n \in Calls : task'[n] = "queued" => Debt(n)' <= Allowance(n)'
      BY <2>2, <2>3, <2>4
    <3>2. \A n \in Calls : Debt(n)' \in Int /\ Allowance(n)' \in Int
      BY <2>3 DEF IInv, TypeOK, Debt, Allowance
    <3>3. QED
      BY <3>1, <3>2 DEF QueueInv
  <2>8. QED
    BY <2>5, <2>6, <2>7
<1>4. ASSUME NEW n \in Calls, task[n] \in {"deciding", "asking"}, ToDispatch(n) PROVE Parts'
  <2>1. Debt(n) <= Allowance(n)
    BY <1>4 DEF IInv, DebtInv, Unsettled
  <2>2. QED
    BY <1>4, <2>1, TaskMoves DEF ToDispatch, transcript, Holding, TaskStates, Ended
<1>5. ASSUME NEW n \in Calls, Ask(n) PROVE Parts'
  <2>1. task[n] \in {"deciding", "waiting"} /\ Debt(n) <= Allowance(n)
    BY <1>5 DEF Ask, IInv, DebtInv, Unsettled
  <2>2. QED
    BY <1>5, <2>1, TaskMoves DEF Ask, transcript, Holding, TaskStates
<1>6. ASSUME NEW n \in Calls, Begin(n) PROVE Parts'
  <2>1. task[n] = "queued" /\ Debt(n) \in Int /\ Allowance(n) \in Int /\ id[n] \in Ids
    BY <1>6 DEF Begin, IInv, TypeOK, Debt, Allowance
  <2>2. CASE Replayed(n)
    BY <1>6, <2>1, <2>2, TaskMoves
       DEF Begin, transcript, Holding, Unsettled, TaskStates, Ended, Replayed, IInv, FileInv
  <2>3. CASE ~Replayed(n)
    <3>1. Debt(n) <= Allowance(n)
      BY <2>1, <2>3 DEF IInv, QueueInv
    <3>2. QED
      BY <1>6, <2>1, <2>3, <3>1, TaskMoves DEF Begin, transcript, Holding, TaskStates
  <2>4. QED
    BY <2>2, <2>3
<1>7. ASSUME NEW n \in Calls, NEW e \in BOOLEAN, Dispatch(n, e) PROVE Parts'
  <2>1. /\ task[n] = "starting" /\ Debt(n) <= Allowance(n)
        /\ UNCHANGED <<made, answered, id, run, stray, seen, journal, journalFile>>
    BY <1>7 DEF Dispatch, transcript, IInv, DebtInv, Unsettled
  <2>2. \A m \in Calls :
          /\ task'[m] = IF m = n THEN (IF e THEN "executed" ELSE "failed") ELSE task[m]
          /\ effects'[m] = IF m = n /\ e THEN effects[m] + 1 ELSE effects[m]
          /\ Allowance(m)' = Allowance(m)
          /\ Debt(m)' = IF m = n /\ e THEN Debt(m) + 1 ELSE Debt(m)
          /\ Debt(m) \in Int /\ Allowance(m) \in Int
    BY <1>7 DEF Dispatch, IInv, TypeOK, Debt, Allowance
  <2>3. n <= made
    BY <2>1 DEF IInv, PhaseInv, TypeOK
  <2>4. PhaseInv' /\ FreshInv' /\ FileInv'
    <3>1. stray' = stray
      BY <1>7 DEF Dispatch
    <3>2. FreshInv'
      BY <2>1, <2>2, <2>3, <3>1 DEF IInv, FreshInv, TypeOK, Calls
    <3>3. PhaseInv' /\ FileInv'
      BY <2>1, <2>2 DEF IInv, PhaseInv, FileInv
    <3>4. QED
      BY <3>2, <3>3
  <2>5. DebtInv'
    BY <2>1, <2>2 DEF IInv, DebtInv, Unsettled
  <2>6. QueueInv'
    BY <2>1, <2>2 DEF IInv, QueueInv, Holding, Replayed
  <2>7. QED
    BY <2>4, <2>5, <2>6
<1>8. ASSUME NEW n \in Calls, task[n] \in Holding, RecordResult(n) PROVE Parts'
  BY <1>8, ResultRecorded
<1>9. ASSUME NEW n \in Calls, TaskStep(n) PROVE Parts'
  BY <1>4, <1>5, <1>6, <1>7, <1>8, <1>9
     DEF TaskStep, Refuse, Allow, Approve, Record, Holding
<1>10. ASSUME NEW n \in Calls, StrayStep(n) PROVE Parts'
  <2>1. /\ UNCHANGED <<made, answered, id, run, task, seen, journal, lost, overtaken>>
        /\ stray[n] \in {"starting", "executed", "failed"}
    BY <1>10 DEF StrayStep, StrayRecord, StrayDispatch, transcript
  <2>2. n \in 1..made
    BY <2>1 DEF IInv, FreshInv, TypeOK, Calls
  <2>3. \A m \in Calls : /\ Debt(m)' <= Debt(m) /\ Allowance(m)' = Allowance(m)
                         /\ Debt(m)' \in Int /\ Debt(m) \in Int /\ Allowance(m) \in Int
                         /\ m # n => effects'[m] = effects[m] /\ stray'[m] = stray[m]
    BY <1>10, <2>1 DEF StrayStep, StrayRecord, StrayDispatch, IInv, TypeOK, Debt, Allowance
  <2>4. \A i \in Ids : journalFile'[i] = journalFile[i] \/ journalFile'[i] = n
    BY <1>10 DEF StrayStep, StrayRecord, StrayDispatch, IInv, TypeOK
  <2>5. PhaseInv' /\ FreshInv'
    BY <2>1, <2>2, <2>3 DEF IInv, PhaseInv, FreshInv, TypeOK
  <2>6. DebtInv' /\ QueueInv'
    BY <2>1, <2>3 DEF IInv, DebtInv, QueueInv, Replayed
  <2>7. FileInv'
    BY <2>1, <2>2, <2>4 DEF IInv, TypeOK, FileInv, NoCall
  <2>8. QED
    BY <2>5, <2>6, <2>7
<1>11. CASE AppendResults
  <2>1. /\ answered' = made /\ task' = Idle
        /\ UNCHANGED <<made, id, stray, seen, journal, journalFile, effects, lost, overtaken>>
    BY <1>11 DEF AppendResults
  <2>2. QED
    BY <2>1 DEF IInv, TypeOK, Idle, PhaseInv, FreshInv, DebtInv, QueueInv, FileInv, Debt,
                Allowance, Unsettled
<1> HIDE DEF Pending
<1>12. CASE NextRun
  <2>1. Pending = {}
    BY <1>12 DEF NextRun, IInv, TypeOK, PhaseInv, Pending
  <2>2. QED
    BY <1>12, <2>1 DEF NextRun, EnterRun, transcript, IInv, TypeOK, PhaseInv, FreshInv, DebtInv,
                       QueueInv, FileInv, Debt, Allowance, Unsettled, Pending
<1>13. CASE ResumeAborted
  <2>1. \A n \in Calls :
          /\ Debt(n) = effects[n] /\ effects[n] \in Nat /\ Allowance(n) \in Nat
          /\ Debt(n)' = effects[n] + (IF task[n] = "starting" THEN 1 ELSE 0)
          /\ Allowance(n)' = Allowance(n)
                              + (IF task[n] \in {"starting", "executed"} THEN 1 ELSE 0)
    BY <1>13 DEF ResumeAborted, IInv, TypeOK, Debt, Allowance, Ended
  <2>2. \A n \in Calls : Debt(n)' <= Allowance(n)' + 1
    BY <2>1 DEF IInv, DebtInv
  <2>3. ASSUME NEW n \in Pending, Debt(n)' > Allowance(n)' PROVE journalFile[id[n]] # NoCall
    <3>1. n \in Calls /\ task[n] # "none"
      BY <1>0
    <3>2. task[n] \notin Unsettled \cup {"executed"}
      BY <2>1, <2>3, <3>1 DEF IInv, DebtInv, Unsettled
    <3>3. task[n] \in {"queued", "done"}
      BY <3>1, <3>2 DEF IInv, TypeOK, TaskStates, Ended, Holding, Unsettled
    <3>4. task[n] = "queued" => Replayed(n)
      BY <2>1, <2>3, <3>1 DEF IInv, QueueInv
    <3>5. QED
      BY <3>1, <3>3, <3>4 DEF IInv, TypeOK, FileInv, Replayed
  <2>4. \A n \in Calls : stray'[n] # "none" => task[n] # "none"
    BY <1>13 DEF ResumeAborted
  <2>5. QED
    BY <1>13, <2>2, <2>3, <2>4, RunEntered DEF ResumeAborted, transcript
<1>14. CASE CrashAndResume
  <2>1. \A n \in Calls :
          /\ Debt(n)' <= Debt(n) /\ Debt(n) \in Nat /\ Debt(n)' \in Nat
          /\ Allowance(n) \in Nat
          /\ Allowance(n)' = Allowance(n) + (IF task[n] = "executed" THEN 1 ELSE 0)
          /\ stray'[n] = "none"
    BY <1>14 DEF CrashAndResume, IInv, TypeOK, Debt, Allowance, Idle
  <2>2. \A n \in Calls : Debt(n)' <= Allowance(n)' + 1
    BY <2>1 DEF IInv, DebtInv
  <2>3. ASSUME NEW n \in Pending, Debt(n)' > Allowance(n)' PROVE journalFile[id[n]] # NoCall
    <3>1. n \in Calls /\ task[n] # "none"
      BY <1>0
    <3>2. task[n] \notin Unsettled \cup {"executed"}
      BY <2>1, <2>3, <3>1 DEF IInv, DebtInv
    <3>3. task[n] \in {"queued", "done"}
      BY <3>1, <3>2 DEF IInv, TypeOK, TaskStates, Ended, Holding, Unsettled
    <3>4. task[n] = "queued" => Replayed(n)
      BY <2>1, <2>3, <3>1 DEF IInv, QueueInv
    <3>5. QED
      BY <3>1, <3>3, <3>4 DEF IInv, TypeOK, FileInv, Replayed
  <2>4. QED
    BY <1>14, <2>1, <2>2, <2>3, RunEntered DEF CrashAndResume, transcript
<1>15. QED
  BY <1>2, <1>3, <1>9, <1>10, <1>11, <1>12, <1>13, <1>14 DEF Next

\* Nothing is owed at the start.
LEMMA InitAccounting == Init => IInv
<1> SUFFICES ASSUME Init PROVE PhaseInv /\ FreshInv /\ DebtInv /\ QueueInv /\ FileInv
  BY InitTyping DEF IInv
<1>1. Pending = {}
  BY DEF Init, Pending
<1>2. QED
  BY <1>1 DEF Init, Idle, PhaseInv, FreshInv, DebtInv, QueueInv, FileInv, Debt, Allowance,
              Unsettled

\* session.py:167-176: the journal makes every side effect happen at most once,
\* but for a crash between the effect and its record and a session resumed
\* while calls of the cancelled run are under way, whatever ids the model
\* gives, in whatever order the calls of a turn run.
THEOREM ExactlyOnce == Spec => []OnceButForTheWindows
<1>1. IInv => OnceButForTheWindows
  BY DEF IInv, TypeOK, DebtInv, Debt, Allowance, OnceButForTheWindows
<1>2. QED
  BY <1>1, InitAccounting, StepAccounting, PTL DEF Spec
-------------------------------------------------------------------------------
(* TranscriptAgreesWithJournal                                                *)

\* Both journals give an id the result of a call with that id; so a call whose id
\* is its own finds nobody else's result there.
OwnInv == \A i \in Ids : /\ journal[i] # NoCall => id[journal[i]] = i
                         /\ journalFile[i] # NoCall => id[journalFile[i]] = i

\* No other call was given the same id.
Alone(n) == \A m \in Calls \ {n} : id[m] # id[n]

\* The result a call was given is the one the file has: from when its task is done
\* on, and after the turn's results are in the transcript.
Agrees(n) == result[n] = n /\ journalFile[id[n]] = n
AgreeInv == \A n \in Calls : Alone(n) /\ (n <= answered \/ task[n] = "done") => Agrees(n)

RecordInv == TypeOK /\ PhaseInv /\ FileInv /\ OwnInv /\ AgreeInv

\* The journals hand nothing but its own result to a call that is alone.
LEMMA FoundIsOwn ==
    ASSUME TypeOK, OwnInv, NEW n \in Calls, Alone(n)
    PROVE  /\ journal[id[n]] \in {NoCall, n} /\ journalFile[id[n]] \in {NoCall, n}
           /\ id[n] \in Ids
  BY DEF TypeOK, OwnInv, Alone

\* A step that records nothing keeps the agreement, if it gives no result but one
\* found in the file, and the calls it lets be done or answered agree already.
LEMMA AgreementKept ==
    ASSUME RecordInv, UNCHANGED <<id, journalFile>>,
           journal' = journal \/ journal' = journalFile,
           \A n \in Calls : Alone(n) /\ (n <= answered' \/ task'[n] = "done")
                               => Agrees(n) /\ result'[n] = result[n]
    PROVE  OwnInv' /\ AgreeInv'
<1>1. OwnInv'
  BY DEF RecordInv, OwnInv
<1>2. AgreeInv'
  BY DEF AgreeInv, Agrees, Alone
<1>3. QED
  BY <1>1, <1>2

\* A recorded result is its call's own, in the run and in the file; the call of an
\* aborted run reaches the file alone.
LEMMA AgreementRecorded ==
    ASSUME RecordInv, NEW n \in Calls, UNCHANGED <<id, answered>>,
           journalFile' = [journalFile EXCEPT ![id[n]] = n],
           journal' \in {journal, [journal EXCEPT ![id[n]] = n]},
           \A m \in Calls \ {n} : task'[m] = task[m] /\ result'[m] = result[m],
           \/ result'[n] = n
           \/ task'[n] = task[n] /\ result'[n] = result[n]
    PROVE  OwnInv' /\ AgreeInv'
<1>1. /\ n # NoCall /\ id[n] \in Ids
      /\ \A i \in Ids : /\ journalFile'[i] = (IF i = id[n] THEN n ELSE journalFile[i])
                        /\ journal'[i] \in {journal[i], IF i = id[n] THEN n ELSE journal[i]}
  BY DEF RecordInv, TypeOK, NoCall, Calls
<1>2. OwnInv'
  BY <1>1 DEF RecordInv, OwnInv
<1>3. ASSUME NEW m \in Calls, Alone(m), m <= answered \/ task'[m] = "done" PROVE Agrees(m)'
  <2>1. CASE m = n
    BY <1>1, <1>3, <2>1 DEF RecordInv, AgreeInv, Agrees
  <2>2. CASE m # n
    <3>1. Agrees(m) /\ id[m] # id[n] /\ id[m] \in Ids
      BY <1>3, <2>2 DEF RecordInv, AgreeInv, Alone, TypeOK
    <3>2. QED
      BY <1>1, <2>2, <3>1 DEF Agrees
  <2>3. QED
    BY <2>1, <2>2
<1>4. AgreeInv'
  BY <1>3 DEF AgreeInv, Alone
<1>5. QED
  BY <1>2, <1>4

\* A run begins with nothing done and keeps the results that are in the transcript.
LEMMA AgreementEntered ==
    ASSUME RecordInv, EnterRun, UNCHANGED <<answered, id, journalFile>>,
           journal' = journal \/ journal' = journalFile
    PROVE  OwnInv' /\ AgreeInv'
<1>1. ASSUME NEW n \in Calls, Alone(n), n <= answered' \/ task'[n] = "done"
      PROVE  Agrees(n) /\ result'[n] = result[n]
  <2>1. task'[n] # "done" /\ (n <= answered => n \notin Pending)
    BY DEF EnterRun, Pending, RecordInv, TypeOK
  <2>2. n <= answered
    BY <1>1, <2>1
  <2>3. QED
    BY <1>1, <2>1, <2>2 DEF EnterRun, RecordInv, AgreeInv
<1>2. QED
  BY <1>1, AgreementKept

\* The invariant is inductive.
LEMMA StepAgrees == IInv /\ RecordInv /\ [Next]_vars => RecordInv'
<1> SUFFICES ASSUME IInv, RecordInv, [Next]_vars PROVE OwnInv' /\ AgreeInv'
  BY StepAccounting DEF IInv, RecordInv
<1> DEFINE Goal == OwnInv' /\ AgreeInv'
<1>1. ASSUME UNCHANGED <<answered, id, result, journal, journalFile>>,
             \A n \in Calls : task'[n] = "done" => task[n] = "done"
      PROVE  Goal
  BY <1>1, AgreementKept DEF RecordInv, AgreeInv
<1>2. CASE StartTurn \/ RunStops \/ Cancel \/ Abort \/ UNCHANGED vars
  BY <1>1, <1>2 DEF StartTurn, RunStops, Cancel, Abort, vars, transcript
<1>3. ASSUME NEW k \in Calls, ModelCalls(k) PROVE Goal
  BY <1>1, <1>3 DEF ModelCalls
<1>4. ASSUME NEW n \in Calls, RecordResult(n) PROVE Goal
  <2>1. /\ UNCHANGED <<id, answered>> /\ result'[n] = n
        /\ \A m \in Calls \ {n} : task'[m] = task[m] /\ result'[m] = result[m]
        /\ journal' = [journal EXCEPT ![id[n]] = n]
        /\ journalFile' = [journalFile EXCEPT ![id[n]] = n]
    BY <1>4 DEF RecordResult, transcript, RecordInv, TypeOK
  <2>2. QED
    BY <2>1, AgreementRecorded
<1>5. ASSUME NEW n \in Calls, Begin(n) PROVE Goal
  <2>1. /\ UNCHANGED <<id, answered, journal, journalFile>> /\ task[n] = "queued"
        /\ \A m \in Calls \ {n} : task'[m] = task[m] /\ result'[m] = result[m]
        /\ \/ task'[n] = "done" /\ result'[n] = journal[id[n]] /\ Replayed(n)
           \/ task'[n] = "deciding" /\ result'[n] = result[n]
    BY <1>5 DEF Begin, transcript, RecordInv, TypeOK
  <2>2. ~(n <= answered)
    BY <2>1 DEF RecordInv, TypeOK, PhaseInv, Pending, Calls
  <2>3. OwnInv'
    BY <2>1 DEF RecordInv, OwnInv
  <2>4. ASSUME NEW m \in Calls, Alone(m), m <= answered \/ task'[m] = "done" PROVE Agrees(m)'
    <3>1. CASE m = n
      <4>1. journal[id[n]] = n /\ result'[n] = n
        BY <2>1, <2>2, <2>4, <3>1, FoundIsOwn DEF RecordInv, Replayed
      <4>2. journalFile[id[n]] = n
        BY <2>4, <3>1, <4>1, FoundIsOwn DEF RecordInv, FileInv, NoCall, Calls
      <4>3. QED
        BY <2>1, <3>1, <4>1, <4>2 DEF Agrees
    <3>2. CASE m # n
      BY <2>1, <2>4, <3>2 DEF RecordInv, AgreeInv, Agrees
    <3>3. QED
      BY <3>1, <3>2
  <2>5. QED
    BY <2>1, <2>3, <2>4 DEF AgreeInv, Alone
<1>6. ASSUME NEW n \in Calls, TaskStep(n) PROVE Goal
  <2>1. CASE Allow(n) \/ Approve(n) \/ Ask(n) \/ \E e \in BOOLEAN : Dispatch(n, e)
    BY <1>1, <2>1
       DEF Allow, Approve, ToDispatch, Ask, Dispatch, transcript, RecordInv, TypeOK
  <2>2. CASE Refuse(n) \/ Record(n)
    BY <1>4, <2>2 DEF Refuse, Record
  <2>3. QED
    BY <1>5, <1>6, <2>1, <2>2 DEF TaskStep
<1>7. ASSUME NEW n \in Calls, StrayStep(n) PROVE Goal
  <2>1. CASE StrayRecord(n)
    BY <2>1, AgreementRecorded DEF StrayRecord, transcript
  <2>2. CASE \E e \in BOOLEAN : StrayDispatch(n, e)
    BY <1>1, <2>2 DEF StrayDispatch, transcript
  <2>3. QED
    BY <1>7, <2>1, <2>2 DEF StrayStep
<1>8. CASE AppendResults
  <2>1. ASSUME NEW n \in Calls, Alone(n), n <= answered' \/ task'[n] = "done"
        PROVE  Agrees(n) /\ result'[n] = result[n]
    <3>1. n <= made /\ result' = result /\ \A m \in Pending : task[m] = "done"
      BY <1>8, <2>1 DEF AppendResults, Idle
    <3>2. n <= answered \/ n \in Pending
      BY <3>1 DEF Pending, RecordInv, TypeOK, Calls
    <3>3. QED
      BY <2>1, <3>1, <3>2 DEF RecordInv, AgreeInv
  <2>2. QED
    BY <1>8, <2>1, AgreementKept DEF AppendResults
<1>9. CASE NextRun \/ ResumeAborted \/ CrashAndResume
  BY <1>9, AgreementEntered DEF NextRun, ResumeAborted, CrashAndResume, transcript
<1>10. QED
  BY <1>2, <1>3, <1>6, <1>7, <1>8, <1>9 DEF Next

\* No journal has a result at the start.
LEMMA InitRecords == Init /\ IInv => RecordInv
  BY DEF Init, Idle, IInv, RecordInv, OwnInv, AgreeInv, NoCall, Calls

\* session.py:157-189: a call's result that is in the transcript is the result its
\* own execution produced, and the one the journal's file has for its id: resumed
\* from the file at any point, in whatever order calls, crashes and calls left behind
\* wrote it, the turn would have got the same.  (For a call whose id is its own.)
THEOREM JournalAgrees == Spec => []TranscriptAgreesWithJournal
<1>1. RecordInv => TranscriptAgreesWithJournal
  <2> SUFFICES ASSUME RecordInv, NEW n \in 1..answered,
                      \A m \in Calls \ {n} : id[m] # id[n]
               PROVE  result[n] = n /\ journalFile[id[n]] = n
    BY DEF TranscriptAgreesWithJournal
  <2>1. n \in Calls /\ n <= answered
    BY ConstantsAssumption DEF ConstantsAssumption, RecordInv, TypeOK, Calls
  <2>2. QED
    BY <2>1 DEF RecordInv, AgreeInv, Alone, Agrees
<1>2. QED
  BY <1>1, InitAccounting, InitRecords, StepAccounting, StepAgrees, PTL DEF Spec
-------------------------------------------------------------------------------
(* NoResultOfThisRunReused                                                    *)

\* A call that produced its result in this run is over, and its id is one this run
\* has seen, so that no lookup finds what it recorded.
HereInv == \A m \in ranHere : /\ m \in Calls /\ m <= made /\ id[m] \in seen
                              /\ task[m] \in {"none", "done"}

\* A step of a task that is not over, or of none, keeps that.
LEMMA HereKept ==
    ASSUME TypeOK, HereInv, UNCHANGED <<made, id, ranHere, seen>>,
           \A m \in Calls : task[m] \in {"none", "done"} => task'[m] \in {"none", "done"}
    PROVE  HereInv'
  BY DEF HereInv

LEMMA StepHere == IInv /\ HereInv /\ [Next]_vars => HereInv'
<1> SUFFICES ASSUME IInv, HereInv, [Next]_vars PROVE HereInv'
  OBVIOUS
<1>1. TypeOK
  BY DEF IInv
<1>2. CASE StartTurn \/ RunStops \/ Cancel \/ Abort \/ AppendResults \/ UNCHANGED vars
  BY <1>1, <1>2, HereKept
     DEF StartTurn, RunStops, Cancel, Abort, AppendResults, vars, transcript, Idle
<1>3. ASSUME NEW k \in Calls, ModelCalls(k) PROVE HereInv'
  <2>1. ASSUME NEW m \in ranHere
        PROVE  /\ m \in Calls /\ m <= made' /\ id'[m] \in seen'
               /\ task'[m] \in {"none", "done"}
    <3>1. m \in Calls /\ m <= made /\ id[m] \in seen
      BY DEF HereInv
    <3>2. k > made /\ made' = k /\ UNCHANGED <<id, seen>>
      BY <1>3 DEF ModelCalls
    <3>3. task'[m] = "none"
      BY <1>1, <1>3, <3>1 DEF ModelCalls, TypeOK, Calls
    <3>4. QED
      BY <1>1, <3>1, <3>2, <3>3 DEF TypeOK, Calls
  <2>2. QED
    BY <1>3, <2>1 DEF HereInv, ModelCalls
<1>4. ASSUME NEW n \in Calls, RecordResult(n), task[n] \in Holding PROVE HereInv'
  <2>1. n <= made
    BY <1>1, <1>4 DEF IInv, PhaseInv, Pending, Holding, TypeOK, Calls
  <2>2. ASSUME NEW m \in ranHere'
        PROVE  /\ m \in Calls /\ m <= made' /\ id'[m] \in seen'
               /\ task'[m] \in {"none", "done"}
    BY <1>1, <1>4, <2>1, <2>2 DEF RecordResult, transcript, HereInv, TypeOK
  <2>3. QED
    BY <2>2 DEF HereInv
<1>5. ASSUME NEW n \in Calls, TaskStep(n) PROVE HereInv'
  <2>1. CASE Refuse(n) \/ Record(n)
    BY <1>4, <2>1 DEF Refuse, Record, Holding
  <2>2. CASE Begin(n)
    BY <1>1, <2>2, HereKept DEF Begin, transcript, TypeOK
  <2>3. CASE Allow(n) \/ Approve(n) \/ Ask(n) \/ \E e \in BOOLEAN : Dispatch(n, e)
    BY <1>1, <2>3, HereKept DEF Allow, Approve, ToDispatch, Ask, Dispatch, transcript, TypeOK
  <2>4. QED
    BY <1>5, <2>1, <2>2, <2>3 DEF TaskStep
<1>6. ASSUME NEW n \in Calls, StrayStep(n) PROVE HereInv'
  BY <1>1, <1>6, HereKept DEF StrayStep, StrayRecord, StrayDispatch, transcript
<1>7. CASE NextRun \/ ResumeAborted \/ CrashAndResume
  BY <1>7 DEF NextRun, ResumeAborted, CrashAndResume, EnterRun, HereInv
<1>8. QED
  BY <1>2, <1>3, <1>5, <1>6, <1>7 DEF Next

\* A call is given its own result, or one found under an id this run has not seen.
LEMMA GivenFromElsewhere ==
    ASSUME IInv, RecordInv, HereInv, [Next]_vars, NEW n \in Calls, result'[n] # result[n]
    PROVE  result'[n] \notin ranHere
<1>1. TypeOK /\ NoCall \notin Calls
  BY DEF IInv, NoCall, Calls
<1>2. CASE \E k \in Calls : Begin(k)
  <2>1. result'[n] = journal[id[n]] /\ Replayed(n)
    BY <1>1, <1>2 DEF Begin, TypeOK
  <2>2. id[result'[n]] = id[n] /\ id[n] \notin seen
    BY <1>1, <2>1 DEF Replayed, RecordInv, OwnInv, TypeOK
  <2>3. QED
    BY <2>2 DEF HereInv
<1>3. CASE \E k \in Calls : Refuse(k) \/ Record(k)
  <2>1. result'[n] = n /\ task[n] \in Holding
    BY <1>1, <1>3 DEF Refuse, Record, RecordResult, TypeOK, Holding
  <2>2. QED
    BY <2>1 DEF HereInv, Holding
<1>4. CASE NextRun \/ ResumeAborted \/ CrashAndResume
  BY <1>1, <1>4 DEF NextRun, ResumeAborted, CrashAndResume, EnterRun, TypeOK
<1>5. CASE result' = result
  BY <1>5
<1>6. ASSUME NEW k \in Calls, TaskStep(k) \/ StrayStep(k)
      PROVE  Begin(k) \/ Refuse(k) \/ Record(k) \/ result' = result
  BY <1>6 DEF TaskStep, StrayStep, StrayRecord, StrayDispatch, Allow, Approve, ToDispatch, Ask,
              Dispatch
<1>7. QED
  BY <1>2, <1>3, <1>4, <1>5, <1>6
     DEF Next, StartTurn, ModelCalls, RunStops, AppendResults, Cancel, Abort, vars

\* coordinator.py:452-457: whatever ids the model repeats, in one turn or in several,
\* and however the tasks of a turn are interleaved, no call is ever handed the result
\* another call of the same run has produced.
THEOREM NotReused == Spec => NoResultOfThisRunReused
<1>1. Init /\ IInv => RecordInv /\ HereInv
  BY InitRecords DEF Init, HereInv
<1>2. IInv /\ RecordInv /\ HereInv /\ [Next]_vars =>
          [\A n \in Calls : result'[n] # result[n] => result'[n] \notin ranHere]_vars
  BY GivenFromElsewhere
<1>3. QED
  BY <1>1, <1>2, InitAccounting, StepAccounting, StepAgrees, StepHere, PTL
     DEF Spec, NoResultOfThisRunReused
===============================================================================
