------------------------------ MODULE Agent_proofs ------------------------------
(* Theorems about Agent, for any tasks, calls and bounds.                     *)
EXTENDS Agent, FiniteSetTheorems, TLAPS

TaskRec == [at : Places, coord : Builts, turn : 0..MaxTurns]
SubRec == [at : {"none", "asked", "works", "done", "raised"}, coord : Builts]

\* What there is belongs to builds that have begun.
BuildInv ==
    /\ coord <= builds /\ audit <= builds /\ handler <= builds
    /\ \A t \in Tasks : /\ Building(t) \/ Running(t) => task[t].coord \in 1..builds
                        /\ Closing(t) => task[t].coord <= builds
    /\ \A t \in Tasks, k \in Calls : sub[t][k].at = "asked" => sub[t][k].coord \in 1..builds
    /\ \A n \in Builds : spawns[n] > 0 => n <= builds

\* The budget taken, place by place
Taken == {p \in Builds \X (1..MaxSpawns) : p[2] <= spawns[p[1]]}

StartedInv == started = Cardinality(Taken)

\* Without trouble there is one build, which is under way or has made the coordinator;
\* what is open is its own, and whoever closes has closed its handler first.
Untroubled ==
    /\ builds \in {0, 1}
    /\ builds = 0 => open = {} /\ handler = Nothing
    /\ builds = 1 => /\ audit = 1
                     /\ coord = Nothing => mounts /\ \E t \in Tasks : Building(t)
                     /\ handler = IF mounts THEN 1 ELSE Nothing
                     /\ open \subseteq {<<"audit", 1>>, <<"mcp", 1>>}
                     /\ ~mounts => <<"mcp", 1>> \notin open
                     /\ \A t \in Tasks : task[t].at = "closes audit" /\ task[t].coord = handler
                                             => <<"mcp", 1>> \notin open
    /\ closed => open = {} /\ coord # Nothing

UntroubledInv == ~troubled => Untroubled

\* A delegation that is not over has a run that waits for it, or was left behind.
WaitInv == \A t \in Tasks, k \in Calls : Waits(t, k) => task[t].at = "tools"

\* Unless it came early, an aclose() is alone.
EarlyInv ==
    ~early => ((\E u \in Tasks : Closing(u)) => \A u \in Tasks : ~Running(u) /\ ~Building(u))

\* No delegation works with a closed log, but as ClosingReleases says.
LogInv ==
    \A t \in Tasks, k \in Calls :
        sub[t][k].at = "works" /\ ~Logs(sub[t][k].coord)
            => early \/ troubled \/ <<t, k>> \in left

IInv == /\ TypeOK /\ BuildInv /\ StartedInv /\ UntroubledInv
        /\ WaitInv /\ EarlyInv /\ LogInv
-------------------------------------------------------------------------------
(* The parts of the state that a step moves                                   *)

\* A build is a number of 0..MaxBuilds, and Nothing is none of them.
LEMMA BuildNumbers ==
    /\ Builds \subseteq Builts /\ Nothing \in Builts /\ Nothing \notin Builds
    /\ \A n \in Builts : n \in Nat /\ n <= MaxBuilds
    /\ \A n \in Nat : n <= MaxBuilds => n \in Builts
    /\ 0 \in 0..MaxTurns /\ 0 \in 0..MaxSpawns /\ 0 \in 0..MaxRuns
  BY ConstantsAssumption DEF ConstantsAssumption, Builds, Builts, Nothing

\* One task goes on.
LEMMA TaskSet ==
    ASSUME TypeOK, NEW t \in Tasks, NEW r \in TaskRec, task' = [task EXCEPT ![t] = r]
    PROVE  /\ task' \in [Tasks -> TaskRec] /\ task'[t] = r
           /\ \A u \in Tasks : u # t => task'[u] = task[u]
  BY DEF TypeOK, TaskRec

\* One task goes elsewhere with the coordinator it has.
LEMMA TaskGoes ==
    ASSUME TypeOK, NEW t \in Tasks, NEW at \in Places, Goto(t, at)
    PROVE  /\ task' \in [Tasks -> TaskRec]
           /\ task'[t].at = at /\ task'[t].coord = task[t].coord
           /\ \A u \in Tasks : u # t => task'[u] = task[u]
<1> DEFINE r == [task[t] EXCEPT !.at = at]
<1>1. task[t] \in TaskRec
  BY DEF TypeOK, TaskRec
<1>2. r \in TaskRec /\ r.at = at /\ r.coord = task[t].coord
  BY <1>1 DEF TaskRec
<1>3. task' = [task EXCEPT ![t] = r]
  BY DEF Goto
<1> HIDE DEF r
<1>4. QED
  BY <1>2, <1>3, TaskSet

\* The delegations of one task go on.
LEMMA SubSet ==
    ASSUME TypeOK, NEW t \in Tasks, NEW f \in [Calls -> SubRec], sub' = [sub EXCEPT ![t] = f]
    PROVE  /\ sub' \in [Tasks -> [Calls -> SubRec]] /\ sub'[t] = f
           /\ \A u \in Tasks : u # t => sub'[u] = sub[u]
  BY DEF TypeOK, SubRec

\* A delegation is over: nobody waits for it, and it is not left behind any more.
LEMMA SubOver ==
    ASSUME TypeOK, NEW t \in Tasks, NEW k \in Calls, NEW at \in {"raised", "done"},
           Over(t, k, at)
    PROVE  /\ sub' \in [Tasks -> [Calls -> SubRec]]
           /\ sub'[t][k].at \in {"none", "done", "raised"}
           /\ \A u \in Tasks, l \in Calls : u # t \/ l # k => sub'[u][l] = sub[u][l]
           /\ left' = left \ {<<t, k>>}
<1>1. sub \in [Tasks -> [Calls -> SubRec]]
  BY DEF TypeOK, SubRec
<1>2. NoSub \in SubRec /\ NoSub.at = "none"
  BY BuildNumbers DEF NoSub, SubRec
<1> DEFINE s == IF <<t, k>> \in left THEN NoSub ELSE [sub[t][k] EXCEPT !.at = at]
           f == [sub[t] EXCEPT ![k] = s]
<1>3. s \in SubRec /\ s.at \in {"none", "done", "raised"}
  BY <1>1, <1>2 DEF SubRec
<1>4. sub' = [sub EXCEPT ![t] = f] /\ left' = left \ {<<t, k>>}
  BY DEF Over
<1> HIDE DEF s
<1>5. f \in [Calls -> SubRec] /\ f[k] = s /\ \A l \in Calls : l # k => f[l] = sub[t][l]
  BY <1>1, <1>3
<1> HIDE DEF f
<1>6. /\ sub' \in [Tasks -> [Calls -> SubRec]] /\ sub'[t] = f
      /\ \A u \in Tasks : u # t => sub'[u] = sub[u]
  BY <1>4, <1>5, SubSet
<1>7. QED
  BY <1>3, <1>4, <1>5, <1>6

\* A run begins on a coordinator.
LEMMA DrivesTo ==
    ASSUME TypeOK, NEW t \in Tasks, NEW n \in Builds, NEW streams \in BOOLEAN,
           Drives(t, n, streams)
    PROVE  /\ task' \in [Tasks -> TaskRec]
           /\ task'[t].at = "model" /\ task'[t].coord = n
           /\ \A u \in Tasks : u # t => task'[u] = task[u]
           /\ token' \in [Builds -> {"none", "clear", "set"}]
<1> DEFINE r == [at |-> "model", coord |-> n, turn |-> 0]
<1>1. r \in TaskRec /\ r.at = "model" /\ r.coord = n
  BY BuildNumbers DEF TaskRec, Places
<1>2. task' = [task EXCEPT ![t] = r]
  BY DEF Drives
<1> HIDE DEF r
<1>3. /\ task' \in [Tasks -> TaskRec] /\ task'[t] = r
      /\ \A u \in Tasks : u # t => task'[u] = task[u]
  BY <1>1, <1>2, TaskSet
<1>4. token' \in [Builds -> {"none", "clear", "set"}]
  BY DEF Drives, TypeOK
<1>5. QED
  BY <1>1, <1>3, <1>4
-------------------------------------------------------------------------------
(* Steps that only move a task                                                *)

\* A task moves on and leaves builds, delegations and logs alone.
LEMMA Moves ==
    ASSUME IInv, NEW t \in Tasks, task' \in [Tasks -> TaskRec],
           \A u \in Tasks : u # t => task'[u] = task[u],
           UNCHANGED <<parts, spawns, sub, histories>>,
           token' \in [Builds -> {"none", "clear", "set"}], runs' \in 0..MaxRuns,
           early' \in BOOLEAN, early => early',
           task[t].at # "tools", task[t].at # "builds",
           task'[t].at \in {"builds", "model", "tools"} => task'[t].coord \in 1..builds,
           task'[t].at \in {"closes", "closes audit"} => task'[t].coord <= builds,
           task'[t].at # "closes audit",
           EarlyInv'
    PROVE  IInv'
<1>1. /\ mounts' = mounts /\ coord' = coord /\ audit' = audit /\ handler' = handler
      /\ builds' = builds /\ open' = open /\ spawns' = spawns /\ sub' = sub
      /\ started' = started /\ troubled' = troubled /\ left' = left /\ closed' = closed
  BY DEF parts, histories
<1>2. TypeOK'
  BY <1>1 DEF IInv, TypeOK, TaskRec
<1>3. BuildInv'
  BY <1>1 DEF IInv, BuildInv, Building, Running, Closing
<1>4. StartedInv'
  BY <1>1 DEF IInv, StartedInv, Taken
<1>5. UntroubledInv'
  BY <1>1 DEF IInv, UntroubledInv, Untroubled, Building
<1>6. WaitInv'
  BY <1>1 DEF IInv, WaitInv, Waits
<1>7. LogInv'
  BY <1>1 DEF IInv, LogInv, Logs
<1>8. QED
  BY <1>2, <1>3, <1>4, <1>5, <1>6, <1>7 DEF IInv

\* A use of a built agent (agent.py:419-470)
LEMMA UseIInv == ASSUME IInv, NEW t \in Tasks, Use(t) PROVE IInv'
<1>1. /\ task[t].at = "idle" /\ coord # Nothing /\ Overlaps
      /\ UNCHANGED <<parts, spawns, sub, histories>>
  BY DEF Use
<1>2. runs' \in 0..MaxRuns
  <2>1. runs < MaxRuns /\ runs' = runs + 1
    BY DEF Use
  <2>2. runs \in 0..MaxRuns /\ MaxRuns \in Nat
    BY ConstantsAssumption DEF IInv, TypeOK, ConstantsAssumption
  <2>3. QED
    BY <2>1, <2>2
<1>3. coord \in Builds /\ coord \in 1..builds
  BY <1>1, BuildNumbers DEF IInv, TypeOK, BuildInv, Builts, Builds, Nothing
<1>4. PICK streams \in BOOLEAN : Drives(t, coord, streams)
  BY DEF Use
<1>5. /\ task' \in [Tasks -> TaskRec] /\ task'[t].at = "model" /\ task'[t].coord = coord
      /\ \A u \in Tasks : u # t => task'[u] = task[u]
      /\ token' \in [Builds -> {"none", "clear", "set"}]
  BY <1>3, <1>4, DrivesTo DEF IInv
<1>6. early' \in BOOLEAN /\ (early => early')
      /\ (~early' => \A u \in Tasks : ~Closing(u))
  BY <1>1 DEF Overlaps, IInv, TypeOK
<1>7. EarlyInv'
  BY <1>5, <1>6 DEF EarlyInv, Closing
<1>8. QED
  BY <1>1, <1>2, <1>3, <1>5, <1>6, <1>7, Moves

\* A run is over.
LEMMA ReturnsIInv == ASSUME IInv, NEW t \in Tasks, Returns(t) PROVE IInv'
<1>1. /\ task[t].at = "model" /\ task' = [task EXCEPT ![t] = Idle]
      /\ UNCHANGED <<parts, spawns, sub, histories>>
      /\ token' = token /\ early' = early /\ runs' = runs
  BY DEF Returns
<1>2. Idle \in TaskRec /\ Idle.at = "idle"
  BY BuildNumbers DEF Idle, TaskRec, Places
<1>3. /\ task' \in [Tasks -> TaskRec] /\ task'[t] = Idle
      /\ \A u \in Tasks : u # t => task'[u] = task[u]
  BY <1>1, <1>2, TaskSet DEF IInv
<1>4. EarlyInv'
  BY <1>1, <1>2, <1>3 DEF IInv, EarlyInv, Closing, Running, Building
<1>5. token' \in [Builds -> {"none", "clear", "set"}] /\ runs' \in 0..MaxRuns /\ early' \in BOOLEAN
  BY <1>1 DEF IInv, TypeOK
<1>6. QED
  BY <1>1, <1>2, <1>3, <1>4, <1>5, Moves

\* aclose() begins (agent.py:553-564).
LEMMA CloseIInv == ASSUME IInv, NEW t \in Tasks, Close(t) PROVE IInv'
<1> DEFINE r == [at |-> "closes", coord |-> handler, turn |-> 0]
<1>1. /\ task[t].at = "idle" /\ task' = [task EXCEPT ![t] = r]
      /\ early' = (early \/ \E u \in Tasks : Running(u) \/ Building(u))
      /\ UNCHANGED <<parts, spawns, sub, histories>>
      /\ token' = token /\ runs' = runs
  BY DEF Close
<1>2. r \in TaskRec /\ r.at = "closes" /\ r.coord <= builds
  BY BuildNumbers DEF IInv, TypeOK, BuildInv, TaskRec, Places
<1> HIDE DEF r
<1>3. /\ task' \in [Tasks -> TaskRec] /\ task'[t] = r
      /\ \A u \in Tasks : u # t => task'[u] = task[u]
  BY <1>1, <1>2, TaskSet DEF IInv
<1>4. early' \in BOOLEAN /\ (early => early')
      /\ (~early' => \A u \in Tasks : ~Running(u) /\ ~Building(u))
  BY <1>1 DEF IInv, TypeOK
<1>5. EarlyInv'
  BY <1>2, <1>3, <1>4 DEF EarlyInv, Running, Building
<1>6. token' \in [Builds -> {"none", "clear", "set"}] /\ runs' \in 0..MaxRuns
  BY <1>1 DEF IInv, TypeOK
<1>7. QED
  BY <1>1, <1>2, <1>3, <1>4, <1>5, <1>6, Moves
-------------------------------------------------------------------------------
(* Delegations                                                                *)

\* What is built and who is where stay as they are.
LEMMA Kept ==
    ASSUME UntroubledInv, EarlyInv,
           mounts' = mounts, coord' = coord, audit' = audit, handler' = handler,
           builds' = builds, open' = open, task' = task, troubled' = troubled,
           closed' = closed, early' = early
    PROVE  UntroubledInv' /\ EarlyInv'
<1>1. UntroubledInv'
  BY DEF UntroubledInv, Untroubled, Building
<1>2. EarlyInv'
  BY DEF EarlyInv, Building, Running, Closing
<1>3. QED
  BY <1>1, <1>2

\* A delegation is over: its call raised, was refused, or its subagent ended.
LEMMA OverIInv ==
    ASSUME IInv, NEW t \in Tasks, NEW k \in Calls, NEW at \in {"raised", "done"},
           Over(t, k, at),
           UNCHANGED <<parts, task, token, spawns, started, troubled, closed, early, runs>>
    PROVE  IInv'
<1>1. /\ mounts' = mounts /\ coord' = coord /\ audit' = audit /\ handler' = handler
      /\ builds' = builds /\ open' = open /\ task' = task /\ token' = token
      /\ spawns' = spawns /\ started' = started /\ troubled' = troubled
      /\ closed' = closed /\ early' = early /\ runs' = runs
  BY DEF parts
<1>2. /\ sub' \in [Tasks -> [Calls -> SubRec]]
      /\ sub'[t][k].at \in {"none", "done", "raised"}
      /\ \A u \in Tasks, l \in Calls : u # t \/ l # k => sub'[u][l] = sub[u][l]
      /\ left' = left \ {<<t, k>>}
  BY SubOver DEF IInv
<1>3. \A u \in Tasks, l \in Calls :
          sub'[u][l].at \in {"asked", "works"} =>
              sub'[u][l] = sub[u][l] /\ (<<u, l>> \in left' <=> <<u, l>> \in left)
  BY <1>2
<1>4. TypeOK'
  BY <1>1, <1>2 DEF IInv, TypeOK, SubRec
<1>5. BuildInv'
  BY <1>1, <1>3 DEF IInv, BuildInv, Building, Running, Closing
<1>6. StartedInv'
  BY <1>1 DEF IInv, StartedInv, Taken
<1>7. UntroubledInv' /\ EarlyInv'
  BY <1>1, Kept DEF IInv
<1>8. WaitInv' /\ LogInv'
  BY <1>1, <1>3 DEF IInv, WaitInv, Waits, LogInv, Logs
<1>9. QED
  BY <1>4, <1>5, <1>6, <1>7, <1>8 DEF IInv

\* One place of the budget is taken, and the count of them goes up with it.
LEMMA OneMoreTaken ==
    ASSUME TypeOK, NEW n \in Builds, spawns[n] < MaxSpawns,
           spawns' = [spawns EXCEPT ![n] = @ + 1], StartedInv, started' = started + 1
    PROVE  StartedInv' /\ spawns' \in [Builds -> 0..MaxSpawns]
<1> DEFINE m == spawns[n] + 1
<1>1. spawns \in [Builds -> 0..MaxSpawns] /\ MaxSpawns \in Nat /\ MaxBuilds \in Nat
  BY ConstantsAssumption DEF TypeOK, ConstantsAssumption
<1>2. m \in 1..MaxSpawns /\ m \in 0..MaxSpawns /\ spawns[n] \in Nat /\ m = spawns[n] + 1
  BY <1>1
<1>3. spawns' = [spawns EXCEPT ![n] = m]
  OBVIOUS
<1> HIDE DEF m
<1>4. /\ spawns' \in [Builds -> 0..MaxSpawns] /\ spawns'[n] = m
      /\ \A b \in Builds : b # n => spawns'[b] = spawns[b]
  BY <1>1, <1>2, <1>3
<1>5. \A b \in Builds, j \in 1..MaxSpawns :
          j <= spawns'[b] <=> (j <= spawns[b] \/ (b = n /\ j = m))
  BY <1>1, <1>2, <1>4
<1>6. Taken' = Taken \cup {<<n, m>>}
  BY <1>2, <1>5 DEF Taken
<1>7. <<n, m>> \notin Taken
  BY <1>2 DEF Taken
<1>8. IsFiniteSet(Builds \X (1..MaxSpawns))
  <2>1. IsFiniteSet(1..MaxBuilds) /\ IsFiniteSet(1..MaxSpawns)
    BY <1>1, FS_Interval
  <2>2. QED
    BY <2>1, FS_Product DEF Builds
<1>9. Taken \subseteq Builds \X (1..MaxSpawns)
  BY DEF Taken
<1>10. IsFiniteSet(Taken)
  BY <1>8, <1>9, FS_Subset
<1>11. Cardinality(Taken') = Cardinality(Taken) + 1
  BY <1>6, <1>7, <1>10, FS_AddElement
<1>12. QED
  BY <1>4, <1>11 DEF StartedInv

\* A subagent starts (subagents/subagent.py:201-217).
LEMMA SpawnIInv == ASSUME IInv, NEW t \in Tasks, NEW k \in Calls, Spawn(t, k) PROVE IInv'
<1> DEFINE n == sub[t][k].coord
           s == [sub[t][k] EXCEPT !.at = "works"]
<1>1. /\ sub[t][k].at = "asked" /\ Logs(n) /\ spawns[n] < MaxSpawns
      /\ spawns' = [spawns EXCEPT ![n] = @ + 1] /\ started' = started + 1
      /\ mounts' = mounts /\ coord' = coord /\ audit' = audit /\ handler' = handler
      /\ builds' = builds /\ open' = open /\ task' = task /\ token' = token
      /\ troubled' = troubled /\ left' = left /\ closed' = closed /\ early' = early
      /\ runs' = runs
  BY DEF Spawn, parts
<1>2. n \in 1..builds /\ builds \in Builts
  BY <1>1 DEF IInv, BuildInv, TypeOK
<1>3. n \in Builds
  <2>1. builds \in Nat /\ builds <= MaxBuilds /\ MaxBuilds \in Nat
    BY <1>2, BuildNumbers, ConstantsAssumption DEF ConstantsAssumption
  <2>2. QED
    BY <1>2, <2>1 DEF Builds
<1>4. sub[t][k] \in SubRec
  BY DEF IInv, TypeOK, SubRec
<1>5. s \in SubRec /\ s.at = "works" /\ s.coord = n
  BY <1>4 DEF SubRec
<1>6. sub' = [sub EXCEPT ![t][k] = s]
  BY DEF Spawn
<1> HIDE DEF s
<1>7. /\ sub' \in [Tasks -> [Calls -> SubRec]] /\ sub'[t][k] = s
      /\ \A u \in Tasks, l \in Calls : u # t \/ l # k => sub'[u][l] = sub[u][l]
  <2> DEFINE f == [sub[t] EXCEPT ![k] = s]
  <2>1. f \in [Calls -> SubRec] /\ f[k] = s /\ \A l \in Calls : l # k => f[l] = sub[t][l]
    BY <1>5 DEF IInv, TypeOK, SubRec
  <2>2. sub' = [sub EXCEPT ![t] = f]
    BY <1>6
  <2> HIDE DEF f
  <2>3. /\ sub' \in [Tasks -> [Calls -> SubRec]] /\ sub'[t] = f
        /\ \A u \in Tasks : u # t => sub'[u] = sub[u]
    BY <2>1, <2>2, SubSet DEF IInv
  <2>4. QED
    BY <2>1, <2>3
<1>8. StartedInv' /\ spawns' \in [Builds -> 0..MaxSpawns]
  BY <1>1, <1>3, OneMoreTaken DEF IInv
<1>9. TypeOK'
  BY <1>1, <1>7, <1>8 DEF IInv, TypeOK, SubRec
<1>10. \A b \in Builds : spawns'[b] > 0 => b <= builds
  <2>1. \A b \in Builds : b # n => spawns'[b] = spawns[b]
    BY <1>1, <1>3 DEF IInv, TypeOK
  <2>2. QED
    BY <1>2, <2>1 DEF IInv, BuildInv
<1>11. BuildInv'
  BY <1>1, <1>5, <1>7, <1>10 DEF IInv, BuildInv, Building, Running, Closing
<1>12. UntroubledInv' /\ EarlyInv'
  BY <1>1 DEF IInv, UntroubledInv, Untroubled, EarlyInv, Building, Running, Closing
<1>13. WaitInv' /\ LogInv'
  BY <1>1, <1>5, <1>7 DEF IInv, WaitInv, Waits, LogInv, Logs
<1>14. QED
  BY <1>8, <1>9, <1>11, <1>12, <1>13 DEF IInv

\* The model delegates: the run waits for what it asked.
LEMMA DelegatesIInv == ASSUME IInv, NEW t \in Tasks, Delegates(t) PROVE IInv'
<1> DEFINE r == [task[t] EXCEPT !.at = "tools", !.turn = task[t].turn + 1]
<1>1. /\ task[t].at = "model" /\ task[t].turn < MaxTurns
      /\ mounts' = mounts /\ coord' = coord /\ audit' = audit /\ handler' = handler
      /\ builds' = builds /\ open' = open /\ token' = token /\ spawns' = spawns
      /\ started' = started /\ troubled' = troubled /\ left' = left /\ closed' = closed
      /\ early' = early /\ runs' = runs /\ task' = [task EXCEPT ![t] = r]
  BY DEF Delegates, parts, histories
<1>2. PICK K \in SUBSET {k \in Calls : sub[t][k] = NoSub} :
          sub' = [sub EXCEPT ![t] = [k \in Calls |->
                     IF k \in K THEN [at |-> "asked", coord |-> task[t].coord] ELSE sub[t][k]]]
  BY DEF Delegates
<1>3. task[t] \in TaskRec /\ MaxTurns \in Nat
  BY ConstantsAssumption DEF IInv, TypeOK, TaskRec, ConstantsAssumption
<1>4. r \in TaskRec /\ r.at = "tools" /\ r.coord = task[t].coord
  <2> DEFINE n == task[t].turn + 1
  <2>1. n \in 0..MaxTurns
    BY <1>1, <1>3 DEF TaskRec
  <2>2. r = [task[t] EXCEPT !.at = "tools", !.turn = n]
    OBVIOUS
  <2> HIDE DEF n
  <2>3. QED
    BY <1>3, <2>1, <2>2 DEF TaskRec, Places
<1> HIDE DEF r
<1>5. /\ task' \in [Tasks -> TaskRec] /\ task'[t] = r
      /\ \A u \in Tasks : u # t => task'[u] = task[u]
  BY <1>1, <1>4, TaskSet DEF IInv
<1>6. task[t].coord \in 1..builds /\ task[t].coord \in Builts
  BY <1>1, <1>3 DEF IInv, BuildInv, Running, TaskRec
<1> DEFINE s == [at |-> "asked", coord |-> task[t].coord]
           f == [k \in Calls |-> IF k \in K THEN s ELSE sub[t][k]]
<1>7. s \in SubRec /\ s.at = "asked" /\ s.coord = task[t].coord
  BY <1>6 DEF SubRec
<1>8. sub' = [sub EXCEPT ![t] = f]
  BY <1>2
<1> HIDE DEF s
<1>9. f \in [Calls -> SubRec] /\ \A k \in Calls : f[k] = s \/ f[k] = sub[t][k]
  BY <1>7 DEF IInv, TypeOK, SubRec
<1> HIDE DEF f
<1>10. /\ sub' \in [Tasks -> [Calls -> SubRec]]
       /\ \A u \in Tasks, k \in Calls : (u = t /\ sub'[u][k] = s) \/ sub'[u][k] = sub[u][k]
  BY <1>8, <1>9, SubSet DEF IInv
<1>11. TypeOK'
  BY <1>1, <1>5, <1>10 DEF IInv, TypeOK, TaskRec, SubRec
<1>12. BuildInv'
  BY <1>1, <1>4, <1>5, <1>6, <1>7, <1>10 DEF IInv, BuildInv, Building, Running, Closing
<1>13. StartedInv'
  BY <1>1 DEF IInv, StartedInv, Taken
<1>14. UntroubledInv'
  BY <1>1, <1>4, <1>5 DEF IInv, UntroubledInv, Untroubled, Building
<1>15. EarlyInv'
  BY <1>1, <1>4, <1>5 DEF IInv, EarlyInv, Building, Running, Closing
<1>16. WaitInv'
  BY <1>1, <1>4, <1>5, <1>10 DEF IInv, WaitInv, Waits
<1>17. LogInv'
  BY <1>1, <1>7, <1>10 DEF IInv, LogInv, Logs
<1>18. QED
  BY <1>11, <1>12, <1>13, <1>14, <1>15, <1>16, <1>17 DEF IInv

\* gather() returns or raises: what the run does not wait for any more is left behind.
LEMMA GatherIInv == ASSUME IInv, NEW t \in Tasks, Gather(t) PROVE IInv'
<1>1. /\ task[t].at = "tools"
      /\ mounts' = mounts /\ coord' = coord /\ audit' = audit /\ handler' = handler
      /\ builds' = builds /\ open' = open /\ token' = token /\ spawns' = spawns
      /\ started' = started /\ troubled' = troubled /\ closed' = closed
      /\ early' = early /\ runs' = runs /\ sub' = [sub EXCEPT ![t] = Cleared(t)]
  BY DEF Gather, parts
<1>2. NoSub \in SubRec /\ NoSub.at = "none"
  BY BuildNumbers DEF NoSub, SubRec
<1>3. /\ Cleared(t) \in [Calls -> SubRec]
      /\ \A k \in Calls : Cleared(t)[k] = NoSub \/ Cleared(t)[k] = sub[t][k]
  BY <1>2 DEF Cleared, IInv, TypeOK, SubRec
<1>4. /\ sub' \in [Tasks -> [Calls -> SubRec]]
      /\ \A u \in Tasks, k \in Calls : (u = t /\ sub'[u][k] = NoSub) \/ sub'[u][k] = sub[u][k]
  BY <1>1, <1>3, SubSet DEF IInv
<1>5. /\ task' \in [Tasks -> TaskRec] /\ \A u \in Tasks : u # t => task'[u] = task[u]
      /\ \/ task'[t].at = "model" /\ task'[t].coord = task[t].coord
         \/ task'[t].at = "idle"
      /\ left \subseteq left' /\ left' \subseteq Tasks \X Calls
      /\ \A k \in Calls : Waits(t, k) => <<t, k>> \in left'
  <2>1. CASE (\A k \in Calls : ~Waits(t, k)) /\ Goto(t, "model") /\ left' = left
    <3>1. /\ task' \in [Tasks -> TaskRec] /\ task'[t].at = "model"
          /\ task'[t].coord = task[t].coord
          /\ \A u \in Tasks : u # t => task'[u] = task[u]
      BY <2>1, TaskGoes DEF IInv, Places
    <3>2. QED
      BY <2>1, <3>1 DEF IInv, TypeOK
  <2>2. CASE /\ task' = [task EXCEPT ![t] = Idle]
             /\ left' = left \cup {<<t, k>> : k \in {k \in Calls : Waits(t, k)}}
    <3>1. Idle \in TaskRec /\ Idle.at = "idle"
      BY BuildNumbers DEF Idle, TaskRec, Places
    <3>2. /\ task' \in [Tasks -> TaskRec] /\ task'[t] = Idle
          /\ \A u \in Tasks : u # t => task'[u] = task[u]
      BY <2>2, <3>1, TaskSet DEF IInv
    <3>3. left \subseteq Tasks \X Calls
      BY DEF IInv, TypeOK
    <3>4. /\ left \subseteq left' /\ left' \subseteq Tasks \X Calls
          /\ \A k \in Calls : Waits(t, k) => <<t, k>> \in left'
      BY <2>2, <3>3
    <3>5. QED
      BY <3>1, <3>2, <3>4
  <2>3. QED
    BY <2>1, <2>2 DEF Gather
<1>6. TypeOK'
  BY <1>1, <1>4, <1>5 DEF IInv, TypeOK, TaskRec, SubRec
<1>7. BuildInv'
  BY <1>1, <1>2, <1>4, <1>5 DEF IInv, BuildInv, Building, Running, Closing
<1>8. StartedInv'
  BY <1>1 DEF IInv, StartedInv, Taken
<1>9. UntroubledInv'
  BY <1>1, <1>5 DEF IInv, UntroubledInv, Untroubled, Building
<1>10. EarlyInv'
  BY <1>1, <1>5 DEF IInv, EarlyInv, Building, Running, Closing
<1>11. WaitInv'
  <2>1. ASSUME NEW u \in Tasks, NEW k \in Calls, Waits(u, k)' PROVE u # t /\ Waits(u, k)
    BY <1>2, <1>4, <1>5, <2>1 DEF Waits
  <2>2. QED
    BY <1>5, <2>1 DEF IInv, WaitInv
<1>12. LogInv'
  BY <1>1, <1>2, <1>4, <1>5 DEF IInv, LogInv, Logs
<1>13. QED
  BY <1>6, <1>7, <1>8, <1>9, <1>10, <1>11, <1>12 DEF IInv
-------------------------------------------------------------------------------
(* Builds                                                                     *)

\* Where no coordinator is found, a build begins that overlaps another one or fails,
\* or it is the first.
LEMMA FirstOrTroubled ==
    ASSUME IInv, NEW t \in Tasks, Build(t), ~troubled'
    PROVE  builds = 0 /\ open = {} /\ handler = Nothing /\ ~closed
<1>1. coord = Nothing /\ ~troubled
  <2>1. coord = Nothing
    BY DEF Build, MustBuild
  <2>2. troubled' = (troubled \/ \E u \in Tasks : Building(u)) \/ troubled' = TRUE
        \/ troubled' = troubled
    BY Zenon DEF Build
  <2>3. ASSUME troubled PROVE FALSE
    <3>1. CASE troubled' = (troubled \/ \E u \in Tasks : Building(u))
      BY <2>3, <3>1
    <3>2. CASE troubled' = TRUE
      BY <3>2
    <3>3. CASE troubled' = troubled
      BY <2>3, <3>3
    <3>4. QED
      BY <2>2, <3>1, <3>2, <3>3, Zenon
  <2>4. QED
    BY <2>1, <2>3
<1>2. Untroubled
  BY <1>1 DEF IInv, UntroubledInv
<1>3. mounts => \A u \in Tasks : ~Building(u)
  BY DEF Build
<1>4. builds = 0
  BY <1>1, <1>2, <1>3 DEF Untroubled
<1>5. QED
  BY <1>1, <1>2, <1>4 DEF Untroubled

\* The first use builds (agent.py:268-382).
LEMMA BuildIInv == ASSUME IInv, NEW t \in Tasks, Build(t) PROVE IInv'
<1> DEFINE n == builds + 1
           here == [at |-> "builds", coord |-> n, turn |-> 0]
<1>1. /\ task[t].at = "idle" /\ coord = Nothing /\ n \in Builds /\ builds' = n /\ audit' = n
      /\ Overlaps
      /\ mounts' = mounts /\ spawns' = spawns /\ sub' = sub /\ started' = started
      /\ left' = left /\ closed' = closed
  BY DEF Build, MustBuild
<1>2. /\ n \in Nat /\ builds \in Nat /\ n = builds + 1
      /\ n \in Builts /\ runs' \in 0..MaxRuns
  <2>1. runs < MaxRuns /\ runs' = runs + 1
    BY DEF Build
  <2>2. runs \in 0..MaxRuns /\ MaxRuns \in Nat /\ builds \in Builts
    BY ConstantsAssumption DEF IInv, TypeOK, ConstantsAssumption
  <2>3. QED
    BY <1>1, <2>1, <2>2, BuildNumbers
<1>3. /\ coord' \in {coord, n} /\ handler' \in {handler, n}
      /\ open' \in {open \cup {<<"audit", n>>}, open \cup {<<"audit", n>>, <<"mcp", n>>}}
      /\ troubled' \in BOOLEAN /\ (troubled => troubled')
  <2>1. /\ coord' \in {coord, n} /\ handler' \in {handler, n}
        /\ open' \in {open \cup {<<"audit", n>>}, open \cup {<<"audit", n>>, <<"mcp", n>>}}
    BY DEF Build
  <2>2. troubled' = (troubled \/ \E u \in Tasks : Building(u)) \/ troubled' = TRUE
        \/ troubled' = troubled
    BY Zenon DEF Build
  <2>3. troubled \in BOOLEAN
    BY DEF IInv, TypeOK
  <2>4. troubled' \in BOOLEAN
    BY <2>2, <2>3
  <2>5. troubled => troubled'
    BY <2>2, Zenon
  <2>6. QED
    BY <2>1, <2>4, <2>5
<1>4. /\ task' \in [Tasks -> TaskRec] /\ \A u \in Tasks : u # t => task'[u] = task[u]
      /\ \/ task'[t].at \in {"builds", "model"} /\ task'[t].coord = n
         \/ task'[t] = task[t]
      /\ token' \in [Builds -> {"none", "clear", "set"}]
  <2>1. CASE task' = [task EXCEPT ![t] = here] /\ token' = token
    <3>1. here \in TaskRec /\ here.at = "builds" /\ here.coord = n
      BY <1>2, BuildNumbers DEF TaskRec, Places
    <3> HIDE DEF here
    <3>2. /\ task' \in [Tasks -> TaskRec] /\ task'[t] = here
          /\ \A u \in Tasks : u # t => task'[u] = task[u]
      BY <2>1, <3>1, TaskSet DEF IInv
    <3>3. QED
      BY <2>1, <3>1, <3>2 DEF IInv, TypeOK
  <2>2. CASE \E streams \in BOOLEAN : Drives(t, n, streams)
    BY <1>1, <2>2, DrivesTo DEF IInv
  <2>3. CASE task' = task /\ token' = token
    BY <2>3 DEF IInv, TypeOK, TaskRec
  <2>4. QED
    BY <2>1, <2>2, <2>3 DEF Build
<1>5. early' \in BOOLEAN /\ (early => early') /\ (~early' => \A u \in Tasks : ~Closing(u))
  BY <1>1 DEF Overlaps, IInv, TypeOK
<1>6. ~troubled' =>
          /\ builds = 0 /\ open = {} /\ handler = Nothing /\ ~closed
          /\ \/ /\ mounts /\ handler' = n /\ task'[t].at = "builds"
             \/ /\ ~mounts /\ coord' = n /\ handler' = handler
                /\ open' = open \cup {<<"audit", n>>}
  <2>1. CASE mounts /\ handler' = n /\ task' = [task EXCEPT ![t] = here]
    <3>1. task'[t].at = "builds"
      BY <2>1 DEF IInv, TypeOK
    <3>2. QED
      BY <2>1, <3>1, FirstOrTroubled
  <2>2. CASE ~mounts /\ coord' = n /\ handler' = handler /\ open' = open \cup {<<"audit", n>>}
    BY <2>2, FirstOrTroubled
  <2>3. CASE troubled' = TRUE
    BY <2>3
  <2>4. QED
    BY <2>1, <2>2, <2>3 DEF Build
<1> HIDE DEF n, here
<1>7. TypeOK'
  <2>1. open' \subseteq {"audit", "mcp"} \X Builds
    BY <1>1, <1>3 DEF IInv, TypeOK
  <2>2. QED
    BY <1>1, <1>2, <1>3, <1>4, <1>5, <2>1 DEF IInv, TypeOK, TaskRec
<1>8. BuildInv'
  <2>1. coord' <= n /\ audit' <= n /\ handler' <= n /\ builds' = n
    BY <1>1, <1>2, <1>3, BuildNumbers DEF IInv, TypeOK, BuildInv
  <2>2. ASSUME NEW u \in Tasks
        PROVE  /\ (Building(u) \/ Running(u))' => task'[u].coord \in 1..n
               /\ Closing(u)' => task'[u].coord <= n
    <3>1. CASE u # t \/ task'[t] = task[t]
      <4>1. task'[u] = task[u]
        BY <1>4, <3>1
      <4>2. /\ Building(u) \/ Running(u) => task[u].coord \in 1..builds
            /\ Closing(u) => task[u].coord <= builds
        BY DEF IInv, BuildInv
      <4>3. task[u].coord \in Nat
        BY BuildNumbers DEF IInv, TypeOK
      <4>4. QED
        <5>1. (Building(u) \/ Running(u))' => Building(u) \/ Running(u)
          BY <4>1 DEF Building, Running
        <5>2. Closing(u)' => Closing(u)
          BY <4>1 DEF Closing
        <5>3. task[u].coord \in 1..builds => task[u].coord \in 1..n
          BY <1>2, <4>3
        <5>4. task[u].coord <= builds => task[u].coord <= n
          BY <1>2, <4>3
        <5>5. QED
          BY <4>1, <4>2, <5>1, <5>2, <5>3, <5>4
    <3>2. CASE u = t /\ task'[t].at \in {"builds", "model"} /\ task'[t].coord = n
      BY <1>2, <3>2 DEF Closing
    <3>3. QED
      BY <1>4, <3>1, <3>2
  <2>3. \A u \in Tasks, k \in Calls : sub'[u][k].at = "asked" => sub'[u][k].coord \in 1..n
    BY <1>1, <1>2 DEF IInv, BuildInv
  <2>4. \A b \in Builds : spawns'[b] > 0 => b <= n
    BY <1>1, <1>2, BuildNumbers DEF IInv, BuildInv
  <2>5. QED
    BY <2>1, <2>2, <2>3, <2>4 DEF BuildInv
<1>9. StartedInv'
  BY <1>1 DEF IInv, StartedInv, Taken
<1>10. ASSUME ~troubled' PROVE Untroubled'
  <2>1. builds' = 1 /\ n = 1 /\ audit' = 1 /\ ~closed'
    BY <1>1, <1>2, <1>6, <1>10
  <2>2. coord' = Nothing => mounts' /\ (\E u \in Tasks : Building(u))'
    BY <1>1, <1>6, <1>10, <2>1 DEF Building, Nothing
  <2>3. handler' = IF mounts' THEN 1 ELSE Nothing
    BY <1>1, <1>6, <1>10, <2>1
  <2>4. open' \subseteq {<<"audit", 1>>, <<"mcp", 1>>} /\ (~mounts' => <<"mcp", 1>> \notin open')
    BY <1>1, <1>3, <1>6, <1>10, <2>1
  <2>5. ASSUME NEW u \in Tasks, task'[u].at = "closes audit", task'[u].coord = handler'
        PROVE  ~mounts'
    <3>1. task'[u] = task[u]
      BY <1>1, <1>4, <2>5
    <3>2. task[u].coord <= 0
      BY <1>6, <1>10, <2>5, <3>1 DEF IInv, BuildInv, Closing
    <3>3. handler' <= 0
      BY <2>5, <3>1, <3>2
    <3>4. QED
      BY <2>3, <3>3
  <2>6. \A u \in Tasks : task'[u].at = "closes audit" /\ task'[u].coord = handler'
                             => <<"mcp", 1>> \notin open'
    BY <2>4, <2>5
  <2>7. QED
    <3>1. builds' \in {0, 1} /\ builds' # 0 /\ (closed' => open' = {} /\ coord' # Nothing)
      BY <2>1
    <3>2. /\ builds' = 1 => /\ audit' = 1
                            /\ coord' = Nothing => mounts' /\ \E u \in Tasks : Building(u)'
      BY <2>1, <2>2
    <3>3. QED
      BY <2>3, <2>4, <2>6, <3>1, <3>2 DEF Untroubled
<1>11. EarlyInv'
  <2>1. ~early' => \A u \in Tasks : ~Closing(u)'
    BY <1>1, <1>4, <1>5 DEF Closing
  <2>2. QED
    BY <2>1 DEF EarlyInv
<1>12. WaitInv'
  BY <1>1, <1>4 DEF IInv, WaitInv, Waits
<1>13. LogInv'
  BY <1>1, <1>3, <1>5 DEF IInv, LogInv, Logs
<1>14. QED
  BY <1>7, <1>8, <1>9, <1>10, <1>11, <1>12, <1>13 DEF IInv, UntroubledInv

\* refresh() has returned: the build's coordinator is the agent's.
LEMMA BuiltIInv == ASSUME IInv, NEW t \in Tasks, Built(t) PROVE IInv'
<1> DEFINE n == task[t].coord
<1>1. /\ Building(t) /\ coord' = n
      /\ mounts' = mounts /\ audit' = audit /\ handler' = handler
      /\ builds' = builds /\ open' = open /\ spawns' = spawns /\ sub' = sub
      /\ started' = started /\ troubled' = troubled /\ left' = left /\ closed' = closed
      /\ early' = early /\ runs' = runs
  BY DEF Built, histories
<1>2. n \in 1..builds /\ builds \in Builts
  BY <1>1 DEF IInv, BuildInv, TypeOK
<1>3. n \in Builds /\ n \in Builts /\ n # Nothing /\ n <= builds
  <2>1. builds \in Nat /\ builds <= MaxBuilds /\ MaxBuilds \in Nat
    BY <1>2, BuildNumbers, ConstantsAssumption DEF ConstantsAssumption
  <2>2. QED
    BY <1>2, <2>1, BuildNumbers DEF Builds
<1>4. PICK streams \in BOOLEAN : Drives(t, n, streams)
  BY DEF Built
<1>5. /\ task' \in [Tasks -> TaskRec] /\ task'[t].at = "model" /\ task'[t].coord = n
      /\ \A u \in Tasks : u # t => task'[u] = task[u]
      /\ token' \in [Builds -> {"none", "clear", "set"}]
  BY <1>3, <1>4, DrivesTo DEF IInv
<1> HIDE DEF n
<1>6. TypeOK'
  BY <1>1, <1>3, <1>5 DEF IInv, TypeOK, TaskRec
<1>7. BuildInv'
  BY <1>1, <1>2, <1>3, <1>5 DEF IInv, BuildInv, Building, Running, Closing
<1>8. StartedInv'
  BY <1>1 DEF IInv, StartedInv, Taken
<1>9. UntroubledInv'
  BY <1>1, <1>3, <1>5 DEF IInv, UntroubledInv, Untroubled
<1>10. EarlyInv'
  BY <1>1, <1>5 DEF IInv, EarlyInv, Building, Running, Closing
<1>11. WaitInv'
  BY <1>1, <1>5 DEF IInv, WaitInv, Waits, Building
<1>12. LogInv'
  BY <1>1 DEF IInv, LogInv, Logs
<1>13. QED
  BY <1>6, <1>7, <1>8, <1>9, <1>10, <1>11, <1>12 DEF IInv

\* The host cancels the first use while it builds: trouble.
LEMMA BuildAbandonedIInv == ASSUME IInv, NEW t \in Tasks, BuildAbandoned(t) PROVE IInv'
<1>1. /\ Building(t) /\ task' = [task EXCEPT ![t] = Idle] /\ troubled' = TRUE
      /\ mounts' = mounts /\ coord' = coord /\ audit' = audit /\ handler' = handler
      /\ builds' = builds /\ open' = open /\ token' = token /\ spawns' = spawns /\ sub' = sub
      /\ started' = started /\ left' = left /\ closed' = closed
      /\ early' = early /\ runs' = runs
  BY DEF BuildAbandoned, parts
<1>2. Idle \in TaskRec /\ Idle.at = "idle"
  BY BuildNumbers DEF Idle, TaskRec, Places
<1>3. /\ task' \in [Tasks -> TaskRec] /\ task'[t] = Idle
      /\ \A u \in Tasks : u # t => task'[u] = task[u]
  BY <1>1, <1>2, TaskSet DEF IInv
<1>4. TypeOK'
  BY <1>1, <1>3 DEF IInv, TypeOK, TaskRec
<1>5. BuildInv'
  BY <1>1, <1>2, <1>3 DEF IInv, BuildInv, Building, Running, Closing
<1>6. StartedInv'
  BY <1>1 DEF IInv, StartedInv, Taken
<1>7. UntroubledInv' /\ LogInv'
  BY <1>1 DEF UntroubledInv, LogInv
<1>8. EarlyInv'
  BY <1>1, <1>2, <1>3 DEF IInv, EarlyInv, Building, Running, Closing
<1>9. WaitInv'
  BY <1>1, <1>3 DEF IInv, WaitInv, Waits, Building
<1>10. QED
  BY <1>4, <1>5, <1>6, <1>7, <1>8, <1>9 DEF IInv

\* A token is set (agent.py:472-478), or nothing changes.
LEMMA QuietIInv ==
    ASSUME IInv, token' \in [Builds -> {"none", "clear", "set"}],
           mounts' = mounts, coord' = coord, audit' = audit, handler' = handler,
           builds' = builds, open' = open, task' = task, spawns' = spawns, sub' = sub,
           started' = started, troubled' = troubled, left' = left, closed' = closed,
           early' = early, runs' = runs
    PROVE  IInv'
<1>1. TypeOK'
  BY DEF IInv, TypeOK
<1>2. BuildInv' /\ StartedInv'
  BY DEF IInv, BuildInv, Building, Running, Closing, StartedInv, Taken
<1>3. UntroubledInv' /\ EarlyInv'
  BY Kept DEF IInv
<1>4. WaitInv' /\ LogInv'
  BY DEF IInv, WaitInv, Waits, LogInv, Logs
<1>5. QED
  BY <1>1, <1>2, <1>3, <1>4 DEF IInv
-------------------------------------------------------------------------------
(* aclose()                                                                   *)

\* The handler that was looked up is closed.
LEMMA CloseHandlerIInv == ASSUME IInv, NEW t \in Tasks, CloseHandler(t) PROVE IInv'
<1> DEFINE gone == <<"mcp", task[t].coord>>
<1>1. /\ task[t].at = "closes" /\ Goto(t, "closes audit") /\ open' = open \ {gone}
      /\ mounts' = mounts /\ coord' = coord /\ audit' = audit /\ handler' = handler
      /\ builds' = builds /\ token' = token /\ spawns' = spawns /\ sub' = sub
      /\ started' = started /\ troubled' = troubled /\ left' = left /\ closed' = closed
      /\ early' = early /\ runs' = runs
  BY DEF CloseHandler, histories
<1>2. /\ task' \in [Tasks -> TaskRec]
      /\ task'[t].at = "closes audit" /\ task'[t].coord = task[t].coord
      /\ \A u \in Tasks : u # t => task'[u] = task[u]
  BY <1>1, TaskGoes DEF IInv, Places
<1>3. \A n : <<"audit", n>> \in open' <=> <<"audit", n>> \in open
  BY <1>1
<1>4. task[t].coord = 1 => <<"mcp", 1>> \notin open'
  BY <1>1
<1>5. open' \subseteq open
  BY <1>1
<1> HIDE DEF gone
<1>6. TypeOK'
  BY <1>1, <1>2, <1>5 DEF IInv, TypeOK, TaskRec
<1>7. BuildInv'
  BY <1>1, <1>2 DEF IInv, BuildInv, Building, Running, Closing
<1>8. StartedInv'
  BY <1>1 DEF IInv, StartedInv, Taken
<1>9. ASSUME ~troubled PROVE Untroubled'
  <2>1. Untroubled
    BY <1>9 DEF IInv, UntroubledInv
  <2>2. /\ builds' \in {0, 1} /\ (builds' = 0 => open' = {} /\ handler' = Nothing)
        /\ (closed' => open' = {} /\ coord' # Nothing)
    BY <1>1, <1>5, <2>1 DEF Untroubled
  <2>3. ASSUME builds = 1
        PROVE  /\ audit' = 1 /\ handler' = (IF mounts' THEN 1 ELSE Nothing)
               /\ open' \subseteq {<<"audit", 1>>, <<"mcp", 1>>}
               /\ ~mounts' => <<"mcp", 1>> \notin open'
    BY <1>1, <1>5, <2>1, <2>3 DEF Untroubled
  <2>4. ASSUME builds = 1, coord' = Nothing PROVE mounts' /\ \E u \in Tasks : Building(u)'
    <3>1. PICK u \in Tasks : Building(u)
      BY <1>1, <2>1, <2>4 DEF Untroubled
    <3>2. mounts' /\ u # t
      BY <1>1, <2>1, <2>4, <3>1 DEF Untroubled, Building
    <3>3. QED
      BY <1>2, <3>1, <3>2 DEF Building
  <2>5. ASSUME builds = 1, NEW u \in Tasks, task'[u].at = "closes audit",
               task'[u].coord = handler'
        PROVE  <<"mcp", 1>> \notin open'
    <3>1. CASE u # t
      BY <1>1, <1>2, <1>5, <2>1, <2>5, <3>1 DEF Untroubled
    <3>2. CASE u = t /\ mounts'
      BY <1>2, <1>4, <2>3, <2>5, <3>2
    <3>3. CASE ~mounts'
      BY <2>3, <2>5, <3>3
    <3>4. QED
      BY <3>1, <3>2, <3>3
  <2>6. QED
    BY <1>1, <2>2, <2>3, <2>4, <2>5 DEF Untroubled
<1>10. EarlyInv'
  BY <1>1, <1>2 DEF IInv, EarlyInv, Building, Running, Closing
<1>11. WaitInv'
  BY <1>1, <1>2 DEF IInv, WaitInv, Waits
<1>12. LogInv'
  BY <1>1, <1>3 DEF IInv, LogInv, Logs
<1>13. QED
  BY <1>1, <1>6, <1>7, <1>8, <1>9, <1>10, <1>11, <1>12 DEF IInv, UntroubledInv

\* The audit log that is there by now is closed; aclose() returns.
LEMMA CloseAuditIInv == ASSUME IInv, NEW t \in Tasks, CloseAudit(t) PROVE IInv'
<1>1. /\ task[t].at = "closes audit" /\ open' = open \ {<<"audit", audit>>}
      /\ task' = [task EXCEPT ![t] = Idle]
      /\ closed' = (closed \/ (coord # Nothing /\ task[t].coord = handler))
      /\ mounts' = mounts /\ coord' = coord /\ audit' = audit /\ handler' = handler
      /\ builds' = builds /\ token' = token /\ spawns' = spawns /\ sub' = sub
      /\ started' = started /\ troubled' = troubled /\ left' = left
      /\ early' = early /\ runs' = runs
  BY DEF CloseAudit
<1>2. Idle \in TaskRec /\ Idle.at = "idle"
  BY BuildNumbers DEF Idle, TaskRec, Places
<1>3. /\ task' \in [Tasks -> TaskRec] /\ task'[t] = Idle
      /\ \A u \in Tasks : u # t => task'[u] = task[u]
  BY <1>1, <1>2, TaskSet DEF IInv
<1>4. open' \subseteq open /\ closed' \in BOOLEAN
  BY <1>1 DEF IInv, TypeOK
<1>5. TypeOK'
  BY <1>1, <1>3, <1>4 DEF IInv, TypeOK, TaskRec
<1>6. BuildInv'
  BY <1>1, <1>2, <1>3 DEF IInv, BuildInv, Building, Running, Closing
<1>7. StartedInv'
  BY <1>1 DEF IInv, StartedInv, Taken
<1>8. ASSUME ~troubled PROVE Untroubled'
  <2>1. Untroubled
    BY <1>8 DEF IInv, UntroubledInv
  <2>2. builds' \in {0, 1} /\ (builds' = 0 => open' = {} /\ handler' = Nothing)
    BY <1>1, <1>4, <2>1 DEF Untroubled
  <2>3. ASSUME closed' PROVE open' = {} /\ coord' # Nothing
    <3>1. CASE closed
      BY <1>1, <1>4, <2>1, <3>1 DEF Untroubled
    <3>2. CASE coord # Nothing /\ task[t].coord = handler
      <4>1. builds = 1
        <5>1. coord \in Nat /\ coord # 0 /\ coord <= builds
          BY <3>2, BuildNumbers DEF IInv, TypeOK, BuildInv, Nothing
        <5>2. builds \in {0, 1}
          BY <2>1 DEF Untroubled
        <5>3. QED
          BY <5>1, <5>2
      <4>2. audit = 1 /\ open \subseteq {<<"audit", 1>>, <<"mcp", 1>>} /\ <<"mcp", 1>> \notin open
        BY <1>1, <2>1, <3>2, <4>1 DEF Untroubled
      <4>3. QED
        BY <1>1, <3>2, <4>2
    <3>3. QED
      BY <1>1, <2>3, <3>1, <3>2
  <2>4. ASSUME builds = 1
        PROVE  /\ audit' = 1 /\ handler' = (IF mounts' THEN 1 ELSE Nothing)
               /\ open' \subseteq {<<"audit", 1>>, <<"mcp", 1>>}
               /\ ~mounts' => <<"mcp", 1>> \notin open'
    BY <1>1, <1>4, <2>1, <2>4 DEF Untroubled
  <2>5. ASSUME builds = 1, coord' = Nothing PROVE mounts' /\ \E u \in Tasks : Building(u)'
    <3>1. PICK u \in Tasks : Building(u)
      BY <1>1, <2>1, <2>5 DEF Untroubled
    <3>2. mounts' /\ u # t
      BY <1>1, <2>1, <2>5, <3>1 DEF Untroubled, Building
    <3>3. QED
      BY <1>3, <3>1, <3>2 DEF Building
  <2>6. ASSUME builds = 1, NEW u \in Tasks, task'[u].at = "closes audit",
               task'[u].coord = handler'
        PROVE  <<"mcp", 1>> \notin open'
    BY <1>1, <1>2, <1>3, <1>4, <2>1, <2>6 DEF Untroubled
  <2>7. QED
    BY <1>1, <2>2, <2>3, <2>4, <2>5, <2>6 DEF Untroubled
<1>9. EarlyInv'
  BY <1>1, <1>2, <1>3 DEF IInv, EarlyInv, Building, Running, Closing
<1>10. WaitInv'
  BY <1>1, <1>3 DEF IInv, WaitInv, Waits
<1>11. LogInv'
  <2>1. ASSUME NEW u \in Tasks, NEW k \in Calls, sub[u][k].at = "works", <<u, k>> \notin left
        PROVE  early
    <3>1. Running(u)
      BY <2>1 DEF IInv, WaitInv, Waits, Running
    <3>2. Closing(t)
      BY <1>1 DEF Closing
    <3>3. QED
      BY <3>1, <3>2 DEF IInv, EarlyInv
  <2>2. QED
    BY <1>1, <2>1 DEF LogInv
<1>12. QED
  BY <1>1, <1>5, <1>6, <1>7, <1>8, <1>9, <1>10, <1>11 DEF IInv, UntroubledInv
-------------------------------------------------------------------------------
(* The theorems                                                               *)

\* The invariant holds at the start.
LEMMA InitIInv == Init => IInv
<1> SUFFICES ASSUME Init PROVE IInv
  OBVIOUS
<1>1. Idle \in TaskRec /\ Idle.at = "idle" /\ NoSub \in SubRec /\ NoSub.at = "none"
  BY BuildNumbers DEF Idle, NoSub, TaskRec, SubRec, Places
<1>2. /\ \A t \in Tasks : task[t] = Idle
      /\ \A t \in Tasks, k \in Calls : sub[t][k] = NoSub
      /\ \A n \in Builds : spawns[n] = 0
  BY DEF Init
<1>3. TypeOK
  <2>1. /\ task \in [Tasks -> TaskRec] /\ sub \in [Tasks -> [Calls -> SubRec]]
        /\ spawns \in [Builds -> 0..MaxSpawns]
        /\ token \in [Builds -> {"none", "clear", "set"}]
    BY <1>1, BuildNumbers DEF Init
  <2>2. /\ coord \in Builts /\ audit \in Builts /\ handler \in Builts /\ builds \in Builts
        /\ open = {} /\ left = {} /\ started \in Nat /\ runs \in 0..MaxRuns
    BY BuildNumbers DEF Init, Nothing
  <2>3. /\ mounts \in BOOLEAN /\ troubled \in BOOLEAN /\ early \in BOOLEAN /\ closed \in BOOLEAN
    BY DEF Init
  <2>4. QED
    BY <2>1, <2>2, <2>3 DEF TypeOK, TaskRec, SubRec
<1>4. BuildInv
  <2>1. coord <= builds /\ audit <= builds /\ handler <= builds
    BY DEF Init, Nothing
  <2>2. \A t \in Tasks : ~Building(t) /\ ~Running(t) /\ ~Closing(t)
    BY <1>1, <1>2 DEF Building, Running, Closing
  <2>3. \A t \in Tasks, k \in Calls : sub[t][k].at # "asked"
    BY <1>1, <1>2
  <2>4. \A n \in Builds : ~(spawns[n] > 0)
    BY <1>2
  <2>5. QED
    BY <2>1, <2>2, <2>3, <2>4 DEF BuildInv
<1>5. StartedInv
  <2>1. Taken = {}
    BY <1>2 DEF Taken
  <2>2. QED
    BY <2>1, FS_EmptySet DEF Init, StartedInv
<1>6. UntroubledInv
  BY DEF Init, UntroubledInv, Untroubled
<1>7. WaitInv /\ EarlyInv /\ LogInv
  BY <1>1, <1>2 DEF WaitInv, Waits, EarlyInv, Closing, LogInv
<1>8. QED
  BY <1>3, <1>4, <1>5, <1>6, <1>7 DEF IInv

\* Every step of a task preserves it.
LEMMA TaskStepIInv == ASSUME IInv, NEW t \in Tasks, TaskStep(t) PROVE IInv'
<1>1. ASSUME NEW k \in Calls, CallRaises(t, k) \/ Refused(t, k) \/ SubagentEnds(t, k)
      PROVE  IInv'
  <2>1. /\ \E at \in {"raised", "done"} : Over(t, k, at)
        /\ UNCHANGED <<parts, task, token, spawns, started, troubled, closed, early, runs>>
    BY <1>1 DEF CallRaises, Refused, SubagentEnds
  <2>2. QED
    BY <2>1, OverIInv
<1>2. CASE \E k \in Calls : CallRaises(t, k) \/ Refused(t, k) \/ Spawn(t, k) \/ SubagentEnds(t, k)
  BY <1>1, <1>2, SpawnIInv
<1>3. QED
  BY <1>2, BuiltIInv, ReturnsIInv, DelegatesIInv, GatherIInv, CloseHandlerIInv, CloseAuditIInv
  DEF TaskStep

\* So does every other step.
LEMMA NextIInv == ASSUME IInv, [Next]_vars PROVE IInv'
<1>1. CASE Cancel
  <2>1. token' \in [Builds -> {"none", "clear", "set"}]
    BY <1>1 DEF Cancel, IInv, TypeOK
  <2>2. /\ mounts' = mounts /\ coord' = coord /\ audit' = audit /\ handler' = handler
        /\ builds' = builds /\ open' = open /\ task' = task /\ spawns' = spawns /\ sub' = sub
        /\ started' = started /\ troubled' = troubled /\ left' = left /\ closed' = closed
        /\ early' = early /\ runs' = runs
    BY <1>1 DEF Cancel, parts, histories
  <2>3. QED
    BY <2>1, <2>2, QuietIInv
<1>2. CASE UNCHANGED vars
  <2>1. token' \in [Builds -> {"none", "clear", "set"}]
    BY <1>2 DEF vars, IInv, TypeOK
  <2>2. /\ mounts' = mounts /\ coord' = coord /\ audit' = audit /\ handler' = handler
        /\ builds' = builds /\ open' = open /\ task' = task /\ spawns' = spawns /\ sub' = sub
        /\ started' = started /\ troubled' = troubled /\ left' = left /\ closed' = closed
        /\ early' = early /\ runs' = runs
    BY <1>2 DEF vars
  <2>3. QED
    BY <2>1, <2>2, QuietIInv
<1>3. CASE \E t \in Tasks : Use(t) \/ Build(t) \/ BuildAbandoned(t) \/ Close(t) \/ TaskStep(t)
  BY <1>3, UseIInv, BuildIInv, BuildAbandonedIInv, CloseIInv, TaskStepIInv
<1>4. QED
  BY <1>1, <1>2, <1>3 DEF Next

\* However tasks build, use, cancel and close the agent (agent.py:268-574), the
\* invariant holds throughout.
THEOREM Invariance == Spec => []IInv
<1>1. IInv /\ [Next]_vars => IInv'
  BY NextIInv
<1>2. QED
  BY InitIInv, <1>1, PTL DEF Spec

\* agent.py:553-574: aclose() of the built agent leaves nothing open, and no delegation
\* goes on with a closed log, but where ClosingReleases says.
THEOREM Release == Spec => []ClosingReleases
<1>1. IInv => ClosingReleases
  <2> SUFFICES ASSUME IInv PROVE ClosingReleases
    OBVIOUS
  <2>1. closed /\ ~troubled => open = {}
    BY DEF IInv, UntroubledInv, Untroubled
  <2>2. QED
    BY <2>1 DEF IInv, LogInv, ClosingReleases
<1>2. QED
  BY Invariance, <1>1, PTL

\* agent.py:138-140: no more than max_spawns subagents are started, whatever parallel
\* calls, runs and failures; builds that overlapped have a budget each.
THEOREM Budget == Spec => []SpawnBudget
<1>1. IInv => SpawnBudget
  <2> SUFFICES ASSUME IInv PROVE SpawnBudget
    OBVIOUS
  <2> DEFINE places == (1..builds) \X (1..MaxSpawns)
  <2>1. builds \in Nat /\ MaxSpawns \in Nat
    BY BuildNumbers, ConstantsAssumption DEF IInv, TypeOK, ConstantsAssumption
  <2>2. /\ IsFiniteSet(1..builds) /\ Cardinality(1..builds) = builds
        /\ IsFiniteSet(1..MaxSpawns) /\ Cardinality(1..MaxSpawns) = MaxSpawns
    BY <2>1, FS_Interval
  <2>3. IsFiniteSet(places) /\ Cardinality(places) = builds * MaxSpawns
    <3>1. /\ IsFiniteSet(places)
          /\ Cardinality(places) = Cardinality(1..builds) * Cardinality(1..MaxSpawns)
      BY <2>2, FS_Product, Zenon
    <3>2. QED
      BY <2>2, <3>1, Zenon
  <2>4. Taken \subseteq places
    <3>1. ASSUME NEW p \in Taken PROVE p \in places
      <4>1. PICK n \in Builds, j \in 1..MaxSpawns : p = <<n, j>> /\ j <= spawns[n]
        BY DEF Taken
      <4>2. spawns[n] \in 0..MaxSpawns /\ n \in Nat /\ n >= 1
        BY ConstantsAssumption DEF IInv, TypeOK, Builds, ConstantsAssumption
      <4>3. spawns[n] > 0
        BY <4>1, <4>2
      <4>4. n \in 1..builds
        BY <2>1, <4>2, <4>3 DEF IInv, BuildInv
      <4>5. QED
        BY <4>1, <4>4
    <3>2. QED
      BY <3>1
  <2>5. IsFiniteSet(Taken) /\ Cardinality(Taken) <= builds * MaxSpawns
    BY <2>3, <2>4, FS_Subset
  <2>6. started <= builds * MaxSpawns /\ started \in Nat
    BY <2>5 DEF IInv, StartedInv, TypeOK
  <2>7. ASSUME ~troubled PROVE builds \in {0, 1}
    BY <2>7 DEF IInv, UntroubledInv, Untroubled
  <2>8. ASSUME ~troubled PROVE started <= MaxSpawns
    <3>1. CASE builds = 0
      BY <2>1, <2>6, <3>1
    <3>2. CASE builds = 1
      BY <2>1, <2>6, <3>2
    <3>3. QED
      BY <2>7, <2>8, <3>1, <3>2
  <2>9. started <= MaxSpawns * builds
    BY <2>1, <2>6
  <2>10. started <= MaxSpawns * (IF troubled THEN builds ELSE 1)
    <3>1. MaxSpawns * 1 = MaxSpawns
      BY <2>1
    <3>2. QED
      BY <2>8, <2>9, <3>1
  <2>11. QED
    BY <2>10 DEF IInv, SpawnBudget
<1>2. QED
  BY Invariance, <1>1, PTL
===============================================================================
