--------------------------------- MODULE Agent ---------------------------------
(* engine/agent.py, the facade, with the SpawnSubagent tool it mounts         *)
(* (engine/subagents/subagent.py): tasks of a host run, cancel and close one  *)
(* Agent.  Its first use builds a coordinator, an audit log and, with         *)
(* mcp_servers, an MCP handler, whose refresh() is the one await of _build(). *)
(* A run is, here, its turns of delegations that run in parallel; TurnLoop    *)
(* and ToolExecution look inside it.                                          *)
EXTENDS Integers, FiniteSets

CONSTANTS Tasks,        \* tasks of the host
          Calls,        \* the tool calls of a turn
          MaxSpawns,    \* max_spawns
          MaxBuilds,    \* bound: builds
          MaxRuns,      \* bound: run(), send() or stream() calls
          MaxTurns      \* max_turns

ASSUME ConstantsAssumption ==
    /\ MaxSpawns \in Nat /\ MaxBuilds \in Nat /\ MaxRuns \in Nat /\ MaxTurns \in Nat

Builds == 1..MaxBuilds
Nothing == 0                    \* None, where a build could be

VARIABLES
    mounts,     \* mcp_servers is not empty
    coord,      \* _coord, by the build that made it
    audit,      \* _audit
    handler,    \* _mcp_handler
    builds,     \* builds begun
    open,       \* the audit logs and MCP handlers that are open
    task,       \* what each task awaits, with which coordinator, in which turn
    token,      \* each coordinator's cancel_token: "none", "clear" or "set"
    spawns,     \* state["spawns"] of each coordinator's spawn tool
    sub,        \* each task's delegations
    started,    \* history: subagents started
    troubled,   \* history: two builds overlapped, or one did not finish
    left,       \* history: the delegations a cancelled run left behind
    early,      \* history: an aclose() and a run overlapped
    closed,     \* history: an aclose() that began when the agent was built has returned
    runs

vars == <<mounts, coord, audit, handler, builds, open, task, token, spawns, sub, started,
          troubled, left, early, closed, runs>>

Idle == [at |-> "idle", coord |-> Nothing, turn |-> 0]
NoSub == [at |-> "none", coord |-> Nothing]
-------------------------------------------------------------------------------
Init == /\ mounts \in BOOLEAN
        /\ coord = Nothing /\ audit = Nothing /\ handler = Nothing
        /\ builds = 0 /\ open = {}
        /\ task = [t \in Tasks |-> Idle]
        /\ token = [n \in Builds |-> "none"]
        /\ spawns = [n \in Builds |-> 0]
        /\ sub = [t \in Tasks |-> [k \in Calls |-> NoSub]]
        /\ started = 0 /\ troubled = FALSE /\ left = {} /\ early = FALSE
        /\ closed = FALSE /\ runs = 0

parts == <<mounts, coord, audit, handler, builds, open>>
histories == <<started, troubled, left, closed>>

Goto(t, at) == task' = [task EXCEPT ![t].at = at]

Building(t) == task[t].at = "builds"
Closing(t)  == task[t].at \in {"closes", "closes audit"}
Running(t)  == task[t].at \in {"model", "tools"}

\* What a use of the agent leaves behind if aclose() has begun
Overlaps == early' = (early \/ \E u \in Tasks : Closing(u))

\* A run begins on coordinator n.  stream() sees to it that there is a token.
Drives(t, n, streams) ==
    /\ task' = [task EXCEPT ![t] = [at |-> "model", coord |-> n, turn |-> 0]]
    /\ token' = IF streams /\ token[n] = "none" THEN [token EXCEPT ![n] = "clear"] ELSE token

\* run(), send() or stream() of an agent that is built
Use(t) ==
    /\ task[t].at = "idle" /\ coord # Nothing /\ runs < MaxRuns
    /\ runs' = runs + 1
    /\ \E streams \in BOOLEAN : Drives(t, coord, streams)
    /\ Overlaps
    /\ UNCHANGED <<parts, spawns, sub, histories>>

\* Mutant: a coordinator that is there is not looked for.
MustBuildAlways == TRUE

\* Whoever finds no coordinator builds one.
MustBuild == coord = Nothing

\* The first use: _build() up to its await, or to the end if there is none.  The
\* audit log is opened first; a tool whose name is taken ends the build.
Build(t) ==
    LET n == builds + 1
    IN  /\ task[t].at = "idle" /\ MustBuild /\ runs < MaxRuns /\ n \in Builds
        /\ runs' = runs + 1
        /\ builds' = n
        /\ audit' = n
        /\ \/ /\ mounts
              /\ handler' = n
              /\ open' = open \cup {<<"audit", n>>, <<"mcp", n>>}
              /\ task' = [task EXCEPT ![t] = [at |-> "builds", coord |-> n, turn |-> 0]]
              /\ troubled' = (troubled \/ \E u \in Tasks : Building(u))
              /\ UNCHANGED <<coord, token>>
           \/ /\ ~mounts
              /\ coord' = n
              /\ open' = open \cup {<<"audit", n>>}
              /\ \E streams \in BOOLEAN : Drives(t, n, streams)
              /\ UNCHANGED <<handler, troubled>>
           \/ /\ open' = open \cup {<<"audit", n>>}
              /\ troubled' = TRUE
              /\ UNCHANGED <<coord, handler, task, token>>
        /\ Overlaps
        /\ UNCHANGED <<mounts, spawns, sub, started, left, closed>>

\* refresh() has returned: what another build has made meanwhile is replaced.
Built(t) ==
    /\ Building(t)
    /\ coord' = task[t].coord
    /\ \E streams \in BOOLEAN : Drives(t, task[t].coord, streams)
    /\ UNCHANGED <<mounts, audit, handler, builds, open, spawns, sub, histories, early, runs>>

\* The host cancels the task that waits for refresh(), by a timeout for instance.
BuildAbandoned(t) ==
    /\ Building(t)
    /\ task' = [task EXCEPT ![t] = Idle]
    /\ troubled' = TRUE
    /\ UNCHANGED <<parts, token, spawns, sub, started, left, closed, early, runs>>
-------------------------------------------------------------------------------
(* A run *)
HasToken(n) == token[n] = "set"
Logs(n) == <<"audit", n>> \in open

\* The model ends the run, or fails; or the run sees its token between turns.
Returns(t) ==
    /\ task[t].at = "model"
    /\ task' = [task EXCEPT ![t] = Idle]
    /\ UNCHANGED <<parts, token, spawns, sub, histories, early, runs>>

\* The model delegates: each call becomes a task of its own.
Delegates(t) ==
    /\ task[t].at = "model" /\ task[t].turn < MaxTurns /\ ~HasToken(task[t].coord)
    /\ \E K \in SUBSET {k \in Calls : sub[t][k] = NoSub} \ {{}} :
           sub' = [sub EXCEPT ![t] = [k \in Calls |->
                      IF k \in K THEN [at |-> "asked", coord |-> task[t].coord] ELSE @[k]]]
    /\ task' = [task EXCEPT ![t].at = "tools", ![t].turn = @ + 1]
    /\ UNCHANGED <<parts, token, spawns, histories, early, runs>>

\* A call is over.  Nobody waits for one that was left behind.
Over(t, k, at) ==
    /\ sub' = [sub EXCEPT ![t][k] = IF <<t, k>> \in left THEN NoSub ELSE [@ EXCEPT !.at = at]]
    /\ left' = left \ {<<t, k>>}

\* The call finds the token set, or the audit log closed, and raises.
CallRaises(t, k) ==
    /\ sub[t][k].at = "asked"
    /\ HasToken(sub[t][k].coord) \/ ~Logs(sub[t][k].coord)
    /\ Over(t, k, "raised")
    /\ UNCHANGED <<parts, task, token, spawns, started, troubled, closed, early, runs>>

\* spawn() answers at once: a type or a task it cannot use, or no budget.
Refused(t, k) ==
    /\ sub[t][k].at = "asked" /\ ~HasToken(sub[t][k].coord) /\ Logs(sub[t][k].coord)
    /\ Over(t, k, "done")
    /\ UNCHANGED <<parts, task, token, spawns, started, troubled, closed, early, runs>>

\* Mutant: a spawn is not counted when its subagent starts.
SpawnUncounted(t, k) ==
    LET n == sub[t][k].coord
    IN  /\ sub[t][k].at = "asked" /\ ~HasToken(n) /\ Logs(n)
        /\ spawns[n] < MaxSpawns
        /\ started' = started + 1
        /\ sub' = [sub EXCEPT ![t][k].at = "works"]
        /\ UNCHANGED <<parts, task, token, spawns, troubled, left, closed, early, runs>>

\* spawn() takes one of the budget, before its first await; the factory makes a
\* subagent, with a coordinator of its own and without the parent's token.
Spawn(t, k) ==
    LET n == sub[t][k].coord
    IN  /\ sub[t][k].at = "asked" /\ ~HasToken(n) /\ Logs(n)
        /\ spawns[n] < MaxSpawns
        /\ spawns' = [spawns EXCEPT ![n] = @ + 1]
        /\ started' = started + 1
        /\ sub' = [sub EXCEPT ![t][k].at = "works"]
        /\ UNCHANGED <<parts, task, token, troubled, left, closed, early, runs>>

\* The subagent is done or out of turns, fails, or meets its timeout or the
\* parent's tool_timeout: a result or an error for the parent.
SubagentEnds(t, k) ==
    /\ sub[t][k].at = "works"
    /\ Over(t, k, "done")
    /\ UNCHANGED <<parts, task, token, spawns, started, troubled, closed, early, runs>>

Waits(t, k) == sub[t][k].at \in {"asked", "works"} /\ <<t, k>> \notin left

Cleared(t) == [k \in Calls |-> IF sub[t][k].at \in {"done", "raised"} THEN NoSub ELSE sub[t][k]]

\* gather: every call has its result, or one has raised and the run is over.
Gather(t) ==
    /\ task[t].at = "tools"
    /\ \/ /\ \A k \in Calls : ~Waits(t, k) /\ sub[t][k].at # "raised"
          /\ Goto(t, "model")
          /\ UNCHANGED left
       \/ /\ \E k \in Calls : sub[t][k].at = "raised"
          /\ task' = [task EXCEPT ![t] = Idle]
          /\ left' = left \cup {<<t, k>> : k \in {k \in Calls : Waits(t, k)}}
    /\ sub' = [sub EXCEPT ![t] = Cleared(t)]
    /\ UNCHANGED <<parts, token, spawns, started, troubled, closed, early, runs>>
-------------------------------------------------------------------------------
\* cancel(), from any task: it reaches the coordinator there is, if there is one.
Cancel ==
    /\ coord # Nothing /\ token[coord] # "set"
    /\ token' = [token EXCEPT ![coord] = "set"]
    /\ UNCHANGED <<parts, task, spawns, sub, histories, early, runs>>

\* aclose() looks up what it will close, but for the audit log, before it awaits.
Close(t) ==
    /\ task[t].at = "idle" /\ ~closed
    /\ task' = [task EXCEPT ![t] = [at |-> "closes", coord |-> handler, turn |-> 0]]
    /\ early' = (early \/ \E u \in Tasks : Running(u) \/ Building(u))
    /\ UNCHANGED <<parts, token, spawns, sub, histories, runs>>

CloseHandler(t) ==
    /\ task[t].at = "closes"
    /\ open' = open \ {<<"mcp", task[t].coord>>}
    /\ Goto(t, "closes audit")
    /\ UNCHANGED <<mounts, coord, audit, handler, builds, token, spawns, sub, histories, early,
                   runs>>

CloseAudit(t) ==
    /\ task[t].at = "closes audit"
    /\ open' = open \ {<<"audit", audit>>}
    /\ closed' = (closed \/ (coord # Nothing /\ task[t].coord = handler))
    /\ task' = [task EXCEPT ![t] = Idle]
    /\ UNCHANGED <<mounts, coord, audit, handler, builds, token, spawns, sub, started, troubled,
                   left, early, runs>>

TaskStep(t) ==
    \/ Built(t) \/ Returns(t) \/ Delegates(t) \/ Gather(t) \/ CloseHandler(t) \/ CloseAudit(t)
    \/ \E k \in Calls : CallRaises(t, k) \/ Refused(t, k) \/ Spawn(t, k) \/ SubagentEnds(t, k)

Next == \/ \E t \in Tasks : Use(t) \/ Build(t) \/ BuildAbandoned(t) \/ Close(t) \/ TaskStep(t)
        \/ Cancel

Spec == Init /\ [][Next]_vars
-------------------------------------------------------------------------------
Places == {"idle", "builds", "model", "tools", "closes", "closes audit"}
Builts == Builds \cup {Nothing}

\* The types; a spawn tool never counts past its budget.
TypeOK ==
    /\ mounts \in BOOLEAN /\ coord \in Builts /\ audit \in Builts /\ handler \in Builts
    /\ builds \in Builts /\ open \subseteq {"audit", "mcp"} \X Builds
    /\ task \in [Tasks -> [at : Places, coord : Builts, turn : 0..MaxTurns]]
    /\ token \in [Builds -> {"none", "clear", "set"}]
    /\ spawns \in [Builds -> 0..MaxSpawns]
    /\ sub \in [Tasks -> [Calls -> [at : {"none", "asked", "works", "done", "raised"},
                                    coord : Builts]]]
    /\ started \in Nat /\ troubled \in BOOLEAN /\ left \subseteq Tasks \X Calls
    /\ early \in BOOLEAN /\ closed \in BOOLEAN /\ runs \in 0..MaxRuns

\* agent.py:553-574: however tasks share the agent, aclose() of the built agent
\* leaves no MCP server and no audit log open, but for those of a build that
\* overlapped another one or did not finish; and no delegation goes on with a
\* closed log, but for those that a cancelled run left behind or that aclose()
\* was called in the middle of.
ClosingReleases ==
    /\ closed /\ ~troubled => open = {}
    /\ \A t \in Tasks, k \in Calls :
           sub[t][k].at = "works" /\ ~Logs(sub[t][k].coord)
               => early \/ troubled \/ <<t, k>> \in left

\* agent.py:138-140: no more than max_spawns subagents are started, by whatever
\* parallel calls, runs and failures; builds that overlapped have a budget each.
SpawnBudget ==
    /\ TypeOK
    /\ started <= MaxSpawns * (IF troubled THEN builds ELSE 1)
===============================================================================
