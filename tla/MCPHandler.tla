------------------------------- MODULE MCPHandler -------------------------------
(* engine/mcp/handler.py, class MCPHandler: the table of the tools that the   *)
(* mounted MCP servers publish, under the names the model knows them by.      *)
(* Refreshes, reconnects and calls run concurrently on one event loop; what   *)
(* one of them does from one await to the next is one action.                 *)
EXTENDS Integers, Sequences, SequencesExt, FiniteSets

CONSTANTS Servers,      \* server ids
          Tools,        \* the servers' own tool names
          Bases,        \* what server id and tool name sanitise to, joined
          BaseOf,       \* [Servers \X Tools -> Bases]
          MaxSuffix,    \* bound: `name_N` for N up to this
          Lists,        \* tool lists a server may publish
          Clients,      \* tasks that use the handler
          EvictFailed,  \* evict_failed
          MaxOps,       \* bound: operations begun
          MaxChanges    \* bound: changes of a server's list or of its filter

\* A server lists a tool once.  There is a suffix for every tool of a base.
ASSUME McpConstants ==
    /\ IsFiniteSet(Servers) /\ IsFiniteSet(Tools) /\ "none" \notin Servers
    /\ BaseOf \in [Servers \X Tools -> Bases] /\ MaxSuffix \in Nat
    /\ \A b \in Bases : Cardinality({p \in Servers \X Tools : BaseOf[p] = b}) <= MaxSuffix
    /\ \A list \in Lists : list \in Seq(Tools) /\ IsInjective(list)
    /\ EvictFailed \in BOOLEAN /\ MaxOps \in Nat /\ MaxChanges \in Nat

\* A base, or with _2, _3... where it was taken.
Names == Bases \X (1..MaxSuffix)

Entry(s, t) == [sid |-> s, tool |-> t]
None == [sid |-> "none", tool |-> "none"]

VARIABLES
    mounted,    \* _servers, in the order of add_server
    table,      \* _specs, _owner and _bare: the tool each name stands for
    failures,   \* the servers in `failures`
    hidden,     \* _filters: the tools of each server that are not exposed
    published,  \* what each server answers to list_tools
    op,         \* what each client's task is at
    closed,     \* aclose has been called
    expected,   \* history: the tools each server's last listing exposed
    skipped,    \* history: servers a refresh did not get to
    was,        \* history: the tool each name stood for last
    unstable,   \* history: bases whose tools have changed or are of two servers
    ops, changes

mcpVars == <<mounted, table, failures, hidden, published, op, closed, expected, skipped, was,
             unstable, ops, changes>>

Op(at, sid, next, size) == [at |-> at, sid |-> sid, next |-> next, size |-> size]
Idle == Op("idle", "none", 0, 0)

NoTools == [n \in Names |-> None]

McpInit == /\ mounted = <<>>
           /\ table = NoTools /\ failures = {}
           /\ hidden = [s \in Servers |-> {}]
           /\ published \in [Servers -> Lists]
           /\ op = [c \in Clients |-> Idle]
           /\ closed = FALSE
           /\ expected = [s \in Servers |-> {}] /\ skipped = {}
           /\ was = NoTools /\ unstable = {}
           /\ ops = 0 /\ changes = 0

Mounted == {mounted[n] : n \in 1..Len(mounted)}

\* Mutant: a server id may be taken twice.
AddServerTwice(s) ==
    /\ ~closed
    /\ mounted' = Append(mounted, s)
    /\ skipped' = skipped \cup {s}
    /\ UNCHANGED <<table, failures, hidden, published, op, closed, expected, was, unstable,
                   ops, changes>>

\* add_server refuses an id it has.
AddServer(s) ==
    /\ s \notin Mounted /\ ~closed
    /\ mounted' = Append(mounted, s)
    /\ skipped' = skipped \cup {s}
    /\ UNCHANGED <<table, failures, hidden, published, op, closed, expected, was, unstable,
                   ops, changes>>

\* _drop_server
Dropped(tbl, s) == [n \in Names |-> IF tbl[n].sid = s THEN None ELSE tbl[n]]

\* The name a tool gets: its base, or that with the first free suffix.
NameFor(tbl, b) ==
    CHOOSE n \in Names : /\ n[1] = b /\ tbl[n] = None
                         /\ \A m \in Names : m[1] = b /\ tbl[m] = None => n[2] <= m[2]

\* One more tool of s gets its name.
NamedIn(tbl, s, t) == [tbl EXCEPT ![NameFor(tbl, BaseOf[s, t])] = Entry(s, t)]

\* The listed tools that are not out are named in their order.
Install(tbl, s, list, out) ==
    LET named[n \in 0..Len(list)] ==
            IF n = 0 THEN tbl
            ELSE IF list[n] \in out THEN named[n - 1] ELSE NamedIn(named[n - 1], s, list[n])
    IN  named[Len(list)]

\* Mutant: what the server had before stays.
InstalledOver(s) == Install(table, s, published[s], hidden[s])

\* _install_tools: the server's old tools go, its exposed ones are named.
Installed(s) == Install(Dropped(table, s), s, published[s], hidden[s])

Exposed(s) == ToSet(published[s]) \ hidden[s]

\* list_tools of s has answered.
Installs(s) ==
    LET tbl == Installed(s)
    IN  /\ table' = tbl
        /\ expected' = [expected EXCEPT ![s] = Exposed(s)]
        /\ skipped' = skipped \ {s}
        /\ was' = [n \in Names |-> IF tbl[n] # None THEN tbl[n] ELSE was[n]]
        /\ unstable' = unstable \cup
               {b \in Bases : \E u \in Servers \ {s} : \E t \in expected'[s], v \in expected'[u] :
                                 BaseOf[s, t] = b /\ BaseOf[u, v] = b}

\* list_tools of s has failed, or has timed out.
ListingFails(s) ==
    /\ failures' = failures \cup {s}
    /\ skipped' = skipped \ {s}
    /\ UNCHANGED <<table, expected, was, unstable>>
-------------------------------------------------------------------------------
Begin(c, o) == /\ op[c].at = "idle" /\ ops < MaxOps /\ ~closed
               /\ op' = [op EXCEPT ![c] = o]
               /\ ops' = ops + 1

End(c) == op' = [op EXCEPT ![c] = Idle]

\* refresh, up to the first list_tools
BeginRefresh(c) ==
    /\ mounted # <<>>
    /\ Begin(c, Op("refreshing", mounted[1], 1, Len(mounted)))
    /\ table' = NoTools
    /\ failures' = {}
    /\ skipped' = Mounted
    /\ UNCHANGED <<mounted, hidden, published, closed, expected, was, unstable, changes>>

\* The loop over the servers goes on.  It raises when one was added meanwhile.
NextServer(c) ==
    LET n == op[c].next + 1
    IN  op' = [op EXCEPT ![c] = IF Len(mounted) # op[c].size \/ n > Len(mounted) THEN Idle
                                ELSE Op("refreshing", mounted[n], n, op[c].size)]

Refreshed(c) ==
    /\ op[c].at = "refreshing"
    /\ \/ Installs(op[c].sid) /\ UNCHANGED failures
       \/ ListingFails(op[c].sid)
    /\ NextServer(c)
    /\ UNCHANGED <<mounted, hidden, published, closed, ops, changes>>

\* reconnect, whose two awaits have nothing between them.
BeginReconnect(c, s) ==
    /\ s \in Mounted
    /\ Begin(c, Op("reconnecting", s, 0, 0))
    /\ UNCHANGED <<mounted, table, failures, hidden, published, closed, expected, skipped,
                   was, unstable, changes>>

\* Mutant: a reconnect gives every tool its base.
ReconnectedPlain(c) ==
    LET s   == op[c].sid
        own(n) == {t \in Exposed(s) : n = <<BaseOf[s, t], 1>>}
        tbl == [n \in Names |-> IF own(n) # {} THEN Entry(s, CHOOSE t \in own(n) : TRUE)
                                ELSE Dropped(table, s)[n]]
    IN  /\ op[c].at = "reconnecting"
        /\ table' = tbl
        /\ expected' = [expected EXCEPT ![s] = Exposed(s)]
        /\ was' = [n \in Names |-> IF tbl[n] # None THEN tbl[n] ELSE was[n]]
        /\ failures' = failures \ {s}
        /\ skipped' = skipped \ {s}
        /\ End(c)
        /\ UNCHANGED <<mounted, hidden, published, closed, unstable, ops, changes>>

\* The server's tools are back, or it is a failure.
Reconnected(c) ==
    /\ op[c].at = "reconnecting"
    /\ \/ Installs(op[c].sid) /\ failures' = failures \ {op[c].sid}
       \/ ListingFails(op[c].sid)
    /\ End(c)
    /\ UNCHANGED <<mounted, hidden, published, closed, ops, changes>>

\* call_tool, up to the server's answer.  An unknown name raises at once.
BeginCall(c, n) ==
    /\ table[n] # None
    /\ Begin(c, Op("calling", table[n].sid, 0, 0))
    /\ UNCHANGED <<mounted, table, failures, hidden, published, closed, expected, skipped,
                   was, unstable, changes>>

CallSucceeds(c) ==
    /\ op[c].at = "calling"
    /\ End(c)
    /\ UNCHANGED <<mounted, table, failures, hidden, published, closed, expected, skipped,
                   was, unstable, ops, changes>>

\* The call raises or times out: _mark_failed.
CallFails(c) ==
    /\ op[c].at = "calling"
    /\ failures' = failures \cup {op[c].sid}
    /\ table' = IF EvictFailed THEN Dropped(table, op[c].sid) ELSE table
    /\ End(c)
    /\ UNCHANGED <<mounted, hidden, published, closed, expected, skipped, was, unstable,
                   ops, changes>>
-------------------------------------------------------------------------------
BasesOf(s) == {BaseOf[s, t] : t \in Tools}

\* set_tool_filter; it takes effect with the next listing.
SetToolFilter(s, h) ==
    /\ h # hidden[s] /\ changes < MaxChanges
    /\ changes' = changes + 1
    /\ hidden' = [hidden EXCEPT ![s] = h]
    /\ unstable' = unstable \cup BasesOf(s)
    /\ UNCHANGED <<mounted, table, failures, published, op, closed, expected, skipped, was,
                   ops>>

\* The server publishes other tools, or in another order.
Republish(s, list) ==
    /\ list # published[s] /\ changes < MaxChanges
    /\ changes' = changes + 1
    /\ published' = [published EXCEPT ![s] = list]
    /\ unstable' = unstable \cup BasesOf(s)
    /\ UNCHANGED <<mounted, table, failures, hidden, op, closed, expected, skipped, was, ops>>

\* aclose.  What is under way goes on; closing a connection may fail.
CloseServers ==
    /\ ~closed
    /\ closed' = TRUE
    /\ table' = NoTools
    /\ failures' \in {failures \cup f : f \in SUBSET Mounted}
    /\ UNCHANGED <<mounted, hidden, published, op, expected, skipped, was, unstable, ops,
                   changes>>

McpNext == \/ \E s \in Servers : \/ AddServer(s)
                                 \/ \E h \in SUBSET Tools : SetToolFilter(s, h)
                                 \/ \E list \in Lists : Republish(s, list)
           \/ \E c \in Clients :
                 \/ BeginRefresh(c) \/ Refreshed(c) \/ Reconnected(c)
                 \/ \E s \in Servers : BeginReconnect(c, s)
                 \/ \E n \in Names : BeginCall(c, n)
                 \/ CallSucceeds(c) \/ CallFails(c)
           \/ CloseServers

McpSpec == McpInit /\ [][McpNext]_mcpVars
-------------------------------------------------------------------------------
Entries == {Entry(s, t) : s \in Servers, t \in Tools} \cup {None}

\* The types; no tool is under a name of another base.
McpTypeOK ==
    /\ mounted \in Seq(Servers) /\ IsInjective(mounted)
    /\ table \in [Names -> Entries] /\ was \in [Names -> Entries]
    /\ \A n \in Names : table[n] # None => n[1] = BaseOf[table[n].sid, table[n].tool]
    /\ failures \subseteq Mounted /\ skipped \subseteq Mounted
    /\ hidden \in [Servers -> SUBSET Tools] /\ published \in [Servers -> Lists]
    /\ \A c \in Clients : /\ op[c].at \in {"idle", "refreshing", "reconnecting", "calling"}
                          /\ op[c].at # "idle" => op[c].sid \in Mounted
    /\ closed \in BOOLEAN
    /\ expected \in [Servers -> SUBSET Tools]
    /\ unstable \subseteq Bases
    /\ ops \in 0..MaxOps /\ changes \in 0..MaxChanges

NamesOf(s) == {n \in Names : table[n].sid = s}

\* handler.py:122-125 and :87-89: with no listing under way, each server's tools
\* are all in the table, each under one name, or the server is in `failures`.
\* One that fails, and calls and reconnects in the meantime, cost the others
\* nothing.  (But for a server a refresh did not get to, because one was added
\* while it was under way.)
ServersAccountedFor ==
    (~closed /\ \A c \in Clients : op[c].at \in {"idle", "calling"}) =>
        \A s \in Mounted \ (failures \cup skipped) :
            /\ {table[n].tool : n \in NamesOf(s)} = expected[s]
            /\ Cardinality(NamesOf(s)) = Cardinality(expected[s])

\* handler.py:149-154: a name the model has learned never comes to stand for
\* another tool, through failures, refreshes and reconnects in any order.  (But
\* where the tools of two servers share it, or a server's list or filter changed.)
NameKeepsItsTool ==
    [][\A n \in Names : (n[1] \notin unstable' /\ was[n] # None) => was'[n] = was[n]]_mcpVars
===============================================================================
