-------------------------------- MODULE Provider --------------------------------
(* engine/providers/openai_compat.py: one OpenAICompatClient, called by       *)
(* several runs at once (an agent and its subagents may share it), over an    *)
(* endpoint that may be busy, refuse a response_format it does not speak,     *)
(* answer with something that is no completion, lose an answer, or stop in    *)
(* the middle of a stream.                                                    *)
(*                                                                            *)
(* create() runs from one await to the next in one action: what it does with  *)
(* a reply and the sending of its next request are one step.                  *)
EXTENDS Integers, Sequences, FiniteSets, Functions

CONSTANTS Callers,       \* the tasks that call the client
          MaxAttempts,   \* _MAX_ATTEMPTS
          Answers,       \* the completions the endpoint may produce
          Streams,       \* the ways in which it may stream them
          MaxCalls       \* bound: calls in the whole behaviour

Modes   == {"auto", "json_schema", "json_object", "none"}
Formats == {"json_schema", "json_object", "none"}

IsSeq(s) == s \in Seq({s[n] : n \in DOMAIN s})

\* An answer has a text, only a text of the model's reasoning, or neither; tool
\* calls with the provider's id (a sequence: <<>> if it gives none) and the pieces
\* of their arguments; and the reason why it ends.
IsAnswer(a) ==
    /\ a = [text |-> a.text, calls |-> a.calls, finish |-> a.finish]
    /\ a.text \in {"text", "reasoning", "none"}
    /\ a.finish \in {"stop", "tool_calls", "length"}
    /\ IsSeq(a.calls)
    /\ \A n \in DOMAIN a.calls :
           LET tc == a.calls[n]
           IN  /\ tc = [id |-> tc.id, args |-> tc.args]
               /\ IsSeq(tc.id) /\ IsSeq(tc.args) /\ tc.args # <<>>

\* The chunks carry the answer: its text in some of them, its calls piece by piece
\* (p counts those of call n), in any interleaving of the calls, and the finish
\* reason at the end.
Carries(s) ==
    LET Piece(n, p) == [k |-> "call", n |-> n, p |-> p]
        made == s.answer.calls
    IN  /\ IsSeq(s.chunks) /\ s.chunks # <<>>
        /\ \A i \in DOMAIN s.chunks :
               /\ s.chunks[i].k = "finish" <=> i = Len(s.chunks)
               /\ \/ s.chunks[i].k \in {"text", "finish"}
                  \/ \E n \in DOMAIN made : \E p \in DOMAIN made[n].args :
                         s.chunks[i] = Piece(n, p)
        /\ (\E i \in DOMAIN s.chunks : s.chunks[i].k = "text") <=> s.answer.text = "text"
        /\ \A n \in DOMAIN made : \A p \in DOMAIN made[n].args :
               \E i \in DOMAIN s.chunks : s.chunks[i] = Piece(n, p)
        /\ \A i, j \in DOMAIN s.chunks :
               /\ s.chunks[i].k = "call" /\ s.chunks[j].k = "call"
               /\ s.chunks[i].n = s.chunks[j].n /\ i < j
               => s.chunks[i].p < s.chunks[j].p

ASSUME ConstantsAssumption ==
    /\ MaxAttempts \in Nat \ {0} /\ MaxCalls \in Nat
    /\ \A a \in Answers : IsAnswer(a)
    /\ \A s \in Streams : s.answer \in Answers /\ Carries(s)

VARIABLES
    mode,      \* structured_output_mode
    usage,     \* usage_total["model_calls"]
    call,      \* what each caller's call awaits, and its local variables
    parts,     \* what each caller's stream has brought: text_parts (whether there is
               \* any), tool_calls (the slots) and finish
    result,    \* how each caller's last call ended
    speaks,    \* the formats the endpoint accepts
    moved,     \* history: others degraded the mode during a caller's create()
    setbacks,  \* history: busy and lost replies in a caller's call
    calls

vars == <<mode, usage, call, parts, result, speaks, moved, setbacks, calls>>

Idle == [at |-> "idle"]
None == [how |-> "none"]
NoParts == [text |-> FALSE, slots |-> <<>>, finish |-> "stop"]
-------------------------------------------------------------------------------
\* _normalise_response_format, and _DEGRADE
Shaped(m) == IF m \in {"auto", "json_schema"} THEN "json_schema" ELSE m
Degraded(m) == IF m \in {"auto", "json_schema"} THEN "json_object" ELSE "none"

\* The ids of parse_openai_response: none is empty, and one that is there already
\* gets its position appended until it is new.  (No more ids are there than calls
\* before it.)
Suffixed(ids, n, k) == (IF ids[n] = <<>> THEN <<"uuid", n>> ELSE ids[n]) \o [j \in 1..k |-> n]

NewId(ids, n, used) ==
    Suffixed(ids, n, CHOOSE k \in 0..n - 1 :
                         /\ Suffixed(ids, n, k) \notin used
                         /\ \A j \in 0..k - 1 : Suffixed(ids, n, j) \in used)

Unique(ids) ==
    LET tid[n \in DOMAIN ids] == NewId(ids, n, {tid[m] : m \in 1..n - 1})
    IN  tid

StopReason(finish) == CASE finish = "tool_calls" -> "tool_use"
                        [] finish = "length"     -> "max_tokens"
                        [] OTHER                 -> "end_turn"

\* parse_openai_response: the ModelResponse of an answer
Parsed(a) ==
    LET ids == Unique([n \in DOMAIN a.calls |-> a.calls[n].id])
    IN  [text |-> a.text = "text" \/ (a.text = "reasoning" /\ a.calls = <<>>),
         calls |-> [n \in DOMAIN a.calls |-> [id |-> ids[n], args |-> a.calls[n].args]],
         stop |-> StopReason(a.finish)]

\* The slots of stream(): of a call's pieces only one has its id; the arguments are
\* put together.
Slotted(slots, ch, answer) ==
    LET id == IF ch.p = 1 THEN answer.calls[ch.n].id ELSE <<>>
        arg == answer.calls[ch.n].args[ch.p]
        old == IF ch.n \in DOMAIN slots THEN slots[ch.n] ELSE [id |-> <<>>, args |-> <<>>]
        new == [id |-> IF id # <<>> THEN id ELSE old.id, args |-> Append(old.args, arg)]
    IN  [n \in DOMAIN slots \cup {ch.n} |-> IF n = ch.n THEN new ELSE slots[n]]

\* What a chunk adds to the parts of a stream
Added(have, ch, answer) ==
    CASE ch.k = "text"   -> [have EXCEPT !.text = TRUE]
      [] ch.k = "call"   -> [have EXCEPT !.slots = Slotted(have.slots, ch, answer)]
      [] ch.k = "finish" -> [have EXCEPT !.finish = answer.finish]

\* sorted(tool_calls.items()): the slot that has p - 1 others before it
Nth(slots, p) ==
    slots[CHOOSE n \in DOMAIN slots : Cardinality({m \in DOMAIN slots : m <= n}) = p]

\* Mutant: the reason is concluded from the calls there are.
AssembledGuessing(have) ==
    [text |-> IF have.text THEN "text" ELSE "none",
     calls |-> [p \in 1..Cardinality(DOMAIN have.slots) |-> Nth(have.slots, p)],
     finish |-> IF have.slots = <<>> THEN "stop" ELSE "tool_calls"]

\* What stream() gives to the one parser.  A text of the reasoning is not among it.
Assembled(have) ==
    [text |-> IF have.text THEN "text" ELSE "none",
     calls |-> [p \in 1..Cardinality(DOMAIN have.slots) |-> Nth(have.slots, p)],
     finish |-> have.finish]
-------------------------------------------------------------------------------
Init == /\ mode \in Modes /\ speaks \in SUBSET {"json_schema", "json_object"}
        /\ usage = 0 /\ calls = 0
        /\ call = [c \in Callers |-> Idle] /\ parts = [c \in Callers |-> NoParts]
        /\ result = [c \in Callers |-> None]
        /\ moved = [c \in Callers |-> FALSE] /\ setbacks = [c \in Callers |-> 0]

Begins(c, record) ==
    /\ call[c].at = "idle" /\ calls < MaxCalls
    /\ calls' = calls + 1
    /\ call' = [call EXCEPT ![c] = record]
    /\ result' = [result EXCEPT ![c] = None]
    /\ moved' = [moved EXCEPT ![c] = FALSE]
    /\ setbacks' = [setbacks EXCEPT ![c] = 0]
    /\ UNCHANGED <<mode, usage, parts, speaks>>

\* last_payload: the format a request asks for, in the mode of now
Payload(wants) == IF wants THEN Shaped(mode) ELSE "none"

\* create() and stream(), up to the request
Create(c) ==
    \E wants \in BOOLEAN :
        Begins(c, [at |-> "create", wants |-> wants, attempt |-> 0, format |-> Payload(wants)])

Stream(c) ==
    \E wants \in BOOLEAN : Begins(c, [at |-> "opens", format |-> Payload(wants)])

Ends(c, how) ==
    /\ call' = [call EXCEPT ![c] = Idle]
    /\ parts' = [parts EXCEPT ![c] = NoParts]
    /\ result' = [result EXCEPT ![c] = how]

Creating(c) == call[c].at \in {"create", "pauses"}
LastAttempt(c) == call[c].attempt = MaxAttempts - 1
Refused(c) == call[c].format \notin speaks \cup {"none"}
-------------------------------------------------------------------------------
(* The reply to a request of create(): a completion, a 200 that holds none, a *)
(* retryable status, another 4xx, or none at all.  A request in a format that *)
(* the endpoint does not speak gets a 4xx that says so, if it is not lost or  *)
(* put off; the text of another 4xx may look like that too.                   *)

\* A busy endpoint, or a transport error: a pause before the next attempt
Retry(c) ==
    /\ call[c].at = "create" /\ ~LastAttempt(c)
    /\ call' = [call EXCEPT ![c].at = "pauses"]
    /\ setbacks' = [setbacks EXCEPT ![c] = @ + 1]
    /\ UNCHANGED <<mode, usage, parts, result, speaks, moved, calls>>

\* _backoff is over: the same payload again, whatever the mode is by now
Resend(c) ==
    /\ call[c].at = "pauses"
    /\ call' = [call EXCEPT ![c].at = "create", ![c].attempt = @ + 1]
    /\ UNCHANGED <<mode, usage, parts, result, speaks, moved, setbacks, calls>>

\* Mutant: the request that follows is not made anew.
DegradeKeepingPayload(c) ==
    /\ call[c].at = "create" /\ call[c].wants /\ mode # "none"
    /\ mode' = Degraded(mode)
    /\ moved' = [d \in Callers |-> moved[d] \/ (d # c /\ Creating(d))]
    /\ IF LastAttempt(c)
       THEN Ends(c, [how |-> "loop exited"])
       ELSE call' = [call EXCEPT ![c].attempt = @ + 1] /\ UNCHANGED <<parts, result>>
    /\ UNCHANGED <<usage, speaks, setbacks, calls>>

\* A 4xx whose body looks like a refusal of the format (a 429 in the last attempt
\* too): the next dialect down, for every later request of the client.  It is an
\* attempt like any other: after the last one the loop is left.
Degrade(c) ==
    /\ call[c].at = "create" /\ call[c].wants /\ mode # "none"
    /\ mode' = Degraded(mode)
    /\ moved' = [d \in Callers |-> moved[d] \/ (d # c /\ Creating(d))]
    /\ IF LastAttempt(c)
       THEN Ends(c, [how |-> "loop exited"])
       ELSE /\ call' = [call EXCEPT ![c].attempt = @ + 1, ![c].format = Shaped(mode')]
            /\ UNCHANGED <<parts, result>>
    /\ UNCHANGED <<usage, speaks, setbacks, calls>>

\* raise_for_status, or the transport error of the last attempt.  A refusal of
\* the format is raised only when there is no dialect left.
Fail(c) ==
    /\ call[c].at = "create"
    /\ \/ Ends(c, [how |-> "client error"])
       \/ LastAttempt(c) /\ Ends(c, [how |-> "unavailable"])
       \/ Refused(c) /\ mode = "none" /\ Ends(c, [how |-> "format refused"])
       \/ ~Refused(c) /\ Ends(c, [how |-> "unreadable"])
    /\ UNCHANGED <<mode, usage, speaks, moved, setbacks, calls>>

\* Mutant: every attempt is counted as a call of the model.
ReceiveCountingAttempts(c) ==
    /\ call[c].at = "create" /\ ~Refused(c)
    /\ \E a \in Answers : Ends(c, [how |-> "answer", whole |-> TRUE, sent |-> a,
                                   response |-> Parsed(a)])
    /\ usage' = usage + 1 + call[c].attempt
    /\ UNCHANGED <<mode, speaks, moved, setbacks, calls>>

Receive(c) ==
    /\ call[c].at = "create" /\ ~Refused(c)
    /\ \E a \in Answers : Ends(c, [how |-> "answer", whole |-> TRUE, sent |-> a,
                                   response |-> Parsed(a)])
    /\ usage' = usage + 1
    /\ UNCHANGED <<mode, speaks, moved, setbacks, calls>>
-------------------------------------------------------------------------------
(* stream() neither retries nor degrades.                                     *)

\* The endpoint accepts the request and begins to send.
Opens(c) ==
    /\ call[c].at = "opens" /\ ~Refused(c)
    /\ \E s \in Streams : call' = [call EXCEPT ![c] = [at |-> "streams", of |-> s, got |-> 0]]
    /\ UNCHANGED <<mode, usage, parts, result, speaks, moved, setbacks, calls>>

Chunk(c) ==
    /\ call[c].at = "streams" /\ call[c].got < Len(call[c].of.chunks)
    /\ call' = [call EXCEPT ![c].got = @ + 1]
    /\ parts' = [parts EXCEPT ![c] = Added(@, call[c].of.chunks[call[c].got + 1],
                                           call[c].of.answer)]
    /\ UNCHANGED <<mode, usage, result, speaks, moved, setbacks, calls>>

\* An error status, or a transport error at any point
StreamFails(c) ==
    /\ \/ call[c].at = "opens"
          /\ Ends(c, [how |-> IF Refused(c) THEN "stream refused" ELSE "client error"])
       \/ call[c].at \in {"opens", "streams"} /\ Ends(c, [how |-> "unavailable"])
    /\ UNCHANGED <<mode, usage, speaks, moved, setbacks, calls>>

\* The stream is over: after [DONE], or because no more lines come.
StreamEnds(c) ==
    /\ call[c].at = "streams"
    /\ LET s == call[c].of
       IN  Ends(c, [how |-> "answer", whole |-> call[c].got = Len(s.chunks),
                    sent |-> s.answer,
                    response |-> Parsed(Assembled(parts[c]))])
    /\ usage' = usage + 1
    /\ UNCHANGED <<mode, speaks, moved, setbacks, calls>>

CallStep(c) ==
    \/ Retry(c) \/ Resend(c) \/ Degrade(c) \/ Fail(c) \/ Receive(c)
    \/ Opens(c) \/ Chunk(c) \/ StreamFails(c) \/ StreamEnds(c)

Next == \E c \in Callers : Create(c) \/ Stream(c) \/ CallStep(c)

Spec == Init /\ [][Next]_vars
-------------------------------------------------------------------------------
\* The types; an answer is counted once, whatever attempts it took.
TypeOK ==
    /\ mode \in Modes /\ speaks \subseteq Formats
    /\ usage \in 0..calls /\ calls \in 0..MaxCalls
    /\ \A c \in Callers :
           /\ call[c].at \in {"idle", "create", "pauses", "opens", "streams"}
           /\ Creating(c) => call[c].attempt \in 0..MaxAttempts - 1
           /\ call[c].at \in {"create", "pauses", "opens"} => call[c].format \in Formats
           /\ result[c].how \in {"none", "answer", "loop exited", "client error",
                                 "unavailable", "format refused", "stream refused", "unreadable"}
           /\ moved[c] \in BOOLEAN /\ setbacks[c] \in 0..MaxAttempts

\* openai_compat.py:118-124 and :462-468: whatever of the two dialects an endpoint
\* speaks, a create() that wants structured output ends with a refusal of its
\* format only if other calls of the client degraded the shared mode while it
\* was under way; and it runs out of attempts without any result only if all
\* but two of them met a busy endpoint or no reply.
FormatIsNegotiated ==
    \A c \in Callers :
        /\ result[c].how = "loop exited" => setbacks[c] >= MaxAttempts - 2
        /\ result[c].how = "format refused" => moved[c]

\* openai_compat.py:371-373 and :213-217: a stream's pieces, in any interleaving,
\* give the very response create() gives (but for a text of the reasoning alone,
\* which stream() drops); what a broken off stream has brought of a tool call is
\* never passed on as a call to be executed; and no two calls share an id.
ResponsesAreSound ==
    \A c \in Callers :
        result[c].how = "answer" =>
            LET r == result[c].response
            IN  /\ result[c].whole /\ result[c].sent.text # "reasoning"
                       => r = Parsed(result[c].sent)
                /\ r.stop = "tool_use" => r.calls = Parsed(result[c].sent).calls
                /\ IsInjective([n \in DOMAIN r.calls |-> r.calls[n].id])
===============================================================================
