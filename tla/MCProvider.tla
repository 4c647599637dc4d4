------------------------------ MODULE MCProvider ------------------------------
EXTENDS Provider

CONSTANTS x, p, q   \* a provider's id; two pieces of arguments

Call(id, args) == [id |-> id, args |-> args]

\* Three calls, with an id that the provider repeats and one that is what it would
\* become, two without ids, and texts
ThreeCalls == [text |-> "text", finish |-> "tool_calls",
               calls |-> <<Call(<<x>>, <<p, q>>), Call(<<x, 3>>, <<p>>), Call(<<x>>, <<q>>)>>]
CutCalls == [text |-> "none", calls |-> <<Call(<<>>, <<p>>), Call(<<>>, <<q>>)>>,
             finish |-> "length"]
Thought  == [text |-> "reasoning", calls |-> <<>>, finish |-> "stop"]

MCAnswers == {ThreeCalls, CutCalls, Thought}

Text == [k |-> "text"]
Piece(n, m) == [k |-> "call", n |-> n, p |-> m]
Finish == [k |-> "finish"]

\* The first answer in two interleavings, one beginning with the last call
MCStreams ==
    {[answer |-> ThreeCalls,
      chunks |-> <<Text, Piece(1, 1), Piece(2, 1), Piece(1, 2), Piece(3, 1), Finish>>],
     [answer |-> ThreeCalls,
      chunks |-> <<Piece(3, 1), Piece(1, 1), Text, Piece(1, 2), Piece(2, 1), Finish>>],
     [answer |-> CutCalls, chunks |-> <<Piece(1, 1), Piece(2, 1), Finish>>],
     [answer |-> Thought, chunks |-> <<Finish>>]}
===============================================================================
