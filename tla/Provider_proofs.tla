---------------------------- MODULE Provider_proofs ----------------------------
(* Theorems about Provider, for any callers, attempts, answers and streams.   *)
EXTENDS Provider, FiniteSetTheorems, WellFoundedInduction, TLAPS

\* What a call can be, between its steps
CreateRec == [at : {"create", "pauses"}, wants : BOOLEAN, attempt : Nat,
              format : Formats]
OpensRec == [at : {"opens"}, format : Formats]
StreamRec == [at : {"streams"}, of : Streams, got : Nat]
Calls == {Idle} \cup CreateRec \cup OpensRec \cup StreamRec

TypeInv == /\ mode \in Modes /\ speaks \subseteq Formats
           /\ call \in [Callers -> Calls]
           /\ DOMAIN result = Callers /\ result = [c \in Callers |-> result[c]]
           /\ moved \in [Callers -> BOOLEAN] /\ setbacks \in [Callers -> Nat]

\* How often the mode can still go down
Rank(m) == CASE m \in {"auto", "json_schema"} -> 2
             [] m = "json_object"             -> 1
             [] OTHER                         -> 0

\* The attempts of a call that met no setback
Spent(c) == call[c].attempt + (IF call[c].at = "pauses" THEN 1 ELSE 0) - setbacks[c]

\* What holds of one caller: its request asks for the format of the mode, if no other
\* call has moved it; the attempts that met no setback were spent on going down; and
\* its last call ended as FormatIsNegotiated says.
Negotiates(c) ==
    /\ Creating(c) =>
           /\ ~call[c].wants => call[c].format = "none"
           /\ call[c].wants /\ ~moved[c] => call[c].format = Shaped(mode)
           /\ Spent(c) + Rank(mode) <= 2
    /\ result[c].how = "loop exited" => setbacks[c] >= MaxAttempts - 2
    /\ result[c].how = "format refused" => moved[c]

IInv == TypeInv /\ \A c \in Callers : Negotiates(c)
-------------------------------------------------------------------------------
\* The invariant holds at the start.
LEMMA InitIInv == Init => IInv
<1>1. ASSUME Init PROVE TypeInv
  BY <1>1 DEF Init, TypeInv, Calls, Formats
<1>2. ASSUME Init, NEW c \in Callers PROVE Negotiates(c)
  BY <1>2 DEF Init, Negotiates, Creating, Idle, None
<1>3. QED
  BY <1>1, <1>2 DEF IInv

\* A mode has a format, and going down lowers it.
LEMMA Going ==
    ASSUME NEW m \in Modes
    PROVE  /\ Shaped(m) \in Formats /\ Degraded(m) \in Modes /\ Rank(m) \in 0..2
           /\ m # "none" => Rank(Degraded(m)) < Rank(m)
           /\ Shaped("none") = "none"
  BY DEF Modes, Formats, Shaped, Degraded, Rank

\* Another caller's step may move the mode, which is then remembered.
LEMMA OthersNegotiate ==
    ASSUME TypeInv, NEW d \in Callers, Negotiates(d), mode' \in Modes, Rank(mode') <= Rank(mode),
           call'[d] = call[d], result'[d] = result[d], setbacks'[d] = setbacks[d],
           moved[d] => moved'[d], mode' = mode \/ (Creating(d) => moved'[d])
    PROVE  Negotiates(d)'
<1>1. Creating(d) => call[d] \in CreateRec
  BY DEF TypeInv, Calls, Creating, Idle, OpensRec, StreamRec
<1>2. Creating(d)' <=> Creating(d)
  BY DEF Creating
<1>3. Creating(d) => Spent(d)' = Spent(d) /\ Spent(d) \in Int
  BY <1>1, ConstantsAssumption DEF Spent, CreateRec, TypeInv, ConstantsAssumption
<1>4. Rank(mode) \in Int /\ Rank(mode') \in Int
  BY Going DEF TypeInv
<1>5. ASSUME Creating(d) PROVE Spent(d)' + Rank(mode') <= 2
  <2>1. Spent(d) + Rank(mode) <= 2
    BY <1>5, Zenon DEF Negotiates
  <2>2. QED
    BY <1>3, <1>4, <1>5, <2>1
<1>6. ASSUME Creating(d), call[d].wants, ~moved'[d] PROVE call[d].format = Shaped(mode')
  BY <1>6 DEF Negotiates
<1>7. QED
  BY <1>2, <1>5, <1>6 DEF Negotiates

\* A caller that is in no create() after its step owes nothing but its result.
LEMMA EndedNegotiates ==
    ASSUME NEW c \in Callers, ~Creating(c)',
           result'[c].how = "loop exited" => setbacks'[c] >= MaxAttempts - 2,
           result'[c].how = "format refused" => moved'[c]
    PROVE  Negotiates(c)'
  BY DEF Negotiates
-------------------------------------------------------------------------------
(* The steps                                                                  *)

\* A caller's step leaves the other callers' calls, results and setbacks alone, and
\* moves the mode down if at all.
Others(c) ==
    \A d \in Callers \ {c} :
        /\ call'[d] = call[d] /\ result'[d] = result[d] /\ setbacks'[d] = setbacks[d]
        /\ moved[d] => moved'[d]
        /\ mode' = mode \/ (Creating(d) => moved'[d])

\* So each step is about its own caller.
LEMMA OneCaller ==
    ASSUME IInv, NEW c \in Callers, TypeInv', Rank(mode') <= Rank(mode), Others(c),
           Negotiates(c)'
    PROVE  IInv'
<1>1. ASSUME NEW d \in Callers \ {c} PROVE Negotiates(d)'
  BY <1>1, OthersNegotiate DEF IInv, TypeInv, Others
<1>2. QED
  BY <1>1 DEF IInv

\* How a call ends
LEMMA EndsIs ==
    ASSUME TypeInv, NEW c \in Callers, NEW how, Ends(c, how)
    PROVE  /\ call'[c] = Idle /\ result'[c] = how /\ ~Creating(c)'
           /\ \A d \in Callers \ {c} : call'[d] = call[d] /\ result'[d] = result[d]
           /\ call' \in [Callers -> Calls]
           /\ DOMAIN result' = Callers /\ result' = [d \in Callers |-> result'[d]]
  BY DEF Ends, TypeInv, Calls, Creating, Idle

\* Nothing else changes.
LEMMA RankKept == ASSUME TypeInv, mode' = mode PROVE Rank(mode') <= Rank(mode)
<1>1. Rank(mode) \in Int
  BY Going DEF TypeInv
<1>2. Rank(mode') = Rank(mode)
  OBVIOUS
<1>3. QED
  BY <1>1, <1>2

\* A call begins with the format of the mode and nothing spent.
LEMMA CreateInv == ASSUME IInv, NEW c \in Callers, Create(c) PROVE IInv'
<1>1. PICK wants \in BOOLEAN :
          Begins(c, [at |-> "create", wants |-> wants, attempt |-> 0,
                     format |-> Payload(wants)])
  BY DEF Create
<1> DEFINE r == [at |-> "create", wants |-> wants, attempt |-> 0, format |-> Payload(wants)]
<1>2. TypeInv /\ mode \in Modes
  BY DEF IInv, TypeInv
<1>3. Payload(wants) \in Formats
  BY <1>2, Going DEF Payload, Formats
<1>4. r \in CreateRec
  BY <1>3, ConstantsAssumption DEF CreateRec, ConstantsAssumption
<1>5. /\ r.at = "create" /\ r.wants = wants /\ r.attempt = 0 /\ r.format = Payload(wants)
  OBVIOUS
<1>6. /\ call' = [call EXCEPT ![c] = r] /\ result' = [result EXCEPT ![c] = None]
      /\ moved' = [moved EXCEPT ![c] = FALSE] /\ setbacks' = [setbacks EXCEPT ![c] = 0]
      /\ mode' = mode /\ speaks' = speaks
  BY <1>1 DEF Begins
<1> HIDE DEF r
<1>7. TypeInv'
  BY <1>2, <1>4, <1>6 DEF TypeInv, Calls
<1>8. /\ call'[c] = r /\ result'[c] = None /\ setbacks'[c] = 0 /\ Others(c)
  BY <1>2, <1>6 DEF TypeInv, Others
<1>9. Creating(c)' /\ Spent(c)' = 0
  BY <1>5, <1>8 DEF Creating, Spent
<1>10. Spent(c)' + Rank(mode') <= 2
  BY <1>2, <1>6, <1>9, Going
<1>11. result'[c].how = "none"
  BY <1>8 DEF None
<1>12. /\ call'[c].wants = wants /\ call'[c].format = IF wants THEN Shaped(mode') ELSE "none"
  BY <1>5, <1>6, <1>8 DEF Payload
<1>13. Negotiates(c)'
  BY <1>10, <1>11, <1>12 DEF Negotiates
<1>14. QED
  BY <1>2, <1>6, <1>7, <1>8, <1>13, OneCaller, RankKept

LEMMA StreamInv == ASSUME IInv, NEW c \in Callers, Stream(c) PROVE IInv'
<1>1. PICK wants \in BOOLEAN : Begins(c, [at |-> "opens", format |-> Payload(wants)])
  BY DEF Stream
<1> DEFINE r == [at |-> "opens", format |-> Payload(wants)]
<1>2. TypeInv /\ mode \in Modes
  BY DEF IInv, TypeInv
<1>3. Payload(wants) \in Formats
  BY <1>2, Going DEF Payload, Formats
<1>4. r \in OpensRec /\ r.at = "opens"
  BY <1>3 DEF OpensRec
<1>5. /\ call' = [call EXCEPT ![c] = r] /\ result' = [result EXCEPT ![c] = None]
      /\ moved' = [moved EXCEPT ![c] = FALSE] /\ setbacks' = [setbacks EXCEPT ![c] = 0]
      /\ mode' = mode /\ speaks' = speaks
  BY <1>1 DEF Begins
<1> HIDE DEF r
<1>6. TypeInv'
  BY <1>2, <1>4, <1>5 DEF TypeInv, Calls
<1>7. /\ ~Creating(c)' /\ result'[c] = None /\ Others(c)
  BY <1>2, <1>4, <1>5 DEF TypeInv, Others, Creating
<1>8. result'[c].how = "none"
  BY <1>7 DEF None
<1>9. Negotiates(c)'
  BY <1>7, <1>8, EndedNegotiates
<1>10. QED
  BY <1>2, <1>5, <1>6, <1>7, <1>9, OneCaller, RankKept

\* Only a create() has its places.
LEMMA CreateRecOf ==
    ASSUME TypeInv, NEW c \in Callers, Creating(c) PROVE call[c] \in CreateRec
  BY DEF TypeInv, Calls, Creating, Idle, OpensRec, StreamRec

\* A pause is a setback, and the attempt after it is not one that went down.
LEMMA RetryInv == ASSUME IInv, NEW c \in Callers, Retry(c) PROVE IInv'
<1> DEFINE r == [call[c] EXCEPT !.at = "pauses"]
<1>1. TypeInv /\ Negotiates(c) /\ Creating(c) /\ call[c].at = "create"
  BY DEF IInv, Retry, Creating
<1>2. call[c] \in CreateRec
  BY <1>1, CreateRecOf
<1>3. /\ r \in CreateRec /\ r.at = "pauses" /\ r.attempt = call[c].attempt
      /\ r.wants = call[c].wants /\ r.format = call[c].format
  BY <1>2 DEF CreateRec
<1>4. /\ call' = [call EXCEPT ![c] = r] /\ setbacks' = [setbacks EXCEPT ![c] = setbacks[c] + 1]
      /\ mode' = mode /\ speaks' = speaks /\ moved' = moved /\ result' = result
  BY DEF Retry
<1> HIDE DEF r
<1>5. TypeInv'
  BY <1>1, <1>3, <1>4 DEF TypeInv, Calls
<1>6. call'[c] = r /\ setbacks'[c] = setbacks[c] + 1 /\ setbacks[c] \in Nat /\ Others(c)
  BY <1>1, <1>4 DEF TypeInv, Others
<1>7. Creating(c)' /\ Spent(c)' = Spent(c)
  BY <1>1, <1>2, <1>3, <1>6, ConstantsAssumption DEF Creating, Spent, CreateRec,
     ConstantsAssumption
<1>8. setbacks[c] >= MaxAttempts - 2 => setbacks'[c] >= MaxAttempts - 2
  BY <1>6, ConstantsAssumption DEF ConstantsAssumption
<1>9. Negotiates(c)'
  BY <1>1, <1>3, <1>4, <1>6, <1>7, <1>8 DEF Negotiates
<1>10. QED
  BY <1>1, <1>4, <1>5, <1>6, <1>9, OneCaller, RankKept

LEMMA ResendInv == ASSUME IInv, NEW c \in Callers, Resend(c) PROVE IInv'
<1> DEFINE r == [call[c] EXCEPT !.at = "create", !.attempt = @ + 1]
<1>1. TypeInv /\ Negotiates(c) /\ Creating(c) /\ call[c].at = "pauses"
  BY DEF IInv, Resend, Creating
<1>2. call[c] \in CreateRec
  BY <1>1, CreateRecOf
<1>3. /\ r.at = "create" /\ r.attempt = call[c].attempt + 1
      /\ r.wants = call[c].wants /\ r.format = call[c].format
  BY <1>2 DEF CreateRec
<1>4. /\ call' = [call EXCEPT ![c] = r] /\ setbacks' = setbacks
      /\ mode' = mode /\ speaks' = speaks /\ moved' = moved /\ result' = result
  BY DEF Resend
<1>5. r \in CreateRec
  <2> DEFINE n == call[c].attempt + 1
  <2>1. n \in Nat
    BY <1>2 DEF CreateRec
  <2>2. r = [call[c] EXCEPT !.at = "create", !.attempt = n]
    OBVIOUS
  <2> HIDE DEF n, r
  <2>3. QED
    BY <1>2, <2>1, <2>2 DEF CreateRec
<1> HIDE DEF r
<1>6. TypeInv'
  BY <1>1, <1>4, <1>5 DEF TypeInv, Calls
<1>7. call'[c] = r /\ Others(c)
  BY <1>1, <1>4 DEF TypeInv, Others
<1>8. setbacks[c] \in Nat /\ call[c].attempt \in Nat
  BY <1>1, <1>2 DEF TypeInv, CreateRec
<1>9. Creating(c)' /\ Spent(c)' = Spent(c)
  BY <1>1, <1>3, <1>4, <1>7, <1>8 DEF Creating, Spent
<1>10. Negotiates(c)'
  BY <1>1, <1>3, <1>4, <1>7, <1>9 DEF Negotiates
<1>11. QED
  BY <1>1, <1>4, <1>6, <1>7, <1>10, OneCaller, RankKept

\* Going down spends an attempt and a rank, makes the next request anew, and is
\* remembered by every other create() under way.
LEMMA DegradeInv == ASSUME IInv, NEW c \in Callers, Degrade(c) PROVE IInv'
<1>1. /\ TypeInv /\ Negotiates(c) /\ Creating(c) /\ call[c].at = "create"
      /\ mode \in Modes /\ mode # "none" /\ call[c].wants
  BY DEF IInv, TypeInv, Degrade, Creating
<1>2. call[c] \in CreateRec
  BY <1>1, CreateRecOf
<1>3. /\ mode' = Degraded(mode) /\ speaks' = speaks /\ setbacks' = setbacks
      /\ moved' = [d \in Callers |-> moved[d] \/ (d # c /\ Creating(d))]
  BY DEF Degrade
<1>4. /\ mode' \in Modes /\ Rank(mode') < Rank(mode) /\ Rank(mode') \in 0..2
      /\ Rank(mode) \in 0..2 /\ Shaped(mode') \in Formats
  <2>1. mode' \in Modes
    BY <1>1, <1>3, Going
  <2>2. QED
    BY <1>1, <1>3, <2>1, Going
<1>5. moved' \in [Callers -> BOOLEAN] /\ moved'[c] = moved[c]
  BY <1>1, <1>3 DEF TypeInv, Creating
<1>6. Spent(c) + Rank(mode) <= 2 /\ Spent(c) = call[c].attempt - setbacks[c]
  <2>1. Spent(c) + Rank(mode) <= 2
    BY <1>1, Zenon DEF Negotiates
  <2>2. QED
    BY <1>1, <1>2, <2>1 DEF Spent, TypeInv, CreateRec
<1>7. setbacks[c] \in Nat /\ call[c].attempt \in Nat /\ MaxAttempts \in Nat
  BY <1>1, <1>2, ConstantsAssumption DEF TypeInv, CreateRec, ConstantsAssumption
<1>8. CASE LastAttempt(c)
  <2> DEFINE how == [how |-> "loop exited"]
  <2>1. Ends(c, how) /\ how.how = "loop exited"
    BY <1>8 DEF Degrade
  <2> HIDE DEF how
  <2>2. /\ result'[c] = how /\ ~Creating(c)'
        /\ \A d \in Callers \ {c} : call'[d] = call[d] /\ result'[d] = result[d]
        /\ call' \in [Callers -> Calls]
        /\ DOMAIN result' = Callers /\ result' = [d \in Callers |-> result'[d]]
    BY <1>1, <2>1, EndsIs
  <2>3. TypeInv' /\ Others(c)
    BY <1>1, <1>3, <1>4, <1>5, <2>2 DEF TypeInv, Others
  <2>4. setbacks'[c] >= MaxAttempts - 2
    BY <1>3, <1>4, <1>6, <1>7, <1>8 DEF LastAttempt
  <2>5. result'[c].how = "loop exited"
    BY <2>1, <2>2
  <2>6. Negotiates(c)'
    BY <2>2, <2>4, <2>5, EndedNegotiates
  <2>7. QED
    BY <1>4, <2>3, <2>6, OneCaller
<1>9. CASE ~LastAttempt(c)
  <2> DEFINE r == [call[c] EXCEPT !.attempt = @ + 1, !.format = Shaped(mode')]
  <2>1. call' = [call EXCEPT ![c] = r] /\ result' = result
    BY <1>9 DEF Degrade
  <2>2. /\ r \in CreateRec /\ r.at = "create" /\ r.attempt = call[c].attempt + 1
        /\ r.wants = call[c].wants /\ r.format = Shaped(mode')
    <3> DEFINE n == call[c].attempt + 1
               f == Shaped(mode')
    <3>1. n \in Nat /\ f \in Formats
      BY <1>4, <1>7
    <3>2. r = [call[c] EXCEPT !.attempt = n, !.format = f]
      OBVIOUS
    <3> HIDE DEF n, f, r
    <3>3. /\ r \in CreateRec /\ r.at = call[c].at /\ r.attempt = n
          /\ r.wants = call[c].wants /\ r.format = f
      BY <1>2, <3>1, <3>2 DEF CreateRec
    <3>4. QED
      BY <1>1, <3>3 DEF n, f
  <2> HIDE DEF r
  <2>3. TypeInv' /\ Others(c) /\ call'[c] = r
    BY <1>1, <1>3, <1>4, <1>5, <2>1, <2>2 DEF TypeInv, Others, Calls
  <2>4. Creating(c)' /\ Spent(c)' + Rank(mode') <= 2
    BY <1>3, <1>4, <1>6, <1>7, <2>2, <2>3 DEF Creating, Spent
  <2>5. Negotiates(c)'
    BY <1>1, <1>3, <1>5, <2>1, <2>2, <2>3, <2>4 DEF Negotiates
  <2>6. QED
    BY <1>4, <2>3, <2>5, OneCaller
<1>10. QED
  BY <1>8, <1>9

\* What the other ends of a call leave alone
LEMMA EndInv ==
    ASSUME IInv, NEW c \in Callers, NEW how, Ends(c, how), mode' = mode, speaks' = speaks,
           moved' = moved, setbacks' = setbacks, how.how # "loop exited",
           how.how = "format refused" => moved[c]
    PROVE  IInv'
<1>1. /\ TypeInv
      /\ result'[c] = how /\ ~Creating(c)'
      /\ \A d \in Callers \ {c} : call'[d] = call[d] /\ result'[d] = result[d]
      /\ call' \in [Callers -> Calls]
      /\ DOMAIN result' = Callers /\ result' = [d \in Callers |-> result'[d]]
  BY EndsIs DEF IInv
<1>2. TypeInv' /\ Others(c)
  BY <1>1 DEF TypeInv, Others
<1>3. Negotiates(c)'
  BY <1>1, EndedNegotiates
<1>4. QED
  BY <1>1, <1>2, <1>3, OneCaller, RankKept

\* A refusal of the format that is raised was of a format the mode is no longer in:
\* in mode "none" a request of the mode's format cannot be refused.
LEMMA FailInv == ASSUME IInv, NEW c \in Callers, Fail(c) PROVE IInv'
<1>1. /\ TypeInv /\ Negotiates(c) /\ Creating(c) /\ mode' = mode /\ speaks' = speaks
      /\ moved' = moved /\ setbacks' = setbacks
  BY DEF IInv, Fail, Creating
<1>2. CASE Refused(c) /\ mode = "none" /\ Ends(c, [how |-> "format refused"])
  <2>1. call[c] \in CreateRec
    BY <1>1, CreateRecOf
  <2>2. call[c].format # "none"
    BY <1>2 DEF Refused
  <2>3. moved[c]
    BY <1>1, <1>2, <2>1, <2>2, Going DEF Negotiates, CreateRec, Modes
  <2>4. QED
    BY <1>1, <1>2, <2>3, EndInv
<1>3. CASE \E h \in {"client error", "unavailable", "unreadable"} : Ends(c, [how |-> h])
  BY <1>1, <1>3, EndInv
<1>4. QED
  BY <1>2, <1>3 DEF Fail

LEMMA ReceiveInv == ASSUME IInv, NEW c \in Callers, Receive(c) PROVE IInv'
<1>1. PICK a \in Answers : Ends(c, [how |-> "answer", whole |-> TRUE, sent |-> a,
                                    response |-> Parsed(a)])
  BY DEF Receive
<1> DEFINE how == [how |-> "answer", whole |-> TRUE, sent |-> a, response |-> Parsed(a)]
<1>2. how.how = "answer" /\ Ends(c, how)
  BY <1>1
<1>3. mode' = mode /\ speaks' = speaks /\ moved' = moved /\ setbacks' = setbacks
  BY DEF Receive
<1> HIDE DEF how
<1>4. QED
  BY <1>2, <1>3, EndInv

\* A stream's steps are not about formats; its call is not a create().
LEMMA StreamsOn ==
    ASSUME IInv, NEW c \in Callers, NEW r \in StreamRec, call' = [call EXCEPT ![c] = r],
           mode' = mode, speaks' = speaks, moved' = moved, setbacks' = setbacks, result' = result
    PROVE  IInv'
<1>1. TypeInv /\ Negotiates(c) /\ r.at = "streams"
  BY DEF IInv, StreamRec
<1>2. TypeInv' /\ Others(c) /\ ~Creating(c)'
  BY <1>1 DEF TypeInv, Calls, Others, Creating
<1>3. Negotiates(c)'
  BY <1>1, <1>2 DEF Negotiates
<1>4. QED
  BY <1>1, <1>2, <1>3, OneCaller, RankKept

LEMMA OpensInv == ASSUME IInv, NEW c \in Callers, Opens(c) PROVE IInv'
<1>1. PICK s \in Streams : call' = [call EXCEPT ![c] = [at |-> "streams", of |-> s, got |-> 0]]
  BY DEF Opens
<1>2. [at |-> "streams", of |-> s, got |-> 0] \in StreamRec
  BY DEF StreamRec
<1>3. QED
  BY <1>1, <1>2, StreamsOn DEF Opens

LEMMA ChunkInv == ASSUME IInv, NEW c \in Callers, Chunk(c) PROVE IInv'
<1> DEFINE n == call[c].got + 1
           r == [call[c] EXCEPT !.got = n]
<1>1. call[c] \in StreamRec
  BY DEF IInv, TypeInv, Calls, Chunk, Idle, CreateRec, OpensRec
<1>2. call' = [call EXCEPT ![c] = r]
  BY DEF Chunk
<1>3. n \in Nat
  BY <1>1 DEF StreamRec
<1> HIDE DEF n
<1>4. r \in StreamRec
  BY <1>1, <1>3 DEF StreamRec
<1> HIDE DEF r
<1>5. QED
  BY <1>2, <1>4, StreamsOn DEF Chunk

LEMMA StreamFailsInv == ASSUME IInv, NEW c \in Callers, StreamFails(c) PROVE IInv'
<1>1. \E h \in {"stream refused", "client error", "unavailable"} : Ends(c, [how |-> h])
  BY DEF StreamFails
<1>2. mode' = mode /\ speaks' = speaks /\ moved' = moved /\ setbacks' = setbacks
  BY DEF StreamFails
<1>3. QED
  BY <1>1, <1>2, EndInv

LEMMA StreamEndsInv == ASSUME IInv, NEW c \in Callers, StreamEnds(c) PROVE IInv'
<1>1. PICK how : how.how = "answer" /\ Ends(c, how)
  <2> DEFINE h == [how |-> "answer", whole |-> call[c].got = Len(call[c].of.chunks),
                   sent |-> call[c].of.answer,
                   response |-> Parsed(Assembled(parts[c]))]
  <2>1. Ends(c, h) /\ h.how = "answer"
    BY DEF StreamEnds
  <2> HIDE DEF h
  <2>2. QED
    BY <2>1
<1>2. mode' = mode /\ speaks' = speaks /\ moved' = moved /\ setbacks' = setbacks
  BY DEF StreamEnds
<1>3. QED
  BY <1>1, <1>2, EndInv
-------------------------------------------------------------------------------
\* The invariant is inductive.
LEMMA Inductive == Spec => []IInv
<1>1. ASSUME IInv, UNCHANGED vars PROVE IInv'
  <2>1. TypeInv'
    BY <1>1 DEF vars, IInv, TypeInv
  <2>2. ASSUME NEW c \in Callers PROVE Negotiates(c)'
    BY <1>1, <2>2, OthersNegotiate, RankKept DEF vars, IInv, TypeInv
  <2>3. QED
    BY <2>1, <2>2 DEF IInv
<1>2. ASSUME IInv, Next PROVE IInv'
  BY <1>2, CreateInv, StreamInv, RetryInv, ResendInv, DegradeInv, FailInv, ReceiveInv, OpensInv,
     ChunkInv, StreamFailsInv, StreamEndsInv DEF Next, CallStep
<1>3. QED
  BY <1>1, <1>2, InitIInv, PTL DEF Spec

\* openai_compat.py:118-124 and :462-468: for any number of callers and attempts and
\* an endpoint that speaks any of the formats, a create() is refused its format only
\* if another call moved the mode meanwhile, and going down costs it two attempts at
\* the most.
THEOREM Negotiated == Spec => []FormatIsNegotiated
<1>1. IInv => FormatIsNegotiated
  BY DEF IInv, Negotiates, FormatIsNegotiated
<1>2. QED
  BY <1>1, Inductive, PTL
-------------------------------------------------------------------------------
(* The ids of a response                                                      *)

\* Of numbers there is a least.
LEMMA LeastNumber == ASSUME NEW S \in SUBSET Nat, S # {} PROVE \E m \in S : \A k \in S : m <= k
<1> DEFINE R == OpToRel(<, Nat)
<1>1. IsWellFoundedOn(R, Nat)
  BY NatLessThanWellFounded, Zenon
<1>2. ASSUME NEW k \in Nat, NEW m \in Nat, k < m PROVE <<k, m>> \in R
  BY <1>2 DEF OpToRel
<1> HIDE DEF R
<1>3. PICK m \in S : \A k \in S : ~(<<k, m>> \in R)
  BY <1>1, WFMin
<1>4. ASSUME NEW k \in S PROVE m <= k
  <2>1. ~(k < m)
    BY <1>2, <1>3, <1>4
  <2>2. QED
    BY <2>1
<1>5. QED
  BY <1>4

\* The ids of the first M calls
Made(ids, f, M) == f = [n \in 1..M |-> NewId(ids, n, {f[m] : m \in 1..n - 1})]

LEMMA NoneMade == ASSUME NEW ids PROVE Made(ids, [n \in 1..0 |-> n], 0)
<1>1. 1..0 = {}
  OBVIOUS
<1> DEFINE f == [n \in 1..0 |-> n]
           g == [n \in 1..0 |-> NewId(ids, n, {f[m] : m \in 1..n - 1})]
<1>2. DOMAIN f = DOMAIN g /\ \A n \in DOMAIN f : f[n] = g[n]
  BY <1>1
<1>3. f = g
  BY <1>2
<1>4. QED
  BY <1>3 DEF Made

LEMMA OneMoreMade ==
    ASSUME NEW ids, NEW M \in Nat \ {0}, NEW g, Made(ids, g, M - 1)
    PROVE  \E f : Made(ids, f, M)
<1> DEFINE f == [n \in 1..M |-> IF n = M THEN NewId(ids, M, {g[m] : m \in 1..M - 1}) ELSE g[n]]
           h == [n \in 1..M |-> NewId(ids, n, {f[m] : m \in 1..n - 1})]
<1>1. ASSUME NEW n \in 1..M PROVE {f[m] : m \in 1..n - 1} = {g[m] : m \in 1..n - 1}
  <2>1. \A m \in 1..n - 1 : m \in 1..M /\ m # M
    OBVIOUS
  <2>2. \A m \in 1..n - 1 : f[m] = g[m]
    BY <2>1
  <2> HIDE DEF f
  <2>3. QED
    BY <2>2
<1>2. ASSUME NEW n \in 1..M, n # M
      PROVE  g[n] = NewId(ids, n, {g[m] : m \in 1..n - 1})
  <2>1. n \in 1..M - 1
    BY <1>2
  <2>2. QED
    BY <2>1 DEF Made
<1>3. ASSUME NEW n \in 1..M PROVE f[n] = NewId(ids, n, {g[m] : m \in 1..n - 1})
  <2>1. CASE n = M
    BY <2>1
  <2>2. CASE n # M
    BY <1>2, <2>2
  <2>3. QED
    BY <2>1, <2>2
<1>4. ASSUME NEW n \in 1..M PROVE f[n] = h[n]
  <2> HIDE DEF f
  <2>1. h[n] = NewId(ids, n, {f[m] : m \in 1..n - 1})
    OBVIOUS
  <2>2. QED
    BY <1>1, <1>3, <2>1
<1>5. DOMAIN f = 1..M /\ DOMAIN h = 1..M /\ f = [n \in 1..M |-> f[n]] /\ h = [n \in 1..M |-> h[n]]
  OBVIOUS
<1> HIDE DEF f
<1>6. f = h
  <2> HIDE DEF h
  <2>1. QED
    BY <1>4, <1>5
<1>7. QED
  BY <1>6 DEF Made

LEMMA UniqueIs ==
    ASSUME NEW N \in Nat, NEW ids, DOMAIN ids = 1..N
    PROVE  Unique(ids) = [n \in 1..N |-> NewId(ids, n, {Unique(ids)[m] : m \in 1..n - 1})]
<1> DEFINE Missing == {M \in 0..N : \A f : ~Made(ids, f, M)}
<1>1. Missing = {}
  <2> SUFFICES ASSUME Missing # {} PROVE FALSE
    OBVIOUS
  <2>1. Missing \in SUBSET Nat
    OBVIOUS
  <2> HIDE DEF Missing
  <2>2. PICK M \in Missing : \A K \in Missing : M <= K
    BY <2>1, LeastNumber
  <2> USE DEF Missing
  <2>3. M \in 0..N /\ M # 0 /\ \A f : ~Made(ids, f, M)
    BY <2>2, NoneMade
  <2>4. M - 1 \in 0..N /\ ~(M <= M - 1)
    BY <2>3
  <2>5. M - 1 \notin Missing
    <3> HIDE DEF Missing
    <3>1. QED
      BY <2>2, <2>4
  <2>6. PICK g : Made(ids, g, M - 1)
    BY <2>4, <2>5
  <2>7. QED
    BY <2>3, <2>6, OneMoreMade
<1>2. N \in 0..N
  OBVIOUS
<1>3. \E f : Made(ids, f, N)
  BY <1>1, <1>2
<1>4. Unique(ids) = CHOOSE f : Made(ids, f, N)
  BY Zenon DEF Unique, Made
<1>5. Made(ids, Unique(ids), N)
  BY <1>3, <1>4, Zenon
<1>6. QED
  BY <1>5 DEF Made

\* An id is longer, the more is appended.
LEMMA SuffixedDiffer ==
    ASSUME NEW ids, NEW n, IsSeq(ids[n]), NEW j \in Nat, NEW k \in Nat,
           Suffixed(ids, n, j) = Suffixed(ids, n, k)
    PROVE  j = k
<1> DEFINE given == IF ids[n] = <<>> THEN <<"uuid", n>> ELSE ids[n]
           X == {ids[n][m] : m \in DOMAIN ids[n]} \cup {"uuid", n}
           Suffix(l) == [m \in 1..l |-> n]
<1>1. given \in Seq(X)
  <2>1. CASE ids[n] = <<>>
    BY <2>1
  <2>2. CASE ids[n] # <<>>
    BY <2>2 DEF IsSeq
  <2>3. QED
    BY <2>1, <2>2
<1>2. \A l \in Nat : Suffix(l) \in Seq(X) /\ Len(Suffix(l)) = l
  OBVIOUS
<1>3. \A l \in Nat : Suffixed(ids, n, l) = given \o Suffix(l)
  BY DEF Suffixed
<1> HIDE DEF given, X, Suffix
<1>4. ASSUME NEW l \in Nat PROVE Len(Suffixed(ids, n, l)) = Len(given) + l
  <2>1. Suffix(l) \in Seq(X) /\ Len(Suffix(l)) = l
    BY <1>2
  <2>2. Len(given \o Suffix(l)) = Len(given) + l
    BY <1>1, <2>1
  <2>3. QED
    BY <1>3, <2>2
<1>5. Len(given) \in Nat
  BY <1>1
<1>6. Len(given) + j = Len(given) + k
  BY <1>4
<1>7. QED
  BY <1>5, <1>6

\* No id is new in vain: fewer calls are there than ways to append.
LEMMA NewIsNew ==
    ASSUME NEW ids, NEW n \in Nat \ {0}, IsSeq(ids[n]), NEW tid,
           NEW used, used = {tid[m] : m \in 1..n - 1}
    PROVE  NewId(ids, n, used) \notin used
<1> DEFINE Free == {k \in 0..n - 1 : Suffixed(ids, n, k) \notin used}
<1>1. Free # {}
  <2> SUFFICES ASSUME Free = {} PROVE FALSE
    OBVIOUS
  <2>1. \A k \in 0..n - 1 : \E m \in 1..n - 1 : tid[m] = Suffixed(ids, n, k)
    OBVIOUS
  <2> DEFINE f == [k \in 0..n - 1 |-> CHOOSE m \in 1..n - 1 : tid[m] = Suffixed(ids, n, k)]
  <2>2. \A k \in 0..n - 1 : f[k] \in 1..n - 1 /\ tid[f[k]] = Suffixed(ids, n, k)
    BY <2>1
  <2>3. f \in [0..n - 1 -> 1..n - 1]
    BY <2>2
  <2> HIDE DEF f
  <2>4. /\ IsFiniteSet(0..n - 1) /\ Cardinality(0..n - 1) = n
        /\ IsFiniteSet(1..n - 1) /\ Cardinality(1..n - 1) = n - 1
    <3>1. 0 \in Int /\ 1 \in Int /\ n - 1 \in Int /\ ~(0 > n - 1) /\ (n - 1) - 0 + 1 = n
          /\ (n - 1) - 1 + 1 = n - 1 /\ (1 > n - 1 => n - 1 = 0)
      OBVIOUS
    <3>2. /\ IsFiniteSet(0..n - 1)
          /\ Cardinality(0..n - 1) = IF 0 > n - 1 THEN 0 ELSE (n - 1) - 0 + 1
      BY <3>1, FS_Interval
    <3>3. /\ IsFiniteSet(1..n - 1)
          /\ Cardinality(1..n - 1) = IF 1 > n - 1 THEN 0 ELSE (n - 1) - 1 + 1
      BY <3>1, FS_Interval
    <3>4. QED
      BY <3>1, <3>2, <3>3
  <2>5. Cardinality(1..n - 1) < Cardinality(0..n - 1)
    BY <2>4
  <2>6. PICK j, k \in 0..n - 1 : j # k /\ f[j] = f[k]
    <3> DEFINE S == 0..n - 1
               T == 1..n - 1
    <3>1. IsFiniteSet(S) /\ IsFiniteSet(T) /\ Cardinality(T) < Cardinality(S) /\ f \in [S -> T]
      BY <2>3, <2>4, <2>5
    <3> HIDE DEF S, T
    <3>2. \E j, k \in S : j # k /\ f[j] = f[k]
      BY <3>1, FS_PigeonHole
    <3>3. QED
      BY <3>2 DEF S
  <2>7. Suffixed(ids, n, j) = Suffixed(ids, n, k) /\ j \in Nat /\ k \in Nat
    BY <2>2, <2>6
  <2>8. QED
    BY <2>6, <2>7, SuffixedDiffer
<1>2. Free \in SUBSET Nat
  OBVIOUS
<1>3. PICK k \in Free : \A j \in Free : k <= j
  <2> HIDE DEF Free
  <2>1. QED
    BY <1>1, <1>2, LeastNumber
<1>4. k \in 0..n - 1 /\ Suffixed(ids, n, k) \notin used
  BY <1>3
<1>5. ASSUME NEW j \in 0..k - 1 PROVE Suffixed(ids, n, j) \in used
  <2>1. j \in 0..n - 1 /\ ~(k <= j)
    BY <1>4, <1>5
  <2>2. QED
    BY <1>3, <2>1
<1> DEFINE Least(l) == /\ Suffixed(ids, n, l) \notin used
                       /\ \A j \in 0..l - 1 : Suffixed(ids, n, j) \in used
           least == CHOOSE l \in 0..n - 1 : Least(l)
<1>6. Least(k)
  BY <1>4, <1>5
<1>7. NewId(ids, n, used) = Suffixed(ids, n, least)
  BY Zenon DEF NewId
<1> HIDE DEF Least
<1>8. Least(least)
  BY <1>4, <1>6, Zenon
<1>9. QED
  BY <1>7, <1>8 DEF Least

\* openai_compat.py:205-223: no two calls of a response share an id.
LEMMA UniqueInjective ==
    ASSUME NEW N \in Nat, NEW ids, DOMAIN ids = 1..N, \A n \in 1..N : IsSeq(ids[n])
    PROVE  /\ DOMAIN Unique(ids) = 1..N
           /\ \A m, n \in 1..N : Unique(ids)[m] = Unique(ids)[n] => m = n
<1> DEFINE u == Unique(ids)
           used(n) == {u[m] : m \in 1..n - 1}
<1>1. u = [n \in 1..N |-> NewId(ids, n, used(n))]
  BY UniqueIs
<1> HIDE DEF u, used
<1>2. ASSUME NEW n \in 1..N PROVE u[n] \notin used(n)
  <2>1. n \in Nat \ {0} /\ u[n] = NewId(ids, n, used(n))
    BY <1>1
  <2>2. IsSeq(ids[n])
    OBVIOUS
  <2>3. NewId(ids, n, used(n)) \notin used(n)
    BY <2>1, <2>2, NewIsNew DEF used
  <2>4. QED
    BY <2>1, <2>3
<1>3. ASSUME NEW m \in 1..N, NEW n \in 1..N, m < n PROVE u[m] # u[n]
  <2>1. m \in 1..n - 1
    BY <1>3
  <2>2. u[m] \in used(n)
    BY <2>1 DEF used
  <2>3. QED
    BY <1>2, <2>2
<1>4. ASSUME NEW m \in 1..N, NEW n \in 1..N, u[m] = u[n] PROVE m = n
  <2>1. ~(m < n) /\ ~(n < m)
    BY <1>3, <1>4
  <2>2. QED
    BY <2>1
<1>5. QED
  BY <1>1, <1>4 DEF u

-------------------------------------------------------------------------------
(* sorted(tool_calls.items())                                                 *)

UpTo(S, n) == {m \in S : m <= n}

\* Above the first numbers of a set there is a next one, if that is not all of it.
LEMMA NextOne ==
    ASSUME NEW S \in SUBSET Nat, IsFiniteSet(S), NEW U \in SUBSET S, U # S,
           \A m \in U, n \in S : n <= m => n \in U
    PROVE  \E n \in S : Cardinality(UpTo(S, n)) = Cardinality(U) + 1
<1> DEFINE High == S \ U
<1>1. High # {} /\ High \in SUBSET Nat
  OBVIOUS
<1> HIDE DEF High
<1>2. PICK n \in High : \A m \in High : n <= m
  BY <1>1, LeastNumber
<1> USE DEF High
<1>3. n \in S /\ n \notin U /\ n \in Nat
  OBVIOUS
<1>4. ASSUME NEW m \in S PROVE m <= n <=> m \in U \/ m = n
  BY <1>2, <1>3
<1>5. UpTo(S, n) = U \cup {n}
  BY <1>3, <1>4 DEF UpTo
<1>6. IsFiniteSet(U)
  BY FS_Subset
<1>7. Cardinality(U \cup {n}) = Cardinality(U) + 1
  BY <1>3, <1>6, FS_AddElement
<1>8. QED
  BY <1>3, <1>5, <1>7

\* So one has any number of them up to it.
LEMMA NthExists ==
    ASSUME NEW S \in SUBSET Nat, IsFiniteSet(S), NEW p \in 1..Cardinality(S)
    PROVE  \E n \in S : Cardinality(UpTo(S, n)) = p
<1> DEFINE Missing == {q \in 1..Cardinality(S) : \A n \in S : Cardinality(UpTo(S, n)) # q}
<1> SUFFICES ASSUME Missing # {} PROVE FALSE
  OBVIOUS
<1>1. Cardinality(S) \in Nat
  BY FS_CardinalityType
<1>2. Missing \in SUBSET Nat
  OBVIOUS
<1> HIDE DEF Missing
<1>3. PICK q \in Missing : \A r \in Missing : q <= r
  BY <1>2, LeastNumber
<1>4. q \in 1..Cardinality(S) /\ \A n \in S : Cardinality(UpTo(S, n)) # q
  BY DEF Missing
<1>5. PICK U \in SUBSET S : /\ Cardinality(U) = q - 1
                            /\ \A m \in U, n \in S : n <= m => n \in U
  <2>1. CASE q = 1
    BY <2>1, FS_EmptySet
  <2>2. CASE q # 1
    <3>1. q - 1 \in 1..Cardinality(S) /\ ~(q <= q - 1)
      BY <1>1, <1>4, <2>2
    <3>2. q - 1 \notin Missing
      BY <1>3, <3>1
    <3>3. PICK b \in S : Cardinality(UpTo(S, b)) = q - 1
      BY <3>1, <3>2 DEF Missing
    <3>4. \A m \in UpTo(S, b), n \in S : n <= m => n \in UpTo(S, b)
      BY DEF UpTo
    <3>5. UpTo(S, b) \in SUBSET S
      BY DEF UpTo
    <3>6. QED
      BY <3>3, <3>4, <3>5
  <2>3. QED
    BY <2>1, <2>2
<1>6. U # S
  BY <1>1, <1>4, <1>5
<1>7. PICK n \in S : Cardinality(UpTo(S, n)) = Cardinality(U) + 1
  BY <1>5, <1>6, NextOne
<1>8. Cardinality(UpTo(S, n)) = q
  BY <1>1, <1>4, <1>5, <1>7
<1>9. QED
  BY <1>4, <1>8

\* What is sorted are the slots, each at its place if they are those of 1..N.
LEMMA NthIs ==
    ASSUME NEW slots, DOMAIN slots \in SUBSET Nat, IsFiniteSet(DOMAIN slots),
           NEW p \in 1..Cardinality(DOMAIN slots)
    PROVE  /\ \E n \in DOMAIN slots : Nth(slots, p) = slots[n]
           /\ \A N \in Nat : DOMAIN slots = 1..N => Nth(slots, p) = slots[p]
<1> DEFINE D == DOMAIN slots
           At(n) == Cardinality(UpTo(D, n)) = p
           n0 == CHOOSE n \in D : At(n)
<1>1. \E n \in D : At(n)
  BY NthExists
<1>2. Nth(slots, p) = slots[n0]
  BY DEF Nth, UpTo
<1>3. n0 \in D /\ At(n0)
  <2> HIDE DEF At, D
  <2>1. QED
    BY <1>1
<1>4. ASSUME NEW N \in Nat, D = 1..N PROVE n0 = p
  <2> HIDE DEF n0
  <2>1. n0 \in 1..N /\ n0 \in Int /\ 1 \in Int
    BY <1>3, <1>4
  <2>2. UpTo(1..N, n0) = 1..n0
    BY <2>1 DEF UpTo
  <2>3. Cardinality(1..n0) = n0
    <3>1. Cardinality(1..n0) = IF 1 > n0 THEN 0 ELSE n0 - 1 + 1
      BY <2>1, FS_Interval
    <3>2. QED
      BY <2>1, <3>1
  <2>4. QED
    BY <1>3, <1>4, <2>2, <2>3
<1> HIDE DEF n0
<1>5. QED
  BY <1>2, <1>3, <1>4

-------------------------------------------------------------------------------
(* What a stream has brought                                                  *)

\* The chunks 1..g of a stream are put together so far: the text and the finish
\* reason if they were among them, and of every call the pieces that were.
IsPart(whole, args) ==
    /\ args \in Seq({whole[q] : q \in DOMAIN whole})
    /\ Len(args) \in 1..Len(whole)
    /\ \A q \in 1..Len(args) : args[q] = whole[q]

Has(slots, n, p) == n \in DOMAIN slots /\ p <= Len(slots[n].args)

SlotsOf(s, g, slots) ==
    LET made == s.answer.calls
    IN  /\ DOMAIN slots \subseteq DOMAIN made
        /\ \A n \in DOMAIN slots :
               /\ slots[n] = [id |-> made[n].id, args |-> slots[n].args]
               /\ IsPart(made[n].args, slots[n].args)
        /\ \A i \in DOMAIN s.chunks :
               s.chunks[i].k = "call" =>
                   (i <= g <=> Has(slots, s.chunks[i].n, s.chunks[i].p))

PartOf(s, g, have) ==
    /\ have = [text |-> have.text, slots |-> have.slots, finish |-> have.finish]
    /\ g \in 0..Len(s.chunks)
    /\ have.text = \E i \in 1..g : s.chunks[i].k = "text"
    /\ have.finish = IF g = Len(s.chunks) THEN s.answer.finish ELSE "stop"
    /\ SlotsOf(s, g, have.slots)

LEMMA SeqIs ==
    ASSUME NEW q, IsSeq(q)
    PROVE  /\ Len(q) \in Nat /\ DOMAIN q = 1..Len(q) /\ (q # <<>> => Len(q) # 0)
           /\ q \in Seq({q[n] : n \in DOMAIN q})
<1> DEFINE X == {q[n] : n \in DOMAIN q}
<1>1. q \in Seq(X)
  BY DEF IsSeq
<1> HIDE DEF X
<1>2. Len(q) \in Nat /\ DOMAIN q = 1..Len(q) /\ (q # <<>> => Len(q) # 0)
  BY <1>1
<1>3. QED
  BY <1>1, <1>2 DEF X

LEMMA StreamIs ==
    ASSUME NEW s \in Streams
    PROVE  /\ IsAnswer(s.answer) /\ Carries(s)
           /\ Len(s.chunks) \in Nat \ {0} /\ DOMAIN s.chunks = 1..Len(s.chunks)
<1>1. IsAnswer(s.answer) /\ Carries(s)
  BY ConstantsAssumption DEF ConstantsAssumption
<1>2. IsSeq(s.chunks) /\ s.chunks # <<>>
  BY <1>1 DEF Carries
<1>3. QED
  BY <1>1, <1>2, SeqIs

\* At first there is nothing.
LEMMA NothingBrought == ASSUME NEW s \in Streams PROVE PartOf(s, 0, NoParts)
<1> DEFINE slots == NoParts.slots
<1>1. /\ NoParts = [text |-> NoParts.text, slots |-> slots, finish |-> NoParts.finish]
      /\ NoParts.text = FALSE /\ NoParts.finish = "stop" /\ DOMAIN slots = {}
  BY DEF NoParts
<1>2. /\ 0 \in 0..Len(s.chunks) /\ 0 # Len(s.chunks) /\ 1..0 = {}
      /\ \A i \in DOMAIN s.chunks : ~(i <= 0)
  BY StreamIs
<1> HIDE DEF slots
<1>3. SlotsOf(s, 0, slots)
  BY <1>1, <1>2 DEF SlotsOf, Has
<1>4. QED
  BY <1>1, <1>2, <1>3 DEF PartOf, slots

\* The next piece of a call is the one after those it has.
LEMMA PieceIsNext ==
    ASSUME NEW s \in Streams, NEW g \in 0..Len(s.chunks) - 1, NEW slots,
           SlotsOf(s, g, slots), s.chunks[g + 1].k = "call",
           NEW n, n = s.chunks[g + 1].n, NEW p, p = s.chunks[g + 1].p
    PROVE  /\ n \in DOMAIN s.answer.calls /\ p \in 1..Len(s.answer.calls[n].args)
           /\ p = IF n \in DOMAIN slots THEN Len(slots[n].args) + 1 ELSE 1
<1> DEFINE made == s.answer.calls
           chunk(i) == s.chunks[i]
           have == IF n \in DOMAIN slots THEN Len(slots[n].args) ELSE 0
<1>1. /\ g + 1 \in DOMAIN s.chunks /\ g \in Int
      /\ DOMAIN s.chunks = 1..Len(s.chunks) /\ Len(s.chunks) \in Nat
  BY StreamIs
<1>2. PICK n0 \in DOMAIN made : \E p0 \in DOMAIN made[n0].args :
          chunk(g + 1) = [k |-> "call", n |-> n0, p |-> p0]
  BY <1>1, StreamIs DEF Carries
<1>3. n \in DOMAIN made /\ p \in DOMAIN made[n].args
  BY <1>2
<1>4. IsSeq(made[n].args)
  BY <1>3, StreamIs DEF IsAnswer
<1>5. /\ DOMAIN made[n].args = 1..Len(made[n].args) /\ Len(made[n].args) \in Nat
      /\ p \in 1..Len(made[n].args)
  BY <1>3, <1>4, SeqIs
<1>6. have \in 0..Len(made[n].args)
  <2>1. n \in DOMAIN slots => Len(slots[n].args) \in 1..Len(made[n].args)
    BY DEF SlotsOf, IsPart
  <2>2. QED
    BY <1>5, <2>1
<1>7. p > have
  <2>1. ~Has(slots, n, p)
    BY <1>1 DEF SlotsOf
  <2>2. QED
    BY <1>5, <1>6, <2>1 DEF Has
<1>8. have + 1 \in DOMAIN made[n].args
  <2> DEFINE most == Len(made[n].args)
  <2>1. most \in Nat /\ p \in 1..most /\ have \in 0..most /\ p > have
        /\ DOMAIN made[n].args = 1..most
    BY <1>5, <1>6, <1>7
  <2> HIDE DEF have, most
  <2>2. have + 1 \in 1..most
    BY <2>1
  <2>3. QED
    BY <2>1, <2>2
<1>9. PICK j \in DOMAIN s.chunks : chunk(j) = [k |-> "call", n |-> n, p |-> have + 1]
  <2>1. \A m \in DOMAIN made : \A q \in DOMAIN made[m].args :
            \E j \in DOMAIN s.chunks : chunk(j) = [k |-> "call", n |-> m, p |-> q]
    BY StreamIs DEF Carries
  <2> HIDE DEF have
  <2>2. QED
    BY <1>3, <1>8, <2>1
<1>10. chunk(j).k = "call" /\ chunk(j).n = n /\ chunk(j).p = have + 1
  BY <1>9
<1>11. ~(j <= g)
  <2>1. ~Has(slots, n, have + 1)
    BY <1>6 DEF Has
  <2>2. QED
    BY <1>10, <2>1 DEF SlotsOf
<1>12. ~(g + 1 < j)
  <2>1. g + 1 < j => p < have + 1
    BY <1>1, <1>10, StreamIs DEF Carries
  <2>2. QED
    BY <1>5, <1>6, <1>7, <2>1
<1>13. j = g + 1
  BY <1>1, <1>11, <1>12
<1>14. p = have + 1
  BY <1>10, <1>13
<1>15. QED
  BY <1>3, <1>5, <1>6, <1>14

\* An appended piece makes a longer part.
LEMMA PartAppended ==
    ASSUME NEW whole, IsSeq(whole), NEW p \in 1..Len(whole), NEW args,
           (args = <<>> /\ p = 1) \/ (IsPart(whole, args) /\ p = Len(args) + 1)
    PROVE  IsPart(whole, Append(args, whole[p])) /\ Len(Append(args, whole[p])) = p
<1> DEFINE X == {whole[q] : q \in DOMAIN whole}
           new == Append(args, whole[p])
<1>1. Len(whole) \in Nat /\ DOMAIN whole = 1..Len(whole) /\ whole[p] \in X
  BY SeqIs
<1>2. args \in Seq(X) /\ Len(args) = p - 1 /\ \A q \in 1..p - 1 : args[q] = whole[q]
  <2>1. CASE args = <<>> /\ p = 1
    BY <2>1
  <2>2. CASE IsPart(whole, args) /\ p = Len(args) + 1
    BY <2>2 DEF IsPart
  <2>3. QED
    BY <2>1, <2>2
<1> HIDE DEF X
<1>3. new \in Seq(X) /\ Len(new) = p
  BY <1>1, <1>2
<1>4. ASSUME NEW q \in 1..p PROVE new[q] = whole[q]
  <2>1. q \in 1..p - 1 => new[q] = args[q]
    BY <1>1, <1>2
  <2>2. q = p => new[q] = whole[p]
    BY <1>1, <1>2
  <2>3. q \in 1..p - 1 \/ q = p
    BY <1>1
  <2>4. QED
    BY <1>2, <2>1, <2>2, <2>3
<1> HIDE DEF new
<1>5. IsPart(whole, new)
  BY <1>1, <1>3, <1>4 DEF IsPart, X
<1>6. QED
  BY <1>3, <1>5 DEF new

\* Where a call's chunk is in it
LEMMA PieceIs ==
    ASSUME NEW s \in Streams, NEW i \in DOMAIN s.chunks, s.chunks[i].k = "call"
    PROVE  /\ s.chunks[i].n \in DOMAIN s.answer.calls
           /\ IsSeq(s.answer.calls[s.chunks[i].n].args)
           /\ s.chunks[i].p \in 1..Len(s.answer.calls[s.chunks[i].n].args)
<1> DEFINE made == s.answer.calls
<1>1. PICK n \in DOMAIN made : \E p \in DOMAIN made[n].args :
          s.chunks[i] = [k |-> "call", n |-> n, p |-> p]
  BY StreamIs DEF Carries
<1>2. s.chunks[i].n = n /\ s.chunks[i].p \in DOMAIN made[n].args
  BY <1>1
<1>3. IsSeq(made[n].args)
  BY <1>1, StreamIs DEF IsAnswer
<1>4. DOMAIN made[n].args = 1..Len(made[n].args)
  BY <1>3, SeqIs
<1>5. QED
  BY <1>1, <1>2, <1>3, <1>4

\* The slots go on as the stream does.
LEMMA SlotsGrow ==
    ASSUME NEW s \in Streams, NEW g \in 0..Len(s.chunks) - 1, NEW slots,
           SlotsOf(s, g, slots), NEW ch, ch = s.chunks[g + 1], ch.k = "call"
    PROVE  SlotsOf(s, g + 1, Slotted(slots, ch, s.answer))
<1>1. PICK n, p : n = ch.n /\ p = ch.p
  OBVIOUS
<1> DEFINE tc == s.answer.calls[n]
           old == IF n \in DOMAIN slots THEN slots[n] ELSE [id |-> <<>>, args |-> <<>>]
           id == IF p = 1 THEN tc.id ELSE <<>>
           new == [id |-> IF id # <<>> THEN id ELSE old.id, args |-> Append(old.args, tc.args[p])]
           next == Slotted(slots, ch, s.answer)
<1>2. g \in Int /\ g + 1 \in DOMAIN s.chunks /\ DOMAIN s.chunks \subseteq Int
  BY StreamIs
<1>3. /\ n \in DOMAIN s.answer.calls /\ p \in 1..Len(tc.args)
      /\ p = IF n \in DOMAIN slots THEN Len(slots[n].args) + 1 ELSE 1
  BY <1>1, PieceIsNext
<1>4. IsSeq(tc.args) /\ Len(tc.args) \in Nat
  BY <1>3, StreamIs, SeqIs DEF IsAnswer
<1>5. n \in DOMAIN slots => /\ slots[n].id = tc.id
                            /\ IsPart(tc.args, slots[n].args) /\ Len(slots[n].args) \in Nat \ {0}
  <2> SUFFICES ASSUME n \in DOMAIN slots
               PROVE  slots[n].id = tc.id /\ IsPart(tc.args, slots[n].args)
                      /\ Len(slots[n].args) \in Nat \ {0}
    OBVIOUS
  <2>1. slots[n] = [id |-> tc.id, args |-> slots[n].args] /\ IsPart(tc.args, slots[n].args)
    BY DEF SlotsOf
  <2>2. Len(slots[n].args) \in 1..Len(tc.args)
    BY <2>1 DEF IsPart
  <2>3. slots[n].id = tc.id
    BY <2>1
  <2>4. QED
    BY <1>4, <2>1, <2>2, <2>3
<1>6. next = [m \in DOMAIN slots \cup {n} |-> IF m = n THEN new ELSE slots[m]]
  BY <1>1 DEF Slotted
<1>7. new.id = tc.id
  <2>1. CASE n \in DOMAIN slots
    <3>1. old.id = tc.id
      BY <1>5, <2>1
    <3>2. p # 1
      BY <1>3, <1>5, <2>1
    <3>3. QED
      BY <3>1, <3>2
  <2>2. CASE n \notin DOMAIN slots
    <3>1. p = 1 /\ old.id = <<>>
      BY <1>3, <2>2
    <3>2. QED
      BY <3>1
  <2>3. QED
    BY <2>1, <2>2
<1>8. IsPart(tc.args, new.args) /\ Len(new.args) = p
  <2>1. (old.args = <<>> /\ p = 1) \/ (IsPart(tc.args, old.args) /\ p = Len(old.args) + 1)
    <3>1. CASE n \in DOMAIN slots
      <4>1. old = slots[n] /\ p = Len(slots[n].args) + 1
        BY <1>3, <3>1
      <4>2. QED
        BY <1>5, <3>1, <4>1
    <3>2. CASE n \notin DOMAIN slots
      BY <1>3, <3>2
    <3>3. QED
      BY <3>1, <3>2
  <2>2. new.args = Append(old.args, tc.args[p])
    OBVIOUS
  <2> HIDE DEF old
  <2>3. QED
    BY <1>3, <1>4, <2>1, <2>2, PartAppended
<1>9. new = [id |-> new.id, args |-> new.args]
  OBVIOUS
<1> HIDE DEF new
<1>10. DOMAIN next = DOMAIN slots \cup {n} /\ next[n] = new
       /\ \A m \in DOMAIN slots \ {n} : next[m] = slots[m]
  BY <1>6
<1> HIDE DEF next
<1>11. ASSUME NEW i \in DOMAIN s.chunks, s.chunks[i].k = "call"
       PROVE  i <= g + 1 <=> Has(next, s.chunks[i].n, s.chunks[i].p)
  <2> DEFINE pi == s.chunks[i].p
  <2>1. i <= g <=> Has(slots, s.chunks[i].n, pi)
    BY <1>11 DEF SlotsOf
  <2>2. i \in Int
    BY <1>2
  <2>3. CASE s.chunks[i].n # n
    <3>1. i # g + 1
      BY <1>1, <2>3
    <3>2. Has(next, s.chunks[i].n, pi) <=> Has(slots, s.chunks[i].n, pi)
      BY <1>10, <2>3 DEF Has
    <3>3. QED
      BY <1>2, <2>1, <2>2, <3>1, <3>2
  <2>4. CASE s.chunks[i].n = n
    <3>1. pi \in Int
      BY <1>11, PieceIs
    <3>2. Has(next, n, pi) <=> pi <= p
      BY <1>8, <1>10 DEF Has
    <3>3. i <= g => pi < p
      <4>1. i <= g => n \in DOMAIN slots /\ pi <= Len(slots[n].args)
        BY <2>1, <2>4 DEF Has
      <4>2. n \in DOMAIN slots => p = Len(slots[n].args) + 1 /\ Len(slots[n].args) \in Int
        BY <1>3, <1>5
      <4>3. QED
        BY <3>1, <4>1, <4>2
    <3>4. i = g + 1 => pi = p
      BY <1>1
    <3>5. g + 1 < i => p < pi
      BY <1>1, <1>2, <1>11, <2>4, StreamIs DEF Carries
    <3>6. p \in Int
      BY <1>3, <1>4
    <3> HIDE DEF pi
    <3>7. i <= g + 1 <=> pi <= p
      BY <1>2, <2>2, <3>1, <3>3, <3>4, <3>5, <3>6
    <3>8. QED
      BY <2>4, <3>2, <3>7 DEF pi
  <2>5. QED
    BY <2>3, <2>4
<1>12. ASSUME NEW m \in DOMAIN next
       PROVE  /\ next[m] = [id |-> s.answer.calls[m].id, args |-> next[m].args]
              /\ IsPart(s.answer.calls[m].args, next[m].args) /\ m \in DOMAIN s.answer.calls
  <2>1. CASE m = n
    BY <1>3, <1>7, <1>8, <1>9, <1>10, <2>1
  <2>2. CASE m # n
    BY <1>10, <2>2 DEF SlotsOf
  <2>3. QED
    BY <2>1, <2>2
<1>13. SlotsOf(s, g + 1, next)
  BY <1>11, <1>12 DEF SlotsOf
<1>14. QED
  BY <1>13 DEF next

\* A chunk is added to the parts it belongs to.
LEMMA PartGrows ==
    ASSUME NEW s \in Streams, NEW g \in 0..Len(s.chunks) - 1, NEW have, PartOf(s, g, have)
    PROVE  PartOf(s, g + 1, Added(have, s.chunks[g + 1], s.answer))
<1>1. PICK ch : ch = s.chunks[g + 1]
  OBVIOUS
<1> DEFINE next == Added(have, ch, s.answer)
           slots == IF ch.k = "call" THEN Slotted(have.slots, ch, s.answer) ELSE have.slots
           text == have.text \/ ch.k = "text"
           finish == IF ch.k = "finish" THEN s.answer.finish ELSE have.finish
<1>2. /\ g + 1 \in DOMAIN s.chunks /\ g \in Nat /\ g + 1 \in 0..Len(s.chunks)
      /\ Len(s.chunks) \in Nat /\ g # Len(s.chunks) /\ DOMAIN s.chunks = 1..Len(s.chunks)
  BY StreamIs
<1>3. ch.k \in {"text", "call", "finish"} /\ (ch.k = "finish" <=> g + 1 = Len(s.chunks))
  <2>1. ch.k = "finish" <=> g + 1 = Len(s.chunks)
    BY <1>1, <1>2, StreamIs DEF Carries
  <2>2. \/ s.chunks[g + 1].k \in {"text", "finish"}
        \/ \E n \in DOMAIN s.answer.calls : \E p \in DOMAIN s.answer.calls[n].args :
               s.chunks[g + 1] = [k |-> "call", n |-> n, p |-> p]
    BY <1>2, StreamIs, Zenon DEF Carries
  <2>3. ASSUME NEW n, NEW p, s.chunks[g + 1] = [k |-> "call", n |-> n, p |-> p]
        PROVE  s.chunks[g + 1].k = "call"
    BY <2>3
  <2>4. s.chunks[g + 1].k \in {"text", "finish", "call"}
    BY <2>2, <2>3
  <2>5. QED
    BY <1>1, <2>1, <2>4
<1>4. /\ have = [text |-> have.text, slots |-> have.slots, finish |-> have.finish]
      /\ have.text \in BOOLEAN /\ have.finish = "stop" /\ SlotsOf(s, g, have.slots)
      /\ have.text = \E i \in 1..g : s.chunks[i].k = "text"
  BY <1>2 DEF PartOf
<1>5. next.text = text /\ next.slots = slots /\ next.finish = finish
      /\ next = [text |-> next.text, slots |-> next.slots, finish |-> next.finish]
  <2>1. CASE ch.k = "text"
    BY <1>4, <2>1 DEF Added
  <2>2. CASE ch.k = "call"
    <3>1. next = [have EXCEPT !.slots = slots]
      BY <2>2 DEF Added
    <3>2. text = have.text /\ finish = have.finish
      BY <1>4, <2>2
    <3> HIDE DEF slots, next, text, finish
    <3>3. QED
      BY <1>4, <3>1, <3>2
  <2>3. CASE ch.k = "finish"
    BY <1>4, <2>3 DEF Added
  <2>4. QED
    BY <1>3, <2>1, <2>2, <2>3
<1> HIDE DEF next
<1>6. SlotsOf(s, g + 1, slots)
  <2>1. CASE ch.k = "call"
    BY <1>1, <1>4, <2>1, SlotsGrow
  <2>2. CASE ch.k # "call"
    <3>1. \A i \in DOMAIN s.chunks : s.chunks[i].k = "call" => (i <= g <=> i <= g + 1)
      BY <1>1, <1>2, <2>2
    <3>2. QED
      BY <1>4, <2>2, <3>1 DEF SlotsOf
  <2>3. QED
    BY <2>1, <2>2
<1>7. text = \E i \in 1..g + 1 : s.chunks[i].k = "text"
  <2>1. \A i : i \in 1..g + 1 <=> i \in 1..g \/ i = g + 1
    BY <1>2
  <2>2. QED
    BY <1>1, <1>4, <2>1
<1>8. finish = IF g + 1 = Len(s.chunks) THEN s.answer.finish ELSE "stop"
  BY <1>3, <1>4
<1> HIDE DEF slots, text, finish
<1>9. PartOf(s, g + 1, next)
  BY <1>2, <1>5, <1>6, <1>7, <1>8 DEF PartOf
<1>10. QED
  BY <1>1, <1>9 DEF next

\* A stream that is all there is put together to the answer it carries, but for a
\* text of the reasoning.
LEMMA WholeIs ==
    ASSUME NEW s \in Streams, NEW have, PartOf(s, Len(s.chunks), have)
    PROVE  Assembled(have) = [text |-> IF s.answer.text = "text" THEN "text" ELSE "none",
                              calls |-> s.answer.calls, finish |-> s.answer.finish]
<1> DEFINE made == s.answer.calls
           slots == have.slots
<1>1. /\ DOMAIN s.chunks = 1..Len(s.chunks) /\ Len(s.chunks) \in Nat /\ SlotsOf(s, Len(s.chunks), slots)
      /\ have.finish = s.answer.finish
      /\ have.text = \E i \in DOMAIN s.chunks : s.chunks[i].k = "text"
  BY StreamIs DEF PartOf
<1>2. have.text <=> s.answer.text = "text"
  BY <1>1, StreamIs DEF Carries
<1>3. IsSeq(made) /\ Len(made) \in Nat /\ DOMAIN made = 1..Len(made)
  BY StreamIs, SeqIs DEF IsAnswer
<1>4. ASSUME NEW n \in DOMAIN made, NEW p \in DOMAIN made[n].args
      PROVE  Has(slots, n, p)
  <2>1. PICK i \in DOMAIN s.chunks : s.chunks[i] = [k |-> "call", n |-> n, p |-> p]
    BY StreamIs DEF Carries
  <2>2. i <= Len(s.chunks)
    BY <1>1
  <2>3. s.chunks[i].k = "call" /\ s.chunks[i].n = n /\ s.chunks[i].p = p
    BY <2>1
  <2>4. QED
    BY <1>1, <2>2, <2>3 DEF SlotsOf
<1>5. ASSUME NEW n \in DOMAIN made PROVE n \in DOMAIN slots /\ slots[n] = made[n]
  <2> DEFINE whole == made[n].args
             args == slots[n].args
  <2>1. /\ IsSeq(whole) /\ whole # <<>> /\ made[n] = [id |-> made[n].id, args |-> whole]
    BY StreamIs DEF IsAnswer
  <2>2. Len(whole) \in Nat \ {0} /\ DOMAIN whole = 1..Len(whole)
    BY <2>1, SeqIs
  <2>3. n \in DOMAIN slots /\ Len(whole) <= Len(args)
    <3>1. Len(whole) \in DOMAIN whole
      BY <2>2
    <3>2. QED
      BY <1>4, <3>1 DEF Has
  <2>4. slots[n] = [id |-> made[n].id, args |-> args] /\ IsPart(whole, args)
    BY <1>1, <2>3 DEF SlotsOf
  <2>5. Len(args) = Len(whole)
    <3>1. Len(args) \in 1..Len(whole)
      BY <2>4 DEF IsPart
    <3>2. QED
      BY <2>2, <2>3, <3>1
  <2>6. args = whole
    <3> DEFINE X == {whole[q] : q \in DOMAIN whole}
    <3>1. args \in Seq(X) /\ whole \in Seq(X) /\ \A q \in 1..Len(whole) : args[q] = whole[q]
      BY <2>1, <2>4, <2>5, SeqIs DEF IsPart
    <3> HIDE DEF X, args, whole
    <3>2. DOMAIN args = 1..Len(whole) /\ DOMAIN whole = 1..Len(whole)
      BY <2>5, <3>1
    <3>3. QED
      BY <3>1, <3>2
  <2>7. QED
    BY <2>1, <2>3, <2>4, <2>6
<1>6. DOMAIN slots = 1..Len(made)
  BY <1>1, <1>3, <1>5 DEF SlotsOf
<1>7. IsFiniteSet(1..Len(made)) /\ Cardinality(1..Len(made)) = Len(made)
  <2>1. 1 \in Int /\ Len(made) \in Int
    BY <1>3
  <2>2. /\ IsFiniteSet(1..Len(made))
        /\ Cardinality(1..Len(made)) = IF 1 > Len(made) THEN 0 ELSE Len(made) - 1 + 1
    BY <2>1, FS_Interval
  <2>3. QED
    BY <1>3, <2>2
<1>8. ASSUME NEW p \in 1..Len(made) PROVE Nth(slots, p) = made[p]
  <2>1. DOMAIN slots \in SUBSET Nat /\ IsFiniteSet(DOMAIN slots)
        /\ p \in 1..Cardinality(DOMAIN slots)
    BY <1>6, <1>7
  <2> HIDE DEF slots
  <2>2. Nth(slots, p) = slots[p]
    BY <1>3, <1>6, <2>1, NthIs
  <2>3. QED
    BY <1>3, <1>5, <2>2
<1>9. [p \in 1..Cardinality(DOMAIN slots) |-> Nth(slots, p)] = made
  <2>1. 1..Cardinality(DOMAIN slots) = 1..Len(made)
    BY <1>6, <1>7
  <2>2. made = [p \in 1..Len(made) |-> made[p]]
    <3> DEFINE X == {made[q] : q \in DOMAIN made}
    <3>1. made \in Seq(X)
      BY <1>3, SeqIs
    <3> HIDE DEF X, made
    <3>2. QED
      BY <3>1
  <2> HIDE DEF made, slots
  <2>3. QED
    BY <1>8, <2>1, <2>2
<1>10. QED
  BY <1>1, <1>2, <1>9 DEF Assembled

\* Whatever a stream has brought, the parser finds calls with ids.
LEMMA PartHasIds ==
    ASSUME NEW s \in Streams, NEW g, NEW have, PartOf(s, g, have)
    PROVE  \E N \in Nat : /\ DOMAIN Assembled(have).calls = 1..N
                          /\ \A p \in 1..N : IsSeq(Assembled(have).calls[p].id)
<1> DEFINE made == s.answer.calls
           slots == have.slots
           C == Cardinality(DOMAIN slots)
<1>1. SlotsOf(s, g, slots)
  BY DEF PartOf
<1>2. IsSeq(made) /\ Len(made) \in Nat /\ DOMAIN made = 1..Len(made)
  BY StreamIs, SeqIs DEF IsAnswer
<1>3. DOMAIN slots \in SUBSET Nat /\ IsFiniteSet(DOMAIN slots)
  <2>1. DOMAIN slots \subseteq 1..Len(made)
    BY <1>1, <1>2 DEF SlotsOf
  <2>2. IsFiniteSet(1..Len(made))
    BY <1>2, FS_Interval
  <2>3. IsFiniteSet(DOMAIN slots)
    BY <2>1, <2>2, FS_Subset
  <2>4. QED
    BY <2>1, <2>3
<1>4. C \in Nat
  BY <1>3, FS_CardinalityType
<1>5. ASSUME NEW n \in DOMAIN slots PROVE IsSeq(slots[n].id)
  <2>1. n \in DOMAIN made /\ slots[n] = [id |-> made[n].id, args |-> slots[n].args]
    BY <1>1 DEF SlotsOf
  <2>2. IsSeq(made[n].id)
    BY <2>1, StreamIs DEF IsAnswer
  <2>3. QED
    BY <2>1, <2>2
<1> DEFINE calls_ == [p \in 1..C |-> Nth(slots, p)]
<1>6. Assembled(have).calls = calls_
  BY DEF Assembled
<1> HIDE DEF slots
<1>7. ASSUME NEW p \in 1..C PROVE IsSeq(calls_[p].id)
  <2>1. PICK n \in DOMAIN slots : Nth(slots, p) = slots[n]
    BY <1>3, NthIs
  <2>2. calls_[p] = slots[n]
    BY <2>1
  <2>3. QED
    BY <1>5, <2>2
<1>8. DOMAIN calls_ = 1..C
  OBVIOUS
<1> HIDE DEF calls_, C
<1>9. QED
  BY <1>4, <1>6, <1>7, <1>8

-------------------------------------------------------------------------------
(* What a caller is given                                                     *)

IdsOf(r) == [n \in DOMAIN r.calls |-> r.calls[n].id]

\* The one parser gives no two calls the same id.
LEMMA ParsedInjective ==
    ASSUME NEW a, NEW N \in Nat, DOMAIN a.calls = 1..N, \A n \in 1..N : IsSeq(a.calls[n].id)
    PROVE  IsInjective(IdsOf(Parsed(a)))
<1> DEFINE ids == [n \in DOMAIN a.calls |-> a.calls[n].id]
           u == Unique(ids)
           made == [n \in DOMAIN a.calls |-> [id |-> u[n], args |-> a.calls[n].args]]
<1>1. DOMAIN ids = 1..N /\ \A n \in 1..N : IsSeq(ids[n])
  OBVIOUS
<1> HIDE DEF ids
<1>2. \A m, n \in 1..N : u[m] = u[n] => m = n
  BY <1>1, UniqueInjective
<1>3. Parsed(a).calls = made
  BY DEF Parsed, ids
<1> HIDE DEF u
<1>4. DOMAIN made = 1..N /\ \A n \in 1..N : made[n].id = u[n]
  OBVIOUS
<1> HIDE DEF made
<1>5. DOMAIN IdsOf(Parsed(a)) = 1..N /\ \A n \in 1..N : IdsOf(Parsed(a))[n] = u[n]
  BY <1>3, <1>4 DEF IdsOf
<1>6. QED
  BY <1>2, <1>5 DEF IsInjective

\* What the parser makes of an answer's calls does not depend on its text.
LEMMA ParsedCalls ==
    ASSUME NEW a, NEW b, a.calls = b.calls PROVE Parsed(a).calls = Parsed(b).calls
  BY DEF Parsed

IsSound(res) ==
    LET r == res.response
    IN  /\ res.whole /\ res.sent.text # "reasoning" => r = Parsed(res.sent)
        /\ r.stop = "tool_use" => r.calls = Parsed(res.sent).calls
        /\ IsInjective(IdsOf(r))

LEMMA ReceivedIsSound ==
    ASSUME NEW a \in Answers,
           NEW res, res = [how |-> "answer", whole |-> TRUE, sent |-> a, response |-> Parsed(a)]
    PROVE  IsSound(res)
<1>1. res.response = Parsed(a) /\ res.sent = a
  OBVIOUS
<1>2. IsAnswer(a)
  BY ConstantsAssumption DEF ConstantsAssumption
<1>3. /\ Len(a.calls) \in Nat /\ DOMAIN a.calls = 1..Len(a.calls)
      /\ \A n \in 1..Len(a.calls) : IsSeq(a.calls[n].id)
  BY <1>2, SeqIs DEF IsAnswer
<1>4. IsInjective(IdsOf(Parsed(a)))
  BY <1>3, ParsedInjective
<1>5. QED
  BY <1>1, <1>4 DEF IsSound

LEMMA StreamedIsSound ==
    ASSUME NEW s \in Streams, NEW g, NEW have, PartOf(s, g, have),
           NEW res, res = [how |-> "answer", whole |-> g = Len(s.chunks), sent |-> s.answer,
                           response |-> Parsed(Assembled(have))]
    PROVE  IsSound(res)
<1> DEFINE a == Assembled(have)
<1>1. /\ res.response = Parsed(a) /\ res.sent = s.answer /\ (res.whole <=> g = Len(s.chunks))
  OBVIOUS
<1>2. IsAnswer(s.answer)
  BY StreamIs
<1>3. IsInjective(IdsOf(Parsed(a)))
  BY PartHasIds, ParsedInjective
<1>4. g = Len(s.chunks) =>
          /\ a = [text |-> IF s.answer.text = "text" THEN "text" ELSE "none",
                  calls |-> s.answer.calls, finish |-> s.answer.finish]
          /\ a.calls = s.answer.calls
  BY WholeIs
<1>5. Parsed(a).stop = "tool_use" => g = Len(s.chunks)
  <2>1. Parsed(a).stop = StopReason(a.finish) /\ a.finish = have.finish
    BY DEF Parsed, Assembled
  <2>2. g # Len(s.chunks) => have.finish = "stop"
    BY DEF PartOf
  <2>3. StopReason("stop") # "tool_use"
    BY DEF StopReason
  <2>4. QED
    BY <2>1, <2>2, <2>3
<1> HIDE DEF a
<1>6. g = Len(s.chunks) => Parsed(a).calls = Parsed(s.answer).calls
  BY <1>4, ParsedCalls
<1>7. ASSUME g = Len(s.chunks), s.answer.text # "reasoning" PROVE a = s.answer
  <2>1. s.answer = [text |-> s.answer.text, calls |-> s.answer.calls, finish |-> s.answer.finish]
        /\ s.answer.text \in {"text", "none"}
    BY <1>2, <1>7 DEF IsAnswer
  <2>2. (IF s.answer.text = "text" THEN "text" ELSE "none") = s.answer.text
    BY <2>1
  <2>3. QED
    BY <1>4, <1>7, <2>1, <2>2
<1>8. QED
  BY <1>1, <1>3, <1>5, <1>6, <1>7 DEF IsSound

-------------------------------------------------------------------------------
(* TypeOK and ResponsesAreSound                                               *)

Hows == {"none", "answer", "loop exited", "client error", "unavailable", "format refused",
         "stream refused", "unreadable"}

\* What else holds of one caller: a pause is never after the last attempt, so that no
\* more setbacks are met than there are attempts; what its stream has brought is put
\* together; and the answer it was given is sound.
Accounts(c) ==
    /\ Creating(c) =>
           /\ call[c].attempt \in 0..MaxAttempts - 1
           /\ call[c].at = "pauses" => call[c].attempt # MaxAttempts - 1
           /\ setbacks[c] <= call[c].attempt + (IF call[c].at = "pauses" THEN 1 ELSE 0)
    /\ setbacks[c] \in 0..MaxAttempts
    /\ result[c].how \in Hows
    /\ call[c].at = "streams" => PartOf(call[c].of, call[c].got, parts[c])
    /\ call[c].at # "streams" => parts[c] = NoParts
    /\ result[c].how = "answer" => IsSound(result[c])

\* Every answer counted is of a call that is over.
Busy == {c \in Callers : call[c].at # "idle"}
CountInv == /\ calls \in 0..MaxCalls /\ usage \in Nat
            /\ IsFiniteSet(Busy) /\ Cardinality(Busy) + usage <= calls

AnswerInv == /\ CountInv /\ DOMAIN parts = Callers /\ parts = [c \in Callers |-> parts[c]]
             /\ \A c \in Callers : Accounts(c)

\* A step of a caller is about nobody else.
OnlyOf(c) ==
    /\ DOMAIN parts' = Callers /\ parts' = [d \in Callers |-> parts'[d]]
    /\ \A d \in Callers \ {c} : /\ call'[d] = call[d] /\ parts'[d] = parts[d]
                                /\ result'[d] = result[d] /\ setbacks'[d] = setbacks[d]

LEMMA OtherAccounts ==
    ASSUME AnswerInv, NEW c \in Callers, OnlyOf(c), Accounts(c)', CountInv' PROVE AnswerInv'
<1>1. ASSUME NEW d \in Callers \ {c} PROVE Accounts(d)'
  <2>1. /\ call'[d] = call[d] /\ parts'[d] = parts[d] /\ result'[d] = result[d]
        /\ setbacks'[d] = setbacks[d] /\ Accounts(d)
    BY DEF OnlyOf, AnswerInv
  <2>2. Creating(d)' <=> Creating(d)
    BY <2>1 DEF Creating
  <2>3. QED
    BY <2>1, <2>2 DEF Accounts
<1>2. QED
  BY <1>1 DEF AnswerInv, OnlyOf

\* A call that begins is counted; one that goes on does not count.
LEMMA BeginCounts ==
    ASSUME CountInv, NEW c \in Callers, NEW r, Begins(c, r), r.at # "idle", TypeInv
    PROVE  CountInv'
<1>1. Busy' = Busy \cup {c} /\ c \notin Busy
  BY DEF Begins, Busy, TypeInv
<1>2. IsFiniteSet(Busy \cup {c}) /\ Cardinality(Busy \cup {c}) = Cardinality(Busy) + 1
  BY <1>1, FS_AddElement DEF CountInv
<1>3. Cardinality(Busy) \in Nat
  BY FS_CardinalityType DEF CountInv
<1>4. calls' = calls + 1 /\ calls < MaxCalls /\ usage' = usage /\ MaxCalls \in Nat
  BY ConstantsAssumption DEF Begins, ConstantsAssumption
<1>5. calls' \in 0..MaxCalls /\ Cardinality(Busy) + 1 + usage <= calls'
  BY <1>3, <1>4 DEF CountInv
<1>6. QED
  BY <1>1, <1>2, <1>3, <1>4, <1>5 DEF CountInv

LEMMA SameCounts ==
    ASSUME CountInv, NEW c \in Callers, TypeInv, NEW r, call' = [call EXCEPT ![c] = r],
           call[c].at # "idle", r.at # "idle", calls' = calls, usage' = usage
    PROVE  CountInv'
<1>1. Busy' = Busy
  BY DEF Busy, TypeInv
<1>2. QED
  BY <1>1 DEF CountInv

LEMMA EndCounts ==
    ASSUME CountInv, NEW c \in Callers, TypeInv, NEW how, Ends(c, how),
           call[c].at # "idle", calls' = calls, usage' \in {usage, usage + 1}
    PROVE  CountInv'
<1>1. Busy' = Busy \ {c} /\ c \in Busy
  BY DEF Busy, Ends, TypeInv, Idle
<1>2. IsFiniteSet(Busy \ {c}) /\ Cardinality(Busy \ {c}) = Cardinality(Busy) - 1
  BY <1>1, FS_RemoveElement DEF CountInv
<1>3. Cardinality(Busy) \in Nat
  BY FS_CardinalityType DEF CountInv
<1>4. usage' \in Nat /\ Cardinality(Busy) - 1 + usage' <= calls
  BY <1>3 DEF CountInv
<1>5. QED
  BY <1>1, <1>2, <1>4 DEF CountInv

\* The steps that begin a call
LEMMA CreateAnswers == ASSUME IInv, AnswerInv, NEW c \in Callers, Create(c) PROVE AnswerInv'
<1>1. PICK wants \in BOOLEAN :
          Begins(c, [at |-> "create", wants |-> wants, attempt |-> 0,
                     format |-> Payload(wants)])
  BY DEF Create
<1> DEFINE r == [at |-> "create", wants |-> wants, attempt |-> 0, format |-> Payload(wants)]
<1>2. r.at = "create" /\ r.attempt = 0 /\ Begins(c, r)
  BY <1>1
<1> HIDE DEF r
<1>3. TypeInv /\ CountInv /\ Accounts(c) /\ parts = [d \in Callers |-> parts[d]] /\ DOMAIN parts = Callers
  BY DEF IInv, AnswerInv
<1>4. OnlyOf(c) /\ call'[c] = r /\ result'[c] = None /\ setbacks'[c] = 0
      /\ parts'[c] = parts[c] /\ call[c].at = "idle"
  BY <1>2, <1>3 DEF Begins, OnlyOf, TypeInv
<1>5. parts[c] = NoParts
  BY <1>3, <1>4 DEF Accounts
<1>6. Accounts(c)'
  <2>1. call'[c].at = "create" /\ call'[c].attempt = 0 /\ result'[c].how = "none"
    BY <1>2, <1>4 DEF None
  <2>2. 0 \in 0..MaxAttempts - 1 /\ 0 \in 0..MaxAttempts
    BY ConstantsAssumption DEF ConstantsAssumption
  <2>3. QED
    BY <1>4, <1>5, <2>1, <2>2 DEF Accounts, Hows
<1>7. CountInv'
  BY <1>2, <1>3, BeginCounts
<1>8. QED
  BY <1>4, <1>6, <1>7, OtherAccounts

LEMMA StreamAnswers == ASSUME IInv, AnswerInv, NEW c \in Callers, Stream(c) PROVE AnswerInv'
<1>1. PICK wants \in BOOLEAN : Begins(c, [at |-> "opens", format |-> Payload(wants)])
  BY DEF Stream
<1> DEFINE r == [at |-> "opens", format |-> Payload(wants)]
<1>2. r.at = "opens" /\ Begins(c, r)
  BY <1>1
<1> HIDE DEF r
<1>3. TypeInv /\ CountInv /\ Accounts(c) /\ parts = [d \in Callers |-> parts[d]] /\ DOMAIN parts = Callers
  BY DEF IInv, AnswerInv
<1>4. OnlyOf(c) /\ call'[c] = r /\ result'[c] = None /\ setbacks'[c] = 0
      /\ parts'[c] = parts[c] /\ call[c].at = "idle"
  BY <1>2, <1>3 DEF Begins, OnlyOf, TypeInv
<1>5. parts[c] = NoParts
  BY <1>3, <1>4 DEF Accounts
<1>6. Accounts(c)'
  <2>1. call'[c].at = "opens" /\ result'[c].how = "none"
    BY <1>2, <1>4 DEF None
  <2>2. 0 \in 0..MaxAttempts
    BY ConstantsAssumption DEF ConstantsAssumption
  <2>3. QED
    BY <1>4, <1>5, <2>1, <2>2 DEF Accounts, Creating, Hows
<1>7. CountInv'
  BY <1>2, <1>3, BeginCounts
<1>8. QED
  BY <1>4, <1>6, <1>7, OtherAccounts

\* A step inside a create(): another place, perhaps the next attempt or a setback more.
LEMMA GoesOn ==
    ASSUME IInv, AnswerInv, NEW c \in Callers, Creating(c), NEW r \in CreateRec,
           call' = [call EXCEPT ![c] = r], UNCHANGED <<usage, calls, parts, result>>,
           NEW b \in Nat, setbacks' = [setbacks EXCEPT ![c] = b],
           r.attempt \in 0..MaxAttempts - 1,
           r.at = "pauses" => r.attempt # MaxAttempts - 1,
           b <= r.attempt + (IF r.at = "pauses" THEN 1 ELSE 0)
    PROVE  AnswerInv'
<1>1. TypeInv /\ CountInv /\ Accounts(c) /\ DOMAIN parts = Callers
      /\ parts = [d \in Callers |-> parts[d]]
  BY DEF IInv, AnswerInv
<1>2. OnlyOf(c) /\ call'[c] = r /\ result'[c] = result[c] /\ setbacks'[c] = b
      /\ parts'[c] = parts[c]
  BY <1>1 DEF OnlyOf, TypeInv
<1>3. r.at \in {"create", "pauses"} /\ r.attempt \in Nat
  BY DEF CreateRec
<1>4. b \in 0..MaxAttempts
  <2>1. r.attempt + (IF r.at = "pauses" THEN 1 ELSE 0) <= MaxAttempts
    BY <1>3, ConstantsAssumption DEF ConstantsAssumption
  <2>2. QED
    BY <1>3, <2>1, ConstantsAssumption DEF ConstantsAssumption
<1>5. Accounts(c)'
  BY <1>1, <1>2, <1>3, <1>4 DEF Accounts, Creating
<1>6. CountInv'
  BY <1>1, <1>3, SameCounts DEF Creating
<1>7. QED
  BY <1>2, <1>5, <1>6, OtherAccounts

\* A call that ends with something else than an answer, or with a sound one
LEMMA EndAnswers ==
    ASSUME IInv, AnswerInv, NEW c \in Callers, NEW how, Ends(c, how), call[c].at # "idle",
           setbacks' = setbacks, calls' = calls, usage' \in {usage, usage + 1},
           how.how \in Hows, how.how = "answer" => IsSound(how)
    PROVE  AnswerInv'
<1>1. TypeInv /\ CountInv /\ Accounts(c) /\ DOMAIN parts = Callers
      /\ parts = [d \in Callers |-> parts[d]]
  BY DEF IInv, AnswerInv
<1>2. /\ call'[c] = Idle /\ result'[c] = how /\ ~Creating(c)'
      /\ \A d \in Callers \ {c} : call'[d] = call[d] /\ result'[d] = result[d]
  BY <1>1, EndsIs
<1>3. OnlyOf(c)
  BY <1>1, <1>2 DEF Ends, OnlyOf
<1>4. call'[c].at # "streams" /\ parts'[c] = NoParts /\ setbacks'[c] \in 0..MaxAttempts
  BY <1>1, <1>2 DEF Idle, Accounts, Ends
<1>5. Accounts(c)'
  BY <1>2, <1>4 DEF Accounts
<1>6. CountInv'
  BY <1>1, EndCounts
<1>7. QED
  BY <1>3, <1>5, <1>6, OtherAccounts

\* The steps of a create()
LEMMA CreatingAnswers ==
    ASSUME IInv, AnswerInv, NEW c \in Callers, Retry(c) \/ Resend(c) \/ Degrade(c) PROVE AnswerInv'
<1>1. TypeInv /\ Accounts(c) /\ Creating(c) /\ call[c].at # "idle"
  BY DEF IInv, AnswerInv, Retry, Resend, Degrade, Creating
<1>2. call[c] \in CreateRec /\ setbacks[c] \in Nat /\ setbacks = [setbacks EXCEPT ![c] = setbacks[c]]
  BY <1>1, CreateRecOf DEF TypeInv
<1> DEFINE n == call[c].attempt
<1>3. n \in 0..MaxAttempts - 1 /\ n \in Nat /\ MaxAttempts \in Nat
  BY <1>1, <1>2, ConstantsAssumption DEF Accounts, CreateRec, ConstantsAssumption
<1>4. CASE Retry(c)
  <2> DEFINE r == [call[c] EXCEPT !.at = "pauses"]
  <2>1. call[c].at = "create" /\ n # MaxAttempts - 1 /\ setbacks[c] <= n
    BY <1>1, <1>2, <1>3, <1>4 DEF Retry, LastAttempt, Accounts
  <2>2. r \in CreateRec /\ r.at = "pauses" /\ r.attempt = n
    BY <1>2 DEF CreateRec
  <2>3. /\ call' = [call EXCEPT ![c] = r] /\ setbacks' = [setbacks EXCEPT ![c] = setbacks[c] + 1]
        /\ UNCHANGED <<usage, calls, parts, result>>
    BY <1>4 DEF Retry
  <2> HIDE DEF r, n
  <2>4. setbacks[c] + 1 \in Nat /\ setbacks[c] + 1 <= r.attempt + 1
    BY <1>2, <1>3, <2>1, <2>2
  <2>5. QED
    BY <1>1, <1>3, <2>1, <2>2, <2>3, <2>4, GoesOn
<1>5. CASE Resend(c)
  <2> DEFINE r == [call[c] EXCEPT !.at = "create", !.attempt = n + 1]
  <2>1. call[c].at = "pauses" /\ n # MaxAttempts - 1 /\ setbacks[c] <= n + 1
    BY <1>1, <1>5 DEF Resend, Accounts
  <2>2. r \in CreateRec /\ r.at = "create" /\ r.attempt = n + 1
    <3>1. n + 1 \in Nat
      BY <1>3
    <3> HIDE DEF n
    <3>2. QED
      BY <1>2, <3>1 DEF CreateRec
  <2>3. /\ call' = [call EXCEPT ![c] = r] /\ setbacks' = [setbacks EXCEPT ![c] = setbacks[c]]
        /\ UNCHANGED <<usage, calls, parts, result>>
    BY <1>2, <1>5 DEF Resend
  <2> HIDE DEF r, n
  <2>4. r.attempt \in 0..MaxAttempts - 1 /\ setbacks[c] <= r.attempt + 0
    BY <1>2, <1>3, <2>1, <2>2
  <2>5. QED
    BY <1>1, <1>2, <2>2, <2>3, <2>4, GoesOn
<1>6. CASE Degrade(c)
  <2>1. call[c].at = "create" /\ setbacks[c] <= n /\ UNCHANGED <<usage, calls, setbacks>>
    <3>1. call[c].at = "create" /\ UNCHANGED <<usage, calls, setbacks>>
      BY <1>6 DEF Degrade
    <3>2. setbacks[c] <= n + 0
      BY <1>1, <3>1 DEF Accounts
    <3>3. QED
      BY <1>2, <1>3, <3>1, <3>2
  <2>2. CASE LastAttempt(c)
    <3> DEFINE how == [how |-> "loop exited"]
    <3>1. Ends(c, how) /\ how.how = "loop exited"
      BY <1>6, <2>2 DEF Degrade
    <3> HIDE DEF how
    <3>2. how.how \in Hows /\ how.how # "answer"
      BY <3>1 DEF Hows
    <3>3. QED
      BY <1>1, <2>1, <3>1, <3>2, EndAnswers
  <2>3. CASE ~LastAttempt(c)
    <3> DEFINE f == Shaped(mode')
               r == [call[c] EXCEPT !.attempt = n + 1, !.format = f]
    <3>1. n + 1 \in 0..MaxAttempts - 1 /\ n + 1 \in Nat
      BY <1>3, <2>3 DEF LastAttempt
    <3>2. f \in Formats
      BY <1>1, <1>6, Going DEF TypeInv, Degrade
    <3>3. r \in CreateRec /\ r.at = "create" /\ r.attempt = n + 1
      <4> HIDE DEF n, f
      <4>1. QED
        BY <1>2, <2>1, <3>1, <3>2 DEF CreateRec
    <3>4. /\ call' = [call EXCEPT ![c] = r] /\ UNCHANGED <<parts, result>>
          /\ setbacks' = [setbacks EXCEPT ![c] = setbacks[c]]
      BY <1>2, <1>6, <2>1, <2>3 DEF Degrade
    <3> HIDE DEF r, n
    <3>5. setbacks[c] <= r.attempt + 0 /\ r.attempt \in 0..MaxAttempts - 1
      BY <1>2, <1>3, <2>1, <3>1, <3>3
    <3>6. QED
      BY <1>1, <1>2, <2>1, <3>3, <3>4, <3>5, GoesOn
  <2>4. QED
    BY <2>2, <2>3
<1>7. QED
  BY <1>4, <1>5, <1>6

LEMMA FailAnswers ==
    ASSUME IInv, AnswerInv, NEW c \in Callers, Fail(c) \/ StreamFails(c) PROVE AnswerInv'
<1>1. /\ call[c].at # "idle" /\ setbacks' = setbacks /\ calls' = calls /\ usage' = usage
      /\ \E h \in Hows \ {"answer"} : Ends(c, [how |-> h])
  BY DEF Fail, StreamFails, Hows
<1>2. PICK h \in Hows \ {"answer"} : Ends(c, [how |-> h])
  BY <1>1
<1> DEFINE how == [how |-> h]
<1>3. how.how = h /\ Ends(c, how)
  BY <1>2
<1> HIDE DEF how
<1>4. QED
  BY <1>1, <1>2, <1>3, EndAnswers

LEMMA ReceiveAnswers == ASSUME IInv, AnswerInv, NEW c \in Callers, Receive(c) PROVE AnswerInv'
<1>1. PICK a \in Answers : Ends(c, [how |-> "answer", whole |-> TRUE, sent |-> a,
                                    response |-> Parsed(a)])
  BY DEF Receive
<1> DEFINE how == [how |-> "answer", whole |-> TRUE, sent |-> a, response |-> Parsed(a)]
<1>2. how.how = "answer" /\ Ends(c, how) /\ IsSound(how)
  BY <1>1, ReceivedIsSound
<1>3. call[c].at # "idle" /\ setbacks' = setbacks /\ calls' = calls /\ usage' = usage + 1
  BY DEF Receive
<1> HIDE DEF how
<1>4. QED
  BY <1>2, <1>3, EndAnswers DEF Hows

\* The steps of a stream
LEMMA StreamRecOf ==
    ASSUME TypeInv, NEW c \in Callers, call[c].at = "streams"
    PROVE  call[c] \in StreamRec
  BY DEF TypeInv, Calls, Idle, CreateRec, OpensRec

LEMMA Streaming ==
    ASSUME IInv, AnswerInv, NEW c \in Callers, NEW s \in Streams, NEW g, NEW have,
           NEW r, r = [at |-> "streams", of |-> s, got |-> g], PartOf(s, g, have),
           call[c].at # "idle", ~Creating(c), call' = [call EXCEPT ![c] = r],
           parts' = [parts EXCEPT ![c] = have],
           UNCHANGED <<usage, calls, result, setbacks>>
    PROVE  AnswerInv'
<1>1. TypeInv /\ CountInv /\ Accounts(c) /\ DOMAIN parts = Callers
      /\ parts = [d \in Callers |-> parts[d]]
  BY DEF IInv, AnswerInv
<1>2. r.at = "streams" /\ r.of = s /\ r.got = g
  OBVIOUS
<1>3. OnlyOf(c) /\ call'[c] = r /\ parts'[c] = have /\ result'[c] = result[c]
      /\ setbacks'[c] = setbacks[c]
  BY <1>1 DEF OnlyOf, TypeInv
<1>4. Accounts(c)'
  BY <1>1, <1>2, <1>3 DEF Accounts, Creating
<1>5. CountInv'
  BY <1>1, <1>2, SameCounts
<1>6. QED
  BY <1>3, <1>4, <1>5, OtherAccounts

LEMMA StreamingAnswers ==
    ASSUME IInv, AnswerInv, NEW c \in Callers, Opens(c) \/ Chunk(c) \/ StreamEnds(c)
    PROVE  AnswerInv'
<1>1. TypeInv /\ Accounts(c) /\ ~Creating(c) /\ call[c].at # "idle"
  BY DEF IInv, AnswerInv, Opens, Chunk, StreamEnds, Creating
<1>2. CASE Opens(c)
  <2>1. PICK s \in Streams : call' = [call EXCEPT ![c] = [at |-> "streams", of |-> s, got |-> 0]]
    BY <1>2 DEF Opens
  <2>2. PartOf(s, 0, NoParts)
    BY NothingBrought
  <2>3. parts' = [parts EXCEPT ![c] = NoParts]
    BY <1>1, <1>2 DEF Opens, Accounts, AnswerInv
  <2>4. UNCHANGED <<usage, calls, result, setbacks>>
    BY <1>2 DEF Opens
  <2>5. QED
    BY <1>1, <2>1, <2>2, <2>3, <2>4, Streaming
<1>3. CASE Chunk(c)
  <2> DEFINE s == call[c].of
             g == call[c].got
             have == Added(parts[c], s.chunks[g + 1], s.answer)
             r == [call[c] EXCEPT !.got = g + 1]
  <2>1. call[c] \in StreamRec /\ s \in Streams /\ PartOf(s, g, parts[c]) /\ g < Len(s.chunks)
    BY <1>1, <1>3, StreamRecOf DEF Chunk, Accounts, StreamRec
  <2>2. g \in 0..Len(s.chunks) - 1
    <3>1. g \in 0..Len(s.chunks) /\ Len(s.chunks) \in Nat
      BY <2>1, StreamIs DEF PartOf
    <3>2. QED
      BY <2>1, <3>1
  <2>3. PartOf(s, g + 1, have)
    BY <2>1, <2>2, PartGrows
  <2>4. r = [at |-> "streams", of |-> s, got |-> g + 1]
    BY <2>1 DEF StreamRec
  <2>5. /\ call' = [call EXCEPT ![c] = r] /\ UNCHANGED <<usage, calls, result, setbacks>>
    BY <1>3 DEF Chunk
  <2>6. parts' = [parts EXCEPT ![c] = have]
    BY <1>3, Zenon DEF Chunk
  <2> HIDE DEF s, g, have, r
  <2>7. QED
    BY <1>1, <2>1, <2>3, <2>4, <2>5, <2>6, Streaming
<1>4. CASE StreamEnds(c)
  <2> DEFINE s == call[c].of
             g == call[c].got
             how == [how |-> "answer", whole |-> g = Len(s.chunks), sent |-> s.answer,
                     response |-> Parsed(Assembled(parts[c]))]
  <2>1. s \in Streams /\ PartOf(s, g, parts[c])
    BY <1>1, <1>4, StreamRecOf DEF StreamEnds, Accounts, StreamRec
  <2>2. Ends(c, how) /\ how.how = "answer" /\ setbacks' = setbacks /\ calls' = calls
        /\ usage' = usage + 1
    BY <1>4 DEF StreamEnds
  <2> HIDE DEF s, g
  <2>3. IsSound(how)
    BY <2>1, StreamedIsSound
  <2> HIDE DEF how
  <2>4. QED
    BY <1>1, <2>2, <2>3, EndAnswers DEF Hows
<1>5. QED
  BY <1>2, <1>3, <1>4
-------------------------------------------------------------------------------
\* Nobody calls at the start.
LEMMA InitAnswers == Init => AnswerInv
<1> SUFFICES ASSUME Init PROVE AnswerInv
  OBVIOUS
<1>1. CountInv
  <2>1. Busy = {}
    BY DEF Init, Busy, Idle
  <2>2. QED
    BY <2>1, FS_EmptySet, ConstantsAssumption DEF Init, CountInv, ConstantsAssumption
<1>2. DOMAIN parts = Callers /\ parts = [c \in Callers |-> parts[c]]
  BY DEF Init
<1>3. ASSUME NEW c \in Callers PROVE Accounts(c)
  <2>1. /\ call[c].at = "idle" /\ parts[c] = NoParts /\ result[c].how = "none"
        /\ setbacks[c] = 0
    BY DEF Init, Idle, None
  <2>2. QED
    BY <2>1, ConstantsAssumption DEF Accounts, Creating, Hows, ConstantsAssumption
<1>4. QED
  BY <1>1, <1>2, <1>3 DEF AnswerInv

LEMMA SameAnswers == ASSUME AnswerInv, UNCHANGED vars PROVE AnswerInv'
<1>1. CountInv'
  BY DEF AnswerInv, CountInv, Busy, vars
<1>2. DOMAIN parts' = Callers /\ parts' = [c \in Callers |-> parts'[c]]
  BY DEF AnswerInv, vars
<1>3. ASSUME NEW c \in Callers PROVE Accounts(c)'
  BY DEF AnswerInv, Accounts, Creating, vars
<1>4. QED
  BY <1>1, <1>2, <1>3 DEF AnswerInv

\* The two invariants together are inductive.
LEMMA InductiveAnswers == Spec => [](IInv /\ AnswerInv)
<1>1. ASSUME IInv, AnswerInv, Next PROVE AnswerInv'
  BY <1>1, CreateAnswers, StreamAnswers, CreatingAnswers, FailAnswers, ReceiveAnswers,
     StreamingAnswers DEF Next, CallStep
<1>2. IInv /\ AnswerInv /\ [Next]_vars => AnswerInv'
  BY <1>1, SameAnswers
<1>3. QED
  BY <1>2, InitAnswers, Inductive, PTL DEF Spec

\* openai_compat.py:310-314, :437 and :480: for any callers, attempts and answers, the variables
\* have their types, no attempt is made after the last one, and a completion is counted
\* once, whatever attempts and chunks it took.
THEOREM Typing == Spec => []TypeOK
<1> SUFFICES ASSUME IInv, AnswerInv PROVE TypeOK
  BY InductiveAnswers, PTL
<1>1. TypeInv /\ CountInv
  BY DEF IInv, AnswerInv
<1>2. usage \in 0..calls /\ calls \in 0..MaxCalls
  <2>1. Cardinality(Busy) \in Nat
    BY <1>1, FS_CardinalityType DEF CountInv
  <2>2. QED
    BY <1>1, <2>1, ConstantsAssumption DEF CountInv, ConstantsAssumption
<1>3. ASSUME NEW c \in Callers
      PROVE  /\ call[c].at \in {"idle", "create", "pauses", "opens", "streams"}
             /\ call[c].at \in {"create", "pauses", "opens"} => call[c].format \in Formats
  BY <1>1 DEF TypeInv, Calls, Idle, CreateRec, OpensRec, StreamRec
<1>4. ASSUME NEW c \in Callers
      PROVE  /\ Creating(c) => call[c].attempt \in 0..MaxAttempts - 1
             /\ result[c].how \in Hows
             /\ moved[c] \in BOOLEAN /\ setbacks[c] \in 0..MaxAttempts
  BY <1>1 DEF AnswerInv, Accounts, TypeInv
<1>5. QED
  BY <1>1, <1>2, <1>3, <1>4 DEF TypeOK, TypeInv, Hows

\* openai_compat.py:371-373 and :205-223: for any answers, however their chunks are
\* interleaved and wherever a stream breaks off, create() and stream() give the same
\* response, no half of a tool call is passed on as one to be executed, and no two
\* calls of a response share an id.
THEOREM SoundResponses == Spec => []ResponsesAreSound
<1>1. ASSUME AnswerInv PROVE ResponsesAreSound
  BY <1>1 DEF AnswerInv, Accounts, IsSound, IdsOf, ResponsesAreSound
<1>2. QED
  BY <1>1, InductiveAnswers, PTL
================================================================================
