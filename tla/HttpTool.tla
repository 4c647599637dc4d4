-------------------------------- MODULE HttpTool --------------------------------
(* engine/tools/http.py, HttpRequest, behind the RateLimiter of               *)
(* engine/ratelimit.py: parallel tool calls share one limiter and one pooled  *)
(* client, and each walks its own chain of redirects.  The agent may close    *)
(* the tool, and the coordinator's tool_timeout cancels a call, at any await. *)
(*                                                                            *)
(* A URL is its origin: scheme, host and port.  What the answers say, and the *)
(* method that a redirect degrades to GET, are left out.                      *)
EXTENDS Integers, Sequences, SequencesExt

CONSTANTS Calls,         \* the tool calls, each of which is made once
          Origins,
          Interval,      \* 1/rps, in ticks of the clock
          Early,         \* asyncio's clock resolution: a sleep may end this much before its time
          MaxRedirects,  \* max_redirects
          MaxTime        \* bound: the clock

ASSUME ConstantsAssumption ==
    /\ Interval \in Nat \ {0} /\ Early \in 0..Interval - 1
    /\ MaxRedirects \in Nat /\ MaxTime \in Nat

VARIABLES
    now,
    allowed,      \* the origins that _hop_allowed accepts
    lock,         \* the calls inside RateLimiter._lock: one or none
    nextAllowed,  \* _next_allowed
    client,       \* owned_client: "none", "open", or "closed" while it is being closed
    call,         \* each call: what it awaits, with credentials or not, and its chain
    grants        \* history: when acquire() returned

vars == <<now, allowed, lock, nextAllowed, client, call, grants>>

\* A call that is not made yet
NotMade == [at |-> "none", creds |-> FALSE, chain |-> <<>>]

Init == /\ now = 0 /\ allowed \in SUBSET Origins
        /\ lock = {} /\ nextAllowed = 0
        /\ client = "none"
        /\ call = [c \in Calls |-> NotMade]
        /\ grants = <<>>

\* Time passes, but a sleep lasts no longer than the clock of this model.
Tick == /\ now < MaxTime
        /\ now' = now + 1
        /\ UNCHANGED <<allowed, lock, nextAllowed, client, call, grants>>

Goto(c, at) == call' = [call EXCEPT ![c].at = at]

\* The call has an answer or an error for the model, or raises.
Over(c) == call' = [call EXCEPT ![c] = [at |-> "over", creds |-> FALSE, chain |-> <<>>]]
-------------------------------------------------------------------------------
\* _hop_allowed, of the scheme, the host and the network policy
HopAllowed(url) == url \in allowed

\* http_request up to its first await: the first hop is checked like every other.
Request(c) ==
    /\ call[c].at = "none"
    /\ \E url \in Origins, creds \in BOOLEAN :
           IF HopAllowed(url)
           THEN call' = [call EXCEPT ![c] = [at |-> "queues", creds |-> creds,
                                             chain |-> <<[to |-> url, creds |-> creds]>>]]
           ELSE Over(c)
    /\ UNCHANGED <<now, allowed, lock, nextAllowed, client, grants>>

\* Mutant: the next slot is counted from the time of now.
SlotFromNow == now + Interval

\* When the slot after this one begins
NextSlot == (IF now > nextAllowed THEN now ELSE nextAllowed) + Interval

\* acquire() returns, _client() makes the client if there is none, and the first
\* request is sent.
Granted(c) ==
    /\ nextAllowed' = NextSlot
    /\ grants' = Append(grants, now)
    /\ lock' = lock \ {c}
    /\ client' = IF client = "none" THEN "open" ELSE client
    /\ IF client = "closed" THEN Over(c) ELSE Goto(c, "fetches")
    /\ UNCHANGED <<now, allowed>>

LockFree == lock = {}

\* The limiter's lock, and the sleep while it is held
Acquire(c) ==
    /\ call[c].at = "queues" /\ LockFree
    /\ IF nextAllowed > now
       THEN /\ lock' = lock \cup {c}
            /\ Goto(c, "sleeps")
            /\ UNCHANGED <<now, allowed, nextAllowed, client, grants>>
       ELSE Granted(c)

\* The sleep was for what was missing when it began; the event loop may be late.
Wake(c) ==
    /\ call[c].at = "sleeps" /\ now >= nextAllowed - Early
    /\ Granted(c)
-------------------------------------------------------------------------------
Here(c) == Last(call[c].chain).to

\* Mutant: credentials are dropped by the first redirect only.
CredentialsAfterFirst(c, to) ==
    call[c].creds /\ (to = Here(c) \/ Len(call[c].chain) > 1)

\* The headers of the next hop still carry the caller's credentials.
CredentialsFor(c, to) == call[c].creds /\ to = Here(c)

Hops(c) == Len(call[c].chain) - 1

\* A redirect: checked like the first hop, and the next request is sent; one hop
\* too many, or one that is not allowed, ends the call.
Redirected(c) ==
    /\ call[c].at = "fetches"
    /\ \E to \in Origins :
        IF Hops(c) >= MaxRedirects \/ ~HopAllowed(to) THEN Over(c)
        ELSE call' = [call EXCEPT ![c].creds = CredentialsFor(c, to),
                                  ![c].chain = Append(@, [to |-> to,
                                                          creds |-> CredentialsFor(c, to)])]
    /\ UNCHANGED <<now, allowed, lock, nextAllowed, client, grants>>

\* The answer, or an error: of the transport, or of a client closed under the call
Answered(c) ==
    /\ call[c].at \in {"fetches", "cut"}
    /\ Over(c)
    /\ UNCHANGED <<now, allowed, lock, nextAllowed, client, grants>>

\* tool_timeout: the lock is released, and the slot is not taken.
TimesOut(c) ==
    /\ call[c].at \in {"queues", "sleeps", "fetches", "cut"}
    /\ Over(c)
    /\ lock' = lock \ {c}
    /\ UNCHANGED <<now, allowed, nextAllowed, client, grants>>

\* aclose(), to its await: no call under way can send another request.
Close ==
    /\ client = "open"
    /\ client' = "closed"
    /\ call' = [c \in Calls |-> IF call[c].at = "fetches" THEN [call[c] EXCEPT !.at = "cut"]
                               ELSE call[c]]
    /\ UNCHANGED <<now, allowed, lock, nextAllowed, grants>>

\* The client is closed; a later call makes a new one.
Closed ==
    /\ client = "closed"
    /\ client' = "none"
    /\ UNCHANGED <<now, allowed, lock, nextAllowed, call, grants>>

Next == \/ \E c \in Calls : \/ Request(c) \/ Acquire(c) \/ Wake(c)
                            \/ Redirected(c) \/ Answered(c) \/ TimesOut(c)
        \/ Tick \/ Close \/ Closed

Spec == Init /\ [][Next]_vars
-------------------------------------------------------------------------------
Places == {"none", "queues", "sleeps", "fetches", "cut", "over"}

\* The types; no chain is longer than max_redirects allows.
TypeOK ==
    /\ now \in 0..MaxTime /\ allowed \subseteq Origins
    /\ lock \subseteq Calls /\ nextAllowed \in Nat
    /\ client \in {"none", "open", "closed"}
    /\ call \in [Calls -> [at : Places, creds : BOOLEAN,
                          chain : Seq([to : Origins, creds : BOOLEAN])]]
    /\ \A c \in Calls : Len(call[c].chain) <= MaxRedirects + 1
    /\ grants \in Seq(0..MaxTime)

\* ratelimit.py:3-6: however many calls wait, wake late or a little early, or are
\* cancelled while they hold the lock, n of them never take less than n - 1
\* intervals: what a sleep ends too early is not saved up from one to the next.
RequestsAreSpaced ==
    /\ TypeOK
    /\ \A m, n \in DOMAIN grants :
           m < n => grants[n] - grants[m] >= (n - m) * Interval - Early

\* http.py:257-262 and :301-306: along any chain of redirects, every request goes
\* to an origin the policy accepts, and the caller's credentials only to the origin
\* he addressed: not to another, and not to one a chain has come back to by way of
\* another.
CredentialsStayHome ==
    \A c \in Calls :
        call[c].at = "fetches" =>
            /\ \A k \in DOMAIN call[c].chain : call[c].chain[k].to \in allowed
            /\ \A k \in DOMAIN call[c].chain :
                   call[c].chain[k].creds =>
                       \A j \in 1..k : call[c].chain[j] = call[c].chain[1]
===============================================================================
