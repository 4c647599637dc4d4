-------------------------- MODULE ToolBoundary_proofs --------------------------
(* Theorems about what a tool call must pass: PermissionGate, the verdict on  *)
(* it, for any number of hooks and of destinations; HttpTool, the rate and    *)
(* the credentials of its requests, for any calls, origins and limits; and    *)
(* MCPHandler, the names under which other servers' tools are called, for any *)
(* servers, tools and tasks.                                                  *)
EXTENDS PermissionGate, HttpTool, MCPHandler, FiniteSetTheorems, TLAPS

-------------------------------------------------------------------------------
(* The verdict                                                                *)

(* Why the properties hold: a stage is reached only when the stages before it *)
(* had nothing to object to, and _resolve_gate holds of the outcomes behind   *)
(* it exactly what the strictest of them is made of.                          *)

\* What the stages passed so far have found.
StageInv ==
    /\ at \in {"hooks", "resolve", "danger"} => danger = "unseen"
    /\ at \in {"network", "rules"} => danger \in {"allow", "ask", "none"}
    /\ at \in {"classifier", "mode"} => danger = "none" /\ rules = {}
    /\ at \in {"danger", "network"} => gate \in {"allow", "ask", "none"}
    /\ at \in {"rules", "classifier", "mode"} => gate = "none"
    /\ at \notin {"mode", "decided"} => classified = "unseen"
    /\ at = "mode" => classified \in {"none", "allow"}
    /\ at # "decided" => \A n \in 1..Len(targets) : targets[n] = "allowed"

\* What _resolve_gate holds is what the first k hooks said.
HeldInv ==
    at \in {"hooks", "resolve"} =>
        /\ gate = "none"
        /\ at = "hooks" => hooks = <<>>
        /\ \A n \in 1..k : Verdict(hooks[n]) # "deny"
        /\ "ask" \in held <=> \E n \in 1..k : Verdict(hooks[n]) = "ask"
        /\ "allow" \in held <=> \E n \in 1..k : Verdict(hooks[n]) = "allow"
        /\ "error" \in held <=> \E n \in 1..k : Errored(hooks[n])

\* Why a call that is allowed was.
AllowInv ==
    decision.behavior = "allow" =>
        /\ gate \in {"allow", "none"}
        /\ danger \in {"allow", "ask", "none"}
        /\ \A n \in 1..Len(targets) : targets[n] = "allowed"
        /\ classified \in {"unseen", "none", "allow"}
        /\ \/ gate = "allow"
           \/ rules = {"allow"}
           \/ rules = {} /\ danger = "allow"
           \/ /\ rules = {} /\ danger = "none"
              /\ mode = "auto" \/ (mode = "ask" /\ readOnly)

GateIInv == GateTypeOK /\ StageInv /\ HeldInv /\ GateIsStrictest /\ AllowInv

LEMMA InitTyping == GateInit => GateTypeOK
<1> SUFFICES ASSUME GateInit PROVE GateTypeOK
  OBVIOUS
<1>1. hooks \in Seq(Runs) /\ k \in 0..Len(hooks)
  BY DEF GateInit
<1>2. targets \in Seq({"allowed", "public", "internal"})
  BY DEF GateInit
<1>3. QED
  BY <1>1, <1>2 DEF GateInit, GateTypeOK, NoDecision, Decision, Behaviors, Reasons

\* A run's verdict is a behavior or none, and one that failed has no other
\* verdict than a deny.
LEMMA Verdicts ==
    ASSUME NEW r \in Runs
    PROVE  /\ Verdict(r) \in {"allow", "ask", "deny", "none"}
           /\ Errored(r) => Verdict(r) \in {"deny", "none"}
  BY DEF Runs, Verdict, Errored, Behaviors

\* No step gives a variable a value of another type.
LEMMA StepTyping == GateTypeOK /\ StageInv /\ [GateNext]_gateVars => GateTypeOK'
<1> SUFFICES ASSUME GateTypeOK, StageInv, [GateNext]_gateVars PROVE GateTypeOK'
  OBVIOUS
<1> USE DEF GateTypeOK, Decide, GoOnTo, Decision, NoDecision, Behaviors, Reasons
<1>1. CASE FireHooks
  <2>1. hooks' \in Seq(Runs)
    BY <1>1, GateConstants DEF FireHooks, GateConstants
  <2>2. k' \in 0..Len(hooks')
    <3>1. k' = 0
      BY <1>1 DEF FireHooks
    <3>2. Len(hooks') \in Nat
      BY <2>1
    <3>3. QED
      BY <3>1, <3>2
  <2>3. QED
    BY <1>1, <2>1, <2>2 DEF FireHooks
<1>2. CASE ResolveNext
  <2>1. k + 1 \in 1..Len(hooks) /\ hooks[k + 1] \in Runs
    BY <1>2 DEF ResolveNext
  <2>5. /\ k' \in 0..Len(hooks) /\ hooks' = hooks /\ at = "resolve"
        /\ UNCHANGED <<danger, targets, networkAsk, rules, classified, mode, readOnly>>
    BY <1>2 DEF ResolveNext
  <2>2. CASE Verdict(hooks[k + 1]) = "deny"
    <3>1. /\ gate' = "deny" /\ held' = held /\ at' = "decided"
          /\ decision' = Decision("deny", "hook")
      BY <1>2, <2>2 DEF ResolveNext
    <3>2. QED
      BY <2>5, <3>1
  <2>3. CASE Verdict(hooks[k + 1]) # "deny"
    <3>1. Held(hooks[k + 1]) \subseteq {"allow", "ask", "error"}
      BY <2>1, <2>3, Verdicts DEF Held
    <3>2. /\ gate' = gate /\ held' = Held(hooks[k + 1]) /\ at' = at
          /\ decision' = decision
      BY <1>2, <2>3 DEF ResolveNext
    <3>3. QED
      BY <2>5, <3>1, <3>2
  <2>4. QED
    BY <2>2, <2>3
<1>3. CASE ResolveEnd
  BY <1>3 DEF ResolveEnd, GateOf
<1>4. CASE CheckDanger
  BY <1>4 DEF CheckDanger
<1>5. CASE CheckTarget
  <2>1. targets' \in Seq({"allowed", "public", "internal"})
    BY <1>5 DEF CheckTarget
  <2>2. QED
    BY <1>5, <2>1 DEF CheckTarget
<1>6. CASE NoMoreTargets
  BY <1>6 DEF NoMoreTargets
<1>7. CASE CheckRules
  <2>1. /\ rules' \subseteq Behaviors /\ at = "rules"
        /\ \/ \E b \in Behaviors : Decide(b, "rule")
           \/ danger # "none" /\ Decide(danger, "danger")
           \/ GoOnTo("classifier")
    BY <1>7 DEF CheckRules
  <2>2. UNCHANGED <<hooks, k, held, gate, danger, targets, networkAsk, classified, mode,
                    readOnly>>
    BY <1>7 DEF CheckRules
  <2>3. danger \in {"allow", "ask", "none"}
    BY <2>1 DEF StageInv
  <2>4. QED
    BY <2>1, <2>2, <2>3
<1>8. CASE Classify
  BY <1>8 DEF Classify, ClassifierObjects
<1>9. CASE Finalize
  BY <1>9 DEF Finalize, ModeDefault, Downgraded
<1>10. CASE UNCHANGED gateVars
  BY <1>10 DEF gateVars
<1>11. QED
  BY <1>1, <1>2, <1>3, <1>4, <1>5, <1>6, <1>7, <1>8, <1>9, <1>10 DEF GateNext

\* A stage is left for the next one only without an objection.
LEMMA StepStage == GateTypeOK /\ StageInv /\ [GateNext]_gateVars => StageInv'
<1> SUFFICES ASSUME GateTypeOK, StageInv, [GateNext]_gateVars PROVE StageInv'
  OBVIOUS
<1> USE DEF StageInv, Decide, GoOnTo
<1>1. CASE FireHooks
  BY <1>1 DEF FireHooks
<1>2. CASE ResolveNext
  BY <1>2 DEF ResolveNext
<1>3. CASE ResolveEnd
  BY <1>3 DEF ResolveEnd, GateOf
<1>4. CASE CheckDanger
  BY <1>4 DEF CheckDanger, Behaviors
<1>5. CASE CheckTarget
  <2>1. PICK t \in {"allowed", "public", "internal"} :
            /\ targets' = Append(targets, t)
            /\ t # "allowed" => at' = "decided"
            /\ at' \in {"network", "decided"}
    BY <1>5 DEF CheckTarget
  <2>2. targets \in Seq({"allowed", "public", "internal"}) /\ at = "network"
    BY <1>5 DEF CheckTarget, GateTypeOK
  <2>3. at' # "decided" => \A n \in 1..Len(targets') : targets'[n] = "allowed"
    BY <2>1, <2>2
  <2>4. QED
    BY <1>5, <2>1, <2>2, <2>3 DEF CheckTarget
<1>6. CASE NoMoreTargets
  BY <1>6 DEF NoMoreTargets, GateTypeOK, Behaviors
<1>7. CASE CheckRules
  BY <1>7 DEF CheckRules, Behaviors
<1>8. CASE Classify
  BY <1>8 DEF Classify, ClassifierObjects, Behaviors
<1>9. CASE Finalize
  BY <1>9 DEF Finalize
<1>10. CASE UNCHANGED gateVars
  BY <1>10 DEF gateVars
<1>11. QED
  BY <1>1, <1>2, <1>3, <1>4, <1>5, <1>6, <1>7, <1>8, <1>9, <1>10 DEF GateNext

\* The hooks do not change once they have run.
LEMMA SameHooks ==
    ASSUME hooks' = hooks PROVE Strictest' = Strictest
  BY DEF Strictest, Says, SomeErrored

\* With every outcome looked at, what is held makes the strictest verdict.
LEMMA GateOfHeld ==
    ASSUME GateTypeOK, HeldInv, at = "resolve", k = Len(hooks)
    PROVE  GateOf(held) = Strictest
<1>1. ~Says("deny")
  BY DEF HeldInv, Says
<1>2. "ask" \in held <=> Says("ask")
  BY DEF HeldInv, Says
<1>3. "allow" \in held <=> Says("allow")
  BY DEF HeldInv, Says
<1>4. "error" \in held <=> SomeErrored
  BY DEF HeldInv, SomeErrored
<1>5. QED
  BY <1>1, <1>2, <1>3, <1>4 DEF GateOf, Strictest

\* One outcome more: what it adds to what is held is what it said.
LEMMA OneMoreHeld ==
    ASSUME GateTypeOK, HeldInv, ResolveNext, Verdict(hooks[k + 1]) # "deny"
    PROVE  HeldInv'
<1>1. /\ k \in Nat /\ k' = k + 1 /\ k + 1 \in 1..Len(hooks) /\ hooks' = hooks
      /\ held' = Held(hooks[k + 1]) /\ at = "resolve" /\ at' = at /\ gate' = gate
  BY DEF ResolveNext, GateTypeOK, GoOnTo
<1>2. hooks[k + 1] \in Runs
  BY <1>1 DEF GateTypeOK
<1>3. DEFINE r == hooks[k + 1]
<1>4. /\ "ask" \in held' <=> "ask" \in held \/ Verdict(r) = "ask"
      /\ "allow" \in held' <=> "allow" \in held \/ Verdict(r) = "allow"
      /\ "error" \in held' <=> "error" \in held \/ Errored(r)
  BY <1>1, <1>2, Verdicts DEF Held
<1>5. \A n : n \in 1..k' <=> n \in 1..k \/ n = k + 1
  BY <1>1
<1>6. QED
  BY <1>1, <1>4, <1>5 DEF HeldInv, Verdict, Errored

LEMMA StepGate ==
    GateTypeOK /\ HeldInv /\ GateIsStrictest /\ [GateNext]_gateVars => HeldInv' /\ GateIsStrictest'
<1> SUFFICES ASSUME GateTypeOK, HeldInv, GateIsStrictest, [GateNext]_gateVars
             PROVE  HeldInv' /\ GateIsStrictest'
  OBVIOUS
<1> USE DEF Decide, GoOnTo
<1>1. CASE FireHooks
  <2>1. /\ k' = 0 /\ held' = held /\ gate' = gate /\ at' \in {"resolve", "decided"}
        /\ at' = "decided" => hooks' = hooks
        /\ at = "hooks" /\ k = 0
    BY <1>1 DEF FireHooks, GateTypeOK
  <2>2. gate = "none" /\ hooks = <<>> /\ held \cap {"ask", "allow", "error"} = {}
    BY <2>1 DEF HeldInv
  <2>3. HeldInv'
    BY <2>1, <2>2 DEF HeldInv
  <2>4. Strictest = "none"
    BY <2>2 DEF Strictest, Says, SomeErrored
  <2>5. GateIsStrictest'
    BY <2>1, <2>2, <2>4, SameHooks DEF GateIsStrictest
  <2>6. QED
    BY <2>3, <2>5
<1>2. CASE ResolveNext
  <2>1. CASE Verdict(hooks[k + 1]) = "deny"
    <3>1. at' = "decided" /\ gate' = "deny" /\ k + 1 \in 1..Len(hooks) /\ hooks' = hooks
      BY <1>2, <2>1 DEF ResolveNext, GateTypeOK
    <3>2. Strictest = "deny"
      BY <2>1, <3>1 DEF Strictest, Says
    <3>3. QED
      BY <3>1, <3>2, SameHooks DEF HeldInv, GateIsStrictest
  <2>2. CASE Verdict(hooks[k + 1]) # "deny"
    <3>1. at' = "resolve"
      BY <1>2, <2>2 DEF ResolveNext
    <3>2. QED
      BY <1>2, <2>2, <3>1, OneMoreHeld DEF GateIsStrictest
  <2>3. QED
    BY <2>1, <2>2
<1>3. CASE ResolveEnd
  <2>1. gate' = GateOf(held) /\ at = "resolve" /\ k = Len(hooks) /\ hooks' = hooks
        /\ at' = "danger"
    BY <1>3 DEF ResolveEnd
  <2>2. QED
    BY <2>1, GateOfHeld, SameHooks DEF HeldInv, GateIsStrictest
<1>4. ASSUME UNCHANGED <<hooks, k, held, gate>>,
             at \notin {"hooks", "resolve"}, at' \notin {"hooks", "resolve"}
      PROVE  HeldInv' /\ GateIsStrictest'
  BY <1>4, SameHooks DEF HeldInv, GateIsStrictest
<1>5. CASE CheckDanger
  BY <1>4, <1>5 DEF CheckDanger
<1>6. CASE CheckTarget
  BY <1>4, <1>6 DEF CheckTarget
<1>7. CASE NoMoreTargets
  BY <1>4, <1>7 DEF NoMoreTargets
<1>8. CASE CheckRules
  BY <1>4, <1>8 DEF CheckRules
<1>9. CASE Classify
  BY <1>4, <1>9 DEF Classify
<1>10. CASE Finalize
  BY <1>4, <1>10 DEF Finalize
<1>11. CASE UNCHANGED gateVars
  BY <1>11, SameHooks DEF gateVars, HeldInv, GateIsStrictest
<1>12. QED
  BY <1>1, <1>2, <1>3, <1>5, <1>6, <1>7, <1>8, <1>9, <1>10, <1>11 DEF GateNext

\* The step that allows a call finds the stages before it without objection.
LEMMA StepAllow == GateTypeOK /\ StageInv /\ AllowInv /\ [GateNext]_gateVars => AllowInv'
<1> SUFFICES ASSUME GateTypeOK, StageInv, AllowInv, [GateNext]_gateVars PROVE AllowInv'
  OBVIOUS
<1> USE DEF Decide, GoOnTo, Decision, AllowInv
<1>1. ASSUME decision' = decision, decision = NoDecision PROVE AllowInv'
  BY <1>1 DEF NoDecision
<1>2. at # "decided" => decision = NoDecision
  BY DEF GateTypeOK
<1>3. CASE FireHooks
  BY <1>1, <1>2, <1>3 DEF FireHooks
<1>4. CASE ResolveNext
  BY <1>1, <1>2, <1>4 DEF ResolveNext
<1>5. CASE ResolveEnd
  BY <1>1, <1>2, <1>5 DEF ResolveEnd
<1>6. CASE CheckDanger
  BY <1>1, <1>2, <1>6 DEF CheckDanger
<1>7. CASE CheckTarget
  BY <1>1, <1>2, <1>7 DEF CheckTarget
<1>8. CASE NoMoreTargets
  BY <1>1, <1>2, <1>8 DEF NoMoreTargets, StageInv
<1>9. CASE CheckRules
  <2>1. at = "rules" /\ UNCHANGED <<gate, danger, targets, classified>>
    BY <1>9 DEF CheckRules
  <2>2. /\ gate = "none" /\ classified = "unseen" /\ danger \in {"allow", "ask", "none"}
        /\ \A n \in 1..Len(targets) : targets[n] = "allowed"
    BY <2>1 DEF StageInv
  <2>3. \/ decision' = decision
        \/ decision'.behavior # "allow"
        \/ decision'.behavior = "allow" /\ rules' = {"allow"}
        \/ decision'.behavior = "allow" /\ rules' = {} /\ danger = "allow"
    BY <1>9, <2>2 DEF CheckRules, Behaviors
  <2>4. QED
    BY <1>1, <1>2, <2>1, <2>2, <2>3
<1>10. CASE Classify
  BY <1>1, <1>2, <1>10 DEF Classify, ClassifierObjects, Behaviors
<1>11. CASE Finalize
  <2>1. at = "mode" /\ UNCHANGED <<gate, danger, targets, classified, rules, mode, readOnly>>
    BY <1>11 DEF Finalize
  <2>2. decision'.behavior = "allow" => mode = "auto" \/ (mode = "ask" /\ readOnly)
    BY <1>11, <2>1 DEF Finalize, Downgraded, ModeDefault, GateTypeOK
  <2>3. QED
    BY <2>1, <2>2 DEF StageInv
<1>12. CASE UNCHANGED gateVars
  BY <1>12 DEF gateVars
<1>13. QED
  BY <1>3, <1>4, <1>5, <1>6, <1>7, <1>8, <1>9, <1>10, <1>11, <1>12 DEF GateNext

\* The strengthened invariant holds at the start, and says what is claimed.
LEMMA InitGateIInv == GateInit => GateIInv
<1> SUFFICES ASSUME GateInit PROVE GateIInv
  OBVIOUS
<1>1. GateTypeOK
  BY InitTyping
<1>2. StageInv /\ HeldInv /\ GateIsStrictest /\ AllowInv
  BY DEF GateInit, StageInv, HeldInv, GateIsStrictest, AllowInv, NoDecision, Decision
<1>3. QED
  BY <1>1, <1>2 DEF GateIInv

LEMMA IInvImplies == GateIInv => AllowIsJustified
<1> SUFFICES ASSUME GateIInv, decision.behavior = "allow"
             PROVE  Unopposed /\ Reasoned
  BY DEF AllowIsJustified
<1>1. at = "decided"
  BY DEF GateIInv, GateTypeOK, NoDecision, Decision
<1>2. gate = Strictest /\ gate \in {"allow", "none"}
  BY <1>1 DEF GateIInv, GateIsStrictest, AllowInv
<1>3. ~Says("deny") /\ ~Says("ask") /\ ~SomeErrored
  BY <1>2 DEF Strictest
<1>4. gate = "allow" => Says("allow")
  BY <1>2 DEF Strictest
<1>5. Unopposed
  BY <1>3 DEF GateIInv, AllowInv, Unopposed
<1>6. Reasoned
  BY <1>2, <1>4 DEF GateIInv, AllowInv, Reasoned
<1>7. QED
  BY <1>5, <1>6

LEMMA StepGateIInv == GateIInv /\ [GateNext]_gateVars => GateIInv'
  BY StepTyping, StepStage, StepGate, StepAllow DEF GateIInv

\* Every variable keeps its type, and a decision is taken once, at the end.
THEOREM GateTyping == GateSpec => []GateTypeOK
<1>1. GateIInv => GateTypeOK
  BY DEF GateIInv
<1>2. QED
  BY <1>1, InitGateIInv, StepGateIInv, PTL DEF GateSpec

\* However many hooks there are and in whatever order their outcomes come, the
\* gate's verdict is that of the strictest of them.
THEOREM StrictestHookDecides == GateSpec => []GateIsStrictest
<1>1. GateIInv => GateIsStrictest
  BY DEF GateIInv
<1>2. QED
  BY <1>1, InitGateIInv, StepGateIInv, PTL DEF GateSpec

\* No call is allowed that a hook, the danger check, the policy on any of its
\* destinations or the classifier objected to, none because one of them failed, and
\* none without an explicit verdict, or the mode's where nothing had one.
THEOREM NothingIsAllowedWithoutReason == GateSpec => []AllowIsJustified
  BY InitGateIInv, StepGateIInv, IInvImplies, PTL DEF GateSpec

-------------------------------------------------------------------------------
(* The requests                                                               *)

\* A call that has a chain of requests, its own or those it will send
Walks(c) == call[c].at \in {"queues", "sleeps", "fetches", "cut"}

\* A chain under way is never empty.
ChainInv == \A c \in Calls : Walks(c) => call[c].chain # <<>>

\* The slot after the last grant is at least one interval after it, and so on back
\* to the first.
SlotInv ==
    \A m \in DOMAIN grants :
        nextAllowed >= grants[m] + (Len(grants) - m + 1) * Interval

\* The spacing itself
SpacedInv ==
    \A m, n \in DOMAIN grants :
        m < n => grants[n] - grants[m] >= (n - m) * Interval - Early

\* Where the credentials are at the end of a chain: if they are still carried, all
\* its requests went to the first one's origin and carried them.
HomeInv ==
    \A c \in Calls :
        Walks(c) =>
            /\ \A i \in DOMAIN call[c].chain : call[c].chain[i].to \in allowed
            /\ call[c].creds =>
                   \A i \in DOMAIN call[c].chain :
                       call[c].chain[i] = [to |-> call[c].chain[1].to, creds |-> TRUE]
            /\ \A i \in DOMAIN call[c].chain :
                   call[c].chain[i].creds =>
                       \A j \in 1..i : call[c].chain[j] = call[c].chain[1]

IInv == TypeOK /\ ChainInv /\ SlotInv /\ SpacedInv /\ HomeInv
-------------------------------------------------------------------------------
\* An element of a sequence over S is in S.
LEMMA ElementOf == ASSUME NEW S, NEW s \in Seq(S), NEW m \in 1..Len(s) PROVE s[m] \in S
  OBVIOUS

\* What acquire() needs before it returns
Ready(c) == c \in Calls /\ now >= nextAllowed - Early /\ Walks(c) /\ Granted(c)

\* The invariant holds at the start.
LEMMA InitIInv == Init => IInv
  BY ConstantsAssumption DEF Init, IInv, TypeOK, ChainInv, SlotInv, SpacedInv, HomeInv, Walks,
     NotMade, Places
-------------------------------------------------------------------------------
(* The types                                                                  *)

Record == [at : Places, creds : BOOLEAN, chain : Seq([to : Origins, creds : BOOLEAN])]

CallType == /\ call \in [Calls -> Record]
            /\ \A c \in Calls : Len(call[c].chain) <= MaxRedirects + 1

\* A call that only changes its place stays well typed, and so does one that is over.
LEMMA GotoType ==
    ASSUME CallType, NEW c \in Calls, NEW place \in Places, Goto(c, place) PROVE CallType'
<1>1. [call[c] EXCEPT !.at = place] \in Record /\ [call[c] EXCEPT !.at = place].chain = call[c].chain
  BY DEF CallType, Record
<1>2. call' = [call EXCEPT ![c] = [call[c] EXCEPT !.at = place]]
  BY DEF Goto
<1>3. QED
  BY <1>1, <1>2 DEF CallType

LEMMA OverType == ASSUME CallType, NEW c \in Calls, Over(c) PROVE CallType'
<1>1. call' = [call EXCEPT ![c] = [at |-> "over", creds |-> FALSE, chain |-> <<>>]]
  BY DEF Over
<1>2. [at |-> "over", creds |-> FALSE, chain |-> <<>>] \in Record
  BY DEF Record, Places
<1>3. Len(<<>>) = 0 /\ MaxRedirects \in Nat
  BY ConstantsAssumption DEF ConstantsAssumption
<1>4. call'[c].chain = <<>> /\ \A d \in Calls \ {c} : call'[d] = call[d]
  BY <1>1 DEF CallType
<1>5. call' \in [Calls -> Record]
  BY <1>1, <1>2 DEF CallType
<1>6. QED
  BY <1>3, <1>4, <1>5 DEF CallType

\* The steps keep the types, one lemma for each that changes more than a place.
LEMMA GrantedType == ASSUME IInv, NEW c, Ready(c) PROVE TypeOK'
<1>1. nextAllowed' \in Nat
  BY ConstantsAssumption DEF IInv, TypeOK, Ready, Granted, NextSlot
<1>2. grants' \in Seq(0..MaxTime)
  BY DEF IInv, TypeOK, Ready, Granted
<1>3. lock' \subseteq Calls /\ client' \in {"none", "open", "closed"}
  BY DEF IInv, TypeOK, Ready, Granted
<1>4. CallType
  BY DEF IInv, TypeOK, CallType, Record
<1>5. CallType'
  BY <1>4, GotoType, OverType DEF Ready, Granted, Places
<1>6. QED
  BY <1>1, <1>2, <1>3, <1>5 DEF IInv, TypeOK, Ready, Granted, CallType, Record

LEMMA RequestType == ASSUME IInv, NEW c \in Calls, Request(c) PROVE TypeOK'
<1>1. CallType
  BY DEF IInv, TypeOK, CallType, Record
<1>2. PICK url \in Origins, creds \in BOOLEAN :
          IF HopAllowed(url)
          THEN call' = [call EXCEPT ![c] = [at |-> "queues", creds |-> creds,
                                            chain |-> <<[to |-> url, creds |-> creds]>>]]
          ELSE Over(c)
  BY DEF Request
<1>3. CallType'
  <2>1. CASE HopAllowed(url)
    <3> DEFINE r == [at |-> "queues", creds |-> creds,
                     chain |-> <<[to |-> url, creds |-> creds]>>]
    <3>1. r \in Record /\ Len(r.chain) <= MaxRedirects + 1
      BY ConstantsAssumption DEF Record, Places
    <3>2. call' = [call EXCEPT ![c] = r]
      BY <1>2, <2>1
    <3> HIDE DEF r
    <3>3. QED
      BY <1>1, <3>1, <3>2 DEF CallType
  <2>2. CASE ~HopAllowed(url)
    BY <1>1, <1>2, <2>2, OverType
  <2>3. QED
    BY <2>1, <2>2
<1>4. QED
  BY <1>3 DEF IInv, TypeOK, Request, CallType, Record

LEMMA RedirectedType == ASSUME IInv, NEW c \in Calls, Redirected(c) PROVE TypeOK'
<1>1. CallType
  BY DEF IInv, TypeOK, CallType, Record
<1>2. PICK to \in Origins :
          IF Hops(c) >= MaxRedirects \/ ~HopAllowed(to) THEN Over(c)
          ELSE call' = [call EXCEPT ![c].creds = CredentialsFor(c, to),
                                    ![c].chain = Append(@, [to |-> to,
                                                            creds |-> CredentialsFor(c, to)])]
  BY DEF Redirected
<1>3. CallType'
  <2>1. CASE Hops(c) >= MaxRedirects \/ ~HopAllowed(to)
    BY <1>1, <1>2, <2>1, OverType
  <2>2. CASE ~(Hops(c) >= MaxRedirects \/ ~HopAllowed(to))
    <3> DEFINE cr == CredentialsFor(c, to)
               r == [at |-> call[c].at, creds |-> cr,
                     chain |-> Append(call[c].chain, [to |-> to, creds |-> cr])]
    <3>1. cr \in BOOLEAN
      BY DEF CredentialsFor, CallType, Record
    <3>2. call' = [call EXCEPT ![c] = r]
      BY <1>1, <1>2, <2>2 DEF CallType, Record
    <3>3. Len(call[c].chain) \in Nat /\ Len(call[c].chain) - 1 < MaxRedirects
      BY <1>1, <2>2, ConstantsAssumption DEF Hops, CallType, Record
    <3> HIDE DEF cr
    <3>4. call[c] \in Record /\ [to |-> to, creds |-> cr] \in [to : Origins, creds : BOOLEAN]
      BY <1>1, <3>1 DEF CallType
    <3>5. /\ r.chain \in Seq([to : Origins, creds : BOOLEAN])
          /\ Len(r.chain) = Len(call[c].chain) + 1
      BY <3>4 DEF Record
    <3>6. r \in Record
      BY <3>1, <3>4, <3>5 DEF Record
    <3> HIDE DEF r
    <3>7. QED
      BY <1>1, <3>2, <3>3, <3>5, <3>6, ConstantsAssumption DEF CallType
  <2>3. QED
    BY <2>1, <2>2
<1>4. QED
  BY <1>3 DEF IInv, TypeOK, Redirected, CallType, Record

LEMMA CloseType == ASSUME IInv, Close PROVE TypeOK'
<1>1. CallType
  BY DEF IInv, TypeOK, CallType, Record
<1>2. ASSUME NEW c \in Calls
      PROVE  /\ call'[c] \in Record
             /\ call'[c].chain = call[c].chain
  BY <1>1 DEF Close, CallType, Record, Places
<1>3. CallType'
  BY <1>1, <1>2 DEF Close, CallType
<1>4. QED
  BY <1>3 DEF IInv, TypeOK, Close, CallType, Record

\* Every step keeps the types.
LEMMA StepType == ASSUME IInv, [Next]_vars PROVE TypeOK'
<1>1. CallType
  BY DEF IInv, TypeOK, CallType, Record
<1>2. ASSUME NEW c \in Calls, Acquire(c) PROVE TypeOK'
  <2>1. CASE nextAllowed > now
    <3>1. CallType'
      BY <1>1, <1>2, <2>1, GotoType DEF Acquire, Places
    <3>2. QED
      BY <1>2, <2>1, <3>1 DEF IInv, TypeOK, Acquire, CallType, Record
  <2>2. CASE ~(nextAllowed > now)
    <3>1. Ready(c)
      BY <1>2, <2>2, ConstantsAssumption DEF IInv, TypeOK, Acquire, Ready, Walks
    <3>2. QED
      BY <3>1, GrantedType
  <2>3. QED
    BY <2>1, <2>2
<1>3. ASSUME NEW c \in Calls, Wake(c) PROVE TypeOK'
  <2>1. Ready(c)
    BY <1>3 DEF Wake, Ready, Walks
  <2>2. QED
    BY <2>1, GrantedType
<1>4. ASSUME NEW c \in Calls, Answered(c) \/ TimesOut(c) PROVE TypeOK'
  <2>1. CallType'
    BY <1>1, <1>4, OverType DEF Answered, TimesOut
  <2>2. QED
    BY <1>4, <2>1 DEF IInv, TypeOK, Answered, TimesOut, CallType, Record
<1>5. CASE Tick
  <2>1. now' \in 0..MaxTime
    BY <1>5, ConstantsAssumption DEF IInv, TypeOK, Tick
  <2>2. QED
    BY <1>5, <2>1 DEF IInv, TypeOK, Tick
<1>6. CASE Closed
  BY <1>6 DEF IInv, TypeOK, Closed
<1>7. CASE UNCHANGED vars
  BY <1>7 DEF IInv, TypeOK, vars
<1>8. QED
  BY <1>2, <1>3, <1>4, <1>5, <1>6, <1>7, RequestType, RedirectedType, CloseType DEF Next
-------------------------------------------------------------------------------
(* The spacing of the grants                                                  *)

\* A grant is one interval after the last slot began, but for what the sleep was short of;
\* the next slot is counted from the later of the two, so that shortage does not add up.
LEMMA GrantedSpacing == ASSUME IInv, NEW c, Ready(c) PROVE SlotInv' /\ SpacedInv'
<1>1. /\ grants \in Seq(0..MaxTime) /\ grants' = Append(grants, now) /\ now \in Nat
      /\ nextAllowed \in Nat /\ Interval \in Nat /\ Early \in Nat
      /\ nextAllowed' = NextSlot /\ now >= nextAllowed - Early
  BY ConstantsAssumption DEF IInv, TypeOK, Ready, Granted
<1> DEFINE n == Len(grants)
<1>2. /\ n \in Nat /\ Len(grants') = n + 1 /\ grants'[n + 1] = now
      /\ \A m \in 1..n : grants'[m] = grants[m] /\ grants[m] \in Nat
      /\ DOMAIN grants' = 1..n + 1 /\ DOMAIN grants = 1..n
  <2>1. n \in Nat /\ DOMAIN grants = 1..n
    BY <1>1
  <2>2. Len(grants') = n + 1 /\ grants'[n + 1] = now /\ DOMAIN grants' = 1..n + 1
    BY <1>1, <2>1
  <2>3. ASSUME NEW m \in 1..n PROVE grants'[m] = grants[m] /\ grants[m] \in Nat
    <3>1. grants'[m] = grants[m]
      BY <1>1, <2>1
    <3>2. grants[m] \in 0..MaxTime
      BY <1>1, <2>1, ElementOf
    <3>3. QED
      BY <3>1, <3>2
  <2>4. QED
    BY <2>1, <2>2, <2>3
<1>3. ASSUME NEW m \in 1..n
      PROVE  /\ nextAllowed >= grants[m] + (n - m + 1) * Interval
             /\ nextAllowed' >= grants[m] + (n + 1 - m + 1) * Interval
  <2>1. nextAllowed >= grants[m] + (n - m + 1) * Interval
    BY <1>2 DEF IInv, SlotInv
  <2>2. (n + 1 - m + 1) * Interval = (n - m + 1) * Interval + Interval
    BY <1>1, <1>2
  <2>3. nextAllowed' >= nextAllowed + Interval
    BY <1>1 DEF NextSlot
  <2>4. (n - m + 1) * Interval \in Int /\ nextAllowed' \in Int
    BY <1>1, <1>2 DEF NextSlot
  <2>5. QED
    BY <1>1, <1>2, <2>1, <2>2, <2>3, <2>4
<1>4. SlotInv'
  <2>1. nextAllowed' >= now + (n + 1 - (n + 1) + 1) * Interval
    BY <1>1, <1>2 DEF NextSlot
  <2>2. QED
    BY <1>2, <1>3, <2>1 DEF SlotInv
<1>5. SpacedInv'
  <2>1. ASSUME NEW m \in 1..n
        PROVE  now - grants[m] >= (n + 1 - m) * Interval - Early
    <3>1. n + 1 - m = n - m + 1 /\ (n - m + 1) * Interval \in Int
      BY <1>1, <1>2
    <3>2. QED
      BY <1>1, <1>2, <1>3, <3>1
  <2>2. QED
    BY <1>2, <2>1 DEF IInv, SpacedInv
<1>6. QED
  BY <1>4, <1>5

\* No other step touches the slots or the grants.
LEMMA StepSpacing == ASSUME IInv, [Next]_vars PROVE SlotInv' /\ SpacedInv'
<1>1. ASSUME NEW c \in Calls, Acquire(c), nextAllowed <= now PROVE SlotInv' /\ SpacedInv'
  <2>1. Ready(c)
    BY <1>1, ConstantsAssumption DEF IInv, TypeOK, Acquire, Ready, Walks
  <2>2. QED
    BY <2>1, GrantedSpacing
<1>2. ASSUME NEW c \in Calls, Wake(c) PROVE SlotInv' /\ SpacedInv'
  <2>1. Ready(c)
    BY <1>2 DEF Wake, Ready, Walks
  <2>2. QED
    BY <2>1, GrantedSpacing
<1>3. CASE UNCHANGED <<nextAllowed, grants>>
  BY <1>3 DEF IInv, SlotInv, SpacedInv
<1>4. \/ \E c \in Calls : Acquire(c) /\ nextAllowed <= now
      \/ \E c \in Calls : Wake(c)
      \/ UNCHANGED <<nextAllowed, grants>>
  BY DEF IInv, TypeOK, Next, vars, Request, Acquire, Redirected, Answered, TimesOut, Tick, Close,
         Closed
<1>5. QED
  BY <1>1, <1>2, <1>3, <1>4
-------------------------------------------------------------------------------
(* The chains                                                                 *)

\* What ChainInv and HomeInv say of one call
Home(c) ==
    Walks(c) =>
        /\ call[c].chain # <<>>
        /\ \A i \in DOMAIN call[c].chain : call[c].chain[i].to \in allowed
        /\ call[c].creds =>
               \A i \in DOMAIN call[c].chain :
                   call[c].chain[i] = [to |-> call[c].chain[1].to, creds |-> TRUE]
        /\ \A i \in DOMAIN call[c].chain :
               call[c].chain[i].creds =>
                   \A j \in 1..i : call[c].chain[j] = call[c].chain[1]

\* Home says of one call what the two invariants say of all.
LEMMA HomeOfAll == (\A c \in Calls : Home(c)) <=> ChainInv /\ HomeInv
  BY DEF Home, ChainInv, HomeInv

\* A call that is left alone, or over, is as it was.
LEMMA HomeKept ==
    ASSUME NEW c \in Calls, Home(c), allowed' = allowed,
           \/ /\ call'[c].chain = call[c].chain /\ call'[c].creds = call[c].creds
              /\ Walks(c)' => Walks(c)
           \/ ~Walks(c)'
    PROVE  Home(c)'
  BY DEF Home

\* A first request is the whole of its chain.
LEMMA HomeRequested ==
    ASSUME NEW c \in Calls, NEW url \in allowed, NEW creds \in BOOLEAN, allowed' = allowed,
           call'[c] = [at |-> "queues", creds |-> creds,
                       chain |-> <<[to |-> url, creds |-> creds]>>]
    PROVE  Home(c)'
<1>1. /\ call'[c].chain = <<[to |-> url, creds |-> creds]>> /\ call'[c].creds = creds
      /\ DOMAIN call'[c].chain = {1}
  OBVIOUS
<1>2. call'[c].chain # <<>> /\ call'[c].chain[1] = [to |-> url, creds |-> creds]
  BY <1>1
<1>3. \A i \in DOMAIN call'[c].chain : i = 1
  BY <1>1
<1>4. \A i \in DOMAIN call'[c].chain : \A j \in 1..i : j = 1
  BY <1>3
<1>5. ASSUME call'[c].creds
      PROVE  call'[c].chain[1] = [to |-> call'[c].chain[1].to, creds |-> TRUE]
  <2>1. creds = TRUE
    BY <1>1, <1>5
  <2>2. call'[c].chain[1] = [to |-> url, creds |-> TRUE]
    BY <1>2, <2>1
  <2>3. call'[c].chain[1].to = url
    BY <2>2
  <2>4. QED
    BY <2>2, <2>3
<1>6. QED
  BY <1>2, <1>3, <1>4, <1>5 DEF Home

\* A redirect keeps the credentials only if it stays where all of the chain has been.
LEMMA HomeAppended ==
    ASSUME TypeOK, NEW c \in Calls, Home(c), Walks(c), NEW to \in allowed, NEW cr \in BOOLEAN,
           allowed' = allowed, cr = CredentialsFor(c, to),
           call'[c].creds = cr,
           call'[c].chain = Append(call[c].chain, [to |-> to, creds |-> cr])
    PROVE  Home(c)'
<1> DEFINE old == call[c].chain
           new == call'[c].chain
           n == Len(old)
<1>1. old \in Seq([to : Origins, creds : BOOLEAN]) /\ to \in Origins
  BY DEF TypeOK
<1>2. /\ n \in Nat \ {0} /\ DOMAIN old = 1..n /\ DOMAIN new = 1..n + 1
      /\ new[n + 1] = [to |-> to, creds |-> cr]
  BY <1>1 DEF Home
<1>3. \A i \in 1..n : new[i] = old[i]
  BY <1>1, <1>2
<1>4. \A i \in 1..n + 1 : new[i].to \in allowed
  BY <1>2, <1>3 DEF Home
<1>5. ASSUME cr
      PROVE  \A i \in 1..n + 1 : new[i] = [to |-> new[1].to, creds |-> TRUE]
  <2>1. \A i \in 1..n : old[i] = [to |-> old[1].to, creds |-> TRUE]
    BY <1>2, <1>5 DEF Home, CredentialsFor
  <2>2. to = old[n].to /\ cr = TRUE
    BY <1>5 DEF CredentialsFor, Here, Last
  <2>3. to = old[1].to
    BY <1>2, <2>1, <2>2
  <2>4. new[n + 1] = [to |-> old[1].to, creds |-> TRUE]
    BY <1>2, <2>2, <2>3
  <2>5. new[1].to = old[1].to
    BY <1>2, <1>3
  <2>6. \A i \in 1..n : new[i] = [to |-> old[1].to, creds |-> TRUE]
    BY <1>3, <2>1
  <2>7. \A i \in 1..n + 1 : i \in 1..n \/ i = n + 1
    BY <1>2
  <2> HIDE DEF old, new, n
  <2>8. QED
    BY <2>4, <2>5, <2>6, <2>7
<1>6. ASSUME NEW i \in 1..n + 1, new[i].creds
      PROVE  \A j \in 1..i : new[j] = new[1]
  <2>1. CASE i = n + 1
    <3>1. cr
      BY <1>2, <1>6, <2>1
    <3>2. \A j \in 1..n + 1 : new[j] = [to |-> new[1].to, creds |-> TRUE]
      BY <1>5, <3>1
    <3>3. 1 \in 1..n + 1
      BY <1>2
    <3>4. QED
      BY <2>1, <3>2, <3>3
  <2>2. CASE i \in 1..n
    BY <1>2, <1>3, <1>6, <2>2 DEF Home
  <2>3. QED
    BY <1>2, <2>1, <2>2
<1>7. new # <<>>
  <2>0. 1 \in 1..n + 1
    BY <1>2
  <2>1. 1 \in DOMAIN new
    BY <1>2, <2>0
  <2>2. DOMAIN <<>> = {}
    OBVIOUS
  <2>3. QED
    BY <2>1, <2>2
<1> HIDE DEF old, new, n
<1>8. QED
  BY <1>2, <1>4, <1>5, <1>6, <1>7 DEF Home, new

\* Every step keeps Home of the call that takes it, and of the others.
LEMMA StepHome == ASSUME IInv, [Next]_vars PROVE ChainInv' /\ HomeInv'
<1>1. \A d \in Calls : Home(d)
  BY HomeOfAll DEF IInv
<1>2. allowed' = allowed /\ TypeOK
  BY DEF IInv, Next, vars, Request, Acquire, Wake, Granted, Redirected, Answered, TimesOut, Tick,
         Close, Closed

\* The calls other than the one that takes the step
<1>3. ASSUME NEW d \in Calls, call'[d] = call[d] PROVE Home(d)'
  BY <1>1, <1>2, <1>3, HomeKept DEF Walks
<1>4. ASSUME NEW c \in Calls, Over(c), NEW d \in Calls PROVE Home(d)'
  <2>1. CASE d = c
    <3>1. ~Walks(d)'
      BY <1>2, <1>4, <2>1 DEF Over, TypeOK, Walks
    <3>2. QED
      BY <1>1, <1>2, <3>1, HomeKept
  <2>2. CASE d # c
    BY <1>2, <1>3, <1>4, <2>2 DEF Over, TypeOK
  <2>3. QED
    BY <2>1, <2>2
<1>5. ASSUME NEW c \in Calls, NEW place, Goto(c, place), Walks(c), NEW d \in Calls PROVE Home(d)'
  <2>1. call'[d].chain = call[d].chain /\ call'[d].creds = call[d].creds
    BY <1>2, <1>5 DEF Goto, TypeOK
  <2>2. CASE d = c
    BY <1>1, <1>2, <1>5, <2>1, <2>2, HomeKept
  <2>3. CASE d # c
    BY <1>2, <1>3, <1>5, <2>3 DEF Goto, TypeOK
  <2>4. QED
    BY <2>2, <2>3
<1>6. ASSUME NEW c \in Calls, Request(c), NEW d \in Calls PROVE Home(d)'
  <2>1. PICK url \in Origins, creds \in BOOLEAN :
            IF HopAllowed(url)
            THEN call' = [call EXCEPT ![c] = [at |-> "queues", creds |-> creds,
                                              chain |-> <<[to |-> url, creds |-> creds]>>]]
            ELSE Over(c)
    BY <1>6 DEF Request
  <2>2. CASE HopAllowed(url) /\ d = c
    BY <1>2, <2>1, <2>2, HomeRequested DEF HopAllowed, TypeOK
  <2>3. CASE HopAllowed(url) /\ d # c
    BY <1>2, <1>3, <2>1, <2>3 DEF TypeOK
  <2>4. CASE ~HopAllowed(url)
    BY <1>4, <2>1, <2>4
  <2>5. QED
    BY <2>2, <2>3, <2>4
<1>7. ASSUME NEW c \in Calls, Redirected(c), NEW d \in Calls PROVE Home(d)'
  <2>1. PICK to \in Origins :
            IF Hops(c) >= MaxRedirects \/ ~HopAllowed(to) THEN Over(c)
            ELSE call' = [call EXCEPT ![c].creds = CredentialsFor(c, to),
                                      ![c].chain = Append(@, [to |-> to,
                                                              creds |-> CredentialsFor(c, to)])]
    BY <1>7 DEF Redirected
  <2>2. CASE Hops(c) >= MaxRedirects \/ ~HopAllowed(to)
    BY <1>4, <2>1, <2>2
  <2>3. CASE ~(Hops(c) >= MaxRedirects \/ ~HopAllowed(to))
    <3> DEFINE cr == CredentialsFor(c, to)
    <3>1. cr \in BOOLEAN /\ to \in allowed /\ Walks(c)
      BY <1>2, <1>7, <2>3 DEF CredentialsFor, HopAllowed, TypeOK, Redirected, Walks
    <3>2. CASE d = c
      <4>1. call'[d].creds = cr /\ call'[d].chain = Append(call[d].chain, [to |-> to, creds |-> cr])
        BY <1>2, <2>1, <2>3, <3>2 DEF TypeOK
      <4> HIDE DEF cr
      <4>2. cr = CredentialsFor(d, to)
        BY <3>2 DEF cr
      <4>3. QED
        BY <1>1, <1>2, <3>1, <3>2, <4>1, <4>2, HomeAppended
    <3>3. CASE d # c
      BY <1>2, <1>3, <2>1, <2>3, <3>3 DEF TypeOK
    <3>4. QED
      BY <3>2, <3>3
  <2>4. QED
    BY <2>2, <2>3
<1>8. ASSUME NEW c \in Calls, Acquire(c) \/ Wake(c), NEW d \in Calls PROVE Home(d)'
  <2>1. Walks(c) /\ (Over(c) \/ Goto(c, "sleeps") \/ Goto(c, "fetches"))
    BY <1>8 DEF Acquire, Wake, Granted, Walks
  <2>2. QED
    BY <1>4, <1>5, <2>1
<1>9. ASSUME Close, NEW d \in Calls PROVE Home(d)'
  <2>1. /\ call'[d].chain = call[d].chain /\ call'[d].creds = call[d].creds
        /\ Walks(d)' => Walks(d)
    BY <1>2, <1>9 DEF Close, TypeOK, Walks
  <2>2. QED
    BY <1>1, <1>2, <2>1, HomeKept
<1>10. ASSUME NEW d \in Calls PROVE Home(d)'
  <2>1. \/ \E c \in Calls : Request(c) \/ Redirected(c) \/ Acquire(c) \/ Wake(c) \/ Over(c)
        \/ Close
        \/ call' = call
    BY DEF Next, vars, Answered, TimesOut, Tick, Closed
  <2>2. QED
    BY <1>3, <1>4, <1>6, <1>7, <1>8, <1>9, <2>1
<1>11. QED
  BY <1>10 DEF Home, ChainInv, HomeInv
-------------------------------------------------------------------------------
\* The invariant is inductive.
LEMMA Inductive == Spec => []IInv
<1>1. ASSUME IInv, [Next]_vars PROVE IInv'
  BY <1>1, StepType, StepSpacing, StepHome DEF IInv
<1>2. QED
  BY <1>1, InitIInv, PTL DEF Spec

\* ratelimit.py:3-6: for any rate, any clock resolution below the interval and any
\* number of parallel calls that wait, wake late or early, or are cancelled, n
\* requests take n - 1 intervals less at most one tick of that resolution.
THEOREM Spacing == Spec => []RequestsAreSpaced
<1>1. IInv => RequestsAreSpaced
  BY DEF IInv, SpacedInv, RequestsAreSpaced
<1>2. QED
  BY <1>1, Inductive, PTL

\* http.py:257-262 and :301-306: along redirect chains of any length over any
\* origins, only accepted origins are addressed, and the caller's credentials reach
\* the origin he addressed alone.
THEOREM Credentials == Spec => []CredentialsStayHome
<1>1. IInv => CredentialsStayHome
  BY DEF IInv, HomeInv, Walks, CredentialsStayHome
<1>2. QED
  BY <1>1, Inductive, PTL
-------------------------------------------------------------------------------
(* The names of the MCP servers' tools                                        *)

\* Every name stands for a tool of its base, and no two for one tool.
IsTable(tbl) ==
    /\ tbl \in [Names -> Entries]
    /\ \A n \in Names : tbl[n] # None => n[1] = BaseOf[tbl[n].sid, tbl[n].tool]
    /\ \A m, n \in Names : tbl[m] # None /\ tbl[m] = tbl[n] => m = n

LEMMA EntryIs ==
    /\ \A s \in Servers, t \in Tools : /\ Entry(s, t) \in Entries /\ Entry(s, t) # None
                                       /\ Entry(s, t).sid = s /\ Entry(s, t).tool = t
    /\ \A e \in Entries : e # None => /\ e.sid \in Servers /\ e.tool \in Tools
                                      /\ e = Entry(e.sid, e.tool)
    /\ None \in Entries /\ None.sid \notin Servers
<1>1. None.sid = "none" /\ "none" \notin Servers
  BY McpConstants DEF McpConstants, None
<1>2. ASSUME NEW s \in Servers, NEW t \in Tools
      PROVE  /\ Entry(s, t) \in Entries /\ Entry(s, t) # None
             /\ Entry(s, t).sid = s /\ Entry(s, t).tool = t
  <2>1. Entry(s, t).sid = s /\ Entry(s, t).tool = t
    BY DEF Entry
  <2>2. QED
    BY <1>1, <2>1 DEF Entries
<1>3. ASSUME NEW e \in Entries, e # None
      PROVE  e.sid \in Servers /\ e.tool \in Tools /\ e = Entry(e.sid, e.tool)
  <2>1. PICK s \in Servers, t \in Tools : e = Entry(s, t)
    BY <1>3 DEF Entries
  <2>2. QED
    BY <1>2, <2>1
<1>4. None \in Entries
  BY DEF Entries
<1>5. QED
  BY <1>1, <1>2, <1>3, <1>4

LEMMA LeastNumber == ASSUME NEW S \in SUBSET Nat, S # {} PROVE \E m \in S : \A i \in S : m <= i
<1> DEFINE R == OpToRel(<, Nat)
<1>1. IsWellFoundedOn(R, Nat)
  BY NatLessThanWellFounded, Zenon
<1>2. ASSUME NEW i \in Nat, NEW m \in Nat, i < m PROVE <<i, m>> \in R
  BY <1>2 DEF OpToRel
<1> HIDE DEF R
<1>3. PICK m \in S : \A i \in S : ~(<<i, m>> \in R)
  BY <1>1, WFMin
<1>4. ASSUME NEW i \in S PROVE m <= i
  <2>1. ~(i < m)
    BY <1>2, <1>3, <1>4
  <2>2. QED
    BY <2>1
<1>5. QED
  BY <1>4

LEMMA SuffixCount ==
    /\ MaxSuffix \in Nat
    /\ IsFiniteSet(1..MaxSuffix) /\ Cardinality(1..MaxSuffix) = MaxSuffix
<1>1. MaxSuffix \in Nat
  BY McpConstants DEF McpConstants
<1>2. IsFiniteSet(1..MaxSuffix) /\ Cardinality(1..MaxSuffix) = IF 1 > MaxSuffix THEN 0 ELSE MaxSuffix - 1 + 1
  BY <1>1, FS_Interval
<1>3. QED
  BY <1>1, <1>2

\* The pairs of a base are enough names for all its tools, so that one which has none
\* yet finds a suffix.
LEMMA FreeSuffix ==
    ASSUME NEW tbl, IsTable(tbl), NEW s \in Servers, NEW t \in Tools,
           \A n \in Names : tbl[n] # Entry(s, t)
    PROVE  \E i \in 1..MaxSuffix : tbl[<<BaseOf[s, t], i>>] = None
<1> DEFINE b == BaseOf[s, t]
           Own == {p \in Servers \X Tools : BaseOf[p] = b}
           pair(n) == <<tbl[n].sid, tbl[n].tool>>
           f == [i \in 1..MaxSuffix |-> pair(<<b, i>>)]
<1>1. MaxSuffix \in Nat /\ b \in Bases /\ <<s, t>> \in Own
  BY McpConstants DEF McpConstants
<1>2. IsFiniteSet(Own) /\ Cardinality(Own) <= MaxSuffix
  <2>1. IsFiniteSet(Servers \X Tools)
    BY McpConstants, FS_Product DEF McpConstants
  <2>2. Own \in SUBSET (Servers \X Tools)
    OBVIOUS
  <2>3. IsFiniteSet(Own)
    BY <2>1, <2>2, FS_Subset
  <2>4. QED
    BY <1>1, <2>3, McpConstants DEF McpConstants
<1>3. /\ IsFiniteSet(Own \ {<<s, t>>}) /\ Cardinality(Own \ {<<s, t>>}) = Cardinality(Own) - 1
      /\ Cardinality(Own) \in Nat
  <2> HIDE DEF Own
  <2>1. QED
    BY <1>1, <1>2, FS_RemoveElement, FS_CardinalityType
<1>5. ASSUME \A i \in 1..MaxSuffix : tbl[<<b, i>>] # None PROVE FALSE
  <2>1. ASSUME NEW i \in 1..MaxSuffix
        PROVE  /\ <<b, i>> \in Names /\ tbl[<<b, i>>] \in Entries
               /\ tbl[<<b, i>>] # None /\ tbl[<<b, i>>] = Entry(pair(<<b, i>>)[1], pair(<<b, i>>)[2])
               /\ f[i] \in Own \ {<<s, t>>}
    <3>1. <<b, i>> \in Names /\ tbl[<<b, i>>] # None
      BY <1>1, <1>5, <2>1 DEF Names
    <3>2. tbl[<<b, i>>] \in Entries /\ tbl[<<b, i>>] # Entry(s, t)
      BY <3>1 DEF IsTable
    <3>3. /\ tbl[<<b, i>>].sid \in Servers /\ tbl[<<b, i>>].tool \in Tools
          /\ tbl[<<b, i>>] = Entry(tbl[<<b, i>>].sid, tbl[<<b, i>>].tool)
      BY <3>1, <3>2, EntryIs
    <3>4. BaseOf[tbl[<<b, i>>].sid, tbl[<<b, i>>].tool] = b
      BY <3>1 DEF IsTable
    <3>5. QED
      BY <3>1, <3>2, <3>3, <3>4
  <2>2. f \in [1..MaxSuffix -> Own \ {<<s, t>>}]
    <3> HIDE DEF Own
    <3>1. QED
      BY <2>1
  <2>3. PICK i \in 1..MaxSuffix, j \in 1..MaxSuffix : i # j /\ f[i] = f[j]
    <3> DEFINE Rest == Own \ {<<s, t>>}
    <3>1. IsFiniteSet(Rest) /\ f \in [1..MaxSuffix -> Rest]
      BY <1>3, <2>2
    <3>2. Cardinality(Rest) = Cardinality(Own) - 1 /\ Cardinality(Own) \in Nat
          /\ Cardinality(Own) <= MaxSuffix
      BY <1>2, <1>3
    <3> HIDE DEF f, Own, Rest, b, pair
    <3>3. Cardinality(Rest) < Cardinality(1..MaxSuffix)
      BY <3>2, SuffixCount
    <3>4. QED
      BY <3>1, <3>3, SuffixCount, FS_PigeonHole
  <2>4. pair(<<b, i>>) = pair(<<b, j>>)
    BY <2>3
  <2> HIDE DEF f, Own, b, pair
  <2>5. tbl[<<b, i>>] = tbl[<<b, j>>]
    BY <2>1, <2>4
  <2>6. <<b, i>> = <<b, j>>
    BY <2>1, <2>5 DEF IsTable
  <2>7. QED
    BY <2>3, <2>6
<1>6. QED
  BY <1>5

IsName(tbl, b, n) ==
    /\ n \in Names /\ n[1] = b /\ tbl[n] = None
    /\ \A m \in Names : m[1] = b /\ tbl[m] = None => n[2] <= m[2]

LEMMA NameForIs ==
    ASSUME NEW tbl, NEW b \in Bases, \E i \in 1..MaxSuffix : tbl[<<b, i>>] = None
    PROVE  IsName(tbl, b, NameFor(tbl, b))
<1> DEFINE Free == {i \in 1..MaxSuffix : tbl[<<b, i>>] = None}
<1>1. MaxSuffix \in Nat /\ Free \in SUBSET Nat /\ Free # {}
  BY McpConstants DEF McpConstants
<1>2. PICK i \in Free : \A j \in Free : i <= j
  <2> HIDE DEF Free
  <2>1. QED
    BY <1>1, LeastNumber
<1>3. ASSUME NEW m \in Names, m[1] = b, tbl[m] = None PROVE i <= m[2]
  <2>1. m[2] \in 1..MaxSuffix /\ m = <<b, m[2]>>
    BY <1>3 DEF Names
  <2>2. m[2] \in Free
    BY <1>3, <2>1
  <2>3. QED
    BY <1>2, <2>2
<1>4. IsName(tbl, b, <<b, i>>)
  BY <1>2, <1>3 DEF IsName, Names
<1>5. \E n \in Names : n[1] = b /\ tbl[n] = None
                        /\ \A m \in Names : m[1] = b /\ tbl[m] = None => n[2] <= m[2]
  BY <1>4 DEF IsName
<1>6. QED
  BY <1>5, Zenon DEF NameFor, IsName

\* The name depends on the names of that base only.
LEMMA SameName ==
    ASSUME NEW tbl, NEW other, NEW b \in Bases,
           \A n \in Names : n[1] = b => tbl[n] = other[n],
           NEW m, NEW n, IsName(tbl, b, m), IsName(other, b, n)
    PROVE  m = n
<1>1. m[2] <= n[2] /\ n[2] <= m[2] /\ m[2] \in Nat /\ n[2] \in Nat
  BY McpConstants DEF IsName, Names, McpConstants
<1>2. m = <<b, m[2]>> /\ n = <<b, n[2]>>
  BY DEF IsName, Names
<1>3. QED
  BY <1>1, <1>2

-------------------------------------------------------------------------------
(* What _install_tools does                                                   *)

\* One more tool has its name, and no other name has changed.
LEMMA OneNamed ==
    ASSUME NEW tbl, IsTable(tbl), NEW s \in Servers, NEW t \in Tools,
           \A n \in Names : tbl[n] # Entry(s, t)
    PROVE  LET nm == NameFor(tbl, BaseOf[s, t])
           IN  /\ IsName(tbl, BaseOf[s, t], nm)
               /\ NamedIn(tbl, s, t)[nm] = Entry(s, t)
               /\ \A n \in Names \ {nm} : NamedIn(tbl, s, t)[n] = tbl[n]
               /\ IsTable(NamedIn(tbl, s, t))
<1> DEFINE nm  == NameFor(tbl, BaseOf[s, t])
           new == NamedIn(tbl, s, t)
<1>1. BaseOf[s, t] \in Bases
  BY McpConstants DEF McpConstants
<1>2. IsName(tbl, BaseOf[s, t], nm)
  <2>1. \E i \in 1..MaxSuffix : tbl[<<BaseOf[s, t], i>>] = None
    BY FreeSuffix
  <2> DEFINE b == BaseOf[s, t]
  <2> HIDE DEF b
  <2>2. IsName(tbl, b, NameFor(tbl, b))
    BY <1>1, <2>1, NameForIs DEF b
  <2>3. QED
    BY <2>2 DEF b
<1>3. nm \in Names /\ nm[1] = BaseOf[s, t] /\ tbl[nm] = None
  BY <1>2 DEF IsName
<1>4. new = [tbl EXCEPT ![nm] = Entry(s, t)]
  BY DEF NamedIn
<1> HIDE DEF nm, new
<1>5. new \in [Names -> Entries] /\ new[nm] = Entry(s, t) /\ \A n \in Names \ {nm} : new[n] = tbl[n]
  BY <1>3, <1>4, EntryIs DEF IsTable
<1>6. ASSUME NEW n \in Names, new[n] # None PROVE n[1] = BaseOf[new[n].sid, new[n].tool]
  <2>1. CASE n = nm
    <3>1. new[n] = Entry(s, t) /\ Entry(s, t).sid = s /\ Entry(s, t).tool = t
      BY <1>5, <2>1, EntryIs
    <3>2. new[n].sid = s /\ new[n].tool = t
      BY <3>1
    <3>3. n[1] = BaseOf[s, t]
      BY <1>3, <2>1
    <3>4. QED
      BY <3>2, <3>3, Zenon
  <2>2. CASE n # nm
    <3>1. new[n] = tbl[n]
      BY <1>5, <2>2
    <3>2. QED
      BY <1>6, <3>1 DEF IsTable
  <2>3. QED
    BY <2>1, <2>2
<1>7. ASSUME NEW m \in Names, NEW n \in Names, new[m] # None, new[m] = new[n] PROVE m = n
  <2>1. CASE m # nm /\ n # nm
    BY <1>5, <1>7, <2>1 DEF IsTable
  <2>2. CASE m = nm /\ n # nm
    BY <1>5, <1>7, <2>2
  <2>3. CASE m # nm /\ n = nm
    BY <1>5, <1>7, <2>3
  <2>4. QED
    BY <2>1, <2>2, <2>3
<1>8. IsTable(new)
  BY <1>5, <1>6, <1>7 DEF IsTable
<1>9. QED
  BY <1>2, <1>5, <1>8 DEF nm, new

\* The next table, t being the next tool in the list
Next1(tbl, s, t, out) == IF t \in out THEN tbl ELSE NamedIn(tbl, s, t)

\* The tables after each of the first M tools
Tables(f, tbl, s, list, out, M) ==
    f = [n \in 0..M |-> IF n = 0 THEN tbl
                        ELSE IF list[n] \in out THEN f[n - 1] ELSE NamedIn(f[n - 1], s, list[n])]

LEMMA TablesAre ==
    ASSUME NEW f, NEW tbl, NEW s, NEW list, NEW out, NEW M \in Nat, Tables(f, tbl, s, list, out, M)
    PROVE  f[0] = tbl /\ \A n \in 1..M : f[n] = Next1(f[n - 1], s, list[n], out)
<1>1. ASSUME NEW n \in 0..M
      PROVE  f[n] = IF n = 0 THEN tbl
                    ELSE IF list[n] \in out THEN f[n - 1] ELSE NamedIn(f[n - 1], s, list[n])
  BY Zenon DEF Tables
<1>2. 0 \in 0..M /\ \A n \in 1..M : n \in 0..M /\ n # 0
  OBVIOUS
<1>3. f[0] = tbl
  BY <1>1, <1>2
<1>4. QED
  BY <1>1, <1>2, <1>3 DEF Next1

LEMMA NoneInstalled ==
    ASSUME NEW tbl, NEW s, NEW list, NEW out
    PROVE  \E f : Tables(f, tbl, s, list, out, 0)
<1> DEFINE f == [n \in 0..0 |-> tbl]
           g == [n \in 0..0 |-> IF n = 0 THEN tbl
                     ELSE IF list[n] \in out THEN f[n - 1] ELSE NamedIn(f[n - 1], s, list[n])]
<1>1. \A n \in 0..0 : n = 0
  OBVIOUS
<1>2. \A n \in 0..0 : f[n] = g[n]
  BY <1>1
<1>3. f = g
  BY <1>2
<1>4. QED
  BY <1>3 DEF Tables

LEMMA OneMoreInstalled ==
    ASSUME NEW tbl, NEW s, NEW list, NEW out, NEW M \in Nat \ {0}, NEW g,
           Tables(g, tbl, s, list, out, M - 1)
    PROVE  \E f : Tables(f, tbl, s, list, out, M)
<1> DEFINE f == [n \in 0..M |-> IF n = M THEN Next1(g[M - 1], s, list[M], out) ELSE g[n]]
           h == [n \in 0..M |-> IF n = 0 THEN tbl
                     ELSE IF list[n] \in out THEN f[n - 1] ELSE NamedIn(f[n - 1], s, list[n])]
<1>1. M - 1 \in Nat /\ g[0] = tbl /\ \A n \in 1..M - 1 : g[n] = Next1(g[n - 1], s, list[n], out)
  <2>1. M - 1 \in Nat
    OBVIOUS
  <2>2. QED
    BY <2>1, TablesAre
<1>2. f[M] = Next1(g[M - 1], s, list[M], out) /\ \A n \in 0..M - 1 : f[n] = g[n]
  <2>1. M \in 0..M /\ \A n \in 0..M - 1 : n \in 0..M /\ n # M
    OBVIOUS
  <2>2. QED
    BY <2>1
<1>3. ASSUME NEW n \in 0..M
      PROVE  h[n] = IF n = 0 THEN tbl ELSE Next1(f[n - 1], s, list[n], out)
  <2> HIDE DEF f
  <2>1. QED
    BY DEF Next1
<1>4. DOMAIN f = 0..M /\ DOMAIN h = 0..M /\ f = [n \in 0..M |-> f[n]] /\ h = [n \in 0..M |-> h[n]]
  OBVIOUS
<1>5. h = [n \in 0..M |-> IF n = 0 THEN tbl
                     ELSE IF list[n] \in out THEN f[n - 1] ELSE NamedIn(f[n - 1], s, list[n])]
  OBVIOUS
<1> HIDE DEF f, h
<1>6. ASSUME NEW n \in 0..M PROVE f[n] = h[n]
  <2>1. CASE n = M
    <3>1. f[M - 1] = g[M - 1] /\ M # 0
      BY <1>2, M - 1 \in 0..M - 1
    <3>2. QED
      BY <1>2, <1>3, <2>1, <3>1
  <2>2. CASE n # M /\ n # 0
    <3>1. n \in 1..M - 1 /\ n \in 0..M - 1 /\ n - 1 \in 0..M - 1
      BY <2>2
    <3>2. QED
      BY <1>1, <1>2, <1>3, <2>2, <3>1
  <2>3. CASE n # M /\ n = 0
    <3>1. n \in 0..M - 1
      BY <2>3
    <3>2. QED
      BY <1>1, <1>2, <1>3, <2>3, <3>1
  <2>4. QED
    BY <2>1, <2>2, <2>3
<1>7. f = h
  BY <1>4, <1>6
<1>8. QED
  BY <1>5, <1>7 DEF Tables

LEMMA TablesExist ==
    ASSUME NEW tbl, NEW s, NEW list, NEW out, NEW N \in Nat
    PROVE  \E f : Tables(f, tbl, s, list, out, N)
<1> DEFINE Missing == {M \in 0..N : \A f : ~Tables(f, tbl, s, list, out, M)}
<1>1. Missing = {}
  <2> SUFFICES ASSUME Missing # {} PROVE FALSE
    OBVIOUS
  <2>1. Missing \in SUBSET Nat
    OBVIOUS
  <2> HIDE DEF Missing
  <2>2. PICK M \in Missing : \A K \in Missing : M <= K
    BY <2>1, LeastNumber
  <2> USE DEF Missing
  <2>3. M \in 0..N /\ M # 0 /\ \A f : ~Tables(f, tbl, s, list, out, M)
    BY <2>2, NoneInstalled
  <2>4. M - 1 \in 0..N /\ ~(M <= M - 1)
    BY <2>3
  <2>5. M - 1 \notin Missing
    <3> HIDE DEF Missing
    <3>1. QED
      BY <2>2, <2>4
  <2>6. PICK g : Tables(g, tbl, s, list, out, M - 1)
    BY <2>4, <2>5
  <2>7. QED
    BY <2>3, <2>6, OneMoreInstalled
<1>2. QED
  BY <1>1, N \in 0..N

LEMMA InstallIs ==
    ASSUME NEW tbl, NEW s, NEW list, NEW out, Len(list) \in Nat
    PROVE  \E f : /\ Tables(f, tbl, s, list, out, Len(list))
                  /\ Install(tbl, s, list, out) = f[Len(list)]
<1> DEFINE named == CHOOSE f : Tables(f, tbl, s, list, out, Len(list))
<1>1. Install(tbl, s, list, out) = named[Len(list)]
  BY Zenon DEF Install, Tables
<1>2. Tables(named, tbl, s, list, out, Len(list))
  BY TablesExist, Zenon
<1>3. QED
  BY <1>1, <1>2

\* acc is tbl with the first m of the listed tools, those that are out excepted.
PartOf(acc, tbl, s, list, out, m) ==
    /\ IsTable(acc)
    /\ \A n \in Names : tbl[n] # None => acc[n] = tbl[n]
    /\ \A n \in Names : acc[n] # tbl[n] =>
           \E i \in 1..m : list[i] \notin out /\ acc[n] = Entry(s, list[i])
    /\ \A i \in 1..m : list[i] \notin out => \E n \in Names : acc[n] = Entry(s, list[i])

\* A table to which the tools of s in that list can be added
Addable(tbl, s, list) ==
    /\ s \in Servers /\ list \in Seq(Tools) /\ IsInjective(list)
    /\ IsTable(tbl) /\ \A n \in Names : tbl[n].sid # s

LEMMA NextIsNew ==
    ASSUME NEW tbl, NEW s, NEW list, NEW out, Addable(tbl, s, list),
           NEW m \in 1..Len(list), NEW acc, PartOf(acc, tbl, s, list, out, m - 1)
    PROVE  /\ list[m] \in Tools /\ IsTable(acc)
           /\ \A n \in Names : acc[n] # Entry(s, list[m])
<1>1. list[m] \in Tools /\ DOMAIN list = 1..Len(list) /\ Len(list) \in Nat
  BY DEF Addable
<1>2. ASSUME NEW n \in Names, acc[n] = Entry(s, list[m]) PROVE FALSE
  <2>1. acc[n].sid = s /\ acc[n].tool = list[m]
    BY <1>1, <1>2, EntryIs DEF Addable
  <2>2. acc[n] # tbl[n]
    BY <2>1 DEF Addable
  <2>3. PICK i \in 1..m - 1 : acc[n] = Entry(s, list[i])
    BY <2>2 DEF PartOf
  <2>4. i \in DOMAIN list /\ m \in DOMAIN list /\ i # m /\ list[i] \in Tools
    BY <1>1 DEF Addable
  <2>5. list[i] = list[m]
    BY <2>1, <2>3, <2>4, EntryIs DEF Addable
  <2>6. QED
    BY <2>4, <2>5 DEF Addable, IsInjective
<1>3. QED
  BY <1>1, <1>2 DEF PartOf

LEMMA OneMorePart ==
    ASSUME NEW tbl, NEW s, NEW list, NEW out, Addable(tbl, s, list),
           NEW m \in 1..Len(list), NEW acc, PartOf(acc, tbl, s, list, out, m - 1)
    PROVE  PartOf(Next1(acc, s, list[m], out), tbl, s, list, out, m)
<1>1. m \in Nat /\ m \in 1..m /\ \A i \in 1..m : i \in 1..m - 1 \/ i = m
  BY DEF Addable
<1>2. \A i \in 1..m - 1 : i \in 1..m
  BY <1>1
<1>3. CASE list[m] \in out
  <2>1. Next1(acc, s, list[m], out) = acc
    BY <1>3 DEF Next1
  <2>2. PartOf(acc, tbl, s, list, out, m)
    BY <1>1, <1>2, <1>3 DEF PartOf
  <2>3. QED
    BY <2>1, <2>2
<1>4. CASE list[m] \notin out
  <2> DEFINE new == NamedIn(acc, s, list[m])
             nm  == NameFor(acc, BaseOf[s, list[m]])
  <2>1. Next1(acc, s, list[m], out) = new
    BY <1>4 DEF Next1
  <2>2. list[m] \in Tools /\ IsTable(acc) /\ \A n \in Names : acc[n] # Entry(s, list[m])
    BY NextIsNew
  <2>3. /\ IsName(acc, BaseOf[s, list[m]], nm) /\ new[nm] = Entry(s, list[m])
        /\ \A n \in Names \ {nm} : new[n] = acc[n]
        /\ IsTable(new)
    BY <2>2, OneNamed DEF Addable
  <2> HIDE DEF new, nm
  <2>4. nm \in Names /\ acc[nm] = None
    BY <2>3 DEF IsName
  <2>5. ASSUME NEW n \in Names, tbl[n] # None PROVE new[n] = tbl[n]
    <3>1. acc[n] = tbl[n] /\ n # nm
      BY <2>4, <2>5 DEF PartOf
    <3>2. QED
      BY <2>3, <3>1
  <2>6. ASSUME NEW n \in Names, new[n] # tbl[n]
        PROVE  \E i \in 1..m : list[i] \notin out /\ new[n] = Entry(s, list[i])
    <3>1. CASE n = nm
      BY <1>1, <1>4, <2>3, <3>1
    <3>2. CASE n # nm
      <4>1. new[n] = acc[n]
        BY <2>3, <3>2
      <4>2. QED
        BY <1>2, <2>6, <4>1 DEF PartOf
    <3>3. QED
      BY <3>1, <3>2
  <2>7. ASSUME NEW i \in 1..m, list[i] \notin out PROVE \E n \in Names : new[n] = Entry(s, list[i])
    <3>1. CASE i = m
      BY <2>3, <2>4, <3>1
    <3>2. CASE i # m
      <4>1. PICK n \in Names : acc[n] = Entry(s, list[i])
        BY <1>1, <2>7, <3>2 DEF PartOf
      <4>2. list[i] \in Tools
        BY <1>1, <3>2 DEF Addable
      <4>3. n # nm
        BY <2>4, <4>1, <4>2, EntryIs DEF Addable
      <4>4. QED
        BY <2>3, <4>1, <4>3
    <3>3. QED
      BY <3>1, <3>2
  <2>8. PartOf(new, tbl, s, list, out, m)
    BY <2>3, <2>5, <2>6, <2>7 DEF PartOf
  <2>9. QED
    BY <2>1, <2>8
<1>5. QED
  BY <1>3, <1>4

LEMMA NoPart ==
    ASSUME NEW tbl, NEW s, NEW list, NEW out, Addable(tbl, s, list)
    PROVE  PartOf(tbl, tbl, s, list, out, 0)
<1>1. \A i \in 1..0 : FALSE
  OBVIOUS
<1>2. QED
  BY <1>1 DEF PartOf, Addable

LEMMA AllParts ==
    ASSUME NEW tbl, NEW s, NEW list, NEW out, Addable(tbl, s, list), NEW f,
           Tables(f, tbl, s, list, out, Len(list))
    PROVE  \A m \in 0..Len(list) : PartOf(f[m], tbl, s, list, out, m)
<1> DEFINE Wrong == {m \in 0..Len(list) : ~PartOf(f[m], tbl, s, list, out, m)}
<1>1. Len(list) \in Nat
  BY DEF Addable
<1>2. f[0] = tbl /\ \A n \in 1..Len(list) : f[n] = Next1(f[n - 1], s, list[n], out)
  BY <1>1, TablesAre
<1>3. ASSUME Wrong # {} PROVE FALSE
  <2>1. Wrong \in SUBSET Nat
    OBVIOUS
  <2> HIDE DEF Wrong
  <2>2. PICK m \in Wrong : \A i \in Wrong : m <= i
    BY <1>3, <2>1, LeastNumber
  <2> USE DEF Wrong
  <2>3. m \in 0..Len(list) /\ m # 0 /\ ~PartOf(f[m], tbl, s, list, out, m)
    BY <1>2, <2>2, NoPart
  <2>4. m \in 1..Len(list) /\ m - 1 \in 0..Len(list) /\ ~(m <= m - 1)
    BY <1>1, <2>3
  <2>5. m - 1 \notin Wrong
    <3> HIDE DEF Wrong
    <3>1. QED
      BY <2>2, <2>4
  <2>6. PartOf(f[m - 1], tbl, s, list, out, m - 1) /\ f[m] = Next1(f[m - 1], s, list[m], out)
    BY <1>2, <2>4, <2>5
  <2>7. QED
    BY <2>3, <2>4, <2>6, OneMorePart
<1>4. QED
  BY <1>3

\* _install_tools adds the tools that are not out, and touches no other.
LEMMA InstallAdds ==
    ASSUME NEW tbl, NEW s, NEW list, NEW out, Addable(tbl, s, list)
    PROVE  PartOf(Install(tbl, s, list, out), tbl, s, list, out, Len(list))
<1>1. Len(list) \in Nat /\ Len(list) \in 0..Len(list)
  BY DEF Addable
<1>2. PICK f : Tables(f, tbl, s, list, out, Len(list)) /\ Install(tbl, s, list, out) = f[Len(list)]
  BY <1>1, InstallIs
<1>3. QED
  BY <1>1, <1>2, AllParts

\* Tables that agree on the names of a base
Agree(tbl, other, b) == \A n \in Names : n[1] = b => tbl[n] = other[n]

LEMMA OneMoreAgrees ==
    ASSUME NEW tbl, NEW other, NEW s, NEW list, NEW out, NEW b,
           Addable(tbl, s, list), Addable(other, s, list), NEW m \in 1..Len(list),
           NEW x, PartOf(x, tbl, s, list, out, m - 1),
           NEW y, PartOf(y, other, s, list, out, m - 1), Agree(x, y, b)
    PROVE  Agree(Next1(x, s, list[m], out), Next1(y, s, list[m], out), b)
<1>1. CASE list[m] \in out
  BY <1>1 DEF Next1
<1>2. CASE list[m] \notin out
  <2> DEFINE c  == BaseOf[s, list[m]]
             nx == NameFor(x, c)
             ny == NameFor(y, c)
             vx == NamedIn(x, s, list[m])
             vy == NamedIn(y, s, list[m])
  <2>1. /\ list[m] \in Tools /\ IsTable(x) /\ \A n \in Names : x[n] # Entry(s, list[m])
        /\ IsTable(y) /\ \A n \in Names : y[n] # Entry(s, list[m])
    BY NextIsNew
  <2>2. IsName(x, c, nx) /\ vx[nx] = Entry(s, list[m]) /\ \A n \in Names \ {nx} : vx[n] = x[n]
    BY <2>1, OneNamed DEF Addable
  <2>3. IsName(y, c, ny) /\ vy[ny] = Entry(s, list[m]) /\ \A n \in Names \ {ny} : vy[n] = y[n]
    BY <2>1, OneNamed DEF Addable
  <2>4. c \in Bases
    BY <2>1, McpConstants DEF McpConstants, Addable
  <2>5. Next1(x, s, list[m], out) = vx /\ Next1(y, s, list[m], out) = vy
    BY <1>2 DEF Next1
  <2> HIDE DEF c, nx, ny, vx, vy
  <2>6. nx \in Names /\ nx[1] = c /\ ny \in Names /\ ny[1] = c
    BY <2>2, <2>3 DEF IsName
  <2>7. ASSUME NEW n \in Names, n[1] = b PROVE vx[n] = vy[n]
    <3>1. x[n] = y[n]
      BY <2>7 DEF Agree
    <3>2. CASE b = c
      <4>1. nx = ny
        BY <2>2, <2>3, <2>4, <3>2, SameName DEF Agree
      <4>2. QED
        BY <2>2, <2>3, <3>1, <4>1
    <3>3. CASE b # c
      BY <2>2, <2>3, <2>6, <2>7, <3>1, <3>3
    <3>4. QED
      BY <3>2, <3>3
  <2>8. QED
    BY <2>5, <2>7 DEF Agree
<1>3. QED
  BY <1>1, <1>2

\* What a list is given among the names of a base depends on that base only.
LEMMA InstallAgrees ==
    ASSUME NEW tbl, NEW other, NEW s, NEW list, NEW out, NEW b,
           Addable(tbl, s, list), Addable(other, s, list), Agree(tbl, other, b)
    PROVE  Agree(Install(tbl, s, list, out), Install(other, s, list, out), b)
<1>1. Len(list) \in Nat /\ Len(list) \in 0..Len(list)
  BY DEF Addable
<1>2. PICK f : Tables(f, tbl, s, list, out, Len(list)) /\ Install(tbl, s, list, out) = f[Len(list)]
  BY <1>1, InstallIs
<1>3. PICK g : Tables(g, other, s, list, out, Len(list))
               /\ Install(other, s, list, out) = g[Len(list)]
  BY <1>1, InstallIs
<1>4. f[0] = tbl /\ \A n \in 1..Len(list) : f[n] = Next1(f[n - 1], s, list[n], out)
  BY <1>1, <1>2, TablesAre
<1>5. g[0] = other /\ \A n \in 1..Len(list) : g[n] = Next1(g[n - 1], s, list[n], out)
  BY <1>1, <1>3, TablesAre
<1>6. \A m \in 0..Len(list) : PartOf(f[m], tbl, s, list, out, m)
  BY <1>2, AllParts
<1>7. \A m \in 0..Len(list) : PartOf(g[m], other, s, list, out, m)
  BY <1>3, AllParts
<1> DEFINE Wrong == {m \in 0..Len(list) : ~Agree(f[m], g[m], b)}
<1>8. ASSUME Wrong # {} PROVE FALSE
  <2>1. Wrong \in SUBSET Nat
    OBVIOUS
  <2> HIDE DEF Wrong
  <2>2. PICK m \in Wrong : \A i \in Wrong : m <= i
    BY <1>8, <2>1, LeastNumber
  <2> USE DEF Wrong
  <2>3. m \in 0..Len(list) /\ m # 0 /\ ~Agree(f[m], g[m], b)
    BY <1>4, <1>5, <2>2
  <2>4. m \in 1..Len(list) /\ m - 1 \in 0..Len(list) /\ ~(m <= m - 1)
    BY <1>1, <2>3
  <2>5. m - 1 \notin Wrong
    <3> HIDE DEF Wrong
    <3>1. QED
      BY <2>2, <2>4
  <2>6. Agree(f[m - 1], g[m - 1], b)
    BY <2>4, <2>5
  <2>7. PartOf(f[m - 1], tbl, s, list, out, m - 1) /\ PartOf(g[m - 1], other, s, list, out, m - 1)
    BY <1>6, <1>7, <2>4
  <2>8. Agree(Next1(f[m - 1], s, list[m], out), Next1(g[m - 1], s, list[m], out), b)
    BY <2>4, <2>6, <2>7, OneMoreAgrees
  <2>9. QED
    BY <1>4, <1>5, <2>3, <2>4, <2>8
<1>9. QED
  BY <1>1, <1>2, <1>3, <1>8

\* _drop_server and a fresh start only take names away.
Thins(tbl, new) ==
    /\ new \in [Names -> Entries]
    /\ \A n \in Names : new[n] # None => new[n] = tbl[n]

LEMMA ThinsTable ==
    ASSUME NEW tbl, IsTable(tbl), NEW new, Thins(tbl, new)
    PROVE  IsTable(new)
BY Zenon DEF IsTable, Thins

LEMMA AllThin ==
    ASSUME NEW tbl, IsTable(tbl)
    PROVE  /\ Thins(tbl, tbl) /\ Thins(tbl, NoTools)
           /\ \A s : Thins(tbl, Dropped(tbl, s))
<1>1. Thins(tbl, tbl)
  BY DEF Thins, IsTable
<1>2. Thins(tbl, NoTools)
  BY EntryIs DEF Thins, NoTools
<1>3. ASSUME NEW s PROVE Thins(tbl, Dropped(tbl, s))
  <2>1. None \in Entries /\ tbl \in [Names -> Entries]
    BY EntryIs, Zenon DEF IsTable
  <2> HIDE DEF Entries, None, Names
  <2> QED BY <2>1, SMT DEF Thins, Dropped
<1> QED BY <1>1, <1>2, <1>3

\* The tables a server's tools are installed in
LEMMA CanAdd ==
    ASSUME NEW tbl, IsTable(tbl), NEW s \in Servers, NEW list \in Lists
    PROVE  Addable(Dropped(tbl, s), s, list) /\ Addable(NoTools, s, list)
<1>1. IsTable(Dropped(tbl, s)) /\ IsTable(NoTools)
  BY AllThin, ThinsTable
<1>2. list \in Seq(Tools) /\ IsInjective(list)
  BY McpConstants DEF McpConstants
<1>3. None.sid # s
  BY EntryIs
<1>4. \A n \in Names : Dropped(tbl, s)[n].sid # s
  <2> HIDE DEF Names, None
  <2> QED BY <1>3, SMT DEF Dropped
<1>5. \A n \in Names : NoTools[n].sid # s
  <2> HIDE DEF Names, None
  <2> QED BY <1>3, SMT DEF NoTools
<1> QED BY <1>1, <1>2, <1>4, <1>5 DEF Addable

\* The table with the tools of s replaced by those of the list that are not out
Listed(tbl, s, list, out) == Install(Dropped(tbl, s), s, list, out)

\* The tools of the others keep their names, and those of s are all the exposed ones.
LEMMA ListingIs ==
    ASSUME NEW tbl, IsTable(tbl), NEW s \in Servers, NEW list \in Lists, NEW out
    PROVE  LET new == Listed(tbl, s, list, out)
           IN  /\ IsTable(new)
               /\ \A n \in Names : tbl[n] # None /\ tbl[n].sid # s => new[n] = tbl[n]
               /\ \A n \in Names : new[n] # None /\ new[n].sid # s => new[n] = tbl[n]
               /\ \A n \in Names : new[n] # None /\ new[n].sid = s =>
                                       new[n].tool \in ToSet(list) \ out
               /\ \A t \in ToSet(list) \ out : \E n \in Names : new[n] = Entry(s, t)
<1> DEFINE low == Dropped(tbl, s)
           new == Install(low, s, list, out)
<1>1. Addable(low, s, list) /\ list \in Seq(Tools)
  BY CanAdd, McpConstants DEF McpConstants
<1>2. PartOf(new, low, s, list, out, Len(list))
  BY <1>1, InstallAdds
<1>3. Thins(tbl, low) /\ IsTable(low)
  BY AllThin, ThinsTable
<1>4. \A n \in Names : tbl[n] # None /\ tbl[n].sid # s => low[n] = tbl[n]
  <2> HIDE DEF Names, None
  <2> QED BY SMT DEF Dropped
<1>5. \A n \in Names : low[n].sid # s
  BY <1>1 DEF Addable
<1>6. ToSet(list) = {list[i] : i \in 1..Len(list)}
  BY <1>1 DEF ToSet
<1>7. \A i \in 1..Len(list) : list[i] \in Tools
  BY <1>1
<1>8. \A t \in Tools : /\ Entry(s, t) # None /\ Entry(s, t).sid = s
                       /\ Entry(s, t).tool = t
  BY EntryIs
<1> HIDE DEF low, new, Names, None, Entry
<1>9. IsTable(new)
  BY <1>2 DEF PartOf
<1>10. \A n \in Names : tbl[n] # None /\ tbl[n].sid # s => new[n] = tbl[n]
  BY <1>2, <1>4 DEF PartOf
<1>11. \A n \in Names : new[n] # low[n] =>
           \E i \in 1..Len(list) : list[i] \notin out /\ new[n] = Entry(s, list[i])
  BY <1>2 DEF PartOf
<1>12. ASSUME NEW n \in Names, new[n] # None, new[n].sid # s PROVE new[n] = tbl[n]
  <2>1. new[n] = low[n]
    BY <1>11, <1>7, <1>8, <1>12
  <2> QED BY <2>1, <1>3, <1>12 DEF Thins
<1>13. ASSUME NEW n \in Names, new[n] # None, new[n].sid = s
       PROVE  new[n].tool \in ToSet(list) \ out
  <2>1. PICK i \in 1..Len(list) : list[i] \notin out /\ new[n] = Entry(s, list[i])
    BY <1>11, <1>5, <1>13
  <2> QED BY <2>1, <1>6, <1>7, <1>8
<1>14. ASSUME NEW t \in ToSet(list) \ out PROVE \E n \in Names : new[n] = Entry(s, t)
  <2>1. PICK i \in 1..Len(list) : t = list[i]
    BY <1>6
  <2> QED BY <2>1, <1>2 DEF PartOf
<1> QED BY <1>9, <1>10, <1>12, <1>13, <1>14 DEF Listed, low, new

\* In a base where no other server has a name, the listing gives the names it would
\* give in an empty table.
LEMMA ListingSettles ==
    ASSUME NEW tbl, IsTable(tbl), NEW s \in Servers, NEW list \in Lists, NEW out, NEW b,
           \A n \in Names : n[1] = b /\ tbl[n] # None => tbl[n].sid = s
    PROVE  Agree(Listed(tbl, s, list, out), Install(NoTools, s, list, out), b)
<1>1. Addable(Dropped(tbl, s), s, list) /\ Addable(NoTools, s, list)
  BY CanAdd
<1>2. Agree(Dropped(tbl, s), NoTools, b)
  <2> HIDE DEF Names, None
  <2> QED BY SMT DEF Agree, Dropped, NoTools
<1> QED BY <1>1, <1>2, InstallAgrees DEF Listed

\* In an empty table too, only exposed tools are named.
LEMMA OnlyExposed ==
    ASSUME NEW s \in Servers, NEW list \in Lists, NEW out, NEW n \in Names,
           Install(NoTools, s, list, out)[n] # None
    PROVE  Install(NoTools, s, list, out)[n].tool \in ToSet(list) \ out
<1> DEFINE new == Install(NoTools, s, list, out)
<1>1. IsTable(NoTools)
  BY EntryIs DEF IsTable, NoTools
<1>2. Addable(NoTools, s, list) /\ list \in Seq(Tools)
  BY <1>1, CanAdd, McpConstants DEF McpConstants
<1>3. PartOf(new, NoTools, s, list, out, Len(list))
  BY <1>2, InstallAdds
<1>4. ToSet(list) = {list[i] : i \in 1..Len(list)}
  BY <1>2 DEF ToSet
<1>5. NoTools[n] = None
  BY DEF NoTools
<1>6. \A t \in Tools : Entry(s, t).tool = t
  BY EntryIs
<1>7. \A i \in 1..Len(list) : list[i] \in Tools
  BY <1>2
<1>8. PICK i \in 1..Len(list) : list[i] \notin out /\ new[n] = Entry(s, list[i])
  BY <1>3, <1>5 DEF PartOf
<1> QED BY <1>8, <1>4, <1>6, <1>7

-------------------------------------------------------------------------------
(* The handler                                                                *)

(* Why the properties hold: what a listing calls a tool depends on the names  *)
(* of the tool's base alone, and there it finds none but the server's own,    *)
(* unless two servers expose a tool of that base.  So every listing of the    *)
(* same tools gives the same names, whatever else was installed in between.   *)

OpRecords == [at : {"idle", "refreshing", "reconnecting", "calling"},
              sid : Servers \cup {"none"}, next : Nat, size : Nat]

ServersInv == mounted \in Seq(Servers) /\ IsInjective(mounted)

TableInv == IsTable(table) /\ \A n \in Names : table[n] # None => table[n].sid \in Mounted

WasInv ==
    /\ was \in [Names -> Entries]
    /\ \A n \in Names : was[n] # None => n[1] = BaseOf[was[n].sid, was[n].tool]

OpInv == /\ op \in [Clients -> OpRecords]
         /\ \A c \in Clients : op[c].at # "idle" => op[c].sid \in Mounted

FailuresInv == failures \subseteq Mounted /\ skipped \subseteq Mounted

PublishedInv == hidden \in [Servers -> SUBSET Tools] /\ published \in [Servers -> Lists]

HistoryInv == expected \in [Servers -> SUBSET Tools] /\ unstable \subseteq Bases

BoundsInv == closed \in BOOLEAN /\ ops \in 0..MaxOps /\ changes \in 0..MaxChanges

\* A name stands for a tool that the server exposed when it was last listed.
KnownInv ==
    \A n \in Names : table[n] # None =>
        table[n].tool \in expected[table[n].sid] /\ was[n] = table[n]

\* Every server's tools are in the table, unless it has failed or was passed over.
AccountInv ==
    ~closed => \A s \in Mounted \ (failures \cup skipped) :
                   {table[n].tool : n \in NamesOf(s)} = expected[s]

\* e is what the list gives the name n, and the list's exposed tools are exp.
Settled(n, e, list, out, exp) ==
    e = Install(NoTools, e.sid, list, out)[n] /\ exp = ToSet(list) \ out

\* Where nothing has changed and no base is shared, the names are those that the
\* server's listing gives in an empty table.
SettledInv ==
    \A n \in Names : n[1] \notin unstable /\ was[n] # None =>
        Settled(n, was[n], published[was[n].sid], hidden[was[n].sid], expected[was[n].sid])

\* The inductive invariant
McpInv == /\ ServersInv /\ TableInv /\ WasInv /\ OpInv /\ FailuresInv /\ PublishedInv
          /\ HistoryInv /\ BoundsInv
          /\ KnownInv /\ AccountInv /\ SettledInv

LEMMA McpInitInv == McpInit => McpInv
<1> SUFFICES ASSUME McpInit PROVE McpInv
  OBVIOUS
<1> USE DEF McpInit
<1>1. Mounted = {}
  BY SMT DEF Mounted
<1>2. ServersInv
  BY SMT DEF ServersInv, IsInjective
<1>3. NoTools \in [Names -> Entries] /\ \A n \in Names : NoTools[n] = None
  BY EntryIs, Zenon DEF NoTools
<1>4. TableInv
  <2>1. IsTable(NoTools)
    BY <1>3, Zenon DEF IsTable
  <2> QED BY <2>1, <1>3, Zenon DEF TableInv
<1>5. WasInv /\ KnownInv /\ SettledInv
  BY <1>3, Zenon DEF WasInv, KnownInv, SettledInv
<1>6. OpInv
  BY SMT DEF OpInv, OpRecords, Idle, Op
<1>7. FailuresInv /\ PublishedInv /\ HistoryInv
  BY SMT DEF FailuresInv, PublishedInv, HistoryInv
<1>8. BoundsInv
  <2>1. MaxOps \in Nat /\ MaxChanges \in Nat
    BY McpConstants, Zenon DEF McpConstants
  <2>2. closed \in BOOLEAN /\ ops = 0 /\ changes = 0
    BY Zenon
  <2>3. 0 \in 0..MaxOps /\ 0 \in 0..MaxChanges
    BY <2>1
  <2> QED BY <2>2, <2>3, Zenon DEF BoundsInv
<1>9. AccountInv
  BY <1>1, Zenon DEF AccountInv
<1> QED BY <1>2, <1>4, <1>5, <1>6, <1>7, <1>8, <1>9 DEF McpInv

\* What a step keeps when the listings, and what is known of them, stay as they are
LEMMA TableThins ==
    ASSUME McpInv, Thins(table, table'), Mounted \subseteq Mounted',
           was' = was, expected' = expected
    PROVE  TableInv' /\ WasInv' /\ KnownInv'
<1>1. IsTable(table')
  BY ThinsTable DEF McpInv, TableInv
<1>2. \A n \in Names : table'[n] # None => table'[n] = table[n]
  BY DEF Thins
<1>3. TableInv'
  BY <1>1, <1>2, Zenon DEF McpInv, TableInv
<1>4. WasInv'
  BY Zenon DEF McpInv, WasInv
<1>5. KnownInv'
  BY <1>2, Zenon DEF McpInv, KnownInv
<1> QED BY <1>3, <1>4, <1>5

\* The tools of a server that a table has names for
ToolsUnder(tbl, s) == {tbl[n].tool : n \in {m \in Names : tbl[m].sid = s}}

\* Two tables that agree on a server's names hold the same tools of it.
LEMMA SameTools ==
    ASSUME NEW tbl, NEW other, NEW s \in Servers,
           \A n \in Names : tbl[n].sid = s <=> other[n].sid = s,
           \A n \in Names : tbl[n].sid = s => tbl[n] = other[n]
    PROVE  ToolsUnder(tbl, s) = ToolsUnder(other, s)
<1> HIDE DEF Names
<1> QED BY Zenon DEF ToolsUnder

LEMMA AccountIs ==
    AccountInv <=> (~closed => \A s \in Mounted \ (failures \cup skipped) :
                                   ToolsUnder(table, s) = expected[s])
BY Zenon DEF AccountInv, ToolsUnder, NamesOf

\* A step that takes the names of the server it fails on, and of no other.
LEMMA AccountKept ==
    ASSUME McpInv, closed' = closed, expected' = expected,
           Mounted' \ (failures' \cup skipped') \subseteq Mounted \ (failures \cup skipped),
           table' = table
        \/ \E u : u \in failures' /\ table' = Dropped(table, u)
    PROVE  AccountInv'
<1>1. CASE closed
  BY <1>1, Zenon DEF AccountInv
<1>2. CASE ~closed
  <2>1. SUFFICES ASSUME NEW s \in Mounted' \ (failures' \cup skipped')
                 PROVE  ToolsUnder(table', s) = expected'[s]
    BY <2>1, Zenon DEF AccountInv, ToolsUnder, NamesOf
  <2>2. s \in Mounted \ (failures \cup skipped) /\ s \notin failures'
    BY <2>1
  <2>3. ToolsUnder(table, s) = expected[s]
    BY <1>2, <2>2, AccountIs, Zenon DEF McpInv
  <2>4. CASE table' = table
    BY <2>3, <2>4, Zenon
  <2>5. ASSUME NEW u, u \in failures', table' = Dropped(table, u)
        PROVE  ToolsUnder(table', s) = ToolsUnder(table, s)
    <3>1. s # u /\ s \in Servers
      BY <2>2, <2>5 DEF McpInv, ServersInv, Mounted
    <3>2. \A n \in Names : Dropped(table, u)[n] = IF table[n].sid = u THEN None ELSE table[n]
      BY Zenon DEF Dropped
    <3>3. None.sid # s
      BY <3>1, EntryIs
    <3> HIDE DEF None, Names
    <3>4. \A n \in Names : /\ Dropped(table, u)[n].sid = s <=> table[n].sid = s
                           /\ table[n].sid = s => table[n] = Dropped(table, u)[n]
      BY <3>1, <3>2, <3>3
    <3>5. \A n \in Names : Dropped(table, u)[n].sid = s => Dropped(table, u)[n] = table[n]
      BY <3>4
    <3>6. ToolsUnder(Dropped(table, u), s) = ToolsUnder(table, s)
      BY <3>1, <3>4, <3>5, SameTools
    <3> QED BY <3>6, <2>5, Zenon
  <2>6. ToolsUnder(table', s) = ToolsUnder(table, s)
    BY <2>4, <2>5, Zenon
  <2> QED BY <2>3, <2>6, Zenon
<1> QED BY <1>1, <1>2

\* What the listing of s that has answered does to the table and to what is known
LEMMA AfterInstalls ==
    ASSUME McpInv, NEW s \in Mounted, Installs(s), mounted' = mounted
    PROVE  /\ s \in Servers /\ published[s] \in Lists
           /\ table' = Listed(table, s, published[s], hidden[s])
           /\ Exposed(s) = ToSet(published[s]) \ hidden[s] /\ Exposed(s) \subseteq Tools
           /\ expected'[s] = Exposed(s)
           /\ \A u \in Servers \ {s} : expected'[u] = expected[u]
           /\ expected' \in [Servers -> SUBSET Tools]
           /\ skipped' = skipped \ {s}
           /\ \A n \in Names : was'[n] = IF table'[n] # None THEN table'[n] ELSE was[n]
           /\ DOMAIN was' = Names /\ was' = [n \in Names |-> was'[n]]
           /\ unstable \subseteq unstable' /\ unstable' \subseteq Bases
           /\ \A b \in Bases, u \in Servers \ {s} : \A t \in Exposed(s), v \in expected[u] :
                  BaseOf[s, t] = b /\ BaseOf[u, v] = b => b \in unstable'
<1>1. s \in Servers /\ published[s] \in Lists
  BY DEF McpInv, ServersInv, PublishedInv, Mounted
<1>2. table' = Listed(table, s, published[s], hidden[s])
  BY Zenon DEF Installs, Installed, Listed
<1>3. Exposed(s) = ToSet(published[s]) \ hidden[s]
  BY DEF Exposed
<1>4. Exposed(s) \subseteq Tools
  <2>1. published[s] \in Seq(Tools)
    BY <1>1, McpConstants, Zenon DEF McpConstants
  <2> QED BY <2>1, <1>3, SMT DEF ToSet
<1>5. /\ expected' = [expected EXCEPT ![s] = Exposed(s)]
      /\ skipped' = skipped \ {s}
      /\ was' = [n \in Names |-> IF table'[n] # None THEN table'[n] ELSE was[n]]
      /\ unstable' = unstable \cup
             {b \in Bases : \E u \in Servers \ {s} : \E t \in expected'[s], v \in expected'[u] :
                               BaseOf[s, t] = b /\ BaseOf[u, v] = b}
  BY Zenon DEF Installs
<1>6. expected \in [Servers -> SUBSET Tools] /\ unstable \subseteq Bases
  BY DEF McpInv, HistoryInv
<1>7. /\ expected'[s] = Exposed(s)
      /\ \A u \in Servers \ {s} : expected'[u] = expected[u]
      /\ expected' \in [Servers -> SUBSET Tools]
  BY <1>1, <1>4, <1>5, <1>6
<1>8. /\ \A n \in Names : was'[n] = IF table'[n] # None THEN table'[n] ELSE was[n]
      /\ DOMAIN was' = Names /\ was' = [n \in Names |-> was'[n]]
  BY <1>5, Zenon
<1>9. unstable \subseteq unstable' /\ unstable' \subseteq Bases
  BY <1>5, <1>6, Zenon
<1>10. ASSUME NEW b \in Bases, NEW u \in Servers \ {s}, NEW t \in Exposed(s),
              NEW v \in expected[u], BaseOf[s, t] = b /\ BaseOf[u, v] = b
       PROVE  b \in unstable'
  <2>1. t \in expected'[s] /\ v \in expected'[u]
    BY <1>7, <1>10
  <2> QED BY <2>1, <1>5, <1>10, Zenon
<1> QED BY <1>1, <1>2, <1>3, <1>4, <1>5, <1>7, <1>8, <1>9, <1>10, Zenon

\* The table has the tools of s as listed, and those of the others as before.
LEMMA TableInstalled ==
    ASSUME McpInv, NEW s \in Mounted, Installs(s), mounted' = mounted
    PROVE  /\ IsTable(table')
           /\ \A n \in Names : table[n] # None /\ table[n].sid # s => table'[n] = table[n]
           /\ \A n \in Names : table'[n] # None /\ table'[n].sid # s => table'[n] = table[n]
           /\ \A n \in Names : table'[n] # None /\ table'[n].sid = s =>
                                   table'[n].tool \in Exposed(s)
           /\ \A t \in Exposed(s) : \E n \in Names : table'[n] = Entry(s, t)
<1>1. IsTable(table)
  BY DEF McpInv, TableInv
<1>2. /\ s \in Servers /\ published[s] \in Lists
      /\ table' = Listed(table, s, published[s], hidden[s])
      /\ Exposed(s) = ToSet(published[s]) \ hidden[s]
  BY AfterInstalls
<1> DEFINE new == Listed(table, s, published[s], hidden[s])
<1>3. /\ IsTable(new)
      /\ \A n \in Names : table[n] # None /\ table[n].sid # s => new[n] = table[n]
      /\ \A n \in Names : new[n] # None /\ new[n].sid # s => new[n] = table[n]
      /\ \A n \in Names : new[n] # None /\ new[n].sid = s =>
                              new[n].tool \in ToSet(published[s]) \ hidden[s]
      /\ \A t \in ToSet(published[s]) \ hidden[s] : \E n \in Names : new[n] = Entry(s, t)
  BY <1>1, <1>2, ListingIs
<1> QED BY <1>2, <1>3, Zenon

\* What stands under a name, in the table and in its history
LEMMA EntryHeld ==
    ASSUME McpInv, NEW n \in Names
    PROVE  /\ n[1] \in Bases
           /\ table[n] # None => /\ table[n].sid \in Servers /\ table[n].tool \in Tools
                                 /\ n[1] = BaseOf[table[n].sid, table[n].tool]
                                 /\ table[n].tool \in expected[table[n].sid]
                                 /\ was[n] = table[n]
           /\ was[n] # None => /\ was[n].sid \in Servers /\ was[n].tool \in Tools
                               /\ n[1] = BaseOf[was[n].sid, was[n].tool]
<1>1. n[1] \in Bases
  BY DEF Names
<1>2. /\ table \in [Names -> Entries]
      /\ table[n] # None => n[1] = BaseOf[table[n].sid, table[n].tool]
  BY Zenon DEF McpInv, TableInv, IsTable
<1>3. was[n] # None => n[1] = BaseOf[was[n].sid, was[n].tool]
  BY Zenon DEF McpInv, WasInv
<1>4. table[n] # None => table[n].tool \in expected[table[n].sid] /\ was[n] = table[n]
  BY Zenon DEF McpInv, KnownInv
<1>5. was \in [Names -> Entries]
  BY DEF McpInv, WasInv
<1>6. table[n] \in Entries /\ was[n] \in Entries
  BY <1>2, <1>5, Zenon
<1>7. \A e \in Entries : e # None => e.sid \in Servers /\ e.tool \in Tools
  BY EntryIs, Zenon
<1>8. table[n] # None => table[n].sid \in Servers /\ table[n].tool \in Tools
  BY <1>6, <1>7, Zenon
<1>9. was[n] # None => was[n].sid \in Servers /\ was[n].tool \in Tools
  BY <1>6, <1>7, Zenon
<1> QED BY <1>1, <1>2, <1>3, <1>4, <1>8, <1>9, Zenon

\* Where the base is stable, the listing names as it would in an empty table.
LEMMA NamesSettled ==
    ASSUME McpInv, NEW s \in Mounted, Installs(s), mounted' = mounted,
           NEW n \in Names, n[1] \notin unstable', table'[n] # None, table'[n].sid = s
    PROVE  /\ table'[n] = Install(NoTools, s, published[s], hidden[s])[n]
           /\ \E t \in Exposed(s) : n[1] = BaseOf[s, t]
<1>1. /\ s \in Servers /\ published[s] \in Lists
      /\ table' = Listed(table, s, published[s], hidden[s])
      /\ \A b \in Bases, u \in Servers \ {s} : \A t \in Exposed(s), v \in expected[u] :
             BaseOf[s, t] = b /\ BaseOf[u, v] = b => b \in unstable'
  BY AfterInstalls
<1>2. IsTable(table)
  BY DEF McpInv, TableInv
<1>3. table'[n].tool \in Exposed(s)
  BY TableInstalled
<1>4. n[1] = BaseOf[s, table'[n].tool]
  BY TableInstalled, Zenon DEF IsTable
<1>5. ASSUME NEW m \in Names, m[1] = n[1], table[m] # None
      PROVE  table[m].sid = s
  <2>1. /\ m[1] \in Bases /\ table[m].sid \in Servers
        /\ m[1] = BaseOf[table[m].sid, table[m].tool]
        /\ table[m].tool \in expected[table[m].sid]
    BY <1>5, EntryHeld
  <2> QED BY <2>1, <1>1, <1>3, <1>4, <1>5, Zenon
<1>6. Agree(Listed(table, s, published[s], hidden[s]),
            Install(NoTools, s, published[s], hidden[s]), n[1])
  BY <1>1, <1>2, <1>5, ListingSettles
<1>7. Listed(table, s, published[s], hidden[s])[n]
          = Install(NoTools, s, published[s], hidden[s])[n]
  BY <1>6, Zenon DEF Agree
<1> QED BY <1>1, <1>3, <1>4, <1>7, Zenon

LEMMA InstallsTable ==
    ASSUME McpInv, NEW s \in Mounted, Installs(s), mounted' = mounted
    PROVE  TableInv' /\ WasInv' /\ KnownInv'
<1>1. Mounted' = Mounted
  BY DEF Mounted
<1>2. /\ IsTable(table')
      /\ \A n \in Names : table'[n] # None /\ table'[n].sid # s => table'[n] = table[n]
      /\ \A n \in Names : table'[n] # None /\ table'[n].sid = s =>
                              table'[n].tool \in Exposed(s)
  BY TableInstalled
<1>3. /\ \A n \in Names : was'[n] = IF table'[n] # None THEN table'[n] ELSE was[n]
      /\ was' = [n \in Names |-> was'[n]]
      /\ expected'[s] = Exposed(s)
      /\ \A u \in Servers \ {s} : expected'[u] = expected[u]
  BY AfterInstalls
<1>4. TableInv'
  <2>1. \A n \in Names : table[n] # None => table[n].sid \in Mounted
    BY DEF McpInv, TableInv
  <2>2. \A n \in Names : table'[n] # None => table'[n].sid \in Mounted'
    BY <1>1, <1>2, <2>1, Zenon
  <2> QED BY <1>2, <2>2, Zenon DEF TableInv
<1>5. WasInv'
  <2>1. /\ table' \in [Names -> Entries]
        /\ \A n \in Names : table'[n] # None => n[1] = BaseOf[table'[n].sid, table'[n].tool]
    BY <1>2, Zenon DEF IsTable
  <2>2. /\ was \in [Names -> Entries]
        /\ \A n \in Names : was[n] # None => n[1] = BaseOf[was[n].sid, was[n].tool]
    BY DEF McpInv, WasInv
  <2>3. \A n \in Names : was'[n] \in Entries
    BY <1>3, <2>1, <2>2, Zenon
  <2>4. was' \in [Names -> Entries]
    BY <1>3, <2>3, Zenon
  <2>5. \A n \in Names : was'[n] # None => n[1] = BaseOf[was'[n].sid, was'[n].tool]
    BY <1>3, <2>1, <2>2, Zenon
  <2> QED BY <2>4, <2>5, Zenon DEF WasInv
<1>6. KnownInv'
  <2>1. ASSUME NEW n \in Names, table'[n] # None
        PROVE  table'[n].tool \in expected'[table'[n].sid] /\ was'[n] = table'[n]
    <3>1. was'[n] = table'[n]
      BY <1>3, <2>1, Zenon
    <3>2. CASE table'[n].sid = s
      BY <3>1, <3>2, <1>2, <1>3, <2>1, Zenon
    <3>3. CASE table'[n].sid # s
      <4>1. table'[n] = table[n]
        BY <1>2, <2>1, <3>3, Zenon
      <4>2. table[n].sid \in Servers \ {s} /\ table[n].tool \in expected[table[n].sid]
        BY <4>1, <2>1, <3>3, EntryHeld
      <4> QED BY <3>1, <4>1, <4>2, <1>3, Zenon
    <3> QED BY <3>2, <3>3
  <2> QED BY <2>1, Zenon DEF KnownInv
<1> QED BY <1>4, <1>5, <1>6

LEMMA InstallsAccount ==
    ASSUME McpInv, NEW s \in Mounted, Installs(s), mounted' = mounted, closed' = closed,
           failures \subseteq failures' \cup {s}
    PROVE  AccountInv'
<1>1. CASE closed
  BY <1>1, Zenon DEF AccountInv
<1>2. CASE ~closed
  <2>1. SUFFICES ASSUME NEW u \in Mounted' \ (failures' \cup skipped')
                 PROVE  ToolsUnder(table', u) = expected'[u]
    BY <2>1, Zenon DEF AccountInv, ToolsUnder, NamesOf
  <2>2. /\ s \in Servers
        /\ expected'[s] = Exposed(s)
        /\ Exposed(s) \subseteq Tools
        /\ \A v \in Servers \ {s} : expected'[v] = expected[v]
        /\ skipped' = skipped \ {s}
    BY AfterInstalls
  <2>3. /\ \A n \in Names : table[n] # None /\ table[n].sid # s => table'[n] = table[n]
        /\ \A n \in Names : table'[n] # None /\ table'[n].sid # s => table'[n] = table[n]
        /\ \A n \in Names : table'[n] # None /\ table'[n].sid = s =>
                                table'[n].tool \in Exposed(s)
        /\ \A t \in Exposed(s) : \E n \in Names : table'[n] = Entry(s, t)
    BY TableInstalled
  <2>4. u \in Mounted /\ u \in Servers
    BY DEF Mounted, McpInv, ServersInv
  <2>5. None.sid # s /\ None.sid # u
    BY <2>2, <2>4, EntryIs
  <2>6. CASE u = s
    <3>1. \A n \in Names : table'[n].sid = s => table'[n] # None
      BY <2>5
    <3>2. ToolsUnder(table', s) \subseteq Exposed(s)
      BY <3>1, <2>3, Zenon DEF ToolsUnder
    <3>3. ASSUME NEW t \in Exposed(s) PROVE t \in ToolsUnder(table', s)
      <4>1. PICK n \in Names : table'[n] = Entry(s, t)
        BY <2>3
      <4>2. table'[n].sid = s /\ table'[n].tool = t
        BY <4>1, <2>2, EntryIs
      <4> QED BY <4>2, Zenon DEF ToolsUnder
    <3>4. ToolsUnder(table', s) = Exposed(s)
      BY <3>2, <3>3
    <3> QED BY <3>4, <2>2, <2>6, Zenon
  <2>7. CASE u # s
    <3>1. u \in Mounted \ (failures \cup skipped)
      BY <2>1, <2>2, <2>4, <2>7
    <3>2. ToolsUnder(table, u) = expected[u]
      BY <3>1, <1>2, AccountIs, Zenon DEF McpInv
    <3>3. \A n \in Names : table[n].sid = u => table'[n] = table[n]
      <4> HIDE DEF None, Names
      <4> QED BY <2>3, <2>5, <2>7
    <3>4. \A n \in Names : table'[n].sid = u => table'[n] = table[n]
      <4> HIDE DEF None, Names
      <4> QED BY <2>3, <2>5, <2>7
    <3>5. /\ \A n \in Names : table[n].sid = u <=> table'[n].sid = u
          /\ \A n \in Names : table[n].sid = u => table[n] = table'[n]
      BY <3>3, <3>4, Zenon
    <3>6. ToolsUnder(table, u) = ToolsUnder(table', u)
      BY <3>5, <2>4, SameTools
    <3> QED BY <3>2, <3>6, <2>2, <2>4, <2>7, Zenon
  <2> QED BY <2>6, <2>7
<1> QED BY <1>1, <1>2

LEMMA InstallsSettled ==
    ASSUME McpInv, NEW s \in Mounted, Installs(s), mounted' = mounted,
           published' = published, hidden' = hidden
    PROVE  SettledInv'
<1> SUFFICES ASSUME NEW n \in Names, n[1] \notin unstable', was'[n] # None
             PROVE  Settled(n, was'[n], published[was'[n].sid], hidden[was'[n].sid],
                            expected'[was'[n].sid])
  BY Zenon DEF SettledInv
<1>1. /\ s \in Servers /\ Exposed(s) = ToSet(published[s]) \ hidden[s]
      /\ expected'[s] = Exposed(s)
      /\ \A u \in Servers \ {s} : expected'[u] = expected[u]
      /\ was'[n] = IF table'[n] # None THEN table'[n] ELSE was[n]
      /\ unstable \subseteq unstable'
  BY AfterInstalls
<1>2. n[1] \notin unstable
  BY <1>1
<1>3. CASE was'[n] = was[n]
  <2>1. Settled(n, was[n], published[was[n].sid], hidden[was[n].sid], expected[was[n].sid])
    BY <1>2, <1>3, Zenon DEF McpInv, SettledInv
  <2>2. was[n].sid \in Servers
    BY <1>3, EntryHeld
  <2>3. CASE was[n].sid = s
    <3>1. Settled(n, was[n], published[was[n].sid], hidden[was[n].sid], expected'[was[n].sid])
      BY <2>1, <2>3, <1>1, Zenon DEF Settled
    <3> QED BY <3>1, <1>3, Zenon
  <2>4. CASE was[n].sid # s
    <3>1. expected'[was[n].sid] = expected[was[n].sid]
      BY <2>2, <2>4, <1>1
    <3> QED BY <2>1, <3>1, <1>3, Zenon
  <2> QED BY <2>3, <2>4
<1>4. CASE was'[n] # was[n]
  <2>1. table'[n] # None /\ was'[n] = table'[n]
    BY <1>1, <1>4, Zenon
  <2>2. table'[n].sid = s
    <3>1. ASSUME table'[n].sid # s PROVE FALSE
      <4>1. table'[n] = table[n]
        BY <2>1, <3>1, TableInstalled
      <4>2. was[n] = table[n]
        BY <4>1, <2>1, EntryHeld
      <4> QED BY <4>1, <4>2, <2>1, <1>4, Zenon
    <3> QED BY <3>1
  <2>3. table'[n] = Install(NoTools, s, published[s], hidden[s])[n]
    BY <2>1, <2>2, NamesSettled
  <2> QED BY <2>1, <2>2, <2>3, <1>1, Zenon DEF Settled
<1> QED BY <1>3, <1>4

\* A listing leaves every name of a stable base what it was.
LEMMA InstallsKeep ==
    ASSUME McpInv, NEW s \in Mounted, Installs(s), mounted' = mounted,
           NEW n \in Names, n[1] \notin unstable', was[n] # None
    PROVE  was'[n] = was[n]
<1>1. /\ s \in Servers
      /\ was'[n] = IF table'[n] # None THEN table'[n] ELSE was[n]
      /\ unstable \subseteq unstable'
      /\ \A b \in Bases, u \in Servers \ {s} : \A t \in Exposed(s), v \in expected[u] :
             BaseOf[s, t] = b /\ BaseOf[u, v] = b => b \in unstable'
  BY AfterInstalls
<1>2. CASE table'[n] = None
  BY <1>1, <1>2, Zenon
<1>3. CASE table'[n] # None /\ table'[n].sid # s
  <2>1. table'[n] = table[n]
    BY <1>3, TableInstalled
  <2>2. was[n] = table[n]
    BY <2>1, <1>3, EntryHeld
  <2> QED BY <2>1, <2>2, <1>1, <1>3, Zenon
<1>4. CASE table'[n] # None /\ table'[n].sid = s
  <2>1. /\ table'[n] = Install(NoTools, s, published[s], hidden[s])[n]
        /\ \E t \in Exposed(s) : n[1] = BaseOf[s, t]
    BY <1>4, NamesSettled
  <2> DEFINE u == was[n].sid
  <2>2. /\ was[n] = Install(NoTools, u, published[u], hidden[u])[n]
        /\ expected[u] = ToSet(published[u]) \ hidden[u]
    BY <1>1, Zenon DEF McpInv, SettledInv, Settled
  <2>3. n[1] \in Bases /\ u \in Servers /\ n[1] = BaseOf[u, was[n].tool]
    BY EntryHeld
  <2>4. published[u] \in Lists
    BY <2>3 DEF McpInv, PublishedInv
  <2>5. Install(NoTools, u, published[u], hidden[u])[n] # None
    BY <2>2, Zenon
  <2>6. Install(NoTools, u, published[u], hidden[u])[n].tool \in ToSet(published[u]) \ hidden[u]
    <3>1. \A v \in Servers : published[v] \in Lists /\ Install(NoTools, v, published[v], hidden[v])[n] # None
              => Install(NoTools, v, published[v], hidden[v])[n].tool
                     \in ToSet(published[v]) \ hidden[v]
      BY OnlyExposed
    <3> QED BY <3>1, <2>3, <2>4, <2>5, Zenon
  <2>7. was[n].tool \in expected[u]
    BY <2>2, <2>6, Zenon
  <2>8. u = s
    BY <2>1, <2>3, <2>7, <1>1, Zenon
  <2>9. was[n] = table'[n]
    BY <2>1, <2>2, <2>8, Zenon
  <2> QED BY <2>9, <1>1, <1>4, Zenon
<1> QED BY <1>2, <1>3, <1>4

-------------------------------------------------------------------------------
(* The actions                                                                *)

LEMMA OpIs ==
    ASSUME NEW a \in {"idle", "refreshing", "reconnecting", "calling"},
           NEW s \in Servers \cup {"none"}, NEW m \in Nat, NEW z \in Nat
    PROVE  Op(a, s, m, z) \in OpRecords /\ Op(a, s, m, z).at = a /\ Op(a, s, m, z).sid = s
BY SMT DEF Op, OpRecords

LEMMA IdleIs == Idle \in OpRecords /\ Idle.at = "idle"
BY SMT DEF Idle, Op, OpRecords

LEMMA MountedIs == McpInv => Mounted \subseteq Servers /\ \A n \in 1..Len(mounted) : mounted[n] \in Mounted
BY DEF McpInv, ServersInv, Mounted

\* A client's task goes on to o.
LEMMA OpSet ==
    ASSUME McpInv, Mounted \subseteq Mounted', NEW c \in Clients,
           NEW o \in OpRecords, o.at # "idle" => o.sid \in Mounted',
           op' = [op EXCEPT ![c] = o]
    PROVE  OpInv'
<1>1. op \in [Clients -> OpRecords] /\ \A x \in Clients : op[x].at # "idle" => op[x].sid \in Mounted
  BY DEF McpInv, OpInv
<1> HIDE DEF OpRecords, Mounted
<1>2. op' \in [Clients -> OpRecords]
  BY <1>1
<1>3. ASSUME NEW x \in Clients, op'[x].at # "idle" PROVE op'[x].sid \in Mounted'
  <2>1. op'[x] = IF x = c THEN o ELSE op[x]
    BY <1>1
  <2> QED BY <2>1, <1>1, <1>3
<1> QED BY <1>2, <1>3, Zenon DEF OpInv

LEMMA OpSame == ASSUME McpInv, Mounted \subseteq Mounted', op' = op PROVE OpInv'
BY Zenon DEF McpInv, OpInv

\* What the client's next operation leaves of the bounds
LEMMA BeginBounds ==
    ASSUME McpInv, NEW c \in Clients, NEW o, Begin(c, o), closed' = closed, changes' = changes
    PROVE  BoundsInv'
<1>1. MaxOps \in Nat /\ MaxChanges \in Nat
  BY McpConstants, Zenon DEF McpConstants
<1>2. ops \in 0..MaxOps /\ ops < MaxOps /\ ops' = ops + 1 /\ changes \in 0..MaxChanges
      /\ closed \in BOOLEAN
  BY DEF McpInv, BoundsInv, Begin
<1>3. ops' \in 0..MaxOps
  BY <1>1, <1>2
<1> QED BY <1>2, <1>3, Zenon DEF BoundsInv

LEMMA SameBounds ==
    ASSUME McpInv, closed' = closed, ops' = ops, changes' = changes PROVE BoundsInv'
BY Zenon DEF McpInv, BoundsInv

LEMMA SameServers ==
    ASSUME McpInv, mounted' = mounted PROVE ServersInv' /\ Mounted' = Mounted
BY Zenon DEF McpInv, ServersInv, Mounted

\* A step in which no server has answered, or changed what it publishes.
LEMMA Unlisted ==
    ASSUME McpInv, Thins(table, table'), Mounted \subseteq Mounted',
           UNCHANGED <<was, expected, unstable, hidden, published>>
    PROVE  TableInv' /\ WasInv' /\ KnownInv' /\ SettledInv' /\ HistoryInv' /\ PublishedInv'
<1>1. TableInv' /\ WasInv' /\ KnownInv'
  BY TableThins
<1>2. SettledInv'
  BY Zenon DEF McpInv, SettledInv
<1>3. HistoryInv' /\ PublishedInv'
  BY Zenon DEF McpInv, HistoryInv, PublishedInv
<1> QED BY <1>1, <1>2, <1>3

LEMMA TableIsThin ==
    ASSUME McpInv
    PROVE  Thins(table, table) /\ Thins(table, NoTools) /\ \A s : Thins(table, Dropped(table, s))
BY AllThin DEF McpInv, TableInv

LEMMA AddServerInv == ASSUME McpInv, NEW s \in Servers, AddServer(s) PROVE McpInv'
<1>1. /\ s \notin Mounted /\ mounted' = Append(mounted, s) /\ skipped' = skipped \cup {s}
      /\ UNCHANGED <<table, failures, hidden, published, op, closed, expected, was, unstable,
                     ops, changes>>
  BY Zenon DEF AddServer
<1>2. mounted \in Seq(Servers) /\ IsInjective(mounted)
  BY DEF McpInv, ServersInv
<1>3. mounted' \in Seq(Servers) /\ Len(mounted') = Len(mounted) + 1
      /\ \A n \in 1..Len(mounted') : mounted'[n] = IF n = Len(mounted) + 1 THEN s ELSE mounted[n]
  BY <1>1, <1>2
<1>4. Mounted' = Mounted \cup {s}
  <2>1. Len(mounted) \in Nat
    BY <1>2
  <2> QED BY <1>3, <2>1, SMT DEF Mounted
<1>5. ServersInv'
  <2>1. ASSUME NEW m \in DOMAIN mounted', NEW n \in DOMAIN mounted', mounted'[m] = mounted'[n]
        PROVE  m = n
    <3>1. m \in 1..Len(mounted) + 1 /\ n \in 1..Len(mounted) + 1 /\ Len(mounted) \in Nat
      BY <1>2, <1>3
    <3>2. \A x, y \in 1..Len(mounted) : mounted[x] = mounted[y] => x = y
      BY <1>2 DEF IsInjective
    <3>3. \A x \in 1..Len(mounted) : mounted[x] # s
      BY <1>1 DEF Mounted
    <3> QED BY <1>3, <2>1, <3>1, <3>2, <3>3, SMT
  <2>2. IsInjective(mounted')
    BY <2>1, Zenon DEF IsInjective
  <2> QED BY <1>3, <2>2, Zenon DEF ServersInv
<1>6. TableInv' /\ WasInv' /\ KnownInv' /\ SettledInv' /\ HistoryInv' /\ PublishedInv'
  <2>1. Thins(table, table')
    BY <1>1, TableIsThin, Zenon
  <2> QED BY <1>1, <1>4, <2>1, Unlisted
<1>7. OpInv' /\ BoundsInv'
  BY <1>1, <1>4, OpSame, SameBounds
<1>8. FailuresInv'
  BY <1>1, <1>4 DEF McpInv, FailuresInv
<1>9. AccountInv'
  <2>1. Mounted' \ (failures' \cup skipped') \subseteq Mounted \ (failures \cup skipped)
    BY <1>1, <1>4
  <2> QED BY <1>1, <2>1, AccountKept
<1> QED BY <1>5, <1>6, <1>7, <1>8, <1>9 DEF McpInv

\* The server's bases are no longer stable; what the others list is what it was.
LEMMA SettledBut ==
    ASSUME McpInv, NEW s \in Servers, was' = was, expected' = expected,
           unstable' = unstable \cup BasesOf(s),
           \A u \in Servers \ {s} : published'[u] = published[u] /\ hidden'[u] = hidden[u]
    PROVE  SettledInv' /\ HistoryInv'
<1>1. HistoryInv'
  <2>1. BasesOf(s) \subseteq Bases
    <3>1. BaseOf \in [Servers \X Tools -> Bases]
      BY McpConstants, Zenon DEF McpConstants
    <3>2. \A t \in Tools : <<s, t>> \in Servers \X Tools
      OBVIOUS
    <3> QED BY <3>1, <3>2, Zenon DEF BasesOf
  <2>2. expected \in [Servers -> SUBSET Tools] /\ unstable \subseteq Bases
    BY DEF McpInv, HistoryInv
  <2> QED BY <2>1, <2>2 DEF HistoryInv
<1>2. ASSUME NEW n \in Names, n[1] \notin unstable', was[n] # None
      PROVE  Settled(n, was[n], published'[was[n].sid], hidden'[was[n].sid], expected[was[n].sid])
  <2>1. was[n].sid \in Servers /\ was[n].tool \in Tools /\ n[1] = BaseOf[was[n].sid, was[n].tool]
    BY <1>2, EntryHeld
  <2>2. n[1] \notin unstable /\ n[1] \notin BasesOf(s)
    BY <1>2
  <2>3. was[n].sid # s
    BY <2>1, <2>2, Zenon DEF BasesOf
  <2>4. published'[was[n].sid] = published[was[n].sid] /\ hidden'[was[n].sid] = hidden[was[n].sid]
    BY <2>1, <2>3
  <2>5. Settled(n, was[n], published[was[n].sid], hidden[was[n].sid], expected[was[n].sid])
    BY <1>2, <2>2, Zenon DEF McpInv, SettledInv
  <2> QED BY <2>4, <2>5, Zenon
<1>3. SettledInv'
  BY <1>2, Zenon DEF SettledInv
<1> QED BY <1>1, <1>3

\* What a change of a server's list or filter leaves alone
LEMMA ChangesInv ==
    ASSUME McpInv, changes < MaxChanges, changes' = changes + 1,
           UNCHANGED <<mounted, table, failures, op, closed, expected, skipped, was, ops>>
    PROVE  /\ ServersInv' /\ TableInv' /\ WasInv' /\ OpInv' /\ FailuresInv' /\ BoundsInv'
           /\ KnownInv' /\ AccountInv'
<1>1. ServersInv' /\ Mounted' = Mounted
  BY SameServers
<1>2. TableInv' /\ WasInv' /\ KnownInv'
  <2>1. Thins(table, table')
    BY TableIsThin, Zenon
  <2> QED BY <1>1, <2>1, TableThins
<1>3. OpInv' /\ FailuresInv'
  BY <1>1, OpSame, Zenon DEF McpInv, FailuresInv
<1>4. BoundsInv'
  <2>1. MaxOps \in Nat /\ MaxChanges \in Nat
    BY McpConstants, Zenon DEF McpConstants
  <2>2. ops \in 0..MaxOps /\ closed \in BOOLEAN /\ changes \in 0..MaxChanges
    BY DEF McpInv, BoundsInv
  <2>3. changes' \in 0..MaxChanges
    BY <2>1, <2>2
  <2> QED BY <2>2, <2>3, Zenon DEF BoundsInv
<1>5. AccountInv'
  BY <1>1, AccountKept
<1> QED BY <1>1, <1>2, <1>3, <1>4, <1>5

LEMMA SetToolFilterInv ==
    ASSUME McpInv, NEW s \in Servers, NEW h \in SUBSET Tools, SetToolFilter(s, h) PROVE McpInv'
<1>1. /\ changes < MaxChanges /\ changes' = changes + 1
      /\ hidden' = [hidden EXCEPT ![s] = h] /\ unstable' = unstable \cup BasesOf(s)
      /\ UNCHANGED <<mounted, table, failures, published, op, closed, expected, skipped, was, ops>>
  BY Zenon DEF SetToolFilter
<1>2. /\ ServersInv' /\ TableInv' /\ WasInv' /\ OpInv' /\ FailuresInv' /\ BoundsInv'
      /\ KnownInv' /\ AccountInv'
  BY <1>1, ChangesInv
<1>3. hidden \in [Servers -> SUBSET Tools] /\ published \in [Servers -> Lists]
  BY DEF McpInv, PublishedInv
<1>4. PublishedInv'
  BY <1>1, <1>3 DEF PublishedInv
<1>5. \A u \in Servers \ {s} : published'[u] = published[u] /\ hidden'[u] = hidden[u]
  BY <1>1, <1>3
<1>6. SettledInv' /\ HistoryInv'
  BY <1>1, <1>5, SettledBut
<1> QED BY <1>2, <1>4, <1>6 DEF McpInv

LEMMA RepublishInv ==
    ASSUME McpInv, NEW s \in Servers, NEW list \in Lists, Republish(s, list) PROVE McpInv'
<1>1. /\ changes < MaxChanges /\ changes' = changes + 1
      /\ published' = [published EXCEPT ![s] = list] /\ unstable' = unstable \cup BasesOf(s)
      /\ UNCHANGED <<mounted, table, failures, hidden, op, closed, expected, skipped, was, ops>>
  BY Zenon DEF Republish
<1>2. /\ ServersInv' /\ TableInv' /\ WasInv' /\ OpInv' /\ FailuresInv' /\ BoundsInv'
      /\ KnownInv' /\ AccountInv'
  BY <1>1, ChangesInv
<1>3. hidden \in [Servers -> SUBSET Tools] /\ published \in [Servers -> Lists]
  BY DEF McpInv, PublishedInv
<1>4. PublishedInv'
  BY <1>1, <1>3 DEF PublishedInv
<1>5. \A u \in Servers \ {s} : published'[u] = published[u] /\ hidden'[u] = hidden[u]
  BY <1>1, <1>3
<1>6. SettledInv' /\ HistoryInv'
  BY <1>1, <1>5, SettledBut
<1> QED BY <1>2, <1>4, <1>6 DEF McpInv

LEMMA BeginRefreshInv == ASSUME McpInv, NEW c \in Clients, BeginRefresh(c) PROVE McpInv'
<1>1. /\ mounted # <<>> /\ Begin(c, Op("refreshing", mounted[1], 1, Len(mounted)))
      /\ table' = NoTools /\ failures' = {} /\ skipped' = Mounted
      /\ UNCHANGED <<mounted, hidden, published, closed, expected, was, unstable, changes>>
  BY Zenon DEF BeginRefresh
<1>2. ServersInv' /\ Mounted' = Mounted
  BY <1>1, SameServers
<1>3. TableInv' /\ WasInv' /\ KnownInv' /\ SettledInv' /\ HistoryInv' /\ PublishedInv'
  <2>1. Thins(table, table')
    BY <1>1, TableIsThin, Zenon
  <2> QED BY <1>1, <1>2, <2>1, Unlisted
<1>4. OpInv'
  <2>1. 1 \in 1..Len(mounted) /\ Len(mounted) \in Nat
    BY <1>1 DEF McpInv, ServersInv
  <2>2. mounted[1] \in Mounted /\ mounted[1] \in Servers
    BY <2>1, MountedIs
  <2> DEFINE o == Op("refreshing", mounted[1], 1, Len(mounted))
  <2>3. o \in OpRecords /\ o.sid = mounted[1]
    BY <2>1, <2>2, OpIs
  <2>4. op' = [op EXCEPT ![c] = o]
    BY <1>1, Zenon DEF Begin
  <2> HIDE DEF o, OpRecords
  <2> QED BY <1>2, <2>2, <2>3, <2>4, OpSet
<1>5. BoundsInv'
  BY <1>1, BeginBounds
<1>6. FailuresInv'
  BY <1>1, <1>2 DEF FailuresInv
<1>7. AccountInv'
  <2>1. Mounted' \ (failures' \cup skipped') = {}
    BY <1>1, <1>2
  <2> QED BY <2>1, Zenon DEF AccountInv
<1> QED BY <1>2, <1>3, <1>4, <1>5, <1>6, <1>7 DEF McpInv

\* A listing that failed leaves the table as it is.
LEMMA ListingFailsInv ==
    ASSUME McpInv, NEW s \in Mounted, ListingFails(s),
           UNCHANGED <<mounted, hidden, published, closed, ops, changes>>
    PROVE  /\ ServersInv' /\ TableInv' /\ WasInv' /\ FailuresInv' /\ PublishedInv'
           /\ HistoryInv' /\ BoundsInv'
           /\ KnownInv' /\ AccountInv' /\ SettledInv'
<1>1. /\ failures' = failures \cup {s} /\ skipped' = skipped \ {s}
      /\ UNCHANGED <<table, expected, was, unstable>>
  BY Zenon DEF ListingFails
<1>2. ServersInv' /\ Mounted' = Mounted
  BY SameServers
<1>3. TableInv' /\ WasInv' /\ KnownInv' /\ SettledInv' /\ HistoryInv' /\ PublishedInv'
  <2>1. Thins(table, table')
    BY <1>1, TableIsThin, Zenon
  <2> QED BY <1>1, <1>2, <2>1, Unlisted
<1>4. FailuresInv'
  BY <1>1, <1>2 DEF McpInv, FailuresInv
<1>5. BoundsInv'
  BY SameBounds
<1>6. AccountInv'
  <2>1. Mounted' \ (failures' \cup skipped') \subseteq Mounted \ (failures \cup skipped)
    BY <1>1, <1>2
  <2> QED BY <1>1, <2>1, AccountKept
<1> QED BY <1>2, <1>3, <1>4, <1>5, <1>6

\* A listing that succeeded
LEMMA InstallsInv ==
    ASSUME McpInv, NEW s \in Mounted, Installs(s),
           failures' = failures \/ failures' = failures \ {s},
           UNCHANGED <<mounted, hidden, published, closed, ops, changes>>
    PROVE  /\ ServersInv' /\ TableInv' /\ WasInv' /\ FailuresInv' /\ PublishedInv'
           /\ HistoryInv' /\ BoundsInv'
           /\ KnownInv' /\ AccountInv' /\ SettledInv'
<1>1. ServersInv' /\ Mounted' = Mounted
  BY SameServers
<1>2. TableInv' /\ WasInv' /\ KnownInv'
  BY InstallsTable
<1>3. SettledInv'
  BY InstallsSettled
<1>4. /\ skipped' = skipped \ {s} /\ expected' \in [Servers -> SUBSET Tools]
      /\ unstable' \subseteq Bases
  BY AfterInstalls
<1>5. FailuresInv' /\ HistoryInv'
  BY <1>1, <1>4 DEF McpInv, FailuresInv, HistoryInv
<1>6. PublishedInv' /\ BoundsInv'
  BY SameBounds, Zenon DEF McpInv, PublishedInv
<1>7. AccountInv'
  <2>1. failures \subseteq failures' \cup {s}
    OBVIOUS
  <2> QED BY <2>1, InstallsAccount
<1> QED BY <1>1, <1>2, <1>3, <1>5, <1>6, <1>7

\* Where the loop over the servers goes on to
LEMMA NextServerInv ==
    ASSUME McpInv, NEW c \in Clients, NextServer(c), mounted' = mounted PROVE OpInv'
<1> DEFINE m == op[c].next + 1
           o == IF Len(mounted) # op[c].size \/ m > Len(mounted) THEN Idle
                ELSE Op("refreshing", mounted[m], m, op[c].size)
<1>1. op' = [op EXCEPT ![c] = o]
  BY Zenon DEF NextServer
<1>2. Mounted' = Mounted
  BY SameServers
<1>3. op[c].next \in Nat /\ op[c].size \in Nat
  <2>1. op[c] \in OpRecords
    BY DEF McpInv, OpInv
  <2> QED BY <2>1, SMT DEF OpRecords
<1>4. Len(mounted) \in Nat
  BY DEF McpInv, ServersInv
<1> HIDE DEF OpRecords
<1>5. CASE Len(mounted) # op[c].size \/ m > Len(mounted)
  <2>1. o = Idle
    BY <1>5, Zenon
  <2> HIDE DEF o
  <2> QED BY <1>1, <1>2, <2>1, IdleIs, OpSet
<1>6. CASE ~(Len(mounted) # op[c].size \/ m > Len(mounted))
  <2>1. o = Op("refreshing", mounted[m], m, op[c].size)
    BY <1>6, Zenon
  <2>2. m \in 1..Len(mounted) /\ m \in Nat
    BY <1>3, <1>4, <1>6
  <2>3. mounted[m] \in Mounted /\ mounted[m] \in Servers
    BY <2>2, MountedIs
  <2> HIDE DEF o, m
  <2>4. o \in OpRecords /\ o.sid = mounted[m]
    BY <1>3, <2>1, <2>2, <2>3, OpIs
  <2> QED BY <1>1, <1>2, <2>3, <2>4, OpSet
<1> QED BY <1>5, <1>6

\* The server that is being listed is mounted.
LEMMA OpHeld == ASSUME McpInv, NEW c \in Clients, op[c].at # "idle" PROVE op[c].sid \in Mounted
BY DEF McpInv, OpInv

LEMMA RefreshedInv == ASSUME McpInv, NEW c \in Clients, Refreshed(c) PROVE McpInv'
<1> DEFINE s == op[c].sid
<1>1. /\ op[c].at = "refreshing" /\ NextServer(c)
      /\ (Installs(s) /\ UNCHANGED failures) \/ ListingFails(s)
      /\ UNCHANGED <<mounted, hidden, published, closed, ops, changes>>
  BY Zenon DEF Refreshed
<1>2. s \in Mounted
  BY <1>1, OpHeld
<1>3. OpInv'
  BY <1>1, NextServerInv
<1> HIDE DEF s
<1>4. CASE Installs(s) /\ UNCHANGED failures
  BY <1>1, <1>2, <1>3, <1>4, InstallsInv DEF McpInv
<1>5. CASE ListingFails(s)
  BY <1>1, <1>2, <1>3, <1>5, ListingFailsInv DEF McpInv
<1> QED BY <1>1, <1>4, <1>5

LEMMA BeginReconnectInv ==
    ASSUME McpInv, NEW c \in Clients, NEW s \in Servers, BeginReconnect(c, s) PROVE McpInv'
<1>1. /\ s \in Mounted /\ Begin(c, Op("reconnecting", s, 0, 0))
      /\ UNCHANGED <<mounted, table, failures, hidden, published, closed, expected, skipped,
                     was, unstable, changes>>
  BY Zenon DEF BeginReconnect
<1>2. ServersInv' /\ Mounted' = Mounted
  BY <1>1, SameServers
<1>3. TableInv' /\ WasInv' /\ KnownInv' /\ SettledInv' /\ HistoryInv' /\ PublishedInv'
  <2>1. Thins(table, table')
    BY <1>1, TableIsThin, Zenon
  <2> QED BY <1>1, <1>2, <2>1, Unlisted
<1>4. OpInv'
  <2> DEFINE o == Op("reconnecting", s, 0, 0)
  <2>1. o \in OpRecords /\ o.sid = s
    BY OpIs
  <2>2. op' = [op EXCEPT ![c] = o]
    BY <1>1, Zenon DEF Begin
  <2> HIDE DEF o, OpRecords
  <2> QED BY <1>1, <1>2, <2>1, <2>2, OpSet
<1>5. BoundsInv'
  BY <1>1, BeginBounds
<1>6. FailuresInv' /\ AccountInv'
  <2>1. FailuresInv'
    BY <1>1, <1>2, Zenon DEF McpInv, FailuresInv
  <2>2. AccountInv'
    BY <1>1, <1>2, AccountKept
  <2> QED BY <2>1, <2>2
<1> QED BY <1>2, <1>3, <1>4, <1>5, <1>6 DEF McpInv

\* A task's operation ends.
LEMMA EndInv == ASSUME McpInv, NEW c \in Clients, End(c), mounted' = mounted PROVE OpInv'
<1>1. op' = [op EXCEPT ![c] = Idle]
  BY Zenon DEF End
<1>2. Mounted' = Mounted
  BY SameServers
<1> HIDE DEF OpRecords
<1> QED BY <1>1, <1>2, IdleIs, OpSet

LEMMA ReconnectedInv == ASSUME McpInv, NEW c \in Clients, Reconnected(c) PROVE McpInv'
<1> DEFINE s == op[c].sid
<1>1. /\ op[c].at = "reconnecting" /\ End(c)
      /\ (Installs(s) /\ failures' = failures \ {s}) \/ ListingFails(s)
      /\ UNCHANGED <<mounted, hidden, published, closed, ops, changes>>
  BY Zenon DEF Reconnected
<1>2. s \in Mounted
  BY <1>1, OpHeld
<1>3. OpInv'
  BY <1>1, EndInv
<1> HIDE DEF s
<1>4. CASE Installs(s) /\ failures' = failures \ {s}
  BY <1>1, <1>2, <1>3, <1>4, InstallsInv DEF McpInv
<1>5. CASE ListingFails(s)
  BY <1>1, <1>2, <1>3, <1>5, ListingFailsInv DEF McpInv
<1> QED BY <1>1, <1>4, <1>5

LEMMA BeginCallInv ==
    ASSUME McpInv, NEW c \in Clients, NEW n \in Names, BeginCall(c, n) PROVE McpInv'
<1>1. /\ table[n] # None /\ Begin(c, Op("calling", table[n].sid, 0, 0))
      /\ UNCHANGED <<mounted, table, failures, hidden, published, closed, expected, skipped,
                     was, unstable, changes>>
  BY Zenon DEF BeginCall
<1>2. ServersInv' /\ Mounted' = Mounted
  BY <1>1, SameServers
<1>3. TableInv' /\ WasInv' /\ KnownInv' /\ SettledInv' /\ HistoryInv' /\ PublishedInv'
  <2>1. Thins(table, table')
    BY <1>1, TableIsThin, Zenon
  <2> QED BY <1>1, <1>2, <2>1, Unlisted
<1>4. OpInv'
  <2>1. table[n].sid \in Mounted
    BY <1>1, Zenon DEF McpInv, TableInv
  <2>2. table[n].sid \in Servers
    BY <2>1, MountedIs
  <2> DEFINE o == Op("calling", table[n].sid, 0, 0)
  <2>3. o \in OpRecords /\ o.sid = table[n].sid
    BY <2>2, OpIs
  <2>4. op' = [op EXCEPT ![c] = o]
    BY <1>1, Zenon DEF Begin
  <2> HIDE DEF o, OpRecords
  <2> QED BY <1>2, <2>1, <2>3, <2>4, OpSet
<1>5. BoundsInv'
  BY <1>1, BeginBounds
<1>6. FailuresInv'
  BY <1>1, <1>2, Zenon DEF McpInv, FailuresInv
<1>7. AccountInv'
  BY <1>1, <1>2, AccountKept
<1> QED BY <1>2, <1>3, <1>4, <1>5, <1>6, <1>7 DEF McpInv

LEMMA CallSucceedsInv == ASSUME McpInv, NEW c \in Clients, CallSucceeds(c) PROVE McpInv'
<1>1. /\ End(c)
      /\ UNCHANGED <<mounted, table, failures, hidden, published, closed, expected, skipped,
                     was, unstable, ops, changes>>
  BY Zenon DEF CallSucceeds
<1>2. ServersInv' /\ Mounted' = Mounted
  BY <1>1, SameServers
<1>3. TableInv' /\ WasInv' /\ KnownInv' /\ SettledInv' /\ HistoryInv' /\ PublishedInv'
  <2>1. Thins(table, table')
    BY <1>1, TableIsThin, Zenon
  <2> QED BY <1>1, <1>2, <2>1, Unlisted
<1>4. OpInv' /\ BoundsInv'
  BY <1>1, EndInv, SameBounds
<1>5. FailuresInv'
  BY <1>1, <1>2, Zenon DEF McpInv, FailuresInv
<1>6. AccountInv'
  BY <1>1, <1>2, AccountKept
<1> QED BY <1>2, <1>3, <1>4, <1>5, <1>6 DEF McpInv

LEMMA CallFailsInv == ASSUME McpInv, NEW c \in Clients, CallFails(c) PROVE McpInv'
<1> DEFINE s == op[c].sid
<1>1. /\ op[c].at = "calling" /\ End(c) /\ failures' = failures \cup {s}
      /\ table' = IF EvictFailed THEN Dropped(table, s) ELSE table
      /\ UNCHANGED <<mounted, hidden, published, closed, expected, skipped, was, unstable,
                     ops, changes>>
  BY Zenon DEF CallFails
<1>2. ServersInv' /\ Mounted' = Mounted
  BY <1>1, SameServers
<1>3. s \in Mounted
  BY <1>1, OpHeld
<1>4. OpInv' /\ BoundsInv'
  BY <1>1, EndInv, SameBounds
<1> HIDE DEF s
<1>5. TableInv' /\ WasInv' /\ KnownInv' /\ SettledInv' /\ HistoryInv' /\ PublishedInv'
  <2>1. Thins(table, table')
    BY <1>1, TableIsThin, Zenon
  <2> QED BY <1>1, <1>2, <2>1, Unlisted
<1>6. FailuresInv'
  BY <1>1, <1>2, <1>3 DEF McpInv, FailuresInv
<1>7. AccountInv'
  <2>1. Mounted' \ (failures' \cup skipped') \subseteq Mounted \ (failures \cup skipped)
    BY <1>1, <1>2
  <2>2. table' = table \/ \E u : u \in failures' /\ table' = Dropped(table, u)
    <3>1. s \in failures'
      BY <1>1
    <3> QED BY <3>1, <1>1, Zenon
  <2> QED BY <1>1, <2>1, <2>2, AccountKept
<1> QED BY <1>2, <1>4, <1>5, <1>6, <1>7 DEF McpInv

LEMMA CloseServersInv == ASSUME McpInv, CloseServers PROVE McpInv'
<1>1. /\ closed' = TRUE /\ table' = NoTools
      /\ failures' \in {failures \cup f : f \in SUBSET Mounted}
      /\ UNCHANGED <<mounted, hidden, published, op, expected, skipped, was, unstable, ops,
                     changes>>
  BY Zenon DEF CloseServers
<1>2. ServersInv' /\ Mounted' = Mounted
  BY <1>1, SameServers
<1>3. TableInv' /\ WasInv' /\ KnownInv' /\ SettledInv' /\ HistoryInv' /\ PublishedInv'
  <2>1. Thins(table, table')
    BY <1>1, TableIsThin, Zenon
  <2> QED BY <1>1, <1>2, <2>1, Unlisted
<1>4. OpInv'
  BY <1>1, <1>2, OpSame
<1>5. BoundsInv'
  BY <1>1, Zenon DEF McpInv, BoundsInv
<1>6. FailuresInv'
  BY <1>1, <1>2 DEF McpInv, FailuresInv
<1>7. AccountInv'
  BY <1>1, Zenon DEF AccountInv
<1> QED BY <1>2, <1>3, <1>4, <1>5, <1>6, <1>7 DEF McpInv

\* A stuttering step
LEMMA NoStepInv == ASSUME McpInv, UNCHANGED mcpVars PROVE McpInv'
<1>1. UNCHANGED <<mounted, table, failures, hidden, published, op, closed, expected, skipped, was,
                  unstable, ops, changes>>
  BY Zenon DEF mcpVars
<1>2. ServersInv' /\ Mounted' = Mounted
  BY <1>1, SameServers
<1>3. TableInv' /\ WasInv' /\ KnownInv' /\ SettledInv' /\ HistoryInv' /\ PublishedInv'
  <2>1. Thins(table, table')
    BY <1>1, TableIsThin, Zenon
  <2> QED BY <1>1, <1>2, <2>1, Unlisted
<1>4. OpInv' /\ BoundsInv'
  BY <1>1, <1>2, OpSame, SameBounds
<1>5. FailuresInv' /\ AccountInv'
  <2>1. FailuresInv'
    BY <1>1, <1>2, Zenon DEF McpInv, FailuresInv
  <2>2. AccountInv'
    BY <1>1, <1>2, AccountKept
  <2> QED BY <2>1, <2>2
<1> QED BY <1>2, <1>3, <1>4, <1>5 DEF McpInv

LEMMA McpStepInv == McpInv /\ [McpNext]_mcpVars => McpInv'
<1> SUFFICES ASSUME McpInv, [McpNext]_mcpVars PROVE McpInv'
  OBVIOUS
<1>1. ASSUME NEW s \in Servers, AddServer(s) PROVE McpInv'
  BY <1>1, AddServerInv
<1>2. ASSUME NEW s \in Servers, NEW h \in SUBSET Tools, SetToolFilter(s, h) PROVE McpInv'
  BY <1>2, SetToolFilterInv
<1>3. ASSUME NEW s \in Servers, NEW list \in Lists, Republish(s, list) PROVE McpInv'
  BY <1>3, RepublishInv
<1>4. ASSUME NEW c \in Clients, BeginRefresh(c) PROVE McpInv'
  BY <1>4, BeginRefreshInv
<1>5. ASSUME NEW c \in Clients, Refreshed(c) PROVE McpInv'
  BY <1>5, RefreshedInv
<1>6. ASSUME NEW c \in Clients, Reconnected(c) PROVE McpInv'
  BY <1>6, ReconnectedInv
<1>7. ASSUME NEW c \in Clients, NEW s \in Servers, BeginReconnect(c, s) PROVE McpInv'
  BY <1>7, BeginReconnectInv
<1>8. ASSUME NEW c \in Clients, NEW n \in Names, BeginCall(c, n) PROVE McpInv'
  BY <1>8, BeginCallInv
<1>9. ASSUME NEW c \in Clients, CallSucceeds(c) PROVE McpInv'
  BY <1>9, CallSucceedsInv
<1>10. ASSUME NEW c \in Clients, CallFails(c) PROVE McpInv'
  BY <1>10, CallFailsInv
<1>11. CASE CloseServers
  BY <1>11, CloseServersInv
<1>12. CASE UNCHANGED mcpVars
  BY <1>12, NoStepInv
<1> QED
  BY <1>1, <1>2, <1>3, <1>4, <1>5, <1>6, <1>7, <1>8, <1>9, <1>10, <1>11, <1>12, Zenon
     DEF McpNext

LEMMA McpAlways == McpSpec => []McpInv
<1>1. McpInit => McpInv
  BY McpInitInv
<1>2. McpInv /\ [McpNext]_mcpVars => McpInv'
  BY McpStepInv
<1> QED BY <1>1, <1>2, PTL DEF McpSpec

\* handler.py:59-75: the handler's state is well formed, and every name it has given
\* is of the base of the tool it stands for.
THEOREM McpTyping == McpSpec => []McpTypeOK
<1>1. McpInv => McpTypeOK
  <2> SUFFICES ASSUME McpInv PROVE McpTypeOK
    OBVIOUS
  <2>1. /\ mounted \in Seq(Servers) /\ IsInjective(mounted)
        /\ failures \subseteq Mounted /\ skipped \subseteq Mounted
        /\ hidden \in [Servers -> SUBSET Tools] /\ published \in [Servers -> Lists]
        /\ expected \in [Servers -> SUBSET Tools] /\ unstable \subseteq Bases
        /\ closed \in BOOLEAN /\ ops \in 0..MaxOps /\ changes \in 0..MaxChanges
    BY Zenon DEF McpInv, ServersInv, FailuresInv, PublishedInv, HistoryInv, BoundsInv
  <2>2. /\ table \in [Names -> Entries] /\ was \in [Names -> Entries]
        /\ \A n \in Names : table[n] # None => n[1] = BaseOf[table[n].sid, table[n].tool]
    BY Zenon DEF McpInv, TableInv, WasInv, IsTable
  <2>3. \A c \in Clients : op[c].at # "idle" => op[c].sid \in Mounted
    BY Zenon DEF McpInv, OpInv
  <2>4. \A c \in Clients : op[c].at \in {"idle", "refreshing", "reconnecting", "calling"}
    <3>1. op \in [Clients -> OpRecords]
      BY DEF McpInv, OpInv
    <3>2. \A o \in OpRecords : o.at \in {"idle", "refreshing", "reconnecting", "calling"}
      BY SMT DEF OpRecords
    <3> QED BY <3>1, <3>2, Zenon
  <2> QED BY <2>1, <2>2, <2>3, <2>4, Zenon DEF McpTypeOK
<1> QED BY <1>1, McpAlways, PTL

\* A server's tools and its names are as many, each tool being under one name.
LEMMA OneNameEach ==
    ASSUME McpInv, NEW s \in Servers, {table[n].tool : n \in NamesOf(s)} = expected[s]
    PROVE  Cardinality(NamesOf(s)) = Cardinality(expected[s])
<1> DEFINE f == [n \in NamesOf(s) |-> table[n].tool]
<1>1. IsFiniteSet(expected[s])
  <2>1. IsFiniteSet(Tools)
    BY McpConstants, Zenon DEF McpConstants
  <2>2. expected[s] \in SUBSET Tools
    BY DEF McpInv, HistoryInv
  <2> QED BY <2>1, <2>2, FS_Subset
<1>2. f \in [NamesOf(s) -> expected[s]]
  BY Zenon
<1>3. \A t \in expected[s] : \E n \in NamesOf(s) : f[n] = t
  BY Zenon
<1>4. ASSUME NEW m \in NamesOf(s), NEW n \in NamesOf(s), f[m] = f[n] PROVE m = n
  <2>1. m \in Names /\ n \in Names /\ table[m].sid = s /\ table[n].sid = s
    BY Zenon DEF NamesOf
  <2>2. table \in [Names -> Entries]
        /\ \A x, y \in Names : table[x] # None /\ table[x] = table[y] => x = y
    BY Zenon DEF McpInv, TableInv, IsTable
  <2>3. table[m] \in Entries /\ table[n] \in Entries
    BY <2>1, <2>2, Zenon
  <2>4. table[m] # None /\ table[n] # None
    BY <2>1, EntryIs, Zenon
  <2>5. table[m] = Entry(table[m].sid, table[m].tool) /\ table[n] = Entry(table[n].sid, table[n].tool)
    BY <2>3, <2>4, EntryIs, Zenon
  <2>6. table[m].tool = table[n].tool
    BY <1>4, Zenon
  <2>7. table[m] = table[n]
    BY <2>1, <2>5, <2>6, Zenon
  <2> QED BY <2>1, <2>2, <2>4, <2>7, Zenon
<1>5. f \in Injection(NamesOf(s), expected[s])
  <2> HIDE DEF f
  <2>1. DOMAIN f = NamesOf(s)
    BY <1>2
  <2> QED BY <1>2, <1>4, <2>1, Zenon DEF Injection, IsInjective
<1>6. f \in Surjection(NamesOf(s), expected[s])
  <2> HIDE DEF f
  <2> QED BY <1>2, <1>3, Zenon DEF Surjection
<1> QED BY <1>1, <1>5, <1>6, FS_Injection

\* handler.py:122-125 and :87-89: with no listing under way each server's tools are in
\* the table, every one under one name, or the server is in `failures`: for any number
\* of servers, tools and tasks, and any lists that the servers come to publish.
THEOREM ServersAccounted == McpSpec => []ServersAccountedFor
<1>1. McpInv => ServersAccountedFor
  <2> SUFFICES ASSUME McpInv, ~closed, NEW s \in Mounted \ (failures \cup skipped)
               PROVE  /\ {table[n].tool : n \in NamesOf(s)} = expected[s]
                      /\ Cardinality(NamesOf(s)) = Cardinality(expected[s])
    BY Zenon DEF ServersAccountedFor
  <2>1. s \in Servers
    BY MountedIs
  <2>2. {table[n].tool : n \in NamesOf(s)} = expected[s]
    BY Zenon DEF McpInv, AccountInv
  <2> QED BY <2>1, <2>2, OneNameEach
<1> QED BY <1>1, McpAlways, PTL

\* Only a listing that succeeds changes what the names have stood for.
LEMMA OnlyListings ==
    ASSUME McpInv, [McpNext]_mcpVars
    PROVE  was' = was \/ \E s \in Mounted : Installs(s) /\ mounted' = mounted
<1>1. ASSUME NEW s \in Servers, \/ AddServer(s)
                                \/ \E h \in SUBSET Tools : SetToolFilter(s, h)
                                \/ \E list \in Lists : Republish(s, list)
      PROVE  was' = was
  BY <1>1, Zenon DEF AddServer, SetToolFilter, Republish
<1>2. ASSUME NEW c \in Clients, \/ BeginRefresh(c) \/ CallSucceeds(c) \/ CallFails(c)
                                \/ \E s \in Servers : BeginReconnect(c, s)
                                \/ \E n \in Names : BeginCall(c, n)
      PROVE  was' = was
  BY <1>2, Zenon DEF BeginRefresh, CallSucceeds, CallFails, BeginReconnect, BeginCall
<1>3. ASSUME NEW c \in Clients, Refreshed(c) \/ Reconnected(c)
      PROVE  was' = was \/ \E s \in Mounted : Installs(s) /\ mounted' = mounted
  <2>1. op[c].at # "idle" /\ mounted' = mounted
        /\ (Installs(op[c].sid) \/ ListingFails(op[c].sid))
    BY <1>3, Zenon DEF Refreshed, Reconnected
  <2>2. op[c].sid \in Mounted
    BY <2>1, OpHeld
  <2> QED BY <2>1, <2>2, Zenon DEF ListingFails
<1>4. CASE CloseServers
  BY <1>4, Zenon DEF CloseServers
<1>5. CASE UNCHANGED mcpVars
  BY <1>5, Zenon DEF mcpVars
<1> QED BY <1>1, <1>2, <1>3, <1>4, <1>5, Zenon DEF McpNext

\* handler.py:149-154: a name the model has learned never comes to stand for another
\* tool, through failures, refreshes and reconnects of any tasks in any order, where no
\* two servers share its base and its server publishes what it did.
THEOREM NamesKept == McpSpec => NameKeepsItsTool
<1>1. McpInv /\ [McpNext]_mcpVars =>
          \A n \in Names : (n[1] \notin unstable' /\ was[n] # None) => was'[n] = was[n]
  <2> SUFFICES ASSUME McpInv, [McpNext]_mcpVars,
                      NEW n \in Names, n[1] \notin unstable', was[n] # None
               PROVE  was'[n] = was[n]
    OBVIOUS
  <2>1. CASE was' = was
    BY <2>1, Zenon
  <2>2. ASSUME NEW s \in Mounted, Installs(s), mounted' = mounted
        PROVE  was'[n] = was[n]
    BY <2>2, InstallsKeep
  <2> QED BY <2>1, <2>2, OnlyListings, Zenon
<1>2. McpInv /\ [McpNext]_mcpVars =>
          [\A n \in Names : (n[1] \notin unstable' /\ was[n] # None) => was'[n] = was[n]]_mcpVars
  BY <1>1
<1> QED BY <1>2, McpAlways, PTL DEF McpSpec, NameKeepsItsTool
===============================================================================
