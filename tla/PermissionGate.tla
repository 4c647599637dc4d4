----------------------------- MODULE PermissionGate -----------------------------
(* engine/permissions/engine.py, class PermissionEngine, with the PreToolUse  *)
(* gate of engine/hooks/engine.py: the stages through which the verdict on    *)
(* one tool call is reached.  What a stage finds (a hook's outcome, whether a *)
(* rule matches, what a policy says of a target) is drawn when it is first    *)
(* looked at, and remembered.                                                 *)
EXTENDS Integers, Sequences

CONSTANTS MaxHooks,     \* bound: hooks whose `if` matches the call
          MaxTargets    \* bound: destinations the call names

ASSUME GateConstants == MaxHooks \in Nat /\ MaxTargets \in Nat

Behaviors == {"allow", "ask", "deny"}

Reasons == {"hook", "danger", "network", "rule", "classifier", "mode", "readonly", "other"}

Decision(behavior, reason) == [behavior |-> behavior, reason |-> reason]
NoDecision == Decision("none", "none")

\* What a hook's process or function did: how it ended, and what it printed or
\* returned ("unreadable": a `decision` with an unknown value).
Runs == [exit : {"zero", "two", "other"}, says : Behaviors \cup {"nothing", "unreadable"}]
        \cup [exit : {"raised"}, says : {"nothing"}]

VARIABLES
    at,         \* the stage reached
    hooks,      \* the runs of the selected hooks
    k,          \* hooks looked at by _resolve_gate
    held,       \* what it holds: of "allow", "ask", "error"
    gate,       \* the gate's verdict, "none" if there is none
    danger,     \* what the danger check said
    targets,    \* "allowed"; rejected and "public" or "internal"
    networkAsk, \* network_ask
    rules,      \* the lists that have a matching rule
    classified, \* what the classifier in use said
    mode,
    readOnly,   \* the read-only classifier says yes
    decision

gateVars == <<at, hooks, k, held, gate, danger, targets, networkAsk, rules, classified,
              mode, readOnly, decision>>

GateInit == /\ at = "hooks"
            /\ hooks = <<>> /\ k = 0 /\ held = {} /\ gate = "none"
            /\ danger = "unseen" /\ targets = <<>> /\ networkAsk \in BOOLEAN
            /\ rules = {} /\ classified = "unseen"
            /\ mode \in {"auto", "ask", "locked"}
            /\ readOnly \in BOOLEAN
            /\ decision = NoDecision

Decide(behavior, reason) == at' = "decided" /\ decision' = Decision(behavior, reason)
GoOnTo(stage) == at' = stage /\ UNCHANGED decision
-------------------------------------------------------------------------------
(* CommandHook.run, FunctionHook.run and the wrapper around them *)

\* Exit 2 outranks what was printed; a hook that raised printed nothing.
Verdict(r) == IF r.exit = "two" THEN "deny"
              ELSE IF r.exit = "raised" \/ r.says \notin Behaviors THEN "none"
              ELSE r.says

Errored(r) == r.exit = "raised" \/ r.says = "unreadable"

\* fire and fire_async: every hook runs to its end before any is looked at.  An
\* `if` that cannot be parsed ends the check before a hook has run.
FireHooks ==
    /\ at = "hooks"
    /\ \/ /\ \E n \in 0..MaxHooks : hooks' \in [1..n -> Runs]
          /\ GoOnTo("resolve")
       \/ Decide("ask", "other") /\ UNCHANGED hooks
    /\ UNCHANGED <<k, held, gate, danger, targets, networkAsk, rules, classified,
                   mode, readOnly>>

\* Mutant: a hook that failed has no opinion.
HeldWithoutErrors(r) == held \cup ({Verdict(r)} \ {"none"})

\* What _resolve_gate holds after one more outcome that is not a deny.
Held(r) == IF Errored(r) THEN held \cup {"error"} ELSE held \cup ({Verdict(r)} \ {"none"})

\* _resolve_gate, one outcome: a deny is terminal, whatever else went wrong.
ResolveNext ==
    /\ at = "resolve" /\ k < Len(hooks)
    /\ k' = k + 1
    /\ IF Verdict(hooks[k + 1]) = "deny"
       THEN gate' = "deny" /\ Decide("deny", "hook") /\ UNCHANGED held
       ELSE held' = Held(hooks[k + 1]) /\ GoOnTo("resolve") /\ UNCHANGED gate
    /\ UNCHANGED <<hooks, danger, targets, networkAsk, rules, classified, mode, readOnly>>

\* Mutant: a failure is handed on as it is.
GateRaw(h) == IF "error" \in h THEN "error" ELSE IF "ask" \in h THEN "ask"
              ELSE IF "allow" \in h THEN "allow" ELSE "none"

\* The verdict after the last outcome: a failure and an ask outrank an allow.
GateOf(h) == IF h \cap {"error", "ask"} # {} THEN "ask"
             ELSE IF "allow" \in h THEN "allow" ELSE "none"

\* Mutant: an allow by a hook is obeyed before the stages it may not override.
ResolveEndObeying ==
    /\ at = "resolve" /\ k = Len(hooks)
    /\ gate' = GateOf(held)
    /\ IF gate' = "allow" THEN Decide("allow", "hook") ELSE GoOnTo("danger")
    /\ UNCHANGED <<hooks, k, held, danger, targets, networkAsk, rules, classified,
                   mode, readOnly>>

\* Every outcome has been looked at.
ResolveEnd ==
    /\ at = "resolve" /\ k = Len(hooks)
    /\ gate' = GateOf(held)
    /\ GoOnTo("danger")
    /\ UNCHANGED <<hooks, k, held, danger, targets, networkAsk, rules, classified,
                   mode, readOnly>>
-------------------------------------------------------------------------------
(* _deterministic, after the gate *)

\* The hard-danger stage.  An injected check may say anything, or raise.
CheckDanger ==
    /\ at = "danger"
    /\ danger' \in Behaviors \cup {"none", "raised"}
    /\ CASE danger' = "deny"   -> Decide("deny", "danger")
         [] danger' = "raised" -> Decide("ask", "other")
         [] OTHER              -> GoOnTo("network")
    /\ UNCHANGED <<hooks, k, held, gate, targets, networkAsk, rules, classified,
                   mode, readOnly>>

\* The next destination of the call, under the network policy.
CheckTarget ==
    /\ at = "network" /\ Len(targets) < MaxTargets
    /\ \E t \in {"allowed", "public", "internal"} :
          /\ targets' = Append(targets, t)
          /\ IF t = "allowed" THEN GoOnTo("network")
             ELSE IF networkAsk /\ t = "public" THEN Decide("ask", "network")
             ELSE Decide("deny", "network")
    /\ UNCHANGED <<hooks, k, held, gate, danger, networkAsk, rules, classified,
                   mode, readOnly>>

\* Past the last destination the verdict of a hook, held until now, decides.
NoMoreTargets ==
    /\ at = "network"
    /\ IF gate # "none" THEN Decide(gate, "hook") ELSE GoOnTo("rules")
    /\ UNCHANGED <<hooks, k, held, gate, danger, targets, networkAsk, rules,
                   classified, mode, readOnly>>

\* The lists are gone through in the order deny, ask, allow; then soft danger.
CheckRules ==
    /\ at = "rules"
    /\ rules' \in SUBSET Behaviors
    /\ CASE "deny" \in rules' -> Decide("deny", "rule")
         [] "deny" \notin rules' /\ "ask" \in rules' -> Decide("ask", "rule")
         [] rules' = {"allow"} -> Decide("allow", "rule")
         [] rules' = {} /\ danger # "none" -> Decide(danger, "danger")
         [] OTHER -> GoOnTo("classifier")
    /\ UNCHANGED <<hooks, k, held, gate, danger, targets, networkAsk, classified,
                   mode, readOnly>>
-------------------------------------------------------------------------------
(* check and check_async, after _deterministic *)

\* Only what is stricter than allow counts.
ClassifierObjects(c) == c \in Behaviors \ {"allow"}

\* The classifier in use may be absent, have no opinion, or raise.
Classify ==
    /\ at = "classifier"
    /\ classified' \in Behaviors \cup {"none", "raised"}
    /\ IF classified' = "raised" THEN Decide("ask", "classifier")
       ELSE IF ClassifierObjects(classified') THEN Decide(classified', "classifier")
       ELSE GoOnTo("mode")
    /\ UNCHANGED <<hooks, k, held, gate, danger, targets, networkAsk, rules, mode,
                   readOnly>>

ModeDefault == CASE mode = "auto" -> "allow" [] mode = "ask" -> "ask" [] OTHER -> "deny"

\* _finalize: an ask of the mode, and nothing else, gives way to a read-only call.
Downgraded(behavior) == readOnly /\ behavior = "ask"

Finalize ==
    /\ at = "mode"
    /\ IF Downgraded(ModeDefault) THEN Decide("allow", "readonly")
       ELSE Decide(ModeDefault, "mode")
    /\ UNCHANGED <<hooks, k, held, gate, danger, targets, networkAsk, rules,
                   classified, mode, readOnly>>

GateNext == \/ FireHooks \/ ResolveNext \/ ResolveEnd
            \/ CheckDanger \/ CheckTarget \/ NoMoreTargets \/ CheckRules
            \/ Classify \/ Finalize

GateSpec == GateInit /\ [][GateNext]_gateVars
-------------------------------------------------------------------------------
\* The types; a decision is taken once, at the end.
GateTypeOK ==
    /\ at \in {"hooks", "resolve", "danger", "network", "rules", "classifier", "mode", "decided"}
    /\ hooks \in Seq(Runs) /\ k \in 0..Len(hooks)
    /\ at = "hooks" => k = 0
    /\ held \subseteq {"allow", "ask", "error"}
    /\ gate \in Behaviors \cup {"none"}
    /\ danger \in Behaviors \cup {"none", "raised", "unseen"}
    /\ targets \in Seq({"allowed", "public", "internal"})
    /\ networkAsk \in BOOLEAN
    /\ rules \subseteq Behaviors
    /\ classified \in Behaviors \cup {"none", "raised", "unseen"}
    /\ mode \in {"auto", "ask", "locked"} /\ readOnly \in BOOLEAN
    /\ decision \in [behavior : Behaviors \cup {"none"}, reason : Reasons \cup {"none"}]
    /\ at = "decided" <=> decision # NoDecision

Says(v) == \E n \in 1..Len(hooks) : Verdict(hooks[n]) = v
SomeErrored == \E n \in 1..Len(hooks) : Errored(hooks[n])

Strictest == IF Says("deny") THEN "deny"
             ELSE IF Says("ask") \/ SomeErrored THEN "ask"
             ELSE IF Says("allow") THEN "allow" ELSE "none"

\* hooks/engine.py:395-403: the gate is the strictest verdict of all the hooks,
\* one that failed counting as ask, however many there are and in which order.
GateIsStrictest == at \notin {"hooks", "resolve"} => gate = Strictest

\* No hook objected or failed, the danger check was asked and neither refused nor
\* failed, no destination was rejected and no classifier objected or failed.
Unopposed ==
    /\ ~Says("deny") /\ ~Says("ask") /\ ~SomeErrored
    /\ danger \notin {"unseen", "deny", "raised"}
    /\ \A n \in 1..Len(targets) : targets[n] = "allowed"
    /\ classified \notin {"ask", "deny", "raised"}

\* A hook, an allow rule or the danger check said so; or the mode allows what
\* nothing had an opinion on; or the mode would ask, and the call is read-only.
Reasoned ==
    \/ Says("allow")
    \/ gate = "none" /\ rules = {"allow"}
    \/ gate = "none" /\ rules = {} /\ danger = "allow"
    \/ /\ gate = "none" /\ rules = {} /\ danger = "none"
       /\ mode = "auto" \/ (mode = "ask" /\ readOnly)

\* engine.py:315-322 and :371-373, hooks/engine.py:397-402, modes.py:4-7: whatever
\* the order of hooks, destinations and rules, a call is allowed only where no stage
\* objected or failed, and one of them, or the mode, had a reason to.
AllowIsJustified == decision.behavior = "allow" => Unopposed /\ Reasoned
===============================================================================
