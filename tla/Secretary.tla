----------------------------- MODULE Secretary -----------------------------
(***************************************************************************)
(* How the Secretary answers a message (services.py: handle_message and    *)
(* _secretary_candidates): which models may answer (routing.py), how the   *)
(* session's voice is kept, how a model that failed is left out and probed *)
(* again (providers.py), and the health of the providers (health.py).      *)
(*                                                                         *)
(* An action is what runs between two awaits.  Every model has a provider  *)
(* of its own, with an adapter, and enabled: nothing in the program clears *)
(* that column, nor calls set_provider_status.  Abstracted: texts,         *)
(* prompts, tokens, costs, telemetry, latencies; a route is the order its  *)
(* models are tried in.  Announcing a state is an await without effect.    *)
(***************************************************************************)
EXTENDS Naturals, Sequences, SequencesExt, FiniteSets

CONSTANTS
  Requests, Sessions, Models, None,
  SecretaryRoute, MediumRoute,    \* the targets of the two roles, in order
  FailureThreshold, RecoveryThreshold,
  Demo,                           \* models of the providers of /v1/demo/seed
  Watched,                        \* bound: providers whose health is checked
  MaxChecks                       \* bound: overlapping checks of a provider

ASSUME RouteAssumption ==
  /\ None \notin Models
  /\ SecretaryRoute \in Seq(Models) /\ MediumRoute \in Seq(Models)
  /\ IsInjective(SecretaryRoute) /\ IsInjective(MediumRoute)
  /\ FailureThreshold \in Nat \ {0} /\ RecoveryThreshold \in Nat \ {0}
  /\ Demo \subseteq Models /\ Watched \subseteq Models /\ MaxChecks \in Nat

VARIABLES
  status,    \* models.status: available, error, or stale: in error for 30 s
  health,    \* the provider's row: state and the two counters
  checks,    \* check_provider calls in progress: the rows they have read
  seeded,    \* seed_demo has declared its providers healthy
  voice,     \* sessions.affinity_model_id
  log,       \* the assistant messages of a session
  req        \* handle_message calls

Kinds == {"simple", "medium", "hard", "canned"}

core == <<status, voice, log, req>>
probes == <<health, checks, seeded>>

States == {"healthy", "degraded", "unavailable", "unknown"}
Rows == [state : States, fails : 0 .. FailureThreshold, oks : 0 .. RecoveryThreshold]

(* left: models to try.  probe: providers to probe.  call: the first or    *)
(* the second call of _secretary_candidates.  gone: a call returned        *)
(* without the session's voice.                                            *)
Unborn == [pc |-> "idle", ses |-> None, aff |-> None, call |-> 1, probe |-> {},
           left |-> <<>>, gone |-> FALSE]

SecretaryTypeOK ==
  /\ status \in [Models -> {"available", "error", "stale"}]
  /\ health \in [Models -> Rows]
  /\ \A m \in Models : ToSet(checks[m]) \subseteq Rows /\ Len(checks[m]) <= MaxChecks
  /\ seeded \in BOOLEAN
  /\ voice \in [Sessions -> Models \cup {None}]
  /\ \A r \in Requests :
       /\ req[r].pc \in {"idle", "probe", "try", "said", "failed", "done"}
       /\ req[r].pc \in {"try", "said", "failed"} => req[r].left # <<>>
       /\ req[r].pc = "probe" <=> req[r].probe # {}
       /\ req[r].probe \subseteq Models /\ req[r].gone \in BOOLEAN

SecretaryInit ==
  /\ status \in [Models -> {"available", "stale"}]
  /\ health = [m \in Models |-> [state |-> IF m \in Demo THEN "unknown" ELSE "healthy",
                                 fails |-> 0, oks |-> 0]]
  /\ checks = [m \in Models |-> <<>>]
  /\ seeded = FALSE
  /\ voice \in [Sessions -> Models \cup {None}]
  /\ log = [s \in Sessions |-> <<>>]
  /\ req = [r \in Requests |-> Unborn]

-----------------------------------------------------------------------------
(* RoutingEngine.eligible_routes, and the models _secretary_candidates     *)
(* probes before it resolves the route again.                              *)
Eligible(m, st) == health[m].state \in {"healthy", "degraded"} /\ st[m] = "available"
Candidates(route, st) == SelectSeq(route, LAMBDA m : Eligible(m, st))
Stale(st) == {m \in ToSet(SecretaryRoute) : st[m] = "stale"}

Say(s, r, what, att) ==
  log' = [log EXCEPT ![s] = Append(@, [by |-> r, what |-> what, att |-> att])]

(* The loop over the candidates goes on, or the answer is written.         *)
Answer(r, q) ==
  /\ req' = [req EXCEPT ![r] = [Unborn EXCEPT !.pc = "done"]]
  /\ Say(q.ses, r, "chat", 1)

TryFrom(r, q, models) ==
  IF models = <<>> THEN Answer(r, q)
  ELSE /\ req' = [req EXCEPT ![r] = [q EXCEPT !.pc = "try", !.left = models]]
       /\ UNCHANGED log

(* Mutant: the session's voice does not choose among the candidates.       *)
ResolvedAnyVoice(r, q, st) ==
  LET found == Candidates(SecretaryRoute, st)
  IN TryFrom(r, [q EXCEPT !.gone = @ \/ q.aff \notin ToSet(found), !.probe = {}], found)

(* A call of _secretary_candidates returned: the session's voice alone is  *)
(* tried when it is among the candidates (a route names a model once);     *)
(* when it is not, they are resolved once more and all of them are tried.  *)
Resolved(r, q, st) ==
  LET found == Candidates(SecretaryRoute, st)
      own == IF q.aff \in ToSet(found) THEN <<q.aff>> ELSE <<>>
      now == [q EXCEPT !.gone = @ \/ own = <<>>, !.probe = {}]
  IN IF q.aff = None \/ q.call = 2 THEN TryFrom(r, now, found)
     ELSE IF own # <<>> THEN TryFrom(r, now, own)
     ELSE IF Stale(st) = {} THEN TryFrom(r, now, found)
     ELSE /\ req' = [req EXCEPT ![r] = [now EXCEPT !.pc = "probe", !.call = 2,
                                                   !.probe = Stale(st)]]
          /\ UNCHANGED log

(* handle_message up to its first await.  A question that needs no model   *)
(* (an unauthorised action, introspection) is answered at once, as a hard  *)
(* one is when the Codex job is accepted.                                  *)
HandleMessage(r, s, kind) ==
  LET q == [Unborn EXCEPT !.ses = s, !.aff = voice[s]] IN
  /\ req[r].pc = "idle"
  /\ CASE kind \in {"canned", "hard"} -> Answer(r, q)
       [] kind = "medium" /\ q.aff = None ->
            TryFrom(r, q, Candidates(MediumRoute, status))
       [] OTHER ->
            IF Stale(status) = {} THEN Resolved(r, q, status)
            ELSE /\ req' = [req EXCEPT ![r] = [q EXCEPT !.pc = "probe",
                                                        !.probe = Stale(status)]]
                 /\ UNCHANGED log
  /\ UNCHANGED <<status, voice>>

(* discover_models of one provider returned, or raised and is passed over. *)
Probe(r, m) ==
  /\ m \in req[r].probe
  /\ \E up \in BOOLEAN :
       LET st == IF up THEN [status EXCEPT ![m] = "available"] ELSE status
           q == [req[r] EXCEPT !.probe = @ \ {m}]
       IN /\ status' = st
          /\ IF q.probe = {} THEN Resolved(r, q, st)
             ELSE req' = [req EXCEPT ![r] = q] /\ UNCHANGED log
  /\ UNCHANGED voice

(* The inference returned: the voice is set from the affinity read at the  *)
(* start.  It raised or timed out: the next model is tried.                *)
Infer(r) ==
  LET q == req[r]
      m == Head(q.left)
  IN /\ q.pc = "try"
     /\ \/ /\ req' = [req EXCEPT ![r].pc = "said"]
           /\ voice' = [voice EXCEPT ![q.ses] = IF q.aff = m THEN @ ELSE m]
        \/ /\ req' = [req EXCEPT ![r].pc = "failed"]
           /\ UNCHANGED voice
     /\ UNCHANGED <<status, log>>

Announced(r) ==
  LET q == req[r]
      m == Head(q.left)
      rest == [q EXCEPT !.left = Tail(@)]
  IN /\ \/ /\ q.pc = "said"
           /\ status' = [status EXCEPT ![m] = "available"]
           /\ Answer(r, q)
        \/ /\ q.pc = "failed"
           /\ status' = [status EXCEPT ![m] = "error"]
           /\ \/ TryFrom(r, rest, rest.left)
              \/ Len(q.left) > 1 /\ Answer(r, rest)    \* the deadline passed
     /\ UNCHANGED voice

(* Thirty seconds pass; an administrator discovers a provider's models.    *)
CoolDown(m) ==
  /\ status[m] = "error"
  /\ status' = [status EXCEPT ![m] = "stale"]
  /\ UNCHANGED <<voice, log, req>>

DiscoverModels(m) ==
  /\ status[m] # "available"
  /\ status' = [status EXCEPT ![m] = "available"]
  /\ UNCHANGED <<voice, log, req>>

-----------------------------------------------------------------------------
(* check_provider reads the row, awaits the adapter, and writes what       *)
(* follows from the row it read, whatever was written since.               *)
CheckBegin(m) ==
  /\ Len(checks[m]) < MaxChecks
  /\ checks' = [checks EXCEPT ![m] = Append(@, health[m])]
  /\ UNCHANGED <<health, seeded>>

Judged(row, up) ==
  LET oks == IF row.oks < RecoveryThreshold THEN row.oks + 1 ELSE row.oks
      fails == IF row.fails < FailureThreshold THEN row.fails + 1 ELSE row.fails
  IN IF up
       THEN [state |-> IF oks >= RecoveryThreshold \/ row.state \in {"healthy", "unknown"}
                         THEN "healthy" ELSE row.state,
             fails |-> 0, oks |-> oks]
       ELSE [state |-> IF fails >= FailureThreshold THEN "unavailable"
                       ELSE IF row.state = "healthy" THEN "degraded" ELSE row.state,
             fails |-> fails, oks |-> 0]

CheckReturns(m, i, up) ==
  /\ health' = [health EXCEPT ![m] = Judged(checks[m][i], up)]
  /\ checks' = [checks EXCEPT ![m] = RemoveAt(@, i)]
  /\ UNCHANGED seeded

(* seed_demo declares the providers it has made healthy, once; until then  *)
(* they are as installed, in state unknown.                                *)
SeedDemo ==
  /\ ~seeded
  /\ seeded' = TRUE
  /\ health' = [m \in Models |-> IF m \in Demo THEN [health[m] EXCEPT !.state = "healthy"]
                                 ELSE health[m]]
  /\ UNCHANGED checks

CoreStep ==
  /\ \/ \E r \in Requests :
          \/ \E m \in Models : Probe(r, m)
          \/ Infer(r)
          \/ Announced(r)
     \/ \E m \in Models : CoolDown(m) \/ DiscoverModels(m)
  /\ UNCHANGED probes

HealthStep ==
  /\ \/ \E m \in Watched :
          \/ CheckBegin(m)
          \/ \E i \in DOMAIN checks[m], up \in BOOLEAN : CheckReturns(m, i, up)
     \/ SeedDemo
  /\ UNCHANGED core

SecretaryNext ==
  \/ /\ \E r \in Requests, s \in Sessions, kind \in Kinds : HandleMessage(r, s, kind)
     /\ UNCHANGED probes
  \/ CoreStep
  \/ HealthStep

SecretarySpec == SecretaryInit /\ [][SecretaryNext]_<<core, probes>>

-----------------------------------------------------------------------------
(* The voice of a session changes only by a request that found another     *)
(* voice when it began, or that looked for the voice among the models that *)
(* may answer and did not find it (the comment in handle_message: the task *)
(* class "must not silently switch the voice").                            *)
VoiceKept ==
  [][\A s \in Sessions :
       voice[s] # None /\ voice'[s] # voice[s] =>
         \E r \in Requests : /\ req[r].pc = "try" /\ req[r].ses = s
                             /\ req[r].aff # voice[s] \/ req[r].gone]_voice
=============================================================================
