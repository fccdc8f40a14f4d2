--------------------------- MODULE Conversation ---------------------------
(***************************************************************************)
(* InterfaceService.handle (interfaces.py): what becomes of a request of   *)
(* the web page, Discord or the command line.  It is answered from stored  *)
(* facts, handed to the Secretary (module Secretary), planned by a Project *)
(* Manager, or delegated to an agent, and delegated once more when the     *)
(* first attempt failed without an effect.  delegation_policy.py and       *)
(* work_intake.py decide which; routing.py selects the agent's models;     *)
(* infra_policy.py and infra_tools.py act on the virtual machines.         *)
(*                                                                         *)
(* One person writes from one interface; an administrator may link that    *)
(* interface to another user (session) at any time.  Abstracted: texts     *)
(* (only what their classification yields), preferences, the telemetry     *)
(* rows of interface_events.  The loop of an agent is module CodingAgent;  *)
(* here it is what its trace, its result and its effects may be.           *)
(***************************************************************************)
EXTENDS Secretary, FiniteSetsExt

CONSTANTS
  AgentRoute,     \* targets of the agents' roles, in the order of ranking
  Local,          \* the models that run locally
  Capable,        \* models with evidence of the required capabilities
  Preauthorized,  \* BOOLEAN: the environment preauthorizes the VM operations
  Window,         \* messages searched for evidence (12 in the code)
  MaxCalls        \* bound: tool calls of an attempt

ASSUME AgentAssumption ==
  /\ AgentRoute \in Seq(Models)
  /\ Local \subseteq Models /\ Capable \subseteq Models
  /\ Preauthorized \in BOOLEAN /\ {Window, MaxCalls} \subseteq Nat

VARIABLES
  link,   \* interface_identities: the user, and so the default session
  talk    \* handle calls

vars == <<status, health, checks, seeded, voice, log, req, link, talk>>

Facts == {"lookup", "pmStatus"}
Asked == {"project", "coding", "infra"}
Intents == Facts \cup Asked \cup {"followUp", "chat"}
Roles == [project |-> "lead", coding |-> "coding", infra |-> "infra"]

(* named: the session the request names, if any.  spare: the model of a    *)
(* second attempt.  att: the attempt, its trace; hit: attempts that had an *)
(* effect.                                                                 *)
NoTalk == [pc |-> "idle", ses |-> None, named |-> None, intent |-> "chat", role |-> "none",
           att |-> 0, spare |-> None, trace |-> <<>>, hit |-> {}]

TypeOK ==
  /\ SecretaryTypeOK
  /\ link \in Sessions
  /\ \A r \in Requests :
       /\ talk[r].pc \in {"idle", "classify", "probed", "core", "agent", "lead",
                          "done", "refused"}
       /\ talk[r].ses \in Sessions \cup {None}
       /\ talk[r].pc = "agent" => talk[r].att \in 1 .. 2 /\ talk[r].role \in {"coding", "infra"}
       /\ talk[r].hit \subseteq 1 .. 2

Init ==
  /\ SecretaryInit
  /\ link \in Sessions
  /\ talk = [r \in Requests |-> NoTalk]

Owned(t) == t.named \in {None, link}
Set(r, t) == talk' = [talk EXCEPT ![r] = t]
Ended(t, pc) == [NoTalk EXCEPT !.pc = pc, !.hit = t.hit]
Ends(r, t, what) == Set(r, Ended(t, "done")) /\ Say(t.ses, r, what, 1)
Refuses(r, t) == Set(r, Ended(t, "refused")) /\ UNCHANGED log

-----------------------------------------------------------------------------
(* RoutingEngine.capability_selection: the targets of the requested tier   *)
(* that are enabled, healthy and have evidence of the capabilities.        *)
Reason(m, tier) ==
  IF (tier = "local" /\ m \notin Local) \/ (tier = "cloud" /\ m \in Local)
    THEN "execution_tier_mismatch"
  ELSE IF health[m].state \notin {"healthy", "degraded"} THEN "provider_unhealthy"
  ELSE IF status[m] # "available" THEN "model_disabled"
  ELSE IF m \notin Capable THEN "capability_missing"
  ELSE "none"

Ranked(tier) == SelectSeq(AgentRoute, LAMBDA m : Reason(m, tier) = "none")

Mutations == {"edit", "vm"}

(* Mutant: a failed start of a virtual machine counts as read-only.        *)
SideEffectStateLenient(trace) ==
  IF trace = <<>> THEN "NO_TOOLS"
  ELSE IF \E c \in ToSet(trace) : c.op \in Mutations /\ c.ok THEN "MUTATED"
  ELSE "READ_ONLY"

(* DelegationService.side_effect_state of a trace.                         *)
SideEffectState(trace) ==
  IF trace = <<>> THEN "NO_TOOLS"
  ELSE IF \E c \in ToSet(trace) : c.op \in Mutations /\ c.ok THEN "MUTATED"
  ELSE IF \A c \in ToSet(trace) : c.op = "read" \/ (c.op = "edit" /\ ~c.ok) THEN "READ_ONLY"
  ELSE "SIDE_EFFECT_UNKNOWN"

(* delegate_for_session and project_for_session map the identity again;    *)
(* no model of the tier, or no role, is an error of the request.           *)
Dispatch(r, t, role) ==
  \E tier \in {"automatic", "local", "cloud"} :
    LET models == Ranked(IF role = "lead" THEN "cloud" ELSE tier)
        t2 == [t EXCEPT !.ses = link, !.role = role, !.att = 1]
    IN IF ~Owned(t) \/ models = <<>> THEN Refuses(r, t)
       ELSE /\ Set(r, [t2 EXCEPT !.pc = IF role = "lead" THEN "lead" ELSE "agent",
                                 !.spare = IF Len(models) > 1 THEN models[2] ELSE None])
            /\ UNCHANGED log

(* handle: the session is resolved; stored facts answer a lookup and a     *)
(* question for a manager's projects; the deterministic rules of the       *)
(* policy decide what they recognise, and the rest is classified.          *)
Handle(r, intent, named) ==
  LET t == [NoTalk EXCEPT !.ses = link, !.named = named, !.intent = intent] IN
  /\ talk[r].pc = "idle"
  /\ CASE ~Owned(t) -> Refuses(r, t)
       [] Owned(t) /\ intent \in Facts -> Ends(r, t, "fact")
       [] Owned(t) /\ intent \in Asked -> Dispatch(r, t, Roles[intent])
       [] OTHER -> Set(r, [t EXCEPT !.pc = "classify"]) /\ UNCHANGED log
  /\ UNCHANGED <<status, voice, req, link>>

(* _classify: its call of _secretary_candidates probes as any other, then  *)
(* its inference returns a decision, or none, which is direct.             *)
ClassifierProbes(r) ==
  /\ talk[r].pc = "classify"
  /\ \E up \in SUBSET Stale(status) :
       status' = [m \in Models |-> IF m \in up THEN "available" ELSE status[m]]
  /\ Set(r, [talk[r] EXCEPT !.pc = "probed"])
  /\ UNCHANGED <<voice, log, req, link>>

(* A successful list_vms among the last messages of the session.           *)
Evidence(s) ==
  \E i \in DOMAIN log[s] : i + Window > Len(log[s]) /\ log[s][i].what = "listed"

Classified(r) ==
  LET t == talk[r] IN
  /\ t.pc = "probed"
  /\ \/ /\ t.intent = "followUp"
        /\ IF Evidence(t.ses) THEN Dispatch(r, t, "infra") ELSE Ends(r, t, "clarify")
        /\ UNCHANGED <<status, voice, req>>
     \/ /\ t.intent = "chat"
        /\ \/ /\ \E kind \in Kinds :
                   HandleMessage(r, t.ses, kind)
              /\ Set(r, Ended(t, "core"))
           \/ /\ \E role \in {"lead", "coding", "infra"} : Dispatch(r, t, role)
              /\ UNCHANGED <<status, voice, req>>
  /\ UNCHANGED link

-----------------------------------------------------------------------------
(* A tool call of the attempt: an inspection, an edit of a file, or the    *)
(* start or restart of a machine.  The request for it is sent only when    *)
(* preauthorized; it may have been carried out whatever is reported: the   *)
(* answer or the polls for it may be lost or late.                         *)
InfraOutcomes ==
  IF ~Preauthorized THEN {[ok |-> FALSE, effect |-> FALSE]}
  ELSE [ok : BOOLEAN, effect : BOOLEAN]    \* ok without effect: it was running

Outcomes(op) ==
  CASE op = "read" -> [ok : BOOLEAN, effect : {FALSE}]
    [] op = "edit" -> {[ok |-> b, effect |-> b] : b \in BOOLEAN}
    [] op = "vm"   -> InfraOutcomes

ToolCall(r, op) ==
  LET t == talk[r] IN
  /\ t.pc = "agent" /\ Len(t.trace) < MaxCalls
  /\ op \in (IF t.role = "infra" THEN {"read", "vm"} ELSE {"read", "edit"})
  /\ \E o \in Outcomes(op) :
       Set(r, [t EXCEPT !.trace = Append(@, [op |-> op, ok |-> o.ok]),
                        !.hit = IF o.effect THEN @ \cup {t.att} ELSE @])
  /\ UNCHANGED <<status, voice, log, req, link>>

(* The message of the first attempt: that of its job, the only one.        *)
First(s, r) == {i \in DOMAIN log[s] : log[s][i].by = r /\ log[s][i].att = 1}

(* Mutant: the answer of the first attempt stays in the session.           *)
AttemptEndsTwice(r, done, protocol) ==
  LET t == talk[r]
      listed == done /\ t.role = "infra" /\ \E c \in ToSet(t.trace) : c.op = "read" /\ c.ok
      again == ~done /\ protocol /\ t.att = 1 /\ t.spare # None
               /\ SideEffectState(t.trace) \in {"NO_TOOLS", "READ_ONLY"}
  IN /\ t.pc = "agent"
     /\ log' = [log EXCEPT ![t.ses] =
          Append(@, [by |-> r, what |-> IF listed THEN "listed" ELSE "agent", att |-> t.att])]
     /\ Set(r, IF again THEN [t EXCEPT !.att = 2, !.trace = <<>>]
               ELSE Ended(t, "done"))
     /\ UNCHANGED <<status, voice, req, link>>

(* delegate_agent has settled its job and added its answer.  A first       *)
(* attempt that failed in the protocol and only read is made again with    *)
(* the spare model; the answer of the first is then deleted.               *)
AttemptEnds(r, done, protocol) ==
  LET t == talk[r]
      listed == done /\ t.role = "infra" /\ \E c \in ToSet(t.trace) : c.op = "read" /\ c.ok
      again == ~done /\ protocol /\ t.att = 1 /\ t.spare # None
               /\ SideEffectState(t.trace) \in {"NO_TOOLS", "READ_ONLY"}
  IN /\ t.pc = "agent"
     /\ \E kept \in IF t.att = 1 THEN {log[t.ses]}
                     ELSE {RemoveAt(log[t.ses], i) : i \in First(t.ses, r)} :
          log' = [log EXCEPT ![t.ses] = Append(
            kept, [by |-> r, what |-> IF listed THEN "listed" ELSE "agent", att |-> t.att])]
     /\ Set(r, IF again THEN [t EXCEPT !.att = 2, !.trace = <<>>]
               ELSE Ended(t, "done"))
     /\ UNCHANGED <<status, voice, req, link>>

(* ProjectLeadService.run returned a plan or a blocked project, or raised. *)
ProjectReturns(r) ==
  /\ talk[r].pc = "lead"
  /\ Ends(r, talk[r], "project") \/ Refuses(r, talk[r])
  /\ UNCHANGED <<status, voice, req, link>>

(* link_identity.                                                          *)
LinkIdentity(s) ==
  /\ link # s
  /\ link' = s
  /\ UNCHANGED <<status, voice, log, req, talk>>

Step ==
  \/ CoreStep /\ UNCHANGED <<link, talk>>
  \/ HealthStep /\ UNCHANGED <<link, talk>>
  \/ /\ \/ \E r \in Requests :
             \/ \E i \in Intents, n \in Sessions \cup {None} : Handle(r, i, n)
             \/ ClassifierProbes(r) \/ Classified(r)
             \/ \E op \in {"read", "edit", "vm"} : ToolCall(r, op)
             \/ \E done, protocol \in BOOLEAN : AttemptEnds(r, done, protocol)
             \/ ProjectReturns(r)
        \/ \E s \in Sessions : LinkIdentity(s)
     /\ UNCHANGED probes

Spec == Init /\ [][Step]_vars

-----------------------------------------------------------------------------
(* When handle has returned, exactly one assistant message of the request  *)
(* is visible, in one session; none when it was refused (comment in        *)
(* delegate_for_session: "The retry is the single response for this        *)
(* request").                                                              *)
Said(r) == UNION {{<<s, i>> : i \in {j \in DOMAIN log[s] : log[s][j].by = r}} : s \in Sessions}
Over(r) == talk[r].pc = "done" \/ (talk[r].pc = "core" /\ req[r].pc = "done")

OneAnswer ==
  \A r \in Requests :
    /\ Over(r) => Cardinality(Said(r)) = 1
    /\ talk[r].pc = "refused" => Said(r) = {}

(* At most one attempt of a request changed a file or a virtual machine,   *)
(* whatever its tools reported.                                            *)
NoSecondEffect == \A r \in Requests : Cardinality(talk[r].hit) <= 1
=============================================================================
