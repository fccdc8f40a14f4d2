------------------------------ MODULE Discord ------------------------------
(***************************************************************************)
(* Discord messages (discord_gateway.py: handle_message, the clean-up      *)
(* dialogue, _on_job_complete): several messages are handled at once, each *)
(* in a coroutine of its own, over one send lock, the pending clean-ups,   *)
(* the table discord_thread_sessions and the jobs they create.             *)
(*                                                                         *)
(* An action is what runs between two awaits.  A thread that the program   *)
(* opens for a message is named by the message, a session by its owner and *)
(* the key it was found under.  The three answers of a clean-up are one    *)
(* value: all given with "active" threads only, all given with archived    *)
(* ones ("all"), or not all given ("none").  Abstracted: texts, chunks,    *)
(* mentions, the core's work.                                              *)
(***************************************************************************)
EXTENDS Naturals, Sequences, SequencesExt

CONSTANTS
  Messages,   \* messages sent to the bot; each is handled once
  Users       \* Discord users that the configuration admits

ASSUME DiscordAssumption ==
  /\ "none" \notin Messages \cup Users
  /\ {"channel", "thread", "other", "default"} \cap Messages = {}

Sayings == {"chat", "work", "inspect", "clean", "active", "all", "confirm",
            "confirmAll", "cancel"}
Places == {"channel", "thread", "other"} \cup Messages
(* interface_sessions: one session for a thread the program opened, one    *)
(* for a user in the channel, and one for all other threads of a user.     *)
Session == [key : {"channel", "default"} \cup Messages, user : Users]
NoSession == [key |-> "none", user |-> "none"]
NoClean == [stage |-> "none", scope |-> "none"]

VARIABLES
  msg,      \* msg[m]: who wrote m where, what it says, where its coroutine is
  lock,     \* _send_lock: the coroutine that holds it
  pending,  \* _thread_cleanup_pending, by user
  map,      \* discord_thread_sessions (durable): the session of a place
  jobs,     \* messages that created a job, in that order (durable)
  work,     \* work[m]: the job of m, the place in its payload, its notice
  gone,     \* threads deleted by a clean-up
  scopes    \* history per user: scopes composed, sweeps begun, scope shown

vars == <<msg, lock, pending, map, jobs, work, gone, scopes>>

PCs == {"none", "plan", "thread", "core", "send", "sending", "fail", "stuck",
        "list", "sweep", "done", "ignored"}

Stages == {"none", "questions", "confirmation"}
Scopes == {"none", "active", "all"}
Message == [user : Users \cup {"none"}, at : Places, says : Sayings, pc : PCs,
            reply : BOOLEAN, mapped : BOOLEAN, session : Session \cup {NoSession},
            scope : Scopes]

TypeOK ==
  /\ msg \in [Messages -> Message]
  /\ lock \in [m : Messages \cup {"none"}, job : BOOLEAN]
  /\ pending \in [Users -> [stage : Stages, scope : Scopes]]
  /\ map \in [Places -> Session \cup {NoSession}]
  /\ jobs \in Seq(Messages)
  /\ \A m \in ToSet(jobs) : work[m].state # "none"
  /\ work \in [Messages -> [state : {"none", "running", "notify", "posting", "ended"},
                            place : Places \cup {"none"}, noticed : BOOLEAN]]
  /\ gone \subseteq Places
  /\ scopes \in [Users -> [composed : Nat, swept : Nat, shown : Scopes]]

Free == [m |-> "none", job |-> FALSE]

(* A dialogue may be at any stage when the messages arrive.                *)
Init ==
  /\ msg = [m \in Messages |-> [user |-> "none", at |-> "channel", says |-> "chat",
              pc |-> "none", reply |-> FALSE, mapped |-> FALSE,
              session |-> NoSession, scope |-> "none"]]
  /\ lock = Free
  /\ \E w \in Users, c \in {NoClean, [stage |-> "questions", scope |-> "none"],
                            [stage |-> "confirmation", scope |-> "active"]} :
       pending = [u \in Users |-> IF u = w THEN c ELSE NoClean]
  /\ map = [p \in Places |-> NoSession]
  /\ jobs = <<>>
  /\ work = [m \in Messages |-> [state |-> "none", place |-> "none", noticed |-> FALSE]]
  /\ gone = {}
  /\ scopes = [u \in Users |-> [composed |-> 1, swept |-> 0,
                 shown |-> IF pending[u].stage = "confirmation" THEN "active" ELSE "none"]]

(* m goes on to pc; direct messages are sent by _send_direct.              *)
To(m, pc) == msg' = [msg EXCEPT ![m].pc = pc]
Direct(m) == To(m, "send")

-----------------------------------------------------------------------------
(* _thread_cleanup_flow for the message `new` with number m.  The record   *)
(* is changed before the await of the answer, and what a message says      *)
(* about the scope is taken over in every stage.                           *)
ScopeAfter(u, says) ==
  CASE says = "active"                -> "active"
    [] says \in {"all", "confirmAll"} -> "all"
    [] OTHER                          -> pending[u].scope

(* Mutant: the dialogue is forgotten only with the last answer.            *)
CleanFlowKeeps(m, new) ==
  LET u == new.user
      scope == ScopeAfter(u, new.says)
      sweeps == pending[u].stage = "confirmation" /\ new.says = "confirm"
  IN /\ msg' = [msg EXCEPT ![m] = [new EXCEPT !.pc = IF sweeps THEN "list" ELSE "send",
                                              !.scope = scope]]
     /\ scopes' = IF sweeps THEN [scopes EXCEPT ![u].swept = @ + 1] ELSE scopes
     /\ UNCHANGED pending

CleanFlow(m, new) ==
  LET u == new.user
      scope == ScopeAfter(u, new.says)
      now == pending[u].stage
      answered == [msg EXCEPT ![m] = [new EXCEPT !.pc = "send", !.says = "chat"]]
  IN CASE now = "none" ->
            /\ pending' = [pending EXCEPT ![u] = [stage |-> "questions", scope |-> "none"]]
            /\ UNCHANGED scopes
            /\ msg' = answered
       [] now = "questions" /\ scope = "none" ->
            /\ UNCHANGED <<pending, scopes>>
            /\ msg' = answered
       [] now = "questions" /\ scope # "none" ->
            /\ pending' = [pending EXCEPT ![u] = [stage |-> "confirmation", scope |-> scope]]
            /\ scopes' = [scopes EXCEPT ![u] =
                 [composed |-> @.composed + 1, swept |-> @.swept, shown |-> scope]]
            /\ msg' = answered
       [] now = "confirmation" /\ new.says = "cancel" ->
            /\ pending' = [pending EXCEPT ![u] = NoClean]
            /\ UNCHANGED scopes
            /\ msg' = answered
       [] now = "confirmation" /\ new.says \in {"confirm", "confirmAll"} ->
            /\ pending' = [pending EXCEPT ![u] = NoClean]
            /\ scopes' = [scopes EXCEPT ![u].swept = @ + 1]
            /\ msg' = [msg EXCEPT ![m] = [new EXCEPT !.pc = "list", !.says = "chat",
                                                    !.scope = scope]]
       [] OTHER ->
            /\ pending' = [pending EXCEPT ![u].scope = scope]
            /\ UNCHANGED scopes
            /\ msg' = answered

(* The threads are listed, or cannot be; then each is deleted or refuses.  *)
List(m) ==
  /\ msg[m].pc = "list"
  /\ To(m, "sweep") \/ Direct(m)
  /\ UNCHANGED <<lock, pending, map, jobs, work, gone, scopes>>

Opened == {t \in Messages : msg[t].at = t} \cup {"thread", "other"}

Sweep(m) ==
  /\ msg[m].pc = "sweep"
  /\ \E dead \in {{}, Opened} : gone' = gone \cup dead
  /\ Direct(m)
  /\ UNCHANGED <<lock, pending, map, jobs, work, scopes>>

-----------------------------------------------------------------------------
(* The core is asked.  Without a row of the place on arrival the session   *)
(* is looked up by its key (resolve_session).                              *)
SessionOf(m, t, at) ==
  IF t.mapped THEN t.session
  ELSE [key |-> CASE at = m         -> m
                  [] at = "channel" -> "channel"
                  [] OTHER          -> "default",
        user |-> t.user]

AskCore(m, t, at) ==
  [t EXCEPT !.pc = "core", !.at = at, !.session = SessionOf(m, t, at)]

(* The channel itself, when it has no row, gets a thread for the message.  *)
Onward(m, t) ==
  IF t.at = "channel" /\ ~t.mapped THEN [t EXCEPT !.pc = "thread"]
                                   ELSE AskCore(m, t, t.at)

(* handle_message up to its first await: a mapped place answers its owner  *)
(* only; inspections come first, then an open dialogue, then the planner.  *)
Receive(m, u, at, says) ==
  LET new == [msg[m] EXCEPT !.user = u, !.at = at, !.says = says,
                !.mapped = map[at] # NoSession, !.session = map[at]]
      plain == IF says \in {"work", "clean"} THEN new ELSE [new EXCEPT !.says = "chat"]
      Be(t) == msg' = [msg EXCEPT ![m] = t] /\ UNCHANGED <<pending, scopes>>
  IN /\ msg[m].pc = "none"
     /\ at \in {"channel"} \cup Opened /\ at \notin gone
     /\ UNCHANGED <<lock, map, jobs, work, gone>>
     /\ IF map[at].user \notin {"none", u}
          THEN Be([plain EXCEPT !.pc = "ignored"])
        ELSE IF says = "inspect"
          THEN Be([plain EXCEPT !.pc = "send"])
        ELSE IF pending[u].stage # "none"
          THEN CleanFlow(m, new)
        ELSE IF says = "clean"
          THEN Be([plain EXCEPT !.pc = "plan"])
          ELSE Be(Onward(m, plain))

(* The planner was awaited: another message of this user may have opened   *)
(* the dialogue meanwhile, and then this one is an answer in it.           *)
Clean(m) ==
  /\ msg[m].pc = "plan"
  /\ CleanFlow(m, msg[m])
  /\ UNCHANGED <<lock, map, jobs, work, gone>>

Unplanned(m) ==
  /\ msg[m].pc = "plan" /\ pending[msg[m].user].stage = "none"
  /\ msg' = [msg EXCEPT ![m] = Onward(m, @)]
  /\ UNCHANGED <<lock, pending, map, jobs, work, gone, scopes>>

(* _new_thread; when Discord refuses one the channel itself is used.       *)
NewThread(m) ==
  /\ msg[m].pc = "thread"
  /\ \E at \in {m, "channel"} : msg' = [msg EXCEPT ![m] = AskCore(m, @, at)]
  /\ UNCHANGED <<lock, pending, map, jobs, work, gone, scopes>>

(* Mutant: the newest job of all sessions.                                 *)
NewestOfAll(s) == Last(jobs)

(* The job a reply is about is taken to be the newest of its session,      *)
(* which another message, of the same place or not, may have created.      *)
Newest(s) == jobs[Max({i \in DOMAIN jobs : msg[jobs[i]].session = s})]

(* adapter.handle_message runs the core, which may create a job, for the   *)
(* worker or for a delegate, whose job is over before the core returns ... *)
CreateJob(m) ==
  /\ msg[m].pc = "core" /\ msg[m].says = "work" /\ work[m].state = "none"
  /\ jobs' = Append(jobs, m)
  /\ \E state \in {"running", "ended"} : work' = [work EXCEPT ![m].state = state]
  /\ UNCHANGED <<msg, lock, pending, map, gone, scopes>>

(* ... and returned: the payload of the job gets the place, and a place    *)
(* that had no row on arrival is mapped.                                   *)
CoreReturns(m) ==
  /\ msg[m].pc = "core" /\ (msg[m].says = "work" => work[m].state # "none")
  /\ msg' = [msg EXCEPT ![m].pc = "send", ![m].reply = TRUE]
  /\ work' = IF msg[m].says = "work"
               THEN [work EXCEPT ![Newest(msg[m].session)].place = msg[m].at]
               ELSE work
  /\ map' = IF msg[m].mapped THEN map
             ELSE [map EXCEPT ![msg[m].at] = msg[m].session]
  /\ UNCHANGED <<lock, pending, jobs, gone, scopes>>

CoreRaises(m) ==
  /\ msg[m].pc = "core"
  /\ To(m, "fail")
  /\ UNCHANGED <<lock, pending, map, jobs, work, gone, scopes>>

-----------------------------------------------------------------------------
(* async with self._send_lock, and channel.send for every chunk.           *)
Acquire(m) ==
  /\ msg[m].pc = "send" /\ lock = Free
  /\ lock' = [m |-> m, job |-> FALSE]
  /\ To(m, "sending")
  /\ UNCHANGED <<pending, map, jobs, work, gone, scopes>>

(* An exception of a reply reaches the except clause of handle_message,    *)
(* one of a direct message leaves it.                                      *)
Sent(m) ==
  /\ msg[m].pc = "sending"
  /\ lock' = Free
  /\ \/ msg[m].at \notin gone /\ To(m, "done")
     \/ To(m, IF msg[m].reply THEN "fail" ELSE "done")
  /\ UNCHANGED <<pending, map, jobs, work, gone, scopes>>

(* The except clause takes the lock around _send_direct, which waits for   *)
(* the same lock: asyncio.Lock is not reentrant.                           *)
AnswerFailure(m) ==
  /\ msg[m].pc = "fail" /\ lock = Free
  /\ lock' = [m |-> m, job |-> FALSE]
  /\ To(m, "stuck")
  /\ UNCHANGED <<pending, map, jobs, work, gone, scopes>>

-----------------------------------------------------------------------------
(* _on_job_complete: only a payload that names Discord is announced.       *)
JobEnds(m) ==
  /\ work[m].state = "running"
  /\ work' = [work EXCEPT ![m].state =
       IF work[m].place \in {"none"} \cup gone THEN "ended" ELSE "notify"]
  /\ UNCHANGED <<msg, lock, pending, map, jobs, gone, scopes>>

Notify(m) ==
  /\ work[m].state = "notify" /\ lock = Free
  /\ lock' = [m |-> m, job |-> TRUE]
  /\ work' = [work EXCEPT ![m].state = "posting"]
  /\ UNCHANGED <<msg, pending, map, jobs, gone, scopes>>

(* Mutant: the lock is not given back when the channel refuses.            *)
NotifiedKeeps(m) ==
  /\ work[m].state = "posting"
  /\ \E ok \in BOOLEAN :
       /\ lock' = IF ok THEN Free ELSE lock
       /\ work' = [work EXCEPT ![m].state = "ended", ![m].noticed = ok]
  /\ UNCHANGED <<msg, pending, map, jobs, gone, scopes>>

Notified(m) ==
  /\ work[m].state = "posting"
  /\ lock' = Free
  /\ \E ok \in BOOLEAN :
       work' = [work EXCEPT ![m].state = "ended", ![m].noticed = ok]
  /\ UNCHANGED <<msg, pending, map, jobs, gone, scopes>>

(* The steps the event loop owes to a message it has begun to handle, and  *)
(* to a notice.                                                            *)
Handle(m) ==
  \/ Clean(m) \/ Unplanned(m) \/ List(m) \/ Sweep(m) \/ NewThread(m)
  \/ CreateJob(m) \/ CoreReturns(m) \/ CoreRaises(m)
  \/ Acquire(m) \/ Sent(m) \/ AnswerFailure(m)

Announce(m) == Notify(m) \/ Notified(m)

Next ==
  \/ \E m \in Messages, u \in Users, at \in Places, says \in Sayings :
       Receive(m, u, at, says)
  \/ \E m \in Messages : Handle(m) \/ JobEnds(m) \/ Announce(m)

Spec == Init /\ [][Next]_vars

(* What a handler awaits ends: the core has its deadlines and limits, a    *)
(* call of Discord returns or raises; asyncio.Lock wakes its waiters first *)
(* in, first out, so that none is overtaken for ever.                      *)
Fairness == \A m \in Messages : SF_vars(Handle(m)) /\ SF_vars(Announce(m))

FairSpec == Spec /\ Fairness

-----------------------------------------------------------------------------
(* A confirmed scope is swept once: however the messages of a user         *)
(* interleave, no two confirmations use the same scope.                    *)
OneSweepPerScope == \A u \in Users : scopes[u].swept <= scopes[u].composed

(* A job is announced only in a place from which its own user asked for    *)
(* work in the same session, whichever reply comes first: threads share    *)
(* sessions, so that it need not be the place the job came from.           *)
NoticeInOwnSession ==
  \A m \in Messages : work[m].noticed =>
    \E n \in Messages : /\ msg[n].user = msg[m].user /\ msg[n].session = msg[m].session
                        /\ msg[n].says = "work" /\ msg[n].at = work[m].place

(* Every message is answered or ignored and every notice ends, however     *)
(* replies, refusals and notices compete for the send lock, unless the     *)
(* answer to a failure has blocked it.                                     *)
Blocked == \E m \in Messages : msg[m].pc = "stuck"

EveryoneAnswered ==
  \A m \in Messages :
    /\ msg[m].pc # "none" ~> msg[m].pc \in {"done", "ignored"} \/ Blocked
    /\ work[m].state = "notify" ~> work[m].state = "ended" \/ Blocked

(* Nothing is deleted but the scope shown for confirmation ("I will show   *)
(* the exact scope and ask for explicit confirmation before deleting       *)
(* anything", discord_gateway.py:217).                                     *)
ScopeAsShown ==
  \A m \in Messages : msg[m].pc = "sweep" => msg[m].scope = scopes[msg[m].user].shown
=============================================================================
