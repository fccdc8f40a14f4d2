------------------------------ MODULE Gateway ------------------------------
(***************************************************************************)
(* The life of the Discord connection (discord_gateway.py: _run, start,    *)
(* stop, the client's callbacks) and the operational events it announces   *)
(* (alerts.py): rows of operational_events, the listener that sends them   *)
(* to the alert channel, and the retry of unsent rows in on_ready.         *)
(*                                                                         *)
(* An action is what runs between two awaits.  Rows survive a crash,       *)
(* everything else is lost.  start and stop are called one at a time: by   *)
(* the lifespan and by one administrator.  An alert channel is configured. *)
(* Abstracted: texts, times, reasons, severities, the other components.    *)
(***************************************************************************)
EXTENDS Naturals, Sequences, FiniteSets, FiniteSetsExt

CONSTANTS
  RetryLimit,   \* rows that on_ready reads at most (LIMIT 20)
  Readies,      \* bound: the handlers of on_ready that can run at once
  MaxRows       \* bound: no outside event starts when so many rows exist

ASSUME GatewayAssumption == RetryLimit \in Nat /\ MaxRows \in Nat

Configs == {"off", "noToken", "on"}
Components == {"gateway", "provider"}
Statuses == {"disabled", "connected", "disconnected", "error"}

VARIABLES
  cfg,       \* discord_config (durable): disabled, without a token, usable
  rows,      \* operational_events (durable), in order of creation
  gw,        \* the gateway object: status, intentional, task, client
  call,      \* the call of start, reload or stop in progress
  sends,     \* rows being sent by _on_operational_event, and for whom
  retry,     \* each on_ready: its state, and the rows it has still to send
  unsure     \* history: rows that may be in the channel without saying so

vars == <<cfg, rows, gw, call, sends, retry, unsure>>

(* task: where _run is; "dead" when an exception left it.  client: the     *)
(* channel cache is filled by the first on_ready.  heard: messages may be  *)
(* in their handlers.                                                      *)
Idle == [pc |-> "idle", then |-> "none"]
NoRetry == [pc |-> "no", left |-> {}]
Fresh == [status |-> "disabled", intentional |-> FALSE, task |-> "none",
          client |-> "none", heard |-> FALSE]

Row == [comp : Components, state : Statuses \cup {"degraded"},
        note : {"suppressed", "pending", "delivered", "failed"}, sent : 0 .. 2]

TypeOK ==
  /\ cfg \in Configs
  /\ rows \in Seq(Row)
  /\ gw \in [status : Statuses, intentional : BOOLEAN,
             task : {"none", "start", "backoff", "dead"},
             client : {"none", "open", "cached", "closed"}, heard : BOOLEAN]
  /\ call \in [pc : {"idle", "alert", "start", "await", "raised", "down"},
               then : {"none", "start", "exit"}]
  /\ sends \subseteq [row : DOMAIN rows, by : {"stop", "other"} \cup Readies]
  /\ retry \in [Readies -> [pc : {"no", "announce", "send"},
                            left : SUBSET DOMAIN rows]]
  /\ \A r \in Readies : retry[r].pc = "send" <=> retry[r].left # {}
  /\ unsure \subseteq DOMAIN rows

Init ==
  /\ cfg \in Configs
  /\ rows = <<>>
  /\ gw = Fresh
  /\ call = [pc |-> "start", then |-> "start"]
  /\ sends = {}
  /\ retry = [r \in Readies |-> NoRetry]
  /\ unsure = {}

Open(i) == rows[i].note \in {"pending", "failed"}
Retrying(r) == retry[r].pc = "send"
Oldest(r) == Min(retry[r].left)
Sending == {x.row : x \in sends}
InFlight == Sending \cup {Oldest(r) : r \in {q \in Readies : Retrying(q)}}
(* The rows that the other handlers of on_ready have still to send.        *)
Queued(r) == UNION {retry[q].left : q \in Readies \ {r}}
Arrived(r) ==    \* bound: a count of arrivals ends at two
  [r EXCEPT !.sent = IF @ < 2 THEN @ + 1 ELSE 2]

(* A coroutine whose await did not suspend, or whose alert just returned,  *)
(* goes on before anything else runs.                                      *)
Announced(r) == retry[r].pc = "announce" /\ \A x \in sends : x.by # r
Continues ==
  \/ \E r \in Readies : Announced(r)
  \/ call.pc \in {"alert", "start"} /\ \A x \in sends : x.by # "stop"
Quiet == Len(rows) < MaxRows /\ call.pc # "down" /\ ~Continues

-----------------------------------------------------------------------------
(* OperationalEventService.transition: no row for an unchanged state, a    *)
(* suppressed one for the first of a component; else the listener sends it *)
(* when the channel is known to the client, or leaves it pending.          *)
LastState(c) ==
  LET own == {i \in DOMAIN rows : rows[i].comp = c}
  IN IF own = {} THEN "none" ELSE rows[Max(own)].state

Transition(c, s, by) ==
  LET first == LastState(c) = "none"
      row == [comp |-> c, state |-> s, sent |-> 0,
              note |-> IF first THEN "suppressed" ELSE "pending"]
  IN IF LastState(c) = s
       THEN UNCHANGED <<rows, sends>>
       ELSE /\ rows' = Append(rows, row)
            /\ sends' = IF first \/ gw.client \notin {"cached", "closed"} THEN sends
                        ELSE sends \cup {[row |-> Len(rows) + 1, by |-> by]}

(* DiscordGateway._set_status.                                             *)
SetStatus(s, new, by) ==
  /\ gw' = [new EXCEPT !.status = s]
  /\ IF s # new.status /\ ~(new.intentional /\ s \in {"disconnected", "disabled"})
       THEN Transition("gateway", s, by)
       ELSE UNCHANGED <<rows, sends>>

(* Any other component that changes its state.                             *)
OtherEvent(s) ==
  /\ Quiet
  /\ Transition("provider", s, "other")
  /\ UNCHANGED <<cfg, gw, call, retry, unsure>>

(* Mutant: the row of a sent alert stays as it was.                        *)
SendReturnsUnrecorded(x) ==
  /\ x \in sends /\ ~Continues
  /\ sends' = sends \ {x}
  /\ \/ /\ gw.client = "cached"
        /\ rows' = [rows EXCEPT ![x.row] = Arrived(@)]
        /\ UNCHANGED unsure
     \/ \E got \in BOOLEAN :
          /\ rows' = [rows EXCEPT ![x.row] =
               [IF got THEN Arrived(@) ELSE @ EXCEPT !.note = "failed"]]
          /\ unsure' = unsure \cup {x.row}
  /\ UNCHANGED <<cfg, gw, call, retry>>

(* channel.send in _on_operational_event returned or raised; one that      *)
(* raised may have reached the channel.                                    *)
SendReturns(x) ==
  /\ x \in sends /\ ~Continues
  /\ sends' = sends \ {x}
  /\ \/ /\ gw.client = "cached"
        /\ rows' = [rows EXCEPT ![x.row] = [Arrived(@) EXCEPT !.note = "delivered"]]
        /\ UNCHANGED unsure
     \/ \E got \in BOOLEAN :
          /\ rows' = [rows EXCEPT ![x.row] =
               [IF got THEN Arrived(@) ELSE @ EXCEPT !.note = "failed"]]
          /\ unsure' = unsure \cup {x.row}
  /\ UNCHANGED <<cfg, gw, call, retry>>

-----------------------------------------------------------------------------
(* The client's callbacks.  on_ready announces, sets the status once more  *)
(* after that await, and then reads the unsent rows.  Every READY of the   *)
(* gateway starts a handler, also while an earlier one is still sending.   *)
Ready(r) ==
  /\ Quiet /\ gw.task = "start" /\ gw.client \in {"open", "cached"}
  /\ retry[r] = NoRetry
  /\ SetStatus("connected", [gw EXCEPT !.client = "cached", !.heard = TRUE], r)
  /\ retry' = [retry EXCEPT ![r] = [pc |-> "announce", left |-> {}]]
  /\ UNCHANGED <<cfg, call, unsure>>

Resumed ==
  /\ Quiet /\ gw.task = "start" /\ gw.client = "cached"
  /\ SetStatus("connected", gw, "other")
  /\ UNCHANGED <<cfg, call, retry, unsure>>

Disconnected ==
  /\ Quiet /\ gw.task = "start" /\ gw.client \in {"open", "cached"}
  /\ SetStatus("disconnected", gw, "other")
  /\ UNCHANGED <<cfg, call, retry, unsure>>

(* The handler of a message raises, also of one received before a stop or  *)
(* a disconnect: its except clause calls the gateway connected.            *)
MessageFails ==
  /\ Quiet /\ gw.heard
  /\ SetStatus("connected", gw, "other")
  /\ UNCHANGED <<cfg, call, retry, unsure>>

(* Closing the client lets its last on_disconnect run before stop goes on. *)
ClosedCallback ==
  /\ ~Continues /\ call.pc = "await" /\ gw.task = "start"
  /\ gw.status # "disconnected"
  /\ SetStatus("disconnected", gw, "other")
  /\ UNCHANGED <<cfg, call, retry, unsure>>

(* _retry_pending_alerts up to its first send: it reads the oldest unsent  *)
(* rows.                                                                   *)
Unsent ==
  LET open == {i \in DOMAIN rows : Open(i)}
  IN  {i \in open : Cardinality({j \in open : j <= i}) <= RetryLimit}

RetryBegin(r) ==
  /\ Announced(r)
  /\ gw' = [gw EXCEPT !.status = "connected"]
  /\ IF gw.client \in {"cached", "closed"} /\ Unsent # {}
       THEN /\ retry' = [retry EXCEPT ![r] = [pc |-> "send", left |-> Unsent]]
            /\ unsure' = unsure \cup (Unsent \cap (Sending \cup Queued(r)))
       ELSE retry' = [retry EXCEPT ![r] = NoRetry] /\ UNCHANGED unsure
  /\ UNCHANGED <<cfg, rows, call, sends>>

(* The rows left after one was sent.                                       *)
Sent(r) == IF retry[r].left = {Oldest(r)} THEN NoRetry
           ELSE [retry[r] EXCEPT !.left = @ \ {Oldest(r)}]

(* Mutant: a failed alert is skipped and the loop goes on.                 *)
RetryStepSkips(r) ==
  /\ Retrying(r) /\ ~Continues
  /\ retry' = [retry EXCEPT ![r] = Sent(r)]
  /\ \/ /\ gw.client = "cached"
        /\ rows' = [rows EXCEPT ![Oldest(r)] =
                     [Arrived(@) EXCEPT !.note = "delivered"]]
        /\ UNCHANGED unsure
     \/ UNCHANGED <<rows, unsure>>
  /\ UNCHANGED <<cfg, gw, call, sends>>

(* The send of the next row returned, or raised and ended the loop.  The   *)
(* row is not read again before it is sent.                                *)
RetryStep(r) ==
  /\ Retrying(r) /\ ~Continues
  /\ \/ /\ gw.client = "cached"
        /\ rows' = [rows EXCEPT ![Oldest(r)] =
                     [Arrived(@) EXCEPT !.note = "delivered"]]
        /\ retry' = [retry EXCEPT ![r] = Sent(r)]
        /\ UNCHANGED unsure
     \/ \E got \in BOOLEAN :
          /\ rows' = [rows EXCEPT ![Oldest(r)] = IF got THEN Arrived(@) ELSE @]
          /\ retry' = [retry EXCEPT ![r] = NoRetry]
          /\ unsure' = unsure \cup {Oldest(r)}
  /\ UNCHANGED <<cfg, gw, call, sends>>

-----------------------------------------------------------------------------
(* _run: client.start raised; the wait for a stop, which ends after the    *)
(* backoff with a TimeoutError that leaves the task through its finally.   *)
ConnectFails ==
  /\ Quiet /\ gw.task = "start" /\ gw.client \in {"open", "cached"}
  /\ gw' = [gw EXCEPT !.status = "error", !.task = "backoff"]
  /\ UNCHANGED <<cfg, rows, call, sends, retry, unsure>>

BackoffEnds ==
  /\ gw.task = "backoff" /\ ~Continues /\ call.pc \in {"idle", "raised", "alert"}
  /\ gw' = [gw EXCEPT !.task = "dead", !.client = "closed"]
  /\ UNCHANGED <<cfg, rows, call, sends, retry, unsure>>

(* stop: the announcement while connected, then the client, then the task. *)
StopBegin(then) ==
  /\ SetStatus(IF gw.status = "connected" THEN "disconnected" ELSE gw.status,
               [gw EXCEPT !.intentional = @ /\ gw.status # "connected"], "stop")
  /\ call' = [pc |-> "alert", then |-> then]
  /\ UNCHANGED <<retry, unsure>>

(* Mutant: the callbacks are not told that the stop is intentional.        *)
StopCloseLoud ==
  /\ call.pc = "alert" /\ \A x \in sends : x.by # "stop"
  /\ gw' = [gw EXCEPT !.client = IF @ = "none" THEN @ ELSE "closed"]
  /\ call' = [call EXCEPT !.pc = "await"]
  /\ UNCHANGED <<cfg, rows, sends, retry, unsure>>

StopClose ==
  /\ call.pc = "alert" /\ \A x \in sends : x.by # "stop"
  /\ gw' = [gw EXCEPT !.intentional = TRUE,
                      !.client = IF @ = "none" THEN @ ELSE "closed"]
  /\ call' = [call EXCEPT !.pc = "await"]
  /\ UNCHANGED <<cfg, rows, sends, retry, unsure>>

(* await self._task: CancelledError is expected, the TimeoutError of a     *)
(* dead task is not and leaves stop, and the start or exit that called it. *)
StopTask ==
  /\ call.pc = "await" /\ ~Continues
  /\ IF gw.task = "dead"
       THEN /\ call' = [call EXCEPT !.pc = IF call.then = "exit" THEN "down" ELSE "raised"]
            /\ UNCHANGED <<rows, gw, sends>>
       ELSE /\ call' = [call EXCEPT !.pc = IF call.then = "exit" THEN "down" ELSE "start"]
            /\ SetStatus(IF gw.status = "error" THEN "error" ELSE "disabled",
                         [gw EXCEPT !.task = "none", !.client = "none"], "stop")
  /\ UNCHANGED <<cfg, retry, unsure>>

(* start, after its stop.                                                  *)
StartEnd ==
  /\ call.pc = "start" /\ \A x \in sends : x.by # "stop"
  /\ call' = Idle
  /\ LET new == [gw EXCEPT !.intentional = FALSE] IN
     CASE cfg = "off"     -> SetStatus("disabled", new, "stop")
       [] cfg = "noToken" -> SetStatus("error", new, "stop")
       [] OTHER           -> /\ gw' = [new EXCEPT !.task = "start", !.client = "open"]
                             /\ UNCHANGED <<rows, sends>>
  /\ UNCHANGED <<cfg, retry, unsure>>

(* PUT /v1/discord/config saves and reloads; the lifespan ends.            *)
SaveConfig(c) ==
  /\ Quiet /\ call.pc \in {"idle", "raised"}
  /\ cfg' = c
  /\ StopBegin("start")

Exit ==
  /\ ~Continues /\ call.pc \in {"idle", "raised"}
  /\ StopBegin("exit")
  /\ UNCHANGED cfg

(* The process dies, a message on its way may or may not arrive; the next  *)
(* start of the program begins with lifespan's start.                      *)
Restart ==
  /\ Len(rows) < MaxRows
  /\ \E got \in SUBSET InFlight :
       rows' = [i \in DOMAIN rows |->
                  IF i \in got THEN Arrived(rows[i]) ELSE rows[i]]
  /\ unsure' = unsure \cup InFlight
  /\ gw' = Fresh
  /\ call' = [pc |-> "start", then |-> "start"]
  /\ sends' = {}
  /\ retry' = [r \in Readies |-> NoRetry]
  /\ UNCHANGED cfg

Next ==
  \/ \E s \in {"degraded", "connected"} : OtherEvent(s)
  \/ \E x \in sends : SendReturns(x)
  \/ Resumed \/ Disconnected \/ MessageFails \/ ClosedCallback
  \/ \E r \in Readies : Ready(r) \/ RetryBegin(r) \/ RetryStep(r)
  \/ ConnectFails \/ BackoffEnds
  \/ StopClose \/ StopTask \/ StartEnd
  \/ \E c \in Configs : SaveConfig(c)
  \/ Exit \/ Restart

Spec == Init /\ [][Next]_vars

-----------------------------------------------------------------------------
(* An alert is in the channel twice only when one of its sends raised or   *)
(* was cut off by a crash, or when an on_ready read its row while the      *)
(* listener or another on_ready had still to send it: no send that was     *)
(* answered and marked its row is ever repeated.                           *)
AlertsOnce == \A i \in DOMAIN rows : rows[i].sent > 1 => i \in unsure

(* Once a stop has closed the client, neither its callbacks nor the new    *)
(* status raise a second disconnect alert (comment in stop: "one lifecycle *)
(* stop produces only one disconnect alert").                              *)
OneDisconnectAlert ==
  [][call.pc \in {"await", "start"} =>
       \A i \in DOMAIN rows' \ DOMAIN rows : rows'[i].state # "disconnected"]_vars

(* on_ready leaves no gap: when the last of the rows that one of its       *)
(* handlers read was sent, no row as old as that one is pending.  It reads *)
(* RetryLimit rows, so newer ones may be; and a listener's send that       *)
(* raised meanwhile leaves its row failed.                                 *)
ReadyFlushes ==
  [][\A r \in Readies :
       (Retrying(r) /\ retry'[r] = NoRetry /\ gw' = gw /\ call' = call)
         => \/ rows'[Oldest(r)].note # "delivered"
            \/ \A i \in 1 .. Oldest(r) : rows'[i].note # "pending"]_vars

(* A saved configuration takes effect: once PUT /v1/discord/config is over *)
(* a gateway that was switched off is disabled ("Enable or disable the     *)
(* gateway", webui/app.js:38).                                             *)
SavedConfigApplies ==
  [][(call.then = "start" /\ call'.pc \in {"idle", "raised"} /\ call' # call)
       => (cfg = "off" => gw'.status = "disabled")]_vars
=============================================================================
