------------------------------ MODULE Reconfig ------------------------------
(***************************************************************************)
(* The remote reconfiguration protocol of src/graphql/status.rs and the    *)
(* lifecycle signals, as seen by the process:                              *)
(*                                                                         *)
(*  - administrative requests (set_config, config, stop, reboot, shutdown) *)
(*    each run to completion in one step: none of their bodies awaits;     *)
(*  - an accepted set_config spawns a detached task that sleeps            *)
(*    GRAPHQL_REBOOT_DELAY and then sends the draft on the bounded reload  *)
(*    channel (Sender<String>); tokio hands out channel permits in FIFO    *)
(*    order, so senders that find the channel full queue up;               *)
(*  - the three lifecycle signals are tokio Notify::notify_one, a single   *)
(*    stored permit that coalesces repeated notifications;                 *)
(*  - the main loop of the process (the reload consumer and supervisor,    *)
(*    outside src/, modelled from the spec) selects between a received    *)
(*    draft and a notified signal; a draft is parsed with                  *)
(*    Settings::from_server and becomes the live Settings, a signal ends   *)
(*    the loop, dropping the receiver, and the runtime then shuts down.    *)
(*                                                                         *)
(* Drafts are abstracted to a small set of texts, and toml::from_str to a  *)
(* constant function Parse from texts to configurations or ParseError.     *)
(***************************************************************************)
EXTENDS Naturals, Sequences, FiniteSets

CONSTANTS
    Configs,      \* the typed Config values the drafts describe
    Drafts,       \* the draft texts a remote caller may submit
    Parse,        \* toml::from_str::<Config>, from Drafts to Configs \cup {ParseError}
    ParseError,   \* the outcome of a draft that does not deserialize
    InitConfig,   \* the Config the process was started with
    IsLocal,      \* Args::is_local(): started from a local config file
    ChanCap,      \* capacity of the bounded reload channel
    MaxRequests   \* bound on the number of administrative requests

ASSUME ReconfigAssumption ==
    /\ ParseError \notin Configs
    /\ Parse \in [Drafts -> Configs \cup {ParseError}]
    /\ InitConfig \in Configs
    /\ IsLocal \in BOOLEAN
    /\ ChanCap \in Nat \ {0}
    /\ MaxRequests \in Nat

Ids == 1..MaxRequests

\* The three mutations backed by a tokio Notify, keyed by the request name.
Signals == {"stop", "reboot", "shutdown"}
Ops == {"set_config", "config"} \cup Signals

\* What a handler returns to its caller: Ok(true), Ok(false), the three
\* errors of set_config and config, or (for config) the Config itself.
Results == {"true", "false", "ParseError", "NoChanges", "ConfigIsLocal"} \cup Configs
NoResult == "none"

\* Life of the task spawned by an accepted set_config.
TaskStates == {"none", "sleeping", "waiting", "sent", "failed", "aborted"}

\* The main loop: in tokio::select!, applying a received draft, past the
\* loop (receiver dropped), or the runtime gone.
MainStates == {"select", "reload", "stopped", "exited"}

VARIABLES
    settings,   \* the live Settings.config, also the one the GraphQL context holds
    nreq,       \* number of requests handled so far
    opOf,       \* opOf[i]: the operation request i called
    draftOf,    \* draftOf[i]: the draft text of a set_config request
    result,     \* result[i]: what the handler of request i returned
    responded,  \* the requests whose response reached the caller
    task,       \* task[i]: the spawned delayed sender of request i
    sendq,      \* tasks waiting for a channel permit, in FIFO order
    chan,       \* the reload channel: ids of the drafts it holds, oldest first
    main,       \* the main loop's state
    held,       \* the request whose draft the main loop is applying (0: none)
    received,   \* history: the ids the main loop received, in order
    permit      \* permit[s]: the Notify of signal s holds a stored permit

vars == <<settings, nreq, opOf, draftOf, result, responded, task, sendq,
          chan, main, held, received, permit>>

rxClosed == main \in {"stopped", "exited"}

\* The GraphQL server answers requests until the main loop has left.
Serving == main \in {"select", "reload"}

TypeOK ==
    /\ settings \in Configs
    /\ nreq \in 0..MaxRequests
    /\ opOf \in [Ids -> Ops \cup {"none"}]
    /\ draftOf \in [Ids -> Drafts \cup {"none"}]
    /\ result \in [Ids -> Results \cup {NoResult}]
    /\ responded \subseteq Ids
    /\ task \in [Ids -> TaskStates]
    /\ sendq \in Seq(Ids)
    /\ chan \in Seq(Ids)
    /\ main \in MainStates
    /\ held \in 0..MaxRequests
    /\ received \in Seq(Ids)
    /\ permit \in [Signals -> BOOLEAN]

Init ==
    /\ settings = InitConfig
    /\ nreq = 0
    /\ opOf = [i \in Ids |-> "none"]
    /\ draftOf = [i \in Ids |-> "none"]
    /\ result = [i \in Ids |-> NoResult]
    /\ responded = {}
    /\ task = [i \in Ids |-> "none"]
    /\ sendq = <<>>
    /\ chan = <<>>
    /\ main = "select"
    /\ held = 0
    /\ received = <<>>
    /\ permit = [s \in Signals |-> FALSE]

-----------------------------------------------------------------------------
(* Administrative requests.  Request i = nreq + 1 runs its whole handler.  *)

\* Registers request i as a call of op with draft d that returned r.
Handled(i, op, d, r) ==
    /\ nreq' = i
    /\ opOf' = [opOf EXCEPT ![i] = op]
    /\ draftOf' = [draftOf EXCEPT ![i] = d]
    /\ result' = [result EXCEPT ![i] = r]

\* Seeded fault: the local-mode branch logs and answers false but falls
\* through (no early return), spawning the delayed sender anyway.
set_config_no_return(d) ==
    LET i == nreq + 1 IN
    /\ Serving
    /\ nreq < MaxRequests
    /\ \/ /\ IsLocal
          /\ Parse[d] \in Configs \ {settings}
          /\ Handled(i, "set_config", d, "false")
          /\ task' = [task EXCEPT ![i] = "sleeping"]
       \/ /\ Parse[d] = ParseError
          /\ Handled(i, "set_config", d, "ParseError")
          /\ UNCHANGED task
       \/ /\ Parse[d] = settings
          /\ Handled(i, "set_config", d, "NoChanges")
          /\ UNCHANGED task
       \/ /\ ~IsLocal
          /\ Parse[d] \in Configs \ {settings}
          /\ Handled(i, "set_config", d, "true")
          /\ task' = [task EXCEPT ![i] = "sleeping"]
    /\ UNCHANGED <<settings, responded, sendq, chan, main, held, received, permit>>

\* Seeded fault: the delayed sender is spawned before the comparison with
\* the current Settings, so a "No changes" draft is sent as well.
set_config_spawn_early(d) ==
    LET i == nreq + 1 IN
    /\ Serving
    /\ nreq < MaxRequests
    /\ \/ /\ IsLocal
          /\ Handled(i, "set_config", d, "false")
          /\ UNCHANGED task
       \/ /\ ~IsLocal
          /\ Parse[d] = ParseError
          /\ Handled(i, "set_config", d, "ParseError")
          /\ UNCHANGED task
       \/ /\ ~IsLocal
          /\ Parse[d] = settings
          /\ Handled(i, "set_config", d, "NoChanges")
          /\ task' = [task EXCEPT ![i] = "sleeping"]
       \/ /\ ~IsLocal
          /\ Parse[d] \in Configs \ {settings}
          /\ Handled(i, "set_config", d, "true")
          /\ task' = [task EXCEPT ![i] = "sleeping"]
    /\ UNCHANGED <<settings, responded, sendq, chan, main, held, received, permit>>

\* ConfigMutation::set_config: declined in local mode, a draft that does
\* not deserialize is an error, a draft equal to the context's Settings is
\* "No changes", anything else spawns the delayed sender and returns true.
set_config(d) ==
    LET i == nreq + 1 IN
    /\ Serving
    /\ nreq < MaxRequests
    /\ \/ /\ IsLocal
          /\ Handled(i, "set_config", d, "false")
          /\ UNCHANGED task
       \/ /\ ~IsLocal
          /\ Parse[d] = ParseError
          /\ Handled(i, "set_config", d, "ParseError")
          /\ UNCHANGED task
       \/ /\ ~IsLocal
          /\ Parse[d] = settings
          /\ Handled(i, "set_config", d, "NoChanges")
          /\ UNCHANGED task
       \/ /\ ~IsLocal
          /\ Parse[d] \in Configs \ {settings}
          /\ Handled(i, "set_config", d, "true")
          /\ task' = [task EXCEPT ![i] = "sleeping"]
    /\ UNCHANGED <<settings, responded, sendq, chan, main, held, received, permit>>

\* StatusQuery::config: refused in local mode, else the context's Config.
config ==
    LET i == nreq + 1 IN
    /\ Serving
    /\ nreq < MaxRequests
    /\ Handled(i, "config", "none", IF IsLocal THEN "ConfigIsLocal" ELSE settings)
    /\ UNCHANGED <<settings, responded, task, sendq, chan, main, held, received, permit>>

\* Seeded fault: notify_waiters instead of notify_one, which wakes the
\* main loop only if it is waiting in select and stores no permit.
NotifyWaiters(s) ==
    LET i == nreq + 1 IN
    /\ Serving
    /\ nreq < MaxRequests
    /\ Handled(i, s, "none", "true")
    /\ permit' = IF main = "select" THEN [permit EXCEPT ![s] = TRUE] ELSE permit
    /\ UNCHANGED <<settings, responded, task, sendq, chan, main, held, received>>

\* stop, reboot and shutdown: Notify::notify_one on the signal's Notify,
\* which stores one permit when the main loop is not waiting; always true.
NotifyOne(s) ==
    LET i == nreq + 1 IN
    /\ Serving
    /\ nreq < MaxRequests
    /\ Handled(i, s, "none", "true")
    /\ permit' = [permit EXCEPT ![s] = TRUE]
    /\ UNCHANGED <<settings, responded, task, sendq, chan, main, held, received>>

stop == NotifyOne("stop")
reboot == NotifyOne("reboot")
shutdown == NotifyOne("shutdown")

\* The response of request i reaches its caller over the network.
Respond(i) ==
    /\ result[i] # NoResult
    /\ i \notin responded
    /\ main # "exited"
    /\ responded' = responded \cup {i}
    /\ UNCHANGED <<settings, nreq, opOf, draftOf, result, task, sendq, chan,
                   main, held, received, permit>>

-----------------------------------------------------------------------------
(* The task spawned by set_config for request i.                           *)

\* Seeded fault: the future of tx_clone.send is not awaited, so it is
\* dropped unpolled and the task ends without sending anything.
SleepDoneNoAwait(i) ==
    /\ task[i] = "sleeping"
    /\ task' = [task EXCEPT ![i] = "failed"]
    /\ UNCHANGED <<settings, nreq, opOf, draftOf, result, responded, sendq,
                   chan, main, held, received, permit>>

\* tokio::time::sleep elapses and tx_clone.send starts: it asks for a
\* channel permit, queueing behind earlier senders, or fails at once when
\* the receiver is gone.
SleepDone(i) ==
    /\ task[i] = "sleeping"
    /\ IF rxClosed
         THEN /\ task' = [task EXCEPT ![i] = "failed"]
              /\ UNCHANGED sendq
         ELSE /\ task' = [task EXCEPT ![i] = "waiting"]
              /\ sendq' = Append(sendq, i)
    /\ UNCHANGED <<settings, nreq, opOf, draftOf, result, responded, chan,
                   main, held, received, permit>>

\* Seeded fault: the sender pushes its draft but keeps its place at the
\* head of the permit queue.
SendKeepQueued(i) ==
    /\ sendq # <<>>
    /\ Head(sendq) = i
    /\ ~rxClosed
    /\ Len(chan) < ChanCap
    /\ chan' = Append(chan, i)
    /\ task' = [task EXCEPT ![i] = "sent"]
    /\ UNCHANGED <<settings, nreq, opOf, draftOf, result, responded, sendq,
                   main, held, received, permit>>

\* The first queued sender gets a permit and its draft enters the channel.
Send(i) ==
    /\ sendq # <<>>
    /\ Head(sendq) = i
    /\ ~rxClosed
    /\ Len(chan) < ChanCap
    /\ chan' = Append(chan, i)
    /\ sendq' = Tail(sendq)
    /\ task' = [task EXCEPT ![i] = "sent"]
    /\ UNCHANGED <<settings, nreq, opOf, draftOf, result, responded, main,
                   held, received, permit>>

\* Seeded fault: the task uses try_send, which also fails when the
\* channel is full instead of waiting for a permit.
SendErrorTry(i) ==
    /\ task[i] = "waiting"
    /\ rxClosed \/ Len(chan) >= ChanCap
    /\ task' = [task EXCEPT ![i] = "failed"]
    /\ UNCHANGED <<settings, nreq, opOf, draftOf, result, responded, sendq,
                   chan, main, held, received, permit>>

\* The receiver was dropped while the sender waited for a permit: closing
\* the channel woke it with an error, which the task logs ("Failed to
\* send config") and drops.
SendError(i) ==
    /\ task[i] = "waiting"
    /\ rxClosed
    /\ task' = [task EXCEPT ![i] = "failed"]
    /\ UNCHANGED <<settings, nreq, opOf, draftOf, result, responded, sendq,
                   chan, main, held, received, permit>>

-----------------------------------------------------------------------------
(* The main loop of the process (outside src/, from the spec).             *)

\* reload_rx.recv() wins the select: the loop takes the oldest draft.
Receive ==
    /\ main = "select"
    /\ chan # <<>>
    /\ main' = "reload"
    /\ held' = Head(chan)
    /\ chan' = Tail(chan)
    /\ received' = Append(received, Head(chan))
    /\ UNCHANGED <<settings, nreq, opOf, draftOf, result, responded, task,
                   sendq, permit>>

\* Seeded fault: the reload rebuilds Settings but the live Settings (the
\* ones the GraphQL context holds) are not swapped.
ApplyWithoutSwap ==
    /\ main = "reload"
    /\ main' = "select"
    /\ held' = 0
    /\ UNCHANGED <<settings, nreq, opOf, draftOf, result, responded, task, sendq,
                   chan, received, permit>>

\* Settings::from_server(draft) becomes the live Settings and the servers
\* restart with it; a draft it rejects leaves the Settings as they were.
Apply ==
    /\ main = "reload"
    /\ settings' = IF Parse[draftOf[held]] \in Configs
                     THEN Parse[draftOf[held]] ELSE settings
    /\ main' = "select"
    /\ held' = 0
    /\ UNCHANGED <<nreq, opOf, draftOf, result, responded, task, sendq, chan,
                   received, permit>>

\* notified() wins the select: the permit is consumed and the loop ends,
\* dropping the reload receiver, which closes the channel and releases
\* every sender queued for a permit.
HandleSignal(s) ==
    /\ main = "select"
    /\ permit[s]
    /\ permit' = [permit EXCEPT ![s] = FALSE]
    /\ main' = "stopped"
    /\ sendq' = <<>>
    /\ UNCHANGED <<settings, nreq, opOf, draftOf, result, responded, task,
                   chan, held, received>>

\* The runtime shuts down and drops every task that has not finished.
Exit ==
    /\ main = "stopped"
    /\ main' = "exited"
    /\ task' = [i \in Ids |-> IF task[i] \in {"sleeping", "waiting"}
                                THEN "aborted" ELSE task[i]]
    /\ UNCHANGED <<settings, nreq, opOf, draftOf, result, responded, sendq,
                   chan, held, received, permit>>

-----------------------------------------------------------------------------

Requests ==
    \/ \E d \in Drafts : set_config(d)
    \/ config
    \/ stop
    \/ reboot
    \/ shutdown

Tasks(i) == SleepDone(i) \/ Send(i) \/ SendError(i)

MainLoop == Receive \/ Apply \/ (\E s \in Signals : HandleSignal(s)) \/ Exit

Next ==
    \/ Requests
    \/ \E i \in Ids : Respond(i) \/ Tasks(i)
    \/ MainLoop

\* Requests and responses depend on remote callers and the network, so
\* they get no fairness.  Spawned tasks and the main loop are tokio tasks,
\* polled by the runtime whenever they are ready.
Fairness ==
    /\ \A i \in Ids : WF_vars(Tasks(i))
    /\ WF_vars(MainLoop)

Spec == Init /\ [][Next]_vars

FairSpec == Spec /\ Fairness

-----------------------------------------------------------------------------
(* Properties.                                                             *)

\* Request i is a set_config that returned true to its caller.
Accepted(i) == opOf[i] = "set_config" /\ result[i] = "true"

\* Number of times the draft of request i was put on the reload channel,
\* counting those still in it and those the main loop took out.
Deliveries(i) ==
    Cardinality({k \in DOMAIN chan : chan[k] = i})
      + Cardinality({k \in DOMAIN received : received[k] = i})

\* Spec 4.3 and 8: a set_config that returned true leads to exactly one
\* delivery attempt, and only such a call reaches the reload consumer.
\* Breaks if the spawned task's tx_clone.send could hand the same draft
\* over twice, or if a declined or rejected draft were spawned.
ReloadAtMostOnce ==
    \A i \in Ids :
        /\ Deliveries(i) <= 1
        /\ Deliveries(i) = 1 => Accepted(i)

\* The process only ever runs with the configuration it started with or
\* with the configuration of a draft whose set_config returned true to its
\* caller; in particular in local mode it never leaves InitConfig.
ReloadProvenance ==
    \/ settings = InitConfig
    \/ \E i \in Ids : Accepted(i) /\ Parse[draftOf[i]] = settings

\* Spec 4.3 step 4: an accepted draft is lost (its send fails, or the
\* runtime drops its task) only once the reload receiver is gone, and
\* that happens only after a stop, reboot or shutdown returned true to a
\* caller.  Breaks if a send could fail for any other reason, such as a
\* full channel, although set_config had answered true.
DraftLostOnlyBySignal ==
    \A i \in Ids : task[i] \in {"failed", "aborted"} =>
        /\ rxClosed
        /\ \E j \in Ids : opOf[j] \in Signals /\ result[j] = "true"

\* The inductive strengthening of TypeOK /\ ReloadProvenance: requests not
\* yet made are blank, every spawned task belongs to an accepted draft that
\* deserializes, and every id queued for a permit, in the channel or held
\* by the main loop belongs to a spawned task.
ReconfigInv ==
    /\ TypeOK
    /\ \A i \in Ids : i > nreq =>
          opOf[i] = "none" /\ result[i] = NoResult /\ task[i] = "none"
    /\ \A i \in Ids : task[i] # "none" =>
          Accepted(i) /\ Parse[draftOf[i]] \in Configs
    /\ \A k \in DOMAIN sendq : task[sendq[k]] # "none"
    /\ \A k \in DOMAIN chan : task[chan[k]] # "none"
    /\ main = "reload" => held \in Ids /\ task[held] # "none"
    /\ ReloadProvenance

\* Spec 4.3: the draft of a set_config that returned true reaches the
\* reload consumer, unless a stop, reboot or shutdown ends the main loop
\* first (then the send fails or the task is dropped, by design).
AcceptedEventuallyReceived ==
    \A i \in Ids :
        Accepted(i)
          ~> (\E k \in DOMAIN received : received[k] = i) \/ rxClosed

\* Spec 4.4: a stop, reboot or shutdown that returned true is eventually
\* acted on by the main loop, even when it arrives while the loop is busy
\* applying a draft and not waiting on notified().
SignalTakesEffect ==
    \A i \in Ids : opOf[i] \in Signals ~> rxClosed

\* Spec 4.3: "the caller always observes 'accepted' before any observable
\* effect of the new configuration": the main loop only receives a draft
\* whose set_config response has already reached its caller.
ResponseBeforeReload ==
    \A k \in DOMAIN received : received[k] \in responded

=============================================================================
