--------------------------- MODULE ReconfigProofs ---------------------------
(***************************************************************************)
(* Proofs about Reconfig for every value of the constants: ReconfigInv is *)
(* inductive, hence TypeOK and ReloadProvenance hold in every reachable    *)
(* state.                                                                  *)
(***************************************************************************)
EXTENDS Reconfig, TLAPS

USE ReconfigAssumption

\* The conjuncts of ReconfigInv, named for citing.
Blank == \A i \in Ids : i > nreq =>
            opOf[i] = "none" /\ result[i] = NoResult /\ task[i] = "none"
Spawned == \A i \in Ids : task[i] # "none" =>
            Accepted(i) /\ Parse[draftOf[i]] \in Configs
QueuedSpawned == \A k \in DOMAIN sendq : task[sendq[k]] # "none"
ChanSpawned == \A k \in DOMAIN chan : task[chan[k]] # "none"
HeldSpawned == main = "reload" => held \in Ids /\ task[held] # "none"

LEMMA InvConjuncts ==
    ReconfigInv <=> TypeOK /\ Blank /\ Spawned /\ QueuedSpawned /\ ChanSpawned
                    /\ HeldSpawned /\ ReloadProvenance
BY DEF ReconfigInv, Blank, Spawned, QueuedSpawned, ChanSpawned, HeldSpawned

\* The initial state satisfies the invariant.
LEMMA InitInv == Init => ReconfigInv
<1> SUFFICES ASSUME Init PROVE ReconfigInv
  OBVIOUS
<1>1. TypeOK
  <2>1. sendq \in Seq(Ids) /\ chan \in Seq(Ids) /\ received \in Seq(Ids)
    BY DEF Init
  <2>2. QED
    BY <2>1 DEF Init, TypeOK, Ids, NoResult, Results, Ops, TaskStates,
                MainStates, Signals
<1>2. Blank /\ Spawned /\ QueuedSpawned /\ ChanSpawned /\ HeldSpawned
  BY DEF Init, Blank, Spawned, QueuedSpawned, ChanSpawned, HeldSpawned,
         NoResult
<1>3. ReloadProvenance
  BY DEF Init, ReloadProvenance
<1>4. QED
  BY <1>1, <1>2, <1>3, InvConjuncts

\* A request handled as request nreq + 1 keeps every conjunct that is about
\* the requests already made, because it writes only to the blank entry.
LEMMA HandledInv ==
    ASSUME ReconfigInv, NEW op \in Ops, NEW d \in Drafts \cup {"none"},
           NEW r \in Results,
           nreq < MaxRequests,
           Handled(nreq + 1, op, d, r),
           UNCHANGED <<settings, responded, sendq, chan, main, held, received>>,
           \/ UNCHANGED task
           \/ /\ op = "set_config" /\ r = "true" /\ d \in Drafts
              /\ Parse[d] \in Configs
              /\ task' = [task EXCEPT ![nreq + 1] = "sleeping"],
           permit' \in [Signals -> BOOLEAN]
    PROVE  ReconfigInv'
<1> DEFINE i == nreq + 1
<1>1. i \in Ids /\ opOf[i] = "none" /\ result[i] = NoResult /\ task[i] = "none"
  BY DEF ReconfigInv, TypeOK, Ids
<1>2. TypeOK'
  <2>1. task' \in [Ids -> TaskStates]
    <3>1. CASE UNCHANGED task
      BY <3>1 DEF ReconfigInv, TypeOK
    <3>2. CASE task' = [task EXCEPT ![nreq + 1] = "sleeping"]
      BY <3>2 DEF ReconfigInv, TypeOK, TaskStates
    <3>3. QED
      BY <3>1, <3>2
  <2>2. nreq' \in 0..MaxRequests
    BY <1>1 DEF Handled, Ids
  <2>3. opOf' \in [Ids -> Ops \cup {"none"}]
    BY <1>1 DEF ReconfigInv, TypeOK, Handled
  <2>4. draftOf' \in [Ids -> Drafts \cup {"none"}]
    BY <1>1 DEF ReconfigInv, TypeOK, Handled
  <2>5. result' \in [Ids -> Results \cup {NoResult}]
    BY <1>1 DEF ReconfigInv, TypeOK, Handled
  <2>6. QED
    BY <2>1, <2>2, <2>3, <2>4, <2>5 DEF ReconfigInv, TypeOK
<1>3. \A j \in Ids : j # i =>
        opOf'[j] = opOf[j] /\ result'[j] = result[j]
        /\ draftOf'[j] = draftOf[j] /\ task'[j] = task[j]
  BY <1>1 DEF ReconfigInv, TypeOK, Handled
<1>4. Blank'
  BY <1>1, <1>3 DEF ReconfigInv, TypeOK, Handled, Blank, Ids
<1>5. Spawned'
  BY <1>1, <1>3 DEF ReconfigInv, TypeOK, Handled, Spawned, Accepted
<1>6. QueuedSpawned' /\ ChanSpawned' /\ HeldSpawned'
  <2>1. \A j \in Ids : task[j] # "none" => task'[j] # "none"
    BY <1>1, <1>3
  <2>2. QED
    BY <2>1 DEF ReconfigInv, TypeOK, QueuedSpawned, ChanSpawned, HeldSpawned
<1>7. ReloadProvenance'
  <2>1. \A j \in Ids : Accepted(j) => Accepted(j)' /\ draftOf'[j] = draftOf[j]
    BY <1>1, <1>3 DEF Accepted, NoResult
  <2>2. QED
    BY <2>1 DEF ReconfigInv, ReloadProvenance
<1>8. QED
  BY <1>2, <1>4, <1>5, <1>6, <1>7
  DEF ReconfigInv, Blank, Spawned, QueuedSpawned, ChanSpawned, HeldSpawned

\* Every request action preserves the invariant.
LEMMA RequestsInv == ReconfigInv /\ Requests => ReconfigInv'
<1> SUFFICES ASSUME ReconfigInv, Requests PROVE ReconfigInv'
  OBVIOUS
<1>0. TypeOK
  BY DEF ReconfigInv
<1>1. CASE \E d \in Drafts : set_config(d)
  <2>1. PICK d \in Drafts : set_config(d)
    BY <1>1
  <2>2. CASE IsLocal /\ Handled(nreq + 1, "set_config", d, "false")
             /\ UNCHANGED task
    BY <2>1, <2>2, <1>0, HandledInv DEF set_config, Ops, Results, TypeOK
  <2>3. CASE ~IsLocal /\ Parse[d] = ParseError
             /\ Handled(nreq + 1, "set_config", d, "ParseError")
             /\ UNCHANGED task
    BY <2>1, <2>3, <1>0, HandledInv DEF set_config, Ops, Results, TypeOK
  <2>4. CASE ~IsLocal /\ Parse[d] = settings
             /\ Handled(nreq + 1, "set_config", d, "NoChanges")
             /\ UNCHANGED task
    BY <2>1, <2>4, <1>0, HandledInv DEF set_config, Ops, Results, TypeOK
  <2>5. CASE ~IsLocal /\ Parse[d] \in Configs \ {settings}
             /\ Handled(nreq + 1, "set_config", d, "true")
             /\ task' = [task EXCEPT ![nreq + 1] = "sleeping"]
    BY <2>1, <2>5, <1>0, HandledInv DEF set_config, Ops, Results, TypeOK
  <2>6. QED
    BY <2>1, <2>2, <2>3, <2>4, <2>5 DEF set_config
<1>2. CASE config
  <2>1. (IF IsLocal THEN "ConfigIsLocal" ELSE settings) \in Results
    BY <1>0 DEF TypeOK, Results
  <2>2. QED
    BY <1>2, <2>1, <1>0, HandledInv DEF config, Ops, TypeOK
<1>3. CASE \E s \in Signals : NotifyOne(s)
  <2>1. PICK s \in Signals : NotifyOne(s)
    BY <1>3
  <2>2. QED
    BY <2>1, <1>0, HandledInv DEF NotifyOne, Ops, Results, TypeOK
<1>4. QED
  BY <1>1, <1>2, <1>3 DEF Requests, stop, reboot, shutdown, Signals

\* The steps of the spawned tasks never make a spawned task blank again,
\* so every id they queue or send still belongs to an accepted draft.
LEMMA TasksInv ==
    ASSUME ReconfigInv, NEW i \in Ids, Tasks(i) \/ Respond(i)
    PROVE  ReconfigInv'
<1>0. TypeOK /\ Spawned
  BY DEF ReconfigInv, Spawned
<1>1. CASE Respond(i)
  BY <1>1 DEF Respond, ReconfigInv, TypeOK, Accepted, ReloadProvenance
<1>2. CASE SleepDone(i)
  <2>1. task[i] = "sleeping"
    BY <1>2 DEF SleepDone
  <2>2. UNCHANGED <<settings, nreq, opOf, draftOf, result, responded, chan,
                    main, held, received, permit>>
    BY <1>2 DEF SleepDone
  <2>3. CASE rxClosed
    <3>1. task' = [task EXCEPT ![i] = "failed"] /\ sendq' = sendq
      BY <1>2, <2>3 DEF SleepDone
    <3>2. QED
      BY <1>0, <2>1, <2>2, <3>1
      DEF ReconfigInv, TypeOK, TaskStates, Blank, Spawned, QueuedSpawned,
          ChanSpawned, HeldSpawned, Accepted, ReloadProvenance
  <2>4. CASE ~rxClosed
    <3>1. task' = [task EXCEPT ![i] = "waiting"] /\ sendq' = Append(sendq, i)
      BY <1>2, <2>4 DEF SleepDone
    <3>2. TypeOK'
      BY <1>0, <2>2, <3>1, <1>2 DEF TypeOK, TaskStates, SleepDone
    <3>3. QueuedSpawned'
      BY <1>0, <2>1, <3>1 DEF ReconfigInv, QueuedSpawned, TypeOK
    <3>4. QED
      BY <1>0, <2>1, <2>2, <3>1, <3>2, <3>3
      DEF ReconfigInv, TypeOK, Blank, Spawned, ChanSpawned, HeldSpawned,
          Accepted, ReloadProvenance
  <2>5. QED
    BY <2>3, <2>4
<1>3. CASE Send(i)
  <2>1. sendq # <<>> /\ Head(sendq) = i /\ task[i] # "none"
    BY <1>0, <1>3 DEF Send, ReconfigInv, QueuedSpawned, TypeOK
  <2>2. task' = [task EXCEPT ![i] = "sent"]
    BY <1>3 DEF Send
  <2>3. TypeOK'
    BY <1>0, <1>3, <2>1, <2>2 DEF Send, TypeOK, TaskStates
  <2>4. QueuedSpawned'
    BY <1>0, <1>3, <2>1, <2>2 DEF Send, ReconfigInv, QueuedSpawned, TypeOK
  <2>5. ChanSpawned'
    BY <1>0, <1>3, <2>1, <2>2 DEF Send, ReconfigInv, ChanSpawned, TypeOK
  <2>6. QED
    BY <1>0, <1>3, <2>1, <2>2, <2>3, <2>4, <2>5
    DEF Send, ReconfigInv, TypeOK, Blank, Spawned, HeldSpawned, Accepted,
        ReloadProvenance
<1>4. CASE SendError(i)
  <2>1. task[i] # "none" /\ task' = [task EXCEPT ![i] = "failed"]
    BY <1>4 DEF SendError
  <2>2. QED
    BY <1>0, <1>4, <2>1
    DEF SendError, ReconfigInv, TypeOK, TaskStates, Blank, Spawned,
        QueuedSpawned, ChanSpawned, HeldSpawned, Accepted, ReloadProvenance
<1>5. QED
  BY <1>1, <1>2, <1>3, <1>4 DEF Tasks

\* The main loop only ever applies the draft of a spawned task, which is an
\* accepted draft that deserializes: that is what keeps ReloadProvenance.
LEMMA MainLoopInv == ReconfigInv /\ MainLoop => ReconfigInv'
<1> SUFFICES ASSUME ReconfigInv, MainLoop PROVE ReconfigInv'
  OBVIOUS
<1>0. TypeOK /\ Spawned
  BY DEF ReconfigInv, Spawned
<1>1. CASE Receive
  <2>1. chan # <<>> /\ task[Head(chan)] # "none" /\ Head(chan) \in Ids
    BY <1>0, <1>1 DEF Receive, ReconfigInv, ChanSpawned, TypeOK
  <2>2. TypeOK'
    BY <1>0, <1>1, <2>1 DEF Receive, TypeOK, MainStates, Ids
  <2>3. ChanSpawned'
    BY <1>0, <1>1, <2>1 DEF Receive, ReconfigInv, ChanSpawned, TypeOK
  <2>4. QED
    BY <1>0, <1>1, <2>1, <2>2, <2>3
    DEF Receive, ReconfigInv, TypeOK, Blank, Spawned, QueuedSpawned,
        HeldSpawned, Accepted, ReloadProvenance
<1>2. CASE Apply
  <2>1. held \in Ids /\ task[held] # "none"
    BY <1>1, <1>2 DEF Apply, ReconfigInv, HeldSpawned
  <2>2. Accepted(held) /\ Parse[draftOf[held]] \in Configs
    BY <1>0, <2>1 DEF Spawned
  <2>3. settings' = Parse[draftOf[held]]
    BY <1>2, <2>2 DEF Apply
  <2>4. ReloadProvenance'
    BY <1>2, <2>1, <2>2, <2>3 DEF Apply, ReloadProvenance, Accepted
  <2>5. TypeOK'
    BY <1>0, <1>2, <2>2, <2>3 DEF Apply, TypeOK, MainStates
  <2>6. QED
    BY <1>0, <1>2, <2>4, <2>5
    DEF Apply, ReconfigInv, Blank, Spawned, QueuedSpawned, ChanSpawned,
        HeldSpawned, Accepted
<1>3. CASE \E s \in Signals : HandleSignal(s)
  <2>1. PICK s \in Signals : HandleSignal(s)
    BY <1>3
  <2>2. QED
    BY <1>0, <2>1
    DEF HandleSignal, ReconfigInv, TypeOK, MainStates, Blank, Spawned,
        QueuedSpawned, ChanSpawned, HeldSpawned, Accepted, ReloadProvenance
<1>4. CASE Exit
  <2>1. \A j \in Ids : task'[j] \in TaskStates /\ (task'[j] = "none" <=> task[j] = "none")
    BY <1>0, <1>4 DEF Exit, TypeOK, TaskStates
  <2>2. TypeOK'
    BY <1>0, <1>4, <2>1 DEF Exit, TypeOK, MainStates
  <2>3. QED
    BY <1>0, <1>4, <2>1, <2>2
    DEF Exit, ReconfigInv, TypeOK, Blank, Spawned, QueuedSpawned,
        ChanSpawned, HeldSpawned, Accepted, ReloadProvenance
<1>5. QED
  BY <1>1, <1>2, <1>3, <1>4 DEF MainLoop

\* ReconfigInv is inductive.
LEMMA NextInv == ReconfigInv /\ [Next]_vars => ReconfigInv'
<1> SUFFICES ASSUME ReconfigInv, [Next]_vars PROVE ReconfigInv'
  OBVIOUS
<1>1. CASE Requests
  BY <1>1, RequestsInv
<1>2. CASE \E i \in Ids : Respond(i) \/ Tasks(i)
  BY <1>2, TasksInv
<1>3. CASE MainLoop
  BY <1>3, MainLoopInv
<1>4. CASE UNCHANGED vars
  BY <1>4 DEF vars, ReconfigInv, TypeOK, Accepted, ReloadProvenance
<1>5. QED
  BY <1>1, <1>2, <1>3, <1>4 DEF Next

\* ReconfigInv holds in every reachable state, whatever the sets of
\* configurations and drafts, the channel capacity and the request bound.
THEOREM InvariantHolds == Spec => []ReconfigInv
BY InitInv, NextInv, PTL DEF Spec

\* Every state the administrative handlers and the main loop reach is
\* well typed.
THEOREM TypeCorrect == Spec => []TypeOK
BY InvariantHolds, PTL DEF ReconfigInv

\* The process only ever runs with its initial configuration or with the
\* configuration of a draft whose set_config returned true to its caller:
\* neither a declined (local mode), rejected or "No changes" draft, nor any
\* other text, is ever applied by the reload consumer.
THEOREM Provenance == Spec => []ReloadProvenance
BY InvariantHolds, PTL DEF ReconfigInv


-----------------------------------------------------------------------------
(* Drafts lost only through a signal.                                      *)

\* Some stop, reboot or shutdown returned true to its caller.
SignalFired == \E j \in Ids : opOf[j] \in Signals /\ result[j] = "true"

\* The inductive invariant behind DraftLostOnlyBySignal: a stored permit
\* or a dropped receiver goes back to a signal request that returned true,
\* and a task fails or is aborted only once the receiver is gone.
LostInv ==
    /\ ReconfigInv
    /\ (rxClosed \/ \E sg \in Signals : permit[sg]) => SignalFired
    /\ \A i \in Ids : task[i] \in {"failed", "aborted"} => rxClosed

\* A request writes only the blank entry nreq + 1, so a signal request
\* that already returned true is still recorded after it.
LEMMA RequestKeepsFired ==
    ASSUME ReconfigInv, Requests, SignalFired
    PROVE  SignalFired'
<1>1. \E op, r : \E d : Handled(nreq + 1, op, d, r)
  BY DEF Requests, set_config, config, stop, reboot, shutdown, NotifyOne
<1>2. PICK op, r : \E d : Handled(nreq + 1, op, d, r)
  BY <1>1
<1>3. PICK j \in Ids : opOf[j] \in Signals /\ result[j] = "true"
  BY DEF SignalFired
<1>4. j # nreq + 1
  BY <1>3, InvConjuncts DEF Blank, Signals, TypeOK
<1>5. opOf'[j] = opOf[j] /\ result'[j] = result[j]
  BY <1>2, <1>4, InvConjuncts DEF Handled, TypeOK
<1>6. QED
  BY <1>3, <1>5 DEF SignalFired

\* The initial state satisfies LostInv.
LEMMA LostInit == Init => LostInv
BY InitInv DEF Init, LostInv, rxClosed

\* LostInv is inductive.
LEMMA LostNext == LostInv /\ [Next]_vars => LostInv'
<1> SUFFICES ASSUME LostInv, [Next]_vars PROVE LostInv'
  OBVIOUS
<1>0. ReconfigInv /\ TypeOK
  BY InvConjuncts DEF LostInv
<1>1. ReconfigInv'
  BY <1>0, NextInv
<1>2. CASE Requests
  <2>1. UNCHANGED main /\ rxClosed' = rxClosed
    BY <1>2 DEF Requests, set_config, config, stop, reboot, shutdown,
                NotifyOne, rxClosed
  <2>2. \A i \in Ids : task'[i] \in {"failed", "aborted"} => task[i] = task'[i]
    BY <1>0, <1>2 DEF Requests, set_config, config, stop, reboot, shutdown,
                      NotifyOne, TypeOK
  <2>3. CASE \E sg \in Signals : NotifyOne(sg)
    <3>1. PICK sg \in Signals : NotifyOne(sg)
      BY <2>3
    <3>2. nreq + 1 \in Ids /\ opOf'[nreq + 1] = sg /\ result'[nreq + 1] = "true"
      BY <3>1, <1>0 DEF NotifyOne, Handled, TypeOK, Ids
    <3>3. SignalFired'
      BY <3>1, <3>2 DEF SignalFired, Signals
    <3>4. QED
      BY <1>1, <2>1, <2>2, <3>3 DEF LostInv
  <2>4. CASE ~\E sg \in Signals : NotifyOne(sg)
    <3>1. UNCHANGED permit
      BY <1>2, <2>4 DEF Requests, set_config, config, stop, reboot, shutdown,
                        Signals
    <3>2. (rxClosed' \/ \E sg \in Signals : permit'[sg]) => SignalFired
      BY <2>1, <3>1 DEF LostInv
    <3>3. SignalFired => SignalFired'
      BY <1>0, <1>2, RequestKeepsFired
    <3>4. QED
      BY <1>1, <2>1, <2>2, <3>2, <3>3 DEF LostInv
  <2>5. QED
    BY <2>3, <2>4
<1>3. ASSUME NEW i \in Ids, Respond(i) \/ Tasks(i)
      PROVE  LostInv'
  <2>1. UNCHANGED <<opOf, result, permit, main>>
    BY <1>3 DEF Respond, Tasks, SleepDone, Send, SendError
  <2>2. SignalFired' = SignalFired /\ rxClosed' = rxClosed
    BY <2>1 DEF SignalFired, rxClosed
  <2>3. \A j \in Ids : task'[j] \in {"failed", "aborted"} =>
                       task[j] = task'[j] \/ rxClosed
    BY <1>0, <1>3 DEF Respond, Tasks, SleepDone, Send, SendError, TypeOK
  <2>4. QED
    BY <1>1, <2>1, <2>2, <2>3 DEF LostInv
<1>4. CASE Receive \/ Apply
  <2>1. UNCHANGED <<opOf, result, permit, task>> /\ ~rxClosed /\ ~rxClosed'
    BY <1>4 DEF Receive, Apply, rxClosed
  <2>2. QED
    BY <1>1, <2>1 DEF LostInv, SignalFired
<1>5. CASE \E sg \in Signals : HandleSignal(sg)
  <2>1. PICK sg \in Signals : HandleSignal(sg)
    BY <1>5
  <2>2. SignalFired
    BY <2>1 DEF HandleSignal, LostInv
  <2>3. UNCHANGED <<opOf, result, task>> /\ rxClosed'
    BY <2>1 DEF HandleSignal, rxClosed
  <2>4. QED
    BY <1>1, <2>2, <2>3 DEF LostInv, SignalFired
<1>6. CASE Exit
  <2>1. SignalFired
    BY <1>6 DEF Exit, LostInv, rxClosed
  <2>2. UNCHANGED <<opOf, result>> /\ rxClosed'
    BY <1>6 DEF Exit, rxClosed
  <2>3. QED
    BY <1>1, <2>1, <2>2 DEF LostInv, SignalFired
<1>7. CASE UNCHANGED vars
  BY <1>7 DEF vars, LostInv, ReconfigInv, TypeOK, Accepted, ReloadProvenance,
              SignalFired, rxClosed
<1>8. QED
  BY <1>2, <1>3, <1>4, <1>5, <1>6, <1>7 DEF Next, MainLoop

\* An accepted draft is lost, by a failed send or by the runtime dropping
\* its task, only after the reload receiver was dropped, and only after a
\* stop, reboot or shutdown returned true to some caller: for every value of
\* the constants, the spawned task's tx_clone.send fails for no other reason.
THEOREM DraftLostOnlyBySignalHolds == Spec => []DraftLostOnlyBySignal
<1>1. LostInv => DraftLostOnlyBySignal
  BY DEF LostInv, DraftLostOnlyBySignal, SignalFired
<1>2. QED
  BY <1>1, LostInit, LostNext, PTL DEF Spec

=============================================================================
