----------------------- MODULE ReconfigRefinementProofs -----------------------
(***************************************************************************)
(* Proof that Reconfig implements ReconfigAbstract under the refinement    *)
(* mapping of ReconfigRefinement, for every value of the constants.        *)
(*                                                                         *)
(* The mapping counts a draft as pending while its task sleeps or waits,   *)
(* while it is in the channel, or while the main loop holds it.  For a     *)
(* step that moves a draft from one of these places to the next to leave   *)
(* the pending set unchanged, and for Apply to remove exactly the applied  *)
(* draft, a draft must be in one place only: that is RefinementInv, whose  *)
(* inductiveness is proved first, on top of ReconfigInv.                  *)
(***************************************************************************)
EXTENDS ReconfigRefinement, ReconfigProofs, SequenceTheorems

USE ReconfigAssumption

\* The conjuncts RefinementInv adds to ReconfigInv, named for citing.
QWaiting == NoDup(sendq) /\ \A k \in DOMAIN sendq : task[sendq[k]] = "waiting"
CSent == NoDup(chan) /\ \A k \in DOMAIN chan : task[chan[k]] = "sent"
HSent == main = "reload" => task[held] = "sent" /\ \A k \in DOMAIN chan : chan[k] # held
ClosedEmpty == rxClosed => sendq = <<>>

LEMMA RefConjuncts ==
    RefinementInv <=> ReconfigInv /\ QWaiting /\ CSent /\ HSent /\ ClosedEmpty
BY DEF RefinementInv, QWaiting, CSent, HSent, ClosedEmpty

\* Appending an element that is not yet in a duplicate-free sequence keeps
\* it duplicate-free.
LEMMA AppendNoDup ==
    ASSUME NEW S, NEW s \in Seq(S), NEW x \in S, NoDup(s),
           \A k \in DOMAIN s : s[k] # x
    PROVE  NoDup(Append(s, x)) /\ DOMAIN Append(s, x) = DOMAIN s \cup {Len(s) + 1}
<1>1. /\ Len(Append(s, x)) = Len(s) + 1
      /\ \A k \in 1..Len(s) : Append(s, x)[k] = s[k]
      /\ Append(s, x)[Len(s) + 1] = x
      /\ Append(s, x) \in Seq(S)
  BY AppendProperties
<1>2. DOMAIN Append(s, x) = 1..Len(s) + 1 /\ DOMAIN s = 1..Len(s) /\ Len(s) \in Nat
  BY <1>1, LenProperties
<1>3. QED
  BY <1>1, <1>2 DEF NoDup

\* The tail of a duplicate-free sequence is duplicate-free, and holds
\* every element but the head, which it no longer holds.
LEMMA TailNoDup ==
    ASSUME NEW S, NEW s \in Seq(S), s # <<>>, NoDup(s)
    PROVE  /\ NoDup(Tail(s))
           /\ \A y : (\E k \in DOMAIN Tail(s) : Tail(s)[k] = y)
                       <=> (\E k \in DOMAIN s : s[k] = y) /\ y # Head(s)
<1>1. /\ Tail(s) \in Seq(S)
      /\ Len(Tail(s)) = Len(s) - 1
      /\ \A i \in 1..Len(Tail(s)) : Tail(s)[i] = s[i + 1]
  BY HeadTailProperties
<1>2. /\ DOMAIN Tail(s) = 1..Len(s) - 1 /\ DOMAIN s = 1..Len(s)
      /\ Len(s) \in Nat \ {0}
  BY <1>1, LenProperties, EmptySeq
<1>3. Head(s) = s[1]
  OBVIOUS
<1>4. NoDup(Tail(s))
  BY <1>1, <1>2 DEF NoDup
<1>5. ASSUME NEW y
      PROVE  (\E k \in DOMAIN Tail(s) : Tail(s)[k] = y)
               <=> (\E k \in DOMAIN s : s[k] = y) /\ y # Head(s)
  <2>1. ASSUME NEW k \in DOMAIN Tail(s), Tail(s)[k] = y
        PROVE  k + 1 \in DOMAIN s /\ s[k + 1] = y /\ y # s[1]
    BY <1>1, <1>2, <2>1 DEF NoDup
  <2>2. ASSUME NEW k \in DOMAIN s, s[k] = y, y # s[1]
        PROVE  k - 1 \in DOMAIN Tail(s) /\ Tail(s)[k - 1] = y
    BY <1>1, <1>2, <2>2
  <2>3. QED
    BY <2>1, <2>2, <1>3
<1>6. QED
  BY <1>4, <1>5

\* The initial state satisfies RefinementInv.
LEMMA RefInit == Init => RefinementInv
<1> SUFFICES ASSUME Init PROVE RefinementInv
  OBVIOUS
<1>1. ReconfigInv
  BY InitInv
<1>2. QWaiting /\ CSent /\ HSent /\ ClosedEmpty
  BY DEF Init, QWaiting, CSent, HSent, ClosedEmpty, NoDup, rxClosed
<1>3. QED
  BY <1>1, <1>2, RefConjuncts

\* The administrative requests touch no sender, channel entry or held draft:
\* the only task they create is the blank one of the new request.
LEMMA RefRequests == RefinementInv /\ Requests => RefinementInv'
<1> SUFFICES ASSUME RefinementInv, Requests PROVE RefinementInv'
  OBVIOUS
<1>0. ReconfigInv /\ TypeOK /\ QWaiting /\ CSent /\ HSent /\ ClosedEmpty
  BY RefConjuncts DEF ReconfigInv
<1>1. ReconfigInv'
  BY <1>0, RequestsInv
<1>2. UNCHANGED <<sendq, chan, main, held>>
  BY DEF Requests, set_config, config, NotifyOne, stop, reboot, shutdown
<1>3. \A j \in Ids : task[j] # "none" => task'[j] = task[j]
  <2>1. nreq + 1 \in Ids => task[nreq + 1] = "none"
    BY <1>0 DEF ReconfigInv, TypeOK, Ids
  <2>2. CASE \E d \in Drafts : set_config(d)
    <3>1. PICK d \in Drafts : set_config(d)
      BY <2>2
    <3>2. nreq + 1 \in Ids
      BY <3>1, <1>0 DEF set_config, TypeOK, Ids
    <3>3. UNCHANGED task \/ task' = [task EXCEPT ![nreq + 1] = "sleeping"]
      BY <3>1 DEF set_config
    <3>4. QED
      BY <3>2, <3>3, <2>1, <1>0 DEF TypeOK
  <2>3. CASE config \/ \E sg \in Signals : NotifyOne(sg)
    BY <2>3 DEF config, NotifyOne
  <2>4. QED
    BY <2>2, <2>3 DEF Requests, stop, reboot, shutdown, Signals
<1>4. QWaiting' /\ CSent' /\ ClosedEmpty'
  BY <1>0, <1>2, <1>3 DEF QWaiting, CSent, ClosedEmpty, TypeOK, rxClosed
<1>5. HSent'
  BY <1>0, <1>2, <1>3 DEF HSent, ReconfigInv
<1>6. QED
  BY <1>1, <1>4, <1>5 DEF RefinementInv, QWaiting, CSent, HSent, ClosedEmpty

\* Each step of a spawned task moves its own draft one place on, from
\* sleeping to the permit queue to the channel, or fails it once the
\* receiver is gone; no other task changes.
LEMMA RefTasks ==
    ASSUME RefinementInv, NEW i \in Ids, Tasks(i) \/ Respond(i)
    PROVE  RefinementInv'
<1>0. ReconfigInv /\ TypeOK /\ QWaiting /\ CSent /\ HSent /\ ClosedEmpty
  BY RefConjuncts DEF ReconfigInv
<1>1. ReconfigInv'
  BY <1>0, TasksInv
<1>2. CASE Respond(i)
  BY <1>1, <1>2 DEF RefinementInv, QWaiting, CSent, HSent, ClosedEmpty, Respond, rxClosed
<1>3. CASE SleepDone(i)
  <2>1. task[i] = "sleeping" /\ UNCHANGED <<chan, main, held>>
    BY <1>3 DEF SleepDone
  <2>2. \A j \in Ids : j # i => task'[j] = task[j]
    BY <1>3, <1>0 DEF SleepDone, TypeOK
  <2>3. /\ \A k \in DOMAIN chan : chan[k] # i
        /\ main = "reload" => held # i
    BY <1>0, <2>1 DEF CSent, HSent
  <2>4. CSent' /\ HSent'
    <3>1. CSent'
      <4>1. \A k \in DOMAIN chan : chan[k] \in Ids
        BY <1>0, LenProperties DEF TypeOK
      <4>2. QED
        BY <1>0, <2>1, <2>2, <2>3, <4>1 DEF CSent
    <3>2. HSent'
      <4>1. main = "reload" => held \in Ids
        BY <1>0 DEF ReconfigInv
      <4>2. QED
        BY <1>0, <2>1, <2>2, <2>3, <4>1 DEF HSent
    <3>3. QED
      BY <3>1, <3>2
  <2>5. CASE rxClosed
    <3>1. sendq' = sendq /\ sendq = <<>>
      BY <1>3, <2>5, <1>0 DEF SleepDone, ClosedEmpty
    <3>2. QWaiting' /\ ClosedEmpty'
      BY <3>1, <2>1 DEF QWaiting, ClosedEmpty, NoDup, rxClosed
    <3>3. QED
      BY <1>1, <2>4, <3>2 DEF RefinementInv, QWaiting, CSent, HSent, ClosedEmpty
  <2>6. CASE ~rxClosed
    <3>1. sendq' = Append(sendq, i) /\ task' = [task EXCEPT ![i] = "waiting"]
      BY <1>3, <2>6 DEF SleepDone
    <3>2. \A k \in DOMAIN sendq : sendq[k] # i
      BY <1>0, <2>1 DEF QWaiting
    <3>3. NoDup(sendq') /\ DOMAIN sendq' = DOMAIN sendq \cup {Len(sendq) + 1}
      BY <1>0, <3>1, <3>2, AppendNoDup DEF QWaiting, TypeOK
    <3>4. \A k \in DOMAIN sendq' : task'[sendq'[k]] = "waiting"
      <4>1. sendq \in Seq(Ids) /\ DOMAIN sendq = 1..Len(sendq)
        BY <1>0, LenProperties DEF TypeOK
      <4>2. \A k \in 1..Len(sendq) : sendq'[k] = sendq[k]
        BY <3>1, <4>1, AppendProperties
      <4>3. sendq'[Len(sendq) + 1] = i
        BY <3>1, <4>1, AppendProperties
      <4>4. QED
        BY <1>0, <2>2, <3>1, <3>2, <3>3, <4>1, <4>2, <4>3 DEF QWaiting, TypeOK
    <3>5. ClosedEmpty'
      BY <2>1, <2>6 DEF ClosedEmpty, rxClosed
    <3>6. QED
      BY <1>1, <2>4, <3>3, <3>4, <3>5 DEF RefinementInv, QWaiting, CSent, HSent, ClosedEmpty
  <2>7. QED
    BY <2>5, <2>6
<1>4. CASE Send(i)
  <2>1. /\ sendq # <<>> /\ Head(sendq) = i /\ ~rxClosed
        /\ sendq' = Tail(sendq) /\ chan' = Append(chan, i)
        /\ task' = [task EXCEPT ![i] = "sent"] /\ UNCHANGED <<main, held>>
    BY <1>4 DEF Send
  <2>2. sendq \in Seq(Ids) /\ chan \in Seq(Ids) /\ task \in [Ids -> TaskStates]
    BY <1>0 DEF TypeOK
  <2>3. task[i] = "waiting"
    <3>1. 1 \in DOMAIN sendq /\ sendq[1] = i
      BY <2>1, <2>2, LenProperties, EmptySeq
    <3>2. QED
      BY <3>1, <1>0 DEF QWaiting
  <2>4. QWaiting'
    <3>1. NoDup(Tail(sendq))
          /\ \A y : (\E k \in DOMAIN Tail(sendq) : Tail(sendq)[k] = y)
                       <=> (\E k \in DOMAIN sendq : sendq[k] = y) /\ y # Head(sendq)
      BY <1>0, <2>1, <2>2, TailNoDup DEF QWaiting
    <3>2. \A k \in DOMAIN sendq' : sendq'[k] \in Ids /\ sendq'[k] # i
          /\ \E m \in DOMAIN sendq : sendq[m] = sendq'[k]
      <4>1. SUFFICES ASSUME NEW k \in DOMAIN sendq'
                     PROVE  sendq'[k] \in Ids /\ sendq'[k] # i
                            /\ \E m \in DOMAIN sendq : sendq[m] = sendq'[k]
        OBVIOUS
      <4>2. (\E m \in DOMAIN sendq : sendq[m] = sendq'[k]) /\ sendq'[k] # i
        BY <2>1, <3>1
      <4>3. \A m \in DOMAIN sendq : sendq[m] \in Ids
        BY <2>2, LenProperties
      <4>4. QED
        BY <4>2, <4>3
    <3>3. QED
      BY <1>0, <2>1, <3>1, <3>2 DEF QWaiting
  <2>5. CSent'
    <3>1. \A k \in DOMAIN chan : chan[k] # i
      BY <1>0, <2>3 DEF CSent
    <3>2. NoDup(chan') /\ DOMAIN chan' = DOMAIN chan \cup {Len(chan) + 1}
      BY <1>0, <2>1, <2>2, <3>1, AppendNoDup DEF CSent
    <3>3. /\ \A k \in 1..Len(chan) : chan'[k] = chan[k]
          /\ chan'[Len(chan) + 1] = i
          /\ DOMAIN chan = 1..Len(chan)
      BY <2>1, <2>2, AppendProperties, LenProperties
    <3>4. QED
      BY <1>0, <2>1, <2>2, <3>1, <3>2, <3>3 DEF CSent
  <2>6. HSent'
    <3>1. main = "reload" => held # i
      BY <1>0, <2>3 DEF HSent
    <3>2. \A k \in DOMAIN chan' : chan'[k] = i \/ \E m \in DOMAIN chan : chan[m] = chan'[k]
      BY <2>1, <2>2, AppendProperties, LenProperties
    <3>3. QED
      BY <1>0, <2>1, <2>2, <3>1, <3>2 DEF HSent
  <2>7. ClosedEmpty'
    BY <2>1 DEF ClosedEmpty, rxClosed
  <2>8. QED
    BY <1>1, <2>4, <2>5, <2>6, <2>7 DEF RefinementInv, QWaiting, CSent, HSent, ClosedEmpty
<1>5. CASE SendError(i)
  <2>1. task[i] = "waiting" /\ rxClosed /\ task' = [task EXCEPT ![i] = "failed"]
        /\ UNCHANGED <<sendq, chan, main, held>>
    BY <1>5 DEF SendError
  <2>2. sendq = <<>> /\ main # "reload"
    BY <1>0, <2>1 DEF ClosedEmpty, rxClosed
  <2>3. \A k \in DOMAIN chan : chan[k] # i
    BY <1>0, <2>1 DEF CSent
  <2>4. QWaiting' /\ CSent' /\ HSent' /\ ClosedEmpty'
    BY <1>0, <2>1, <2>2, <2>3 DEF QWaiting, CSent, HSent, ClosedEmpty, NoDup,
                                  rxClosed, TypeOK
  <2>5. QED
    BY <1>1, <2>4 DEF RefinementInv, QWaiting, CSent, HSent, ClosedEmpty
<1>6. QED
  BY <1>2, <1>3, <1>4, <1>5 DEF Tasks

\* The main loop takes the oldest draft out of the channel and holds it,
\* lets go of it when applied, and on a signal drops the permit queue.
LEMMA RefMainLoop == RefinementInv /\ MainLoop => RefinementInv'
<1> SUFFICES ASSUME RefinementInv, MainLoop PROVE RefinementInv'
  OBVIOUS
<1>0. ReconfigInv /\ TypeOK /\ QWaiting /\ CSent /\ HSent /\ ClosedEmpty
  BY RefConjuncts DEF ReconfigInv
<1>1. ReconfigInv'
  BY <1>0, MainLoopInv
<1>2. CASE Receive
  <2>1. /\ main = "select" /\ chan # <<>> /\ main' = "reload"
        /\ held' = Head(chan) /\ chan' = Tail(chan)
        /\ UNCHANGED <<task, sendq>>
    BY <1>2 DEF Receive
  <2>2. chan \in Seq(Ids)
    BY <1>0 DEF TypeOK
  <2>3. NoDup(Tail(chan))
        /\ \A y : (\E k \in DOMAIN Tail(chan) : Tail(chan)[k] = y)
                     <=> (\E k \in DOMAIN chan : chan[k] = y) /\ y # Head(chan)
    BY <1>0, <2>1, <2>2, TailNoDup DEF CSent
  <2>4. 1 \in DOMAIN chan /\ Head(chan) = chan[1]
    BY <2>1, <2>2, LenProperties, EmptySeq
  <2>5. CSent'
    BY <1>0, <2>1, <2>3 DEF CSent
  <2>6. HSent'
    BY <1>0, <2>1, <2>3, <2>4 DEF HSent, CSent
  <2>7. QWaiting' /\ ClosedEmpty'
    BY <1>0, <2>1 DEF QWaiting, ClosedEmpty, rxClosed
  <2>8. QED
    BY <1>1, <2>5, <2>6, <2>7 DEF RefinementInv, QWaiting, CSent, HSent, ClosedEmpty
<1>3. CASE Apply
  <2>1. main' = "select" /\ UNCHANGED <<task, sendq, chan>>
    BY <1>3 DEF Apply
  <2>2. QED
    BY <1>0, <1>1, <2>1
    DEF RefinementInv, QWaiting, CSent, HSent, ClosedEmpty, rxClosed
<1>4. CASE \E sg \in Signals : HandleSignal(sg)
  <2>1. main' = "stopped" /\ sendq' = <<>> /\ UNCHANGED <<task, chan>>
    BY <1>4 DEF HandleSignal
  <2>2. QED
    BY <1>0, <1>1, <2>1
    DEF RefinementInv, QWaiting, CSent, HSent, ClosedEmpty, NoDup, rxClosed
<1>5. CASE Exit
  <2>1. /\ main = "stopped" /\ main' = "exited" /\ UNCHANGED <<sendq, chan>>
        /\ task' = [j \in Ids |-> IF task[j] \in {"sleeping", "waiting"}
                                    THEN "aborted" ELSE task[j]]
    BY <1>5 DEF Exit
  <2>2. sendq = <<>>
    BY <1>0, <2>1 DEF ClosedEmpty, rxClosed
  <2>3. \A k \in DOMAIN chan : chan[k] \in Ids
    BY <1>0, LenProperties DEF TypeOK
  <2>4. CSent'
    BY <1>0, <2>1, <2>3 DEF CSent
  <2>5. QWaiting' /\ HSent' /\ ClosedEmpty'
    BY <2>1, <2>2 DEF QWaiting, HSent, ClosedEmpty, NoDup
  <2>6. QED
    BY <1>1, <2>4, <2>5 DEF RefinementInv, QWaiting, CSent, HSent, ClosedEmpty
<1>6. QED
  BY <1>2, <1>3, <1>4, <1>5 DEF MainLoop

\* RefinementInv is inductive.
LEMMA RefNext == RefinementInv /\ [Next]_vars => RefinementInv'
<1> SUFFICES ASSUME RefinementInv, [Next]_vars PROVE RefinementInv'
  OBVIOUS
<1>1. CASE Requests
  BY <1>1, RefRequests
<1>2. CASE \E i \in Ids : Respond(i) \/ Tasks(i)
  BY <1>2, RefTasks
<1>3. CASE MainLoop
  BY <1>3, RefMainLoop
<1>4. CASE UNCHANGED vars
  <2>1. ReconfigInv'
    BY <1>4, NextInv, RefConjuncts
  <2>2. QED
    BY <1>4, <2>1, RefConjuncts
    DEF vars, RefinementInv, QWaiting, CSent, HSent, ClosedEmpty, rxClosed
<1>5. QED
  BY <1>1, <1>2, <1>3, <1>4 DEF Next

\* A draft on its way to the main loop is in exactly one place, whatever
\* the sets of configurations and drafts, the capacity of the channel and
\* the number of requests.
THEOREM RefinementInvHolds == Spec => []RefinementInv
BY RefInit, RefNext, PTL DEF Spec

-----------------------------------------------------------------------------
(* The refinement mapping.                                                 *)

\* The process starts in the abstract initial state: the initial Settings,
\* no proposal, the service open.
LEMMA RefInitMap == Init => Abs!AbsInit
BY DEF Init, Abs!AbsInit, cfgOfBar, pendingBar, InFlight, rxClosed

\* A step that touches no task, no channel entry, neither the main loop nor
\* the live Settings, and no draft of a spawned task, is an abstract stutter.
LEMMA QuietStep ==
    ASSUME UNCHANGED <<settings, task, chan, main, held>>,
           \A i \in Ids : task[i] # "none" => draftOf'[i] = draftOf[i]
    PROVE  UNCHANGED Abs!absVars
<1>1. cfgOfBar' = cfgOfBar
  BY DEF cfgOfBar
<1>2. pendingBar' = pendingBar
  BY DEF pendingBar, InFlight, rxClosed
<1>3. QED
  BY <1>1, <1>2 DEF Abs!absVars, rxClosed

\* An accepted set_config is a proposal of the configuration its draft
\* deserializes to; every other request is an abstract stutter.
LEMMA RefStepRequests ==
    RefinementInv /\ Requests => [Abs!AbsNext]_Abs!absVars
<1> SUFFICES ASSUME RefinementInv, Requests PROVE [Abs!AbsNext]_Abs!absVars
  OBVIOUS
<1>0. TypeOK /\ Blank
  BY RefConjuncts, InvConjuncts
<1> DEFINE i == nreq + 1
<1>1. \A j \in Ids : j # i => draftOf'[j] = draftOf[j]
  BY <1>0 DEF Requests, set_config, config, stop, reboot, shutdown,
              NotifyOne, Handled, TypeOK
<1>2. task[i] = "none" \/ i \notin Ids
  BY <1>0 DEF Blank, TypeOK
<1>3. UNCHANGED <<settings, chan, main, held>> /\ Serving /\ nreq < MaxRequests
  BY DEF Requests, set_config, config, stop, reboot, shutdown, NotifyOne
<1>4. CASE UNCHANGED task
  BY <1>1, <1>2, <1>3, <1>4, QuietStep
<1>5. CASE ~UNCHANGED task
  <2>1. PICK d \in Drafts :
          /\ ~IsLocal /\ Parse[d] \in Configs \ {settings}
          /\ draftOf' = [draftOf EXCEPT ![i] = d]
          /\ task' = [task EXCEPT ![i] = "sleeping"]
    BY <1>5 DEF Requests, set_config, config, stop, reboot, shutdown,
                NotifyOne, Handled
  <2>2. i \in Ids /\ task[i] = "none"
    BY <1>0, <1>3 DEF TypeOK, Ids, Blank
  <2>3. ~rxClosed /\ ~rxClosed'
    BY <1>3 DEF Serving, rxClosed
  <2>4. cfgOfBar' = [cfgOfBar EXCEPT ![i] = Parse[d]]
    BY <1>0, <2>1, <2>2 DEF cfgOfBar, TypeOK
  <2>5. pendingBar' = pendingBar \cup {i}
    BY <1>3, <2>1, <2>2, <2>3, <1>0 DEF pendingBar, InFlight, TypeOK
  <2>6. cfgOfBar[i] = "none"
    BY <2>2 DEF cfgOfBar
  <2>7. Abs!Propose(i, Parse[d])
    BY <1>3, <2>1, <2>3, <2>4, <2>5, <2>6 DEF Abs!Propose
  <2>8. QED
    BY <2>1, <2>2, <2>7 DEF Abs!AbsNext
<1>6. QED
  BY <1>4, <1>5

\* The responses and the spawned senders move a draft along its way without
\* taking it out of the pending set or putting it in: abstract stutters.
LEMMA RefStepTasks ==
    ASSUME RefinementInv, NEW i \in Ids, Respond(i) \/ Tasks(i)
    PROVE  UNCHANGED Abs!absVars
<1>0. TypeOK /\ QWaiting
  BY RefConjuncts, InvConjuncts
<1>1. CASE Respond(i)
  BY <1>1, QuietStep DEF Respond
<1>2. CASE SleepDone(i)
  <2>1. UNCHANGED <<settings, draftOf, chan, main, held>>
    BY <1>2 DEF SleepDone
  <2>2. cfgOfBar' = cfgOfBar
    BY <1>0, <1>2, <2>1 DEF SleepDone, cfgOfBar, TypeOK
  <2>3. pendingBar' = pendingBar
    <3>1. CASE rxClosed
      BY <2>1, <3>1 DEF pendingBar, rxClosed
    <3>2. CASE ~rxClosed
      <4>1. task[i] = "sleeping" /\ task' = [task EXCEPT ![i] = "waiting"]
        BY <1>2, <3>2 DEF SleepDone
      <4>2. \A j \in Ids : InFlight(j)' <=> InFlight(j)
        BY <1>0, <2>1, <4>1 DEF InFlight, TypeOK
      <4>3. QED
        BY <2>1, <4>2 DEF pendingBar, rxClosed
    <3>3. QED
      BY <3>1, <3>2
  <2>4. QED
    BY <2>1, <2>2, <2>3 DEF Abs!absVars, rxClosed
<1>3. CASE Send(i)
  <2>1. /\ UNCHANGED <<settings, draftOf, main, held>>
        /\ chan' = Append(chan, i) /\ ~rxClosed
        /\ task' = [task EXCEPT ![i] = "sent"]
        /\ sendq # <<>> /\ Head(sendq) = i
    BY <1>3 DEF Send
  <2>2. task[i] = "waiting"
    BY <1>0, <2>1, LenProperties, EmptySeq DEF QWaiting, TypeOK
  <2>3. chan \in Seq(Ids)
    BY <1>0 DEF TypeOK
  <2>4. \A y : (\E k \in DOMAIN chan' : chan'[k] = y)
                 <=> (\E k \in DOMAIN chan : chan[k] = y) \/ y = i
    BY <2>1, <2>3, AppendProperties, LenProperties
  <2>5. cfgOfBar' = cfgOfBar
    BY <1>0, <2>1, <2>2 DEF cfgOfBar, TypeOK
  <2>6. pendingBar' = pendingBar
    <3>1. \A j \in Ids : InFlight(j)' <=> InFlight(j)
      BY <1>0, <2>1, <2>2, <2>4 DEF InFlight, TypeOK
    <3>2. QED
      BY <2>1, <3>1 DEF pendingBar, rxClosed
  <2>7. QED
    BY <2>1, <2>5, <2>6 DEF Abs!absVars, rxClosed
<1>4. CASE SendError(i)
  <2>1. UNCHANGED <<settings, draftOf, chan, main, held>> /\ rxClosed
        /\ task' = [task EXCEPT ![i] = "failed"] /\ task[i] = "waiting"
    BY <1>4 DEF SendError
  <2>2. cfgOfBar' = cfgOfBar
    BY <1>0, <2>1 DEF cfgOfBar, TypeOK
  <2>3. pendingBar' = pendingBar
    BY <2>1 DEF pendingBar, rxClosed
  <2>4. QED
    BY <2>1, <2>2, <2>3 DEF Abs!absVars, rxClosed
<1>5. QED
  BY <1>1, <1>2, <1>3, <1>4 DEF Tasks

\* Applying the held draft installs it; a signal closes the service; taking
\* a draft out of the channel and the runtime's exit are abstract stutters.
LEMMA RefStepMainLoop ==
    RefinementInv /\ MainLoop => [Abs!AbsNext]_Abs!absVars
<1> SUFFICES ASSUME RefinementInv, MainLoop PROVE [Abs!AbsNext]_Abs!absVars
  OBVIOUS
<1>0. TypeOK /\ Spawned /\ HeldSpawned /\ CSent /\ HSent
  BY RefConjuncts, InvConjuncts
<1>1. CASE Receive
  <2>1. /\ main = "select" /\ main' = "reload" /\ chan # <<>>
        /\ held' = Head(chan) /\ chan' = Tail(chan)
        /\ UNCHANGED <<settings, draftOf, task>>
    BY <1>1 DEF Receive
  <2>2. chan \in Seq(Ids)
    BY <1>0 DEF TypeOK
  <2>3. \A y : (\E k \in DOMAIN chan' : chan'[k] = y)
                 <=> (\E k \in DOMAIN chan : chan[k] = y) /\ y # Head(chan)
    BY <1>0, <2>1, <2>2, TailNoDup DEF CSent
  <2>4. 1 \in DOMAIN chan /\ Head(chan) = chan[1]
    BY <2>1, <2>2, LenProperties, EmptySeq
  <2>5. \A j \in Ids : InFlight(j)' <=> InFlight(j)
    BY <2>1, <2>3, <2>4 DEF InFlight
  <2>6. pendingBar' = pendingBar /\ cfgOfBar' = cfgOfBar
    BY <2>1, <2>5 DEF pendingBar, cfgOfBar, rxClosed
  <2>7. QED
    BY <2>1, <2>6 DEF Abs!absVars, rxClosed
<1>2. CASE Apply
  <2>1. /\ main = "reload" /\ main' = "select" /\ held' = 0
        /\ settings' = IF Parse[draftOf[held]] \in Configs
                         THEN Parse[draftOf[held]] ELSE settings
        /\ UNCHANGED <<draftOf, task, chan>>
    BY <1>2 DEF Apply
  <2>2. held \in Ids /\ task[held] = "sent"
        /\ \A k \in DOMAIN chan : chan[k] # held
    BY <1>0, <2>1 DEF HeldSpawned, HSent
  <2>3. Parse[draftOf[held]] \in Configs
    BY <1>0, <2>2 DEF Spawned
  <2>4. ~rxClosed /\ ~rxClosed' /\ cfgOfBar' = cfgOfBar
    BY <2>1 DEF rxClosed, cfgOfBar
  <2>5. settings' = cfgOfBar[held]
    BY <2>1, <2>2, <2>3 DEF cfgOfBar
  <2>6. held \in pendingBar
    BY <2>1, <2>2, <2>4 DEF pendingBar, InFlight
  <2>7. \A j \in Ids : InFlight(j)' <=> InFlight(j) /\ j # held
    BY <2>1, <2>2 DEF InFlight
  <2>8. pendingBar' = pendingBar \ {held}
    BY <2>4, <2>7 DEF pendingBar
  <2>9. Abs!Install(held)
    BY <2>4, <2>5, <2>6, <2>8 DEF Abs!Install
  <2>10. QED
    BY <2>2, <2>9 DEF Abs!AbsNext
<1>3. CASE \E sg \in Signals : HandleSignal(sg)
  <2>1. /\ main = "select" /\ main' = "stopped"
        /\ UNCHANGED <<settings, draftOf, task>>
    BY <1>3 DEF HandleSignal
  <2>2. Abs!Close
    BY <2>1 DEF Abs!Close, rxClosed, pendingBar, cfgOfBar
  <2>3. QED
    BY <2>2 DEF Abs!AbsNext
<1>4. CASE Exit
  <2>1. /\ main = "stopped" /\ main' = "exited"
        /\ UNCHANGED <<settings, draftOf>>
        /\ task' = [j \in Ids |-> IF task[j] \in {"sleeping", "waiting"}
                                    THEN "aborted" ELSE task[j]]
    BY <1>4 DEF Exit
  <2>2. cfgOfBar' = cfgOfBar
    BY <1>0, <2>1 DEF cfgOfBar, TypeOK
  <2>3. QED
    BY <2>1, <2>2 DEF Abs!absVars, pendingBar, rxClosed
<1>5. QED
  BY <1>1, <1>2, <1>3, <1>4 DEF MainLoop

\* Every step of the process is a step of the abstract protocol or leaves
\* its state alone.
LEMMA RefStep == RefinementInv /\ [Next]_vars => [Abs!AbsNext]_Abs!absVars
<1> SUFFICES ASSUME RefinementInv, [Next]_vars PROVE [Abs!AbsNext]_Abs!absVars
  OBVIOUS
<1>1. CASE Requests
  BY <1>1, RefStepRequests
<1>2. CASE \E i \in Ids : Respond(i) \/ Tasks(i)
  BY <1>2, RefStepTasks
<1>3. CASE MainLoop
  BY <1>3, RefStepMainLoop
<1>4. CASE UNCHANGED vars
  BY <1>4 DEF vars, Abs!absVars, cfgOfBar, pendingBar, InFlight, rxClosed
<1>5. QED
  BY <1>1, <1>2, <1>3, <1>4 DEF Next

\* Spec 4.3, 4.4 and 5, for every set of configurations and drafts, every
\* channel capacity and every number of requests: the live Settings only
\* become a draft an accepted set_config proposed and that is still pending,
\* each at most once, and a signal to the main loop discards the rest.
THEOREM Implements == Spec => Refinement
<1>1. Spec => []RefinementInv
  BY RefinementInvHolds
<1>2. QED
  BY <1>1, RefInitMap, RefStep, PTL DEF Spec, Refinement, Abs!AbsSpec

=============================================================================
