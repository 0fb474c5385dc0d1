------------------------- MODULE ReconfigDeliveryProofs -------------------------
(***************************************************************************)
(* Proof of ReloadAtMostOnce for every value of the constants: the draft  *)
(* of a request reaches the reload channel and the main loop at most      *)
(* once, and only if set_config accepted it.                              *)
(***************************************************************************)
EXTENDS ReconfigRefinementProofs, FiniteSetTheorems

USE ReconfigAssumption

\* The inductive invariant: beyond RefinementInv, the main loop received
\* each draft at most once, only from a task that sent it, and a draft it
\* received is no longer in the channel.
DeliveryInv ==
    /\ RefinementInv
    /\ NoDup(received)
    /\ \A k \in DOMAIN received : task[received[k]] = "sent"
    /\ \A j \in DOMAIN chan, k \in DOMAIN received : chan[j] # received[k]

\* The positions of x in a sequence without duplicates: none if x does not
\* occur, else exactly one.
LEMMA OccurrencesNoDup ==
    ASSUME NEW S, NEW s \in Seq(S), NoDup(s), NEW x
    PROVE  Cardinality({k \in DOMAIN s : s[k] = x})
             = IF \E k \in DOMAIN s : s[k] = x THEN 1 ELSE 0
<1> DEFINE C == {k \in DOMAIN s : s[k] = x}
<1>1. CASE \E k \in DOMAIN s : s[k] = x
  <2>1. PICK k0 \in DOMAIN s : s[k0] = x
    BY <1>1
  <2>2. C = {k0}
    BY <2>1 DEF NoDup
  <2>3. QED
    BY <1>1, <2>2, FS_Singleton
<1>2. CASE ~\E k \in DOMAIN s : s[k] = x
  <2>1. C = {}
    BY <1>2
  <2>2. QED
    BY <1>2, <2>1, FS_EmptySet
<1>3. QED
  BY <1>1, <1>2

\* The initial state satisfies DeliveryInv.
LEMMA DeliveryInit == Init => DeliveryInv
<1> SUFFICES ASSUME Init PROVE DeliveryInv
  OBVIOUS
<1>1. RefinementInv
  BY RefInit
<1>2. QED
  BY <1>1 DEF Init, DeliveryInv, NoDup

\* A step that leaves the receive history alone, keeps every sent task
\* sent and only adds to the channel the draft of a waiting task keeps the
\* conjuncts about the history.
LEMMA KeepReceived ==
    ASSUME DeliveryInv, RefinementInv', received' = received,
           \A j \in Ids : task[j] = "sent" => task'[j] = "sent",
           \A k \in DOMAIN chan' : \/ \E j \in DOMAIN chan : chan[j] = chan'[k]
                                   \/ task[chan'[k]] = "waiting"
    PROVE  DeliveryInv'
<1>1. received \in Seq(Ids)
  BY RefConjuncts, InvConjuncts DEF DeliveryInv, TypeOK
<1>2. \A k \in DOMAIN received : received[k] \in Ids
  BY <1>1
<1>3. QED
  BY <1>2 DEF DeliveryInv

\* Receive moves the head of the channel to the end of the receive
\* history: it was in the channel, so not yet received, and it leaves the
\* channel, which holds no second copy of it.
LEMMA DeliveryReceive == DeliveryInv /\ Receive => DeliveryInv'
<1> SUFFICES ASSUME DeliveryInv, Receive PROVE DeliveryInv'
  OBVIOUS
<1>0. TypeOK /\ CSent
  BY RefConjuncts, InvConjuncts DEF DeliveryInv
<1>1. RefinementInv'
  BY RefMainLoop DEF DeliveryInv, MainLoop
<1>2. /\ chan # <<>> /\ chan' = Tail(chan)
      /\ received' = Append(received, Head(chan))
      /\ UNCHANGED task
  BY DEF Receive
<1>3. chan \in Seq(Ids) /\ received \in Seq(Ids)
  BY <1>0 DEF TypeOK
<1>4. 1 \in DOMAIN chan /\ Head(chan) = chan[1] /\ Head(chan) \in Ids
  BY <1>2, <1>3, LenProperties, EmptySeq
<1>5. task[Head(chan)] = "sent"
  BY <1>0, <1>4 DEF CSent
<1>6. \A k \in DOMAIN received : received[k] # Head(chan)
  BY <1>4 DEF DeliveryInv
<1>7. /\ NoDup(received')
      /\ DOMAIN received' = DOMAIN received \cup {Len(received) + 1}
      /\ received'[Len(received) + 1] = Head(chan)
      /\ \A k \in DOMAIN received : received'[k] = received[k]
  BY <1>2, <1>3, <1>4, <1>6, AppendNoDup, AppendProperties, LenProperties
     DEF DeliveryInv
<1>8. \A y : (\E k \in DOMAIN chan' : chan'[k] = y)
               <=> (\E k \in DOMAIN chan : chan[k] = y) /\ y # Head(chan)
  BY <1>0, <1>2, <1>3, TailNoDup DEF CSent
<1>9. \A k \in DOMAIN received' : task'[received'[k]] = "sent"
  BY <1>2, <1>5, <1>7 DEF DeliveryInv
<1>10. \A j \in DOMAIN chan', k \in DOMAIN received' : chan'[j] # received'[k]
  BY <1>7, <1>8 DEF DeliveryInv
<1>11. QED
  BY <1>1, <1>7, <1>9, <1>10 DEF DeliveryInv

\* DeliveryInv is inductive.
LEMMA DeliveryNext == DeliveryInv /\ [Next]_vars => DeliveryInv'
<1> SUFFICES ASSUME DeliveryInv, [Next]_vars PROVE DeliveryInv'
  OBVIOUS
<1>0. TypeOK /\ Blank /\ QWaiting /\ RefinementInv
  BY RefConjuncts, InvConjuncts DEF DeliveryInv
<1>1. RefinementInv'
  BY <1>0, RefNext
<1>2. CASE Requests
  <2>1. UNCHANGED <<received, chan>>
    BY <1>2 DEF Requests, set_config, config, stop, reboot, shutdown, NotifyOne
  <2>2. \A j \in Ids : task[j] = "sent" => task'[j] = "sent"
    BY <1>0, <1>2 DEF Requests, set_config, config, stop, reboot, shutdown,
                      NotifyOne, Blank, TypeOK
  <2>3. QED
    BY <1>1, <2>1, <2>2, KeepReceived
<1>3. ASSUME NEW i \in Ids, Respond(i) \/ Tasks(i)
      PROVE  DeliveryInv'
  <2>1. CASE Respond(i)
    BY <1>1, <2>1, KeepReceived DEF Respond
  <2>2. CASE SleepDone(i)
    <3>1. UNCHANGED <<received, chan>> /\ task[i] = "sleeping"
          /\ task' \in {[task EXCEPT ![i] = "failed"], [task EXCEPT ![i] = "waiting"]}
      BY <2>2 DEF SleepDone
    <3>2. \A j \in Ids : task[j] = "sent" => task'[j] = "sent"
      BY <1>0, <3>1 DEF TypeOK
    <3>3. QED
      BY <1>1, <3>1, <3>2, KeepReceived
  <2>3. CASE Send(i)
    <3>1. /\ received' = received /\ chan' = Append(chan, i)
          /\ task' = [task EXCEPT ![i] = "sent"]
          /\ sendq # <<>> /\ Head(sendq) = i
      BY <2>3 DEF Send
    <3>2. task[i] = "waiting"
      BY <1>0, <3>1, LenProperties, EmptySeq DEF QWaiting, TypeOK
    <3>3. chan \in Seq(Ids)
      BY <1>0 DEF TypeOK
    <3>4. \A k \in DOMAIN chan' : \/ \E j \in DOMAIN chan : chan[j] = chan'[k]
                                  \/ task[chan'[k]] = "waiting"
      BY <3>1, <3>2, <3>3, AppendProperties, LenProperties
    <3>5. \A j \in Ids : task[j] = "sent" => task'[j] = "sent"
      BY <3>1, <3>2
    <3>6. QED
      BY <1>1, <3>1, <3>4, <3>5, KeepReceived
  <2>4. CASE SendError(i)
    <3>1. UNCHANGED <<received, chan>> /\ task[i] = "waiting"
          /\ task' = [task EXCEPT ![i] = "failed"]
      BY <2>4 DEF SendError
    <3>2. QED
      BY <1>1, <3>1, KeepReceived
  <2>5. QED
    BY <1>3, <2>1, <2>2, <2>3, <2>4 DEF Tasks
<1>4. CASE Receive
  BY <1>4, DeliveryReceive
<1>5. CASE Apply
  BY <1>1, <1>5, KeepReceived DEF Apply
<1>6. CASE \E sg \in Signals : HandleSignal(sg)
  BY <1>1, <1>6, KeepReceived DEF HandleSignal
<1>7. CASE Exit
  <2>1. UNCHANGED <<received, chan>>
        /\ task' = [j \in Ids |-> IF task[j] \in {"sleeping", "waiting"}
                                    THEN "aborted" ELSE task[j]]
    BY <1>7 DEF Exit
  <2>2. QED
    BY <1>1, <2>1, KeepReceived
<1>8. CASE UNCHANGED vars
  BY <1>1, <1>8, KeepReceived DEF vars
<1>9. QED
  BY <1>2, <1>3, <1>4, <1>5, <1>6, <1>7, <1>8 DEF Next, MainLoop

\* DeliveryInv holds in every reachable state.
LEMMA DeliveryInvHolds == Spec => []DeliveryInv
BY DeliveryInit, DeliveryNext, PTL DEF Spec


\* ReloadAtMostOnce holds in every reachable state, for every value of the
\* constants: in set_config the spawned task hands its draft to the
\* reload channel (tx_clone.send) at most once, the main loop's
\* rx.recv() takes it out at most once, and only a set_config that
\* returned true spawns such a task.
THEOREM ReloadAtMostOnceHolds == Spec => []ReloadAtMostOnce
<1>1. DeliveryInv => ReloadAtMostOnce
  <2> SUFFICES ASSUME DeliveryInv, NEW i \in Ids
               PROVE  /\ Deliveries(i) <= 1
                      /\ Deliveries(i) = 1 => Accepted(i)
    BY DEF ReloadAtMostOnce
  <2>1. TypeOK /\ Spawned /\ ChanSpawned /\ NoDup(chan)
    BY RefConjuncts, InvConjuncts DEF DeliveryInv, RefinementInv
  <2>2. chan \in Seq(Ids) /\ received \in Seq(Ids)
    BY <2>1 DEF TypeOK
  <2>3. /\ NoDup(received)
        /\ \A j \in DOMAIN chan, k \in DOMAIN received : chan[j] # received[k]
        /\ \A k \in DOMAIN received : task[received[k]] = "sent"
    BY DEF DeliveryInv
  <2> DEFINE inC == \E k \in DOMAIN chan : chan[k] = i
             inR == \E k \in DOMAIN received : received[k] = i
  <2>4. Cardinality({k \in DOMAIN chan : chan[k] = i}) = IF inC THEN 1 ELSE 0
    BY <2>1, <2>2, OccurrencesNoDup
  <2>5. Cardinality({k \in DOMAIN received : received[k] = i}) = IF inR THEN 1 ELSE 0
    <3>1. received \in Seq(Ids) /\ NoDup(received)
      BY <2>2, <2>3
    <3>2. QED
      BY <3>1, OccurrencesNoDup
  <2>6. ~(inC /\ inR)
    BY <2>3
  <2>7. Deliveries(i) <= 1
    BY <2>4, <2>5, <2>6 DEF Deliveries
  <2>8. ASSUME Deliveries(i) = 1 PROVE Accepted(i)
    <3>1. inC \/ inR
      BY <2>4, <2>5, <2>8 DEF Deliveries
    <3>2. task[i] # "none"
      <4>1. CASE inC
        BY <4>1, <2>1 DEF ChanSpawned
      <4>2. CASE inR
        <5>1. PICK r \in DOMAIN received : received[r] = i
          BY <4>2
        <5>2. task[received[r]] = "sent"
          BY <5>1 DEF DeliveryInv
        <5>3. QED
          BY <5>1, <5>2
      <4>3. QED
        BY <3>1, <4>1, <4>2
    <3>3. QED
      BY <3>2, <2>1 DEF Spawned
  <2>9. QED
    BY <2>7, <2>8
<1>2. QED
  BY <1>1, DeliveryInvHolds, PTL

=============================================================================
