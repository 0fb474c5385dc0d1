-------------------------- MODULE ReconfigRefinement --------------------------
(***************************************************************************)
(* Reconfig implements ReconfigAbstract.  The refinement mapping reads the *)
(* abstract state off the implementation: the accepted proposals are the   *)
(* set_config requests that spawned a delayed sender, and a proposal is    *)
(* pending while its task sleeps or waits for a permit, its draft is in    *)
(* the channel, or the main loop holds it, as long as the receiver lives.  *)
(***************************************************************************)
EXTENDS Reconfig

\* The configuration request i proposed, once it spawned its sender.
cfgOfBar == [i \in Ids |-> IF task[i] = "none" THEN "none" ELSE Parse[draftOf[i]]]

\* The draft of request i is still on its way to the main loop.
InFlight(i) ==
    \/ task[i] \in {"sleeping", "waiting"}
    \/ \E k \in DOMAIN chan : chan[k] = i
    \/ main = "reload" /\ held = i

pendingBar == IF rxClosed THEN {} ELSE {i \in Ids : InFlight(i)}

\* No id occurs twice in the sequence s.
NoDup(s) == \A j, k \in DOMAIN s : s[j] = s[k] => j = k

\* What the refinement rests on, beyond ReconfigInv: a draft is in at most
\* one place on its way to the main loop.  Senders queued for a permit are
\* waiting, each once; a draft in the channel or held by the main loop has
\* been sent, once; and dropping the receiver empties the permit queue.
\* Breaks if a sender could send twice, or keep its place in the queue.
RefinementInv ==
    /\ ReconfigInv
    /\ NoDup(sendq) /\ \A k \in DOMAIN sendq : task[sendq[k]] = "waiting"
    /\ NoDup(chan) /\ \A k \in DOMAIN chan : task[chan[k]] = "sent"
    /\ main = "reload" => task[held] = "sent" /\ \A k \in DOMAIN chan : chan[k] # held
    /\ rxClosed => sendq = <<>>

Abs == INSTANCE ReconfigAbstract
         WITH live <- settings, cfgOf <- cfgOfBar, pending <- pendingBar,
              open <- ~rxClosed

\* Spec 4.3, 4.4 and 5: every step of the process is a step of the
\* abstract protocol or leaves its state alone: the live Settings change
\* only to an accepted draft still pending, each accepted draft is applied
\* at most once, and a signal discards the drafts not yet applied.
Refinement == Abs!AbsSpec

=============================================================================
