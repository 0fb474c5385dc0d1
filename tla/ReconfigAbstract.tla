--------------------------- MODULE ReconfigAbstract ---------------------------
(***************************************************************************)
(* What the reconfiguration protocol promises (spec 4.3, 4.4 and 5),       *)
(* without the tasks, the channel and the main loop that implement it:     *)
(*                                                                         *)
(*  - a proposal is accepted only while the service is open, and only for  *)
(*    a configuration that differs from the live one at that moment;      *)
(*  - the live configuration only ever becomes an accepted proposal, and   *)
(*    each accepted proposal is installed at most once, in any order;      *)
(*  - closing the service (stop, reboot, shutdown) discards every accepted *)
(*    proposal not yet installed, and nothing is installed afterwards.     *)
(***************************************************************************)
CONSTANTS
    Configs,      \* the configurations
    Ids,          \* the identities of proposals
    InitConfig    \* the configuration the service starts with

VARIABLES
    live,     \* the configuration in force
    cfgOf,    \* cfgOf[i]: the configuration accepted as proposal i, or "none"
    pending,  \* the accepted proposals not yet installed or discarded
    open      \* the service still takes and installs proposals

absVars == <<live, cfgOf, pending, open>>

AbsInit ==
    /\ live = InitConfig
    /\ cfgOf = [i \in Ids |-> "none"]
    /\ pending = {}
    /\ open = TRUE

\* Proposal i of configuration c is accepted.
Propose(i, c) ==
    /\ open
    /\ cfgOf[i] = "none"
    /\ c \in Configs \ {live}
    /\ cfgOf' = [cfgOf EXCEPT ![i] = c]
    /\ pending' = pending \cup {i}
    /\ UNCHANGED <<live, open>>

\* Accepted proposal i becomes the live configuration.
Install(i) ==
    /\ open
    /\ i \in pending
    /\ live' = cfgOf[i]
    /\ pending' = pending \ {i}
    /\ UNCHANGED <<cfgOf, open>>

\* The service is closed; what was still pending is lost.
Close ==
    /\ open
    /\ open' = FALSE
    /\ pending' = {}
    /\ UNCHANGED <<live, cfgOf>>

AbsNext ==
    \/ \E i \in Ids, c \in Configs : Propose(i, c)
    \/ \E i \in Ids : Install(i)
    \/ Close

AbsSpec == AbsInit /\ [][AbsNext]_absVars

=============================================================================
