----------------------------- MODULE ConfigModel -----------------------------
(***************************************************************************)
(* The two parsers of a draft and the rendering of the live Config, as the *)
(* administrative API sees them: a draft is parsed by set_config and by    *)
(* the reload consumer, and the Config the consumer builds is rendered and *)
(* submitted again.                                                        *)
(***************************************************************************)
EXTENDS ConfigCodec

-----------------------------------------------------------------------------

VARIABLES
    draft,        \* the draft text under consideration
    source,       \* the Config the draft was rendered from, or None
    strResult,    \* what toml::from_str made of it (set_config), or Missing
    serverResult  \* what Settings::from_server made of it, or Missing

vars == <<draft, source, strResult, serverResult>>

TypeOK ==
    /\ draft \in Texts
    /\ source = None \/ source \in Configs
    /\ strResult \in {Err, Missing} \/ strResult \in Configs
    /\ serverResult \in {Err, Missing} \/ serverResult \in Configs

\* Any TOML text may be submitted, the empty one included.
Init ==
    /\ draft \in Texts
    /\ source = None
    /\ strResult = Missing
    /\ serverResult = Missing

\* set_config deserializes the draft with toml::from_str.
ParseDraft ==
    /\ strResult = Missing
    /\ strResult' = FromStr(draft)
    /\ UNCHANGED <<draft, source, serverResult>>

\* The reload consumer builds Settings::from_server from the same text.
LoadFromServer ==
    /\ serverResult = Missing
    /\ serverResult' = FromServer(draft)
    /\ UNCHANGED <<draft, source, strResult>>

\* The Config the consumer built is rendered with to_toml_string and
\* submitted again as a draft.
Resubmit ==
    /\ IsConfig(serverResult)
    /\ draft' = ToToml(serverResult)
    /\ source' = serverResult
    /\ strResult' = Missing
    /\ serverResult' = Missing

\* A caller submits some other draft.
NewDraft ==
    /\ \E t \in Texts : draft' = t
    /\ source' = None
    /\ strResult' = Missing
    /\ serverResult' = Missing

Next == ParseDraft \/ LoadFromServer \/ Resubmit \/ NewDraft

Spec == Init /\ [][Next]_vars

-----------------------------------------------------------------------------
(* Properties.                                                             *)

\* set_config validates a draft with toml::from_str, but the reload
\* consumer applies it with Settings::from_server, over the defaults: every
\* draft set_config accepts must mean the same Config to the consumer, or
\* the process would run with a configuration nobody proposed.
ParsersAgree ==
    IsConfig(strResult) /\ serverResult # Missing => serverResult = strResult

\* Spec 8: resubmitting the text of the live Config is a no-op: the
\* rendered text deserializes, in set_config, to the very Config it was
\* rendered from, so set_config answers "No changes".
RenderRoundTrip ==
    source # None /\ strResult # Missing => strResult = source

\* Spec 4.1 and 8: the sentinel, the empty string and a missing key all
\* mean "no peer address", never an error, when the rest of the source
\* is valid.
PeerAddrAbsent ==
    /\ serverResult # Missing
    /\ draft.addr_to_peers \in {"Sentinel", "Empty", Missing}
    /\ IsConfig(FromServer([draft EXCEPT !.addr_to_peers = "A1"]))
    => IsConfig(serverResult) /\ serverResult.addr_to_peers = None

=============================================================================
