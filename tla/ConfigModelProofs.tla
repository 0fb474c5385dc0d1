--------------------------- MODULE ConfigModelProofs ---------------------------
(***************************************************************************)
(* Proofs about ConfigModel for every draft: the parsers of set_config and *)
(* of the reload consumer agree, the rendered live Config parses back to   *)
(* itself, and a missing, empty or sentinel peer address means None.       *)
(***************************************************************************)
EXTENDS ConfigModel, ConfigCodecProofs

USE CodecAssumption

\* The inductive invariant: each parse result is either not computed yet or
\* the parse of the current draft, and a draft that was rendered from a
\* Config is the rendering of a Config the consumer could have built.
ModelInv ==
    /\ TypeOK
    /\ strResult \in {Missing, FromStr(draft)}
    /\ serverResult \in {Missing, FromServer(draft)}
    /\ source # None => /\ source \in Configs
                        /\ source.addr_to_peers # "Sentinel"
                        /\ draft = ToToml(source)

\* The initial states satisfy ModelInv.
LEMMA ModelInit == Init => ModelInv
BY DEF Init, ModelInv, TypeOK

\* Every step keeps ModelInv.
LEMMA ModelNext == ModelInv /\ [Next]_vars => ModelInv'
<1> SUFFICES ASSUME ModelInv, [Next]_vars PROVE ModelInv'
  OBVIOUS
<1>0. draft \in Texts
  BY DEF ModelInv, TypeOK
<1>1. CASE ParseDraft
  <2>1. FromStr(draft) \in Configs \cup {Err}
    BY <1>0, DeserializeType DEF FromStr
  <2>2. QED
    BY <1>1, <2>1 DEF ParseDraft, ModelInv, TypeOK
<1>2. CASE LoadFromServer
  <2>1. FromServer(draft) \in Configs \cup {Err}
    BY <1>0, FromServerType
  <2>2. QED
    BY <1>2, <2>1 DEF LoadFromServer, ModelInv, TypeOK
<1>3. CASE Resubmit
  <2>1. serverResult = FromServer(draft) /\ IsConfig(serverResult)
    BY <1>3 DEF Resubmit, ModelInv, IsConfig
  <2>2. serverResult \in Configs /\ serverResult.addr_to_peers # "Sentinel"
    BY <1>0, <2>1, FromServerType
  <2>3. ToToml(serverResult) \in Texts
    BY <2>2, ToTomlType
  <2>4. QED
    BY <1>3, <2>2, <2>3 DEF Resubmit, ModelInv, TypeOK
<1>4. CASE NewDraft
  BY <1>4 DEF NewDraft, ModelInv, TypeOK
<1>5. CASE UNCHANGED vars
  BY <1>5 DEF vars, ModelInv, TypeOK
<1>6. QED
  BY <1>1, <1>2, <1>3, <1>4, <1>5 DEF Next

\* ModelInv holds in every reachable state.
LEMMA ModelInvHolds == Spec => []ModelInv
BY ModelInit, ModelNext, PTL DEF Spec

\* Both parsers return a Config or an error, and a rendered draft is a
\* TOML source: to_toml_string never writes a None field out as a value.
THEOREM ModelTypeOK == Spec => []TypeOK
<1>1. ModelInv => TypeOK
  BY DEF ModelInv
<1>2. QED
  BY <1>1, ModelInvHolds, PTL

\* For every draft set_config accepts with toml::from_str, the reload
\* consumer's Settings::from_server builds the same Config.
THEOREM ParsersAgreeHolds == Spec => []ParsersAgree
<1>1. ModelInv => ParsersAgree
  <2> SUFFICES ASSUME ModelInv, IsConfig(strResult), serverResult # Missing
               PROVE  serverResult = strResult
    BY DEF ParsersAgree
  <2>1. strResult = FromStr(draft) /\ serverResult = FromServer(draft)
        /\ draft \in Texts
    BY DEF ModelInv, IsConfig, TypeOK
  <2>2. QED
    BY <2>1, ParsersAgreeLemma
<1>2. QED
  BY <1>1, ModelInvHolds, PTL

\* Resubmitting the rendered live Config parses, in set_config, to that
\* very Config, so set_config answers "No changes" (spec 8).
THEOREM RenderRoundTripHolds == Spec => []RenderRoundTrip
<1>1. ModelInv => RenderRoundTrip
  <2> SUFFICES ASSUME ModelInv, source # None, strResult # Missing
               PROVE  strResult = source
    BY DEF RenderRoundTrip
  <2>1. /\ strResult = FromStr(draft) /\ draft = ToToml(source)
        /\ source \in Configs /\ source.addr_to_peers # "Sentinel"
    BY DEF ModelInv
  <2>2. QED
    BY <2>1, RoundTrip
<1>2. QED
  BY <1>1, ModelInvHolds, PTL

\* The sentinel, the empty string and a missing addr_to_peers all load as
\* None whenever the rest of the draft loads (spec 4.1 and 8).
THEOREM PeerAddrAbsentHolds == Spec => []PeerAddrAbsent
<1>1. ModelInv => PeerAddrAbsent
  <2> SUFFICES ASSUME ModelInv, serverResult # Missing,
                      draft.addr_to_peers \in {"Sentinel", "Empty", Missing},
                      IsConfig(FromServer([draft EXCEPT !.addr_to_peers = "A1"]))
               PROVE  IsConfig(serverResult) /\ serverResult.addr_to_peers = None
    BY DEF PeerAddrAbsent
  <2>1. serverResult = FromServer(draft) /\ draft \in Texts
    BY DEF ModelInv, TypeOK
  <2>2. QED
    BY <2>1, PeerAddrAbsentLemma
<1>2. QED
  BY <1>1, ModelInvHolds, PTL

=============================================================================
