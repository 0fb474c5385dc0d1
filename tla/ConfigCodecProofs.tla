--------------------------- MODULE ConfigCodecProofs ---------------------------
(***************************************************************************)
(* Facts about the configuration codec of src/settings.rs that the proofs *)
(* about the parsers and the document editor rest on: what each operator  *)
(* returns, that the two parsers agree, and that rendering a loaded       *)
(* Config and loading it back gives the Config again.                     *)
(***************************************************************************)
EXTENDS ConfigCodec, TLAPS

USE CodecAssumption

\* What CodecAssumption says, with the sets of raw values spelled out.
LEMMA CodecFacts ==
    /\ Missing # None /\ Missing # Err /\ None # Err
    /\ \A x \in {Missing, None, Err} :
         x \notin {"A1", "A2", "Sentinel", "Empty", "Bad", "R1", "R2", "RBad", "P0", "P1"}
    /\ Missing \notin Configs /\ Err \notin Configs
BY DEF AddrRaws, ValidAddrs, RetRaws, ValidRets, PeerRaws

\* Layered, field by field.
LEMMA LayeredFields ==
    ASSUME NEW t \in Texts
    PROVE  /\ Layered(t).ingest_srv_addr =
                IF t.ingest_srv_addr = Missing THEN "A1" ELSE t.ingest_srv_addr
           /\ Layered(t).retention = IF t.retention = Missing THEN "R1" ELSE t.retention
           /\ Layered(t).addr_to_peers =
                IF t.addr_to_peers = Missing THEN "Sentinel" ELSE t.addr_to_peers
           /\ Layered(t).peers = t.peers
BY DEF Layered, Defaults, Texts

\* Layering a source over the defaults gives a source.
LEMMA LayeredType ==
    ASSUME NEW t \in Texts PROVE Layered(t) \in Texts
<1>1. Layered(t) =
        [ingest_srv_addr |-> IF t.ingest_srv_addr = Missing THEN "A1"
                             ELSE t.ingest_srv_addr,
         retention |-> IF t.retention = Missing THEN "R1" ELSE t.retention,
         addr_to_peers |-> IF t.addr_to_peers = Missing THEN "Sentinel"
                           ELSE t.addr_to_peers,
         peers |-> t.peers]
  BY DEF Layered, Defaults, Texts
<1>2. QED
  BY <1>1 DEF Texts, AddrRaws, ValidAddrs, RetRaws, ValidRets

\* Deserialize yields a Config or an error, and never the peer sentinel as
\* the address to reach peers at.
LEMMA DeserializeType ==
    ASSUME NEW t \in Texts
    PROVE  /\ Deserialize(t) \in Configs \cup {Err}
           /\ Deserialize(t) # Err => Deserialize(t).addr_to_peers # "Sentinel"
BY DEF Deserialize, deserialize_peer_addr, deserialize_socket_addr, Texts,
       Configs, AddrRaws, ValidAddrs, RetRaws, ValidRets

\* A Settings::from_server or from_file build yields a Config or an error;
\* a Config it yields has no sentinel peer address.
LEMMA FromServerType ==
    ASSUME NEW t \in Texts
    PROVE  /\ FromServer(t) \in Configs \cup {Err}
           /\ IsConfig(FromServer(t)) => FromServer(t) \in Configs
           /\ IsConfig(FromServer(t)) => FromServer(t).addr_to_peers # "Sentinel"
BY LayeredType, DeserializeType DEF FromServer, IsConfig

\* to_toml_string renders a Config as a source.
LEMMA ToTomlType ==
    ASSUME NEW c \in Configs PROVE ToToml(c) \in Texts
BY DEF ToToml, Configs, Texts, AddrRaws, ValidAddrs, RetRaws

\* Deserialize of a source whose required keys are well formed, field by
\* field.
LEMMA DeserializeOk ==
    ASSUME NEW t \in Texts, t.ingest_srv_addr \in ValidAddrs,
           t.retention \in ValidRets, deserialize_peer_addr(t.addr_to_peers) # Err
    PROVE  Deserialize(t) =
             [ingest_srv_addr |-> t.ingest_srv_addr, retention |-> t.retention,
              addr_to_peers |-> deserialize_peer_addr(t.addr_to_peers),
              peers |-> IF t.peers = Missing THEN None ELSE t.peers]
BY DEF Deserialize, deserialize_socket_addr, ValidAddrs, ValidRets, RetRaws,
       AddrRaws

\* And a source Deserialize accepts has its required keys well formed.
LEMMA DeserializeOkInv ==
    ASSUME NEW t \in Texts, Deserialize(t) # Err
    PROVE  /\ t.ingest_srv_addr \in ValidAddrs
           /\ t.retention \in ValidRets
           /\ deserialize_peer_addr(t.addr_to_peers) # Err
BY DEF Deserialize, deserialize_socket_addr, Texts, RetRaws, ValidRets

\* deserialize_peer_addr: None for a missing, empty or sentinel value, the
\* address for any other valid one.
LEMMA PeerAddrCases ==
    ASSUME NEW r \in AddrRaws \cup {Missing}
    PROVE  /\ r \in {Missing, "Empty", "Sentinel"} => deserialize_peer_addr(r) = None
           /\ r \in {"A1", "A2"} => deserialize_peer_addr(r) = r
           /\ deserialize_peer_addr(r) # Err => r \in {Missing, "Empty", "Sentinel", "A1", "A2"}
BY DEF deserialize_peer_addr, deserialize_socket_addr, AddrRaws, ValidAddrs

\* A Config without the sentinel as its peer address renders to a text
\* that both parsers read back as the same Config.
LEMMA RoundTrip ==
    ASSUME NEW c \in Configs, c.addr_to_peers # "Sentinel"
    PROVE  /\ FromStr(ToToml(c)) = c
           /\ FromServer(ToToml(c)) = c
<1> DEFINE t == ToToml(c)
<1>1. t \in Texts /\ Layered(t) \in Texts
  BY CodecFacts, ToTomlType, LayeredType
<1>2. /\ c.ingest_srv_addr \in ValidAddrs /\ c.retention \in ValidRets
      /\ c.addr_to_peers \in {"A1", "A2", None} /\ c.peers \in PeerRaws \cup {None}
      /\ c = [ingest_srv_addr |-> c.ingest_srv_addr, retention |-> c.retention,
              addr_to_peers |-> c.addr_to_peers, peers |-> c.peers]
  BY CodecFacts DEF Configs, ValidAddrs
<1>3. /\ t.ingest_srv_addr = c.ingest_srv_addr /\ t.retention = c.retention
      /\ t.addr_to_peers = IF c.addr_to_peers = None THEN Missing ELSE c.addr_to_peers
      /\ t.peers = IF c.peers = None THEN Missing ELSE c.peers
  BY CodecFacts DEF ToToml
<1>4. /\ deserialize_peer_addr(t.addr_to_peers) = c.addr_to_peers
      /\ deserialize_peer_addr(Layered(t).addr_to_peers) = c.addr_to_peers
  BY CodecFacts, <1>1, <1>2, <1>3, LayeredFields, PeerAddrCases DEF Texts
<1>5. (IF t.peers = Missing THEN None ELSE t.peers) = c.peers
  BY CodecFacts, <1>2, <1>3
<1>6. FromStr(t) = c
  BY CodecFacts, <1>1, <1>2, <1>3, <1>4, <1>5, DeserializeOk DEF FromStr
<1>7. /\ Layered(t).ingest_srv_addr = c.ingest_srv_addr
      /\ Layered(t).retention = c.retention
      /\ Layered(t).peers = t.peers
  BY CodecFacts, <1>1, <1>2, <1>3, LayeredFields DEF ValidAddrs, ValidRets
<1>8. FromServer(t) = c
  BY CodecFacts, <1>1, <1>2, <1>4, <1>5, <1>7, DeserializeOk DEF FromServer
<1>9. QED
  BY CodecFacts, <1>6, <1>8

\* A draft that toml::from_str accepts means the same Config to
\* Settings::from_server: every key a default fills in is one whose
\* absence from_str already reads the same way.
LEMMA ParsersAgreeLemma ==
    ASSUME NEW t \in Texts, IsConfig(FromStr(t))
    PROVE  FromServer(t) = FromStr(t)
<1>1. /\ t.ingest_srv_addr \in ValidAddrs /\ t.retention \in ValidRets
      /\ deserialize_peer_addr(t.addr_to_peers) # Err
  BY CodecFacts, DeserializeOkInv DEF FromStr, IsConfig
<1>2. Layered(t) \in Texts
  BY CodecFacts, LayeredType
<1>3. /\ Layered(t).ingest_srv_addr = t.ingest_srv_addr
      /\ Layered(t).retention = t.retention
      /\ Layered(t).peers = t.peers
  BY CodecFacts, <1>1, LayeredFields DEF ValidAddrs, ValidRets
<1>5. deserialize_peer_addr(Layered(t).addr_to_peers)
        = deserialize_peer_addr(t.addr_to_peers)
  <2>1. CASE t.addr_to_peers = Missing
    <3>1. Layered(t).addr_to_peers = "Sentinel"
      BY <2>1, LayeredFields
    <3>2. QED
      BY <2>1, <3>1 DEF deserialize_peer_addr
  <2>2. CASE t.addr_to_peers # Missing
    BY <2>2, LayeredFields
  <2>3. QED
    BY <2>1, <2>2
<1>4. QED
  BY CodecFacts, <1>1, <1>2, <1>3, <1>5, DeserializeOk DEF FromServer, FromStr

\* With every other key loadable, a missing, empty or sentinel
\* addr_to_peers loads as None.
LEMMA PeerAddrAbsentLemma ==
    ASSUME NEW t \in Texts, t.addr_to_peers \in {"Sentinel", "Empty", Missing},
           IsConfig(FromServer([t EXCEPT !.addr_to_peers = "A1"]))
    PROVE  IsConfig(FromServer(t)) /\ FromServer(t).addr_to_peers = None
<1> DEFINE u == [t EXCEPT !.addr_to_peers = "A1"]
<1>1. u \in Texts /\ Layered(u) \in Texts /\ Layered(t) \in Texts
  BY CodecFacts, LayeredType DEF Texts, AddrRaws, ValidAddrs
<1>2. /\ Layered(u).ingest_srv_addr \in ValidAddrs
      /\ Layered(u).retention \in ValidRets
  BY CodecFacts, <1>1, DeserializeOkInv DEF FromServer, IsConfig
<1>8. u.ingest_srv_addr = t.ingest_srv_addr /\ u.retention = t.retention
  BY DEF Texts
<1>9. /\ Layered(t).ingest_srv_addr = Layered(u).ingest_srv_addr
      /\ Layered(t).retention = Layered(u).retention
  BY <1>1, <1>8, LayeredFields
<1>3. Layered(t).addr_to_peers \in {"Sentinel", "Empty"}
  BY CodecFacts, LayeredFields
<1>4. deserialize_peer_addr(Layered(t).addr_to_peers) = None
  BY CodecFacts, <1>3 DEF deserialize_peer_addr
<1>5. FromServer(t) = [ingest_srv_addr |-> Layered(t).ingest_srv_addr,
                       retention |-> Layered(t).retention,
                       addr_to_peers |-> None,
                       peers |-> IF Layered(t).peers = Missing THEN None
                                 ELSE Layered(t).peers]
  BY CodecFacts, <1>1, <1>2, <1>9, <1>4, DeserializeOk DEF FromServer
<1>6. Layered(t).peers \in PeerRaws \cup {Missing}
  BY <1>1 DEF Texts
<1>7. FromServer(t) \in Configs
  BY <1>2, <1>9, <1>5, <1>6 DEF Configs
<1>10. QED
  BY CodecFacts, <1>5, <1>7 DEF IsConfig

\* Replacing the peers array of a loadable source replaces the peers of
\* the Config it loads to, and nothing else.
LEMMA FromServerPeers ==
    ASSUME NEW t \in Texts, t.peers # Missing, NEW p \in PeerRaws,
           IsConfig(FromServer(t))
    PROVE  /\ [t EXCEPT !.peers = p] \in Texts
           /\ FromServer([t EXCEPT !.peers = p]) = [FromServer(t) EXCEPT !.peers = p]
<1> DEFINE u == [t EXCEPT !.peers = p]
<1>1. u \in Texts /\ Layered(u) \in Texts /\ Layered(t) \in Texts
  BY CodecFacts, LayeredType DEF Texts
<1>2. /\ Layered(t).ingest_srv_addr \in ValidAddrs
      /\ Layered(t).retention \in ValidRets
      /\ deserialize_peer_addr(Layered(t).addr_to_peers) # Err
  BY CodecFacts, <1>1, DeserializeOkInv DEF FromServer, IsConfig
<1>7. /\ u.ingest_srv_addr = t.ingest_srv_addr /\ u.retention = t.retention
      /\ u.addr_to_peers = t.addr_to_peers /\ u.peers = p
  BY DEF Texts
<1>3. /\ Layered(u).ingest_srv_addr = Layered(t).ingest_srv_addr
      /\ Layered(u).retention = Layered(t).retention
      /\ Layered(u).addr_to_peers = Layered(t).addr_to_peers
      /\ Layered(u).peers = p /\ Layered(t).peers = t.peers
  BY <1>1, <1>7, LayeredFields
<1>4. FromServer(t) = [ingest_srv_addr |-> Layered(t).ingest_srv_addr,
                       retention |-> Layered(t).retention,
                       addr_to_peers |-> deserialize_peer_addr(Layered(t).addr_to_peers),
                       peers |-> t.peers]
  BY CodecFacts, <1>1, <1>2, <1>3, DeserializeOk DEF FromServer
<1>5. FromServer(u) = [ingest_srv_addr |-> Layered(t).ingest_srv_addr,
                       retention |-> Layered(t).retention,
                       addr_to_peers |-> deserialize_peer_addr(Layered(t).addr_to_peers),
                       peers |-> p]
  BY CodecFacts, <1>1, <1>2, <1>3, DeserializeOk, CodecAssumption DEF FromServer
<1>6. QED
  BY CodecFacts, <1>1, <1>4, <1>5

=============================================================================
