----------------------------- MODULE ConfigCodec -----------------------------
(***************************************************************************)
(* The configuration codec of src/settings.rs: how a Config is built from  *)
(* a TOML source and rendered back to one.                                 *)
(*                                                                         *)
(*  - toml::from_str::<Config> (used by set_config) deserializes the text  *)
(*    alone: a field without a serde default must be present;              *)
(*  - Settings::from_file, from_server and new layer the text over         *)
(*    default_config_builder(), which gives every key but peers a default  *)
(*    (addr_to_peers defaults to the sentinel 254.254.254.254:38383);      *)
(*  - Settings::to_toml_string serializes with toml, which leaves out the  *)
(*    fields that are None.                                                *)
(*                                                                         *)
(* Fields of one kind are deserialized by the same code, so one key of     *)
(* each kind stands for all of them: ingest_srv_addr for the three         *)
(* deserialize_socket_addr fields, retention for the fields serde reads    *)
(* natively (paths, durations, integers), and addr_to_peers and peers.     *)
(* A raw value is a token for a class of strings, not the string itself;   *)
(* a TOML text is a record from the keys to raw values or Missing.         *)
(***************************************************************************)
EXTENDS Naturals

\* Raw values of the address keys: two valid IP:port strings, the peer
\* sentinel (itself a valid IP:port), the empty string and a malformed one.
ValidAddrs == {"A1", "A2", "Sentinel"}
AddrRaws == ValidAddrs \cup {"Empty", "Bad"}
\* Raw values of the natively typed fields: two well-typed, one ill-typed.
ValidRets == {"R1", "R2"}
RetRaws == ValidRets \cup {"RBad"}
\* Raw values of peers: an empty array and a one-peer array.
PeerRaws == {"P0", "P1"}

CONSTANTS
    Missing,   \* the key is absent from the source
    None,      \* Option::None in a Config field
    Err        \* a ConfigError or toml::de::Error

\* A deserialization result that is a Config rather than an error or
\* nothing yet.
IsConfig(x) == x \notin {Err, Missing}

\* A TOML source: each key holds a raw value or is missing.
Texts == [ingest_srv_addr : AddrRaws \cup {Missing},
          retention : RetRaws \cup {Missing},
          addr_to_peers : AddrRaws \cup {Missing},
          peers : PeerRaws \cup {Missing}]

Configs == [ingest_srv_addr : ValidAddrs,
            retention : ValidRets,
            addr_to_peers : ValidAddrs \cup {None},
            peers : PeerRaws \cup {None}]

\* Absent, None and an error are three different things, none of them a
\* raw value of a key or a Config.
ASSUME CodecAssumption ==
    /\ Missing # None /\ Missing # Err /\ None # Err
    /\ {Missing, None, Err} \cap (AddrRaws \cup RetRaws \cup PeerRaws) = {}
    /\ {Missing, Err} \cap Configs = {}

\* default_config_builder(): the defaults every layered build starts from.
Defaults == [ingest_srv_addr |-> "A1", retention |-> "R1",
             addr_to_peers |-> "Sentinel", peers |-> Missing]

\* deserialize_socket_addr: the string must parse as IP:port.
deserialize_socket_addr(raw) == IF raw \in ValidAddrs THEN raw ELSE Err

\* Seeded fault: the sentinel is not recognised, only the empty string.
deserialize_peer_addr_no_sentinel(raw) ==
    CASE raw = Missing -> None
      [] raw = "Empty" -> None
      [] OTHER -> deserialize_socket_addr(raw)

\* deserialize_peer_addr, with the field's #[serde(default)]: a missing key,
\* the sentinel and the empty string are all "no clustering", anything else
\* must parse as IP:port.
deserialize_peer_addr(raw) ==
    CASE raw = Missing -> None
      [] raw \in {"Sentinel", "Empty"} -> None
      [] OTHER -> deserialize_socket_addr(raw)

\* Seeded fault: addr_to_peers without #[serde(default)], so a source
\* without the key does not deserialize.
DeserializeNoPeerDefault(t) ==
    LET ingest == IF t.ingest_srv_addr = Missing THEN Err
                  ELSE deserialize_socket_addr(t.ingest_srv_addr)
        peerAddr == IF t.addr_to_peers = Missing THEN Err
                    ELSE deserialize_peer_addr(t.addr_to_peers)
    IN IF ingest = Err \/ t.retention \in {Missing, "RBad"} \/ peerAddr = Err
         THEN Err
         ELSE [ingest_srv_addr |-> ingest, retention |-> t.retention,
               addr_to_peers |-> peerAddr,
               peers |-> IF t.peers = Missing THEN None ELSE t.peers]

\* The derived Deserialize of Config over a source: a missing or malformed
\* required field is an error, addr_to_peers goes through
\* deserialize_peer_addr, and a missing peers is None.
Deserialize(t) ==
    LET ingest == IF t.ingest_srv_addr = Missing THEN Err
                  ELSE deserialize_socket_addr(t.ingest_srv_addr)
        peerAddr == deserialize_peer_addr(t.addr_to_peers)
    IN IF ingest = Err \/ t.retention \in {Missing, "RBad"} \/ peerAddr = Err
         THEN Err
         ELSE [ingest_srv_addr |-> ingest, retention |-> t.retention,
               addr_to_peers |-> peerAddr,
               peers |-> IF t.peers = Missing THEN None ELSE t.peers]

\* toml::from_str::<Config>, as set_config parses a draft.
FromStr(t) == Deserialize(t)

\* Seeded fault: the defaults are registered as overrides, so they win
\* over the source.
LayeredDefaultsWin(t) ==
    [k \in DOMAIN t |-> IF Defaults[k] = Missing THEN t[k] ELSE Defaults[k]]

\* ConfigBuilder::build with the defaults and one source on top: a key of
\* the source overrides its default.
Layered(t) == [k \in DOMAIN t |-> IF t[k] = Missing THEN Defaults[k] ELSE t[k]]

\* Settings::from_server (and from_file, which differs only in where the
\* text comes from and in recording cfg_path): build, then try_deserialize.
FromServer(t) == Deserialize(Layered(t))

\* Settings::to_toml_string: every field is written except those that
\* are None.
ToToml(c) ==
    [ingest_srv_addr |-> c.ingest_srv_addr,
     retention |-> c.retention,
     addr_to_peers |-> IF c.addr_to_peers = None THEN Missing ELSE c.addr_to_peers,
     peers |-> IF c.peers = None THEN Missing ELSE c.peers]

=============================================================================
