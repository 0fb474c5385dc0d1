---------------------------- MODULE DocEditorProofs ----------------------------
(***************************************************************************)
(* Proofs about DocEditor for every start file: unless the last write was *)
(* cut short, the config file reloads to the Config the last completed    *)
(* write stands for, across crashes, failed writes and restarts.          *)
(***************************************************************************)
EXTENDS DocEditor, ConfigCodecProofs

USE CodecAssumption

\* The inductive invariant.  The process runs with a Config loaded from a
\* file, which never has the sentinel as its peer address; the document
\* being edited or written loads to the Config the update stands for; and
\* Durable itself.
DocInv ==
    /\ TypeOK
    /\ running.addr_to_peers # "Sentinel"
    /\ phase # "idle" => /\ doc \in Texts
                         /\ FromServer(doc) = pending
    /\ Durable

\* A write cut after its first n keys leaves a source.
LEMMA TornType ==
    ASSUME NEW t \in Texts, NEW n \in 0..Len(KeyOrder)
    PROVE  Torn(t, n) \in Texts
<1>1. Len(KeyOrder) = 4 /\ DOMAIN KeyOrder = 1..4
  BY DEF KeyOrder
<1>2. Torn(t, n) =
        [ingest_srv_addr |-> IF \E j \in 1..n : KeyOrder[j] = "ingest_srv_addr"
                             THEN t.ingest_srv_addr ELSE Missing,
         retention |-> IF \E j \in 1..n : KeyOrder[j] = "retention"
                       THEN t.retention ELSE Missing,
         addr_to_peers |-> IF \E j \in 1..n : KeyOrder[j] = "addr_to_peers"
                           THEN t.addr_to_peers ELSE Missing,
         peers |-> IF \E j \in 1..n : KeyOrder[j] = "peers"
                   THEN t.peers ELSE Missing]
  BY DEF Torn, Texts
<1>3. QED
  BY <1>2 DEF Texts

\* What parse_toml_element_to_string returns for a key of a source.
LEMMA ParseElementType ==
    ASSUME NEW d \in Texts, NEW key \in DOMAIN Defaults
    PROVE  /\ parse_toml_element_to_string(key, d)
                \in {"NotFound", "TypeMismatch"} \cup AddrRaws \cup RetRaws
           /\ key = "addr_to_peers" =>
                parse_toml_element_to_string(key, d) \in {"NotFound", d.addr_to_peers}
<1>1. key \in {"ingest_srv_addr", "retention", "addr_to_peers", "peers"}
  BY DEF Defaults
<1>2. QED
  BY <1>1 DEF parse_toml_element_to_string, Texts

\* The initial states satisfy DocInv: the process runs with a loadable
\* file, and the last write is that file.
LEMMA DocInit == Init => DocInv
<1> SUFFICES ASSUME Init PROVE DocInv
  OBVIOUS
<1>1. file \in Texts /\ IsConfig(FromServer(file))
  BY DEF Init
<1>2. running \in Configs /\ running.addr_to_peers # "Sentinel"
  BY <1>1, FromServerType DEF Init
<1>3. TypeOK
  BY <1>2, <1>1 DEF Init, TypeOK, Errors
<1>4. QED
  BY <1>2, <1>3 DEF Init, DocInv, Durable

\* Every step keeps DocInv.
LEMMA DocNext == DocInv /\ [Next]_vars => DocInv'
<1> SUFFICES ASSUME DocInv, [Next]_vars PROVE DocInv'
  OBVIOUS
<1>0. /\ TypeOK /\ running.addr_to_peers # "Sentinel"
      /\ phase # "idle" => /\ doc \in Texts /\ FromServer(doc) = pending
      /\ Durable
  BY DEF DocInv
<1>1. CASE Render
  <2>1. running \in Configs
    BY <1>0 DEF TypeOK
  <2>2. ToToml(running) \in Texts /\ FromServer(ToToml(running)) = running
    BY <1>0, <2>1, ToTomlType, RoundTrip
  <2>3. QED
    BY <1>0, <1>1, <2>2
    DEF Render, settings_to_doc, DocInv, TypeOK, Durable
<1>2. ASSUME NEW key \in DOMAIN Defaults, ReadField(key)
      PROVE  DocInv'
  <2>1. phase = "edited" /\ doc \in Texts
    BY <1>0, <1>2 DEF ReadField
  <2>2. parse_toml_element_to_string(key, doc)
             \in {"NotFound", "TypeMismatch"} \cup AddrRaws \cup RetRaws
    BY <2>1, ParseElementType
  <2>3. QED
    BY <1>0, <1>2, <2>1, <2>2
    DEF ReadField, DocInv, TypeOK, Durable
<1>3. ASSUME NEW input \in PeerInputs, InsertPeers(input)
      PROVE  DocInv'
  <2> DEFINE r == insert_toml_peers(doc, input)
  <2>1. phase = "edited" /\ doc \in Texts /\ FromServer(doc) = pending
    BY <1>0, <1>3 DEF InsertPeers
  <2>2. CASE input = None
    <3>1. r.err = "none" /\ r.doc = doc
      BY <2>2 DEF insert_toml_peers
    <3>2. QED
      BY <1>0, <1>3, <2>1, <2>2, <3>1
      DEF InsertPeers, DocInv, TypeOK, Errors, Durable
  <2>3. CASE input # None /\ doc.peers = Missing
    <3>1. r.err = "NotFound"
      BY <2>3 DEF insert_toml_peers
    <3>2. QED
      BY <1>0, <1>3, <2>1, <3>1
      DEF InsertPeers, DocInv, TypeOK, Errors, Durable
  <2>4. CASE input # None /\ doc.peers # Missing
    <3>1. input \in PeerRaws
      BY <2>4 DEF PeerInputs
    <3>2. r.err = "none" /\ r.doc = [doc EXCEPT !.peers = input]
      BY <2>4 DEF insert_toml_peers
    <3>3. pending \in Configs /\ IsConfig(FromServer(doc))
      BY <1>0, <2>1, CodecFacts DEF TypeOK, IsConfig
    <3>4. /\ [doc EXCEPT !.peers = input] \in Texts
          /\ FromServer([doc EXCEPT !.peers = input]) = [pending EXCEPT !.peers = input]
      BY <2>1, <2>4, <3>1, <3>3, FromServerPeers
    <3>5. [pending EXCEPT !.peers = input] \in Configs
      BY <3>1, <3>3 DEF Configs
    <3>7. /\ doc' = [doc EXCEPT !.peers = input]
          /\ pending' = [pending EXCEPT !.peers = input]
          /\ phase' = phase /\ lastErr' = "none"
          /\ UNCHANGED <<up, running, file, lastRead, expected, torn>>
      BY <1>3, <2>4, <3>2 DEF InsertPeers
    <3>8. QED
      BY <1>0, <2>1, <3>4, <3>5, <3>7
      DEF DocInv, TypeOK, Errors, Durable
  <2>5. QED
    BY <2>2, <2>3, <2>4
<1>4. CASE Truncate
  <2>1. Torn(file, 0) \in Texts
    BY <1>0, TornType DEF TypeOK, KeyOrder
  <2>2. QED
    BY <1>0, <1>4, <2>1 DEF Truncate, DocInv, TypeOK, Durable
<1>5. CASE WriteOpenError
  <2>1. phase = "edited"
    BY <1>5 DEF WriteOpenError
  <2>2. QED
    BY <1>0, <1>5, <2>1
    DEF WriteOpenError, DocInv, TypeOK, Errors, Durable
<1>6. CASE WriteOut
  <2>1. phase = "truncated" /\ doc \in Texts /\ FromServer(doc) = pending
    BY <1>0, <1>6 DEF WriteOut
  <2>2. QED
    BY <1>0, <1>6, <2>1 DEF WriteOut, DocInv, TypeOK, Durable
<1>11. CASE WriteError
  <2>1. phase = "truncated" /\ doc \in Texts
    BY <1>0, <1>11 DEF WriteError
  <2>2. PICK n \in 0..Len(KeyOrder) - 1 : file' = Torn(doc, n)
    BY <1>11 DEF WriteError
  <2>3. n \in 0..Len(KeyOrder)
    BY DEF KeyOrder
  <2>4. file' \in Texts
    BY <2>1, <2>2, <2>3, TornType
  <2>5. QED
    BY <1>0, <1>11, <2>4 DEF WriteError, DocInv, TypeOK, Errors, Durable
<1>7. CASE Crash
  <2>1. CASE phase = "truncated"
    <3>1. PICK n \in 0..Len(KeyOrder) - 1 : file' = Torn(doc, n)
      BY <1>7, <2>1 DEF Crash
    <3>2. n \in 0..Len(KeyOrder)
      BY DEF KeyOrder
    <3>3. file' \in Texts
      BY <1>0, <2>1, <3>1, <3>2, TornType
    <3>4. QED
      BY <1>0, <1>7, <2>1, <3>3 DEF Crash, DocInv, TypeOK, Durable
  <2>2. CASE phase # "truncated"
    BY <1>0, <1>7, <2>2 DEF Crash, DocInv, TypeOK, Durable
  <2>3. QED
    BY <2>1, <2>2
<1>8. CASE Restart
  <2>1. file \in Texts /\ IsConfig(FromServer(file))
    BY <1>0, <1>8 DEF Restart, TypeOK
  <2>2. FromServer(file) \in Configs /\ FromServer(file).addr_to_peers # "Sentinel"
    BY <2>1, FromServerType
  <2>3. QED
    BY <1>0, <1>8, <2>2 DEF Restart, DocInv, TypeOK, Durable
<1>9. CASE UNCHANGED vars
  BY <1>0, <1>9 DEF vars, DocInv, TypeOK, Durable
<1>10. QED
  BY <1>1, <1>2, <1>3, <1>4, <1>5, <1>6, <1>11, <1>7, <1>8, <1>9 DEF Next

\* DocInv holds in every reachable state.
LEMMA DocInvHolds == Spec => []DocInv
BY DocInit, DocNext, PTL DEF Spec

\* Spec 4.2 and 6, for every start file: unless the last write was cut
\* short by a crash after write_toml_file's truncating open or by a failed
\* writeln!, the config file, once no write is in flight, loads with
\* Settings::from_file to the Config the last completed peer update meant.
THEOREM DurableHolds == Spec => []Durable
<1>1. DocInv => Durable
  BY DEF DocInv
<1>2. QED
  BY <1>1, DocInvHolds, PTL

=============================================================================
