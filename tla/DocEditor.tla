------------------------------ MODULE DocEditor ------------------------------
(***************************************************************************)
(* The document editor of src/graphql/status.rs and the config file it     *)
(* writes, across crashes of the process.                                  *)
(*                                                                         *)
(* A peer update (the caller is outside src/ and follows spec 4.2) renders *)
(* the live Settings with settings_to_doc, may read a field with           *)
(* parse_toml_element_to_string, replaces the peers array with             *)
(* insert_toml_peers and writes the document back with write_toml_file,    *)
(* which opens the file with truncate(true) and then writes the text.      *)
(* The process may crash at any point; it restarts with                    *)
(* Settings::from_file on whatever the file then holds.  A write cut short *)
(* leaves the keys written so far, in the order toml serializes them.      *)
(*                                                                         *)
(* Documents and files are texts of ConfigCodec.  The comments and the     *)
(* key order a toml_edit document preserves are not modelled: no property  *)
(* here is about them.                                                     *)
(***************************************************************************)
EXTENDS ConfigCodec, Sequences

\* The order in which toml::to_string writes the fields of Config.
KeyOrder == <<"ingest_srv_addr", "retention", "addr_to_peers", "peers">>

\* The text of a file whose write stopped after its first n keys.
Torn(t, n) ==
    [k \in DOMAIN t |-> IF \E j \in 1..n : KeyOrder[j] = k THEN t[k] ELSE Missing]

\* The inputs of insert_toml_peers: None, or Some of a peer list.
PeerInputs == {None} \cup PeerRaws

\* settings_to_doc: to_toml_string, then parsed into a DocumentMut.
settings_to_doc(c) == ToToml(c)

\* parse_toml_element_to_string: the key's value if it is a string, else
\* NotFound (no such key) or TypeMismatch (an array, such as peers).
parse_toml_element_to_string(key, d) ==
    IF d[key] = Missing THEN "NotFound"
    ELSE IF key = "peers" THEN "TypeMismatch"
    ELSE d[key]

\* Seeded fault: None is taken as an empty list, clearing the array.
insert_toml_peers_none_clears(d, input) ==
    IF input = None
      THEN [doc |-> IF d.peers = Missing THEN d ELSE [d EXCEPT !.peers = "P0"],
            err |-> "none"]
    ELSE IF d.peers = Missing THEN [doc |-> d, err |-> "NotFound"]
    ELSE [doc |-> [d EXCEPT !.peers = input], err |-> "none"]

\* insert_toml_peers: None leaves the document alone; Some(list) needs an
\* existing peers array (else "peers option not found"), clears it and
\* pushes one inline table per peer.  value(..).as_value() of a string is
\* always Some, so the error inside the loop cannot happen.
insert_toml_peers(d, input) ==
    IF input = None THEN [doc |-> d, err |-> "none"]
    ELSE IF d.peers = Missing THEN [doc |-> d, err |-> "NotFound"]
    ELSE [doc |-> [d EXCEPT !.peers = input], err |-> "none"]

-----------------------------------------------------------------------------

VARIABLES
    up,        \* the process is running
    running,   \* the Config it runs with (the last one it loaded)
    file,      \* the text of the config file on disk
    doc,       \* the document being edited, or None
    phase,     \* "idle", "edited" (doc ready) or "truncated" (file opened)
    lastErr,   \* the error of the last update, or "none"
    lastRead,  \* the key last read and what parse_toml_element_to_string returned
    expected,  \* history: the Config the last completed write stands for
    pending,   \* history: the Config the write in progress stands for
    torn       \* history: a crash or a failed write cut the last write short

vars == <<up, running, file, doc, phase, lastErr, lastRead, expected, pending, torn>>

Errors == {"none", "NotFound", "IoError"}

TypeOK ==
    /\ up \in BOOLEAN
    /\ running \in Configs
    /\ file \in Texts
    /\ doc = None \/ doc \in Texts
    /\ phase \in {"idle", "edited", "truncated"}
    /\ lastErr \in Errors
    /\ lastRead \in ({"none"} \cup DOMAIN Defaults)
                    \X ({"none", "NotFound", "TypeMismatch"} \cup AddrRaws \cup RetRaws)
    /\ expected \in Configs /\ pending \in Configs
    /\ torn \in BOOLEAN

\* The process runs with Settings::from_file on a file that loads.
Init ==
    /\ file \in {t \in Texts : IsConfig(FromServer(t))}
    /\ up = TRUE
    /\ running = FromServer(file)
    /\ doc = None
    /\ phase = "idle"
    /\ lastErr = "none"
    /\ lastRead = <<"none", "none">>
    /\ expected = running
    /\ pending = running
    /\ torn = FALSE

\* The caller renders the live Settings into a document.
Render ==
    /\ up
    /\ phase = "idle"
    /\ doc' = settings_to_doc(running)
    /\ phase' = "edited"
    /\ pending' = running
    /\ UNCHANGED <<up, running, file, lastErr, lastRead, expected, torn>>

\* The caller reads one string field of the document.
ReadField(key) ==
    /\ phase = "edited"
    /\ lastRead' = <<key, parse_toml_element_to_string(key, doc)>>
    /\ UNCHANGED <<up, running, file, doc, phase, lastErr, expected, pending, torn>>

\* The caller replaces the peer list; on an error it gives the update up.
InsertPeers(input) ==
    LET r == insert_toml_peers(doc, input) IN
    /\ phase = "edited"
    /\ lastErr' = r.err
    /\ IF r.err = "none"
         THEN /\ doc' = r.doc
              /\ pending' = IF input = None THEN pending
                            ELSE [pending EXCEPT !.peers = input]
              /\ UNCHANGED phase
         ELSE /\ doc' = None
              /\ phase' = "idle"
              /\ UNCHANGED pending
    /\ UNCHANGED <<up, running, file, lastRead, expected, torn>>

\* write_toml_file: OpenOptions::new().write(true).truncate(true).open(path)
\* empties the file.
Truncate ==
    /\ phase = "edited"
    /\ file' = Torn(file, 0)
    /\ phase' = "truncated"
    /\ UNCHANGED <<up, running, doc, lastErr, lastRead, expected, pending, torn>>

\* write_toml_file: the open fails (permission, missing file); the error is
\* returned and the file is untouched.
WriteOpenError ==
    /\ phase = "edited"
    /\ lastErr' = "IoError"
    /\ doc' = None
    /\ phase' = "idle"
    /\ UNCHANGED <<up, running, file, lastRead, expected, pending, torn>>

\* write_toml_file: writeln! puts the whole text of the document.
WriteOut ==
    /\ phase = "truncated"
    /\ file' = doc
    /\ doc' = None
    /\ phase' = "idle"
    /\ expected' = pending
    /\ torn' = FALSE
    /\ UNCHANGED <<up, running, lastErr, lastRead, pending>>

\* write_toml_file: writeln! fails (disk full, I/O error) after the
\* truncating open; `?` returns the error to the caller, the process runs
\* on, and the file keeps the keys written before the failure.
WriteError ==
    /\ phase = "truncated"
    /\ \E n \in 0..Len(KeyOrder) - 1 : file' = Torn(doc, n)
    /\ lastErr' = "IoError"
    /\ doc' = None
    /\ phase' = "idle"
    /\ torn' = TRUE
    /\ UNCHANGED <<up, running, lastRead, expected, pending>>

\* The process dies; a write in progress leaves the keys written so far.
Crash ==
    /\ up
    /\ up' = FALSE
    /\ IF phase = "truncated"
         THEN /\ \E n \in 0..Len(KeyOrder) - 1 : file' = Torn(doc, n)
              /\ torn' = TRUE
         ELSE UNCHANGED <<file, torn>>
    /\ doc' = None
    /\ phase' = "idle"
    /\ UNCHANGED <<running, lastErr, lastRead, expected, pending>>

\* Settings::from_file: the file layered over the defaults.  A file that
\* does not load keeps the process down.
Restart ==
    /\ ~up
    /\ IsConfig(FromServer(file))
    /\ up' = TRUE
    /\ running' = FromServer(file)
    /\ UNCHANGED <<file, doc, phase, lastErr, lastRead, expected, pending, torn>>

Next ==
    \/ Render
    \/ \E key \in DOMAIN Defaults : ReadField(key)
    \/ \E input \in PeerInputs : InsertPeers(input)
    \/ Truncate
    \/ WriteOpenError
    \/ WriteOut
    \/ WriteError
    \/ Crash
    \/ Restart

Spec == Init /\ [][Next]_vars

-----------------------------------------------------------------------------
(* Properties.                                                             *)

\* Spec 4.2 and 6: unless the last write was cut short (a crash after the
\* truncating open, or a failed writeln!), the config file, once no write
\* is in flight, loads (Settings::from_file) to the Config the last
\* completed peer update meant: the live Config it rendered with its peer
\* list replaced, or kept when the input was None.  A cut-short write is
\* the non-atomic overwrite spec 5 accepts; the next completed write must
\* repair it, across any number of crashes, failures and restarts.
\* Breaks if rendering, the peer replacement or the defaults of the reload
\* disagree, or if a complete write could leave a stale file.
Durable ==
    ~torn /\ phase # "truncated" => FromServer(file) = expected

\* Spec 4.2 and 6: a rendered document never loses a field, so replacing
\* the peers of a document rendered from the live Settings finds the peers
\* array.
PeersReplaceable == lastErr # "NotFound"

=============================================================================
