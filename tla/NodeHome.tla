------------------------------- MODULE NodeHome -------------------------------
(***************************************************************************)
(* ~/.truthctl of one node: keys.json, config.json, peers.json, and the      *)
(* database file; and the commands of truthctl that change them. A command   *)
(* reads a file, then fs::write truncates it and then fills it: two commands *)
(* at a time, or one that is killed, can lose what others wrote, and a       *)
(* reader can meet a file that does not parse.                              *)
(*                                                                          *)
(* Ids, names, timestamps and private keys are left out; a key is a pair.     *)
(***************************************************************************)
EXTENDS Integers, FiniteSets, Sequences, FiniteSetsExt, SequencesExt

CONSTANTS
    Proc,        \* truthctl processes
    Key,         \* key pairs that may be generated or imported
    Url,         \* addresses of other nodes
    Port,        \* ports of this node; its own address is http://127.0.0.1:port
    DefaultPort, \* 8080
    MaxRuns,     \* bound on the commands
    NoKey,       \* public_key is ""
    None,        \* no file
    Torn         \* a file that does not parse

ASSUME HomeAssump ==
    /\ DefaultPort \in Port /\ Port \cap Url = {}
    /\ NoKey \notin Key /\ {None, Torn} \cap Key = {}
    /\ MaxRuns \in Nat

File == {"keys", "config", "peers"}
DefaultConfig == [port |-> DefaultPort, key |-> NoKey]

\* What the files hold: keys, a configuration, entries for peers.
Held == Key \cup {NoKey}
Config == [port : Port, key : Held]
PeerEntry == [url : Url \cup Port \cup {None}, key : Held]

ASSUME MarkersAssump ==
    /\ None # Torn
    /\ None \notin Seq(Held) /\ None \notin Config /\ None \notin Seq(PeerEntry)
    /\ Torn \notin Seq(Held) /\ Torn \notin Config /\ Torn \notin Seq(PeerEntry)

VARIABLES
    disk,      \* disk[f]: None, Torn or the content of file f
    db,        \* whether the database file exists
    job,       \* job[p]: the command of process p
    made,      \* keys generated or imported so far
    runs,      \* commands so far, for their bound
    kept,      \* history: what finished commands have put into keys.json and peers.json
    disturbed, \* history: files that two commands handled at a time; peers.json left torn
    alone,     \* history: no two commands ever overlapped and none was killed
    stale      \* history: a reset was told to replace the key and keep peers.json

vars == <<disk, db, job, made, runs, kept, disturbed, alone, stale>>

Idle == [cmd |-> "none", todo |-> <<>>, phase |-> "load", next |-> None,
         key |-> NoKey, url |-> None, flag |-> FALSE, port |-> DefaultPort]

Init ==
    /\ disk = [f \in File |-> None]
    /\ db \in BOOLEAN
    /\ job = [p \in Proc |-> Idle]
    /\ made = {}
    /\ runs = 0
    /\ kept = [keys |-> {}, peers |-> {}]
    /\ disturbed = {}
    /\ alone = TRUE
    /\ stale = FALSE

-----------------------------------------------------------------------------
(* Loaders.                                                                   *)

\* Slip: load_keys reads a torn file like load_peers does.
FailsNever(f, tolerant) == FALSE

\* load_keys and load_config report a file that does not parse; load_peers and the
\* loaders of diagnostics.rs take it for an empty one.
Fails(f, tolerant) == disk[f] = Torn /\ f # "peers" /\ ~tolerant

Loaded(f) == IF disk[f] \in {None, Torn}
             THEN (IF f = "config" THEN DefaultConfig ELSE <<>>)
             ELSE disk[f]

-----------------------------------------------------------------------------
(* Commands.                                                                  *)

Free(p) == job[p].todo = <<>>

Start(p, j) ==
    /\ Free(p)
    /\ runs < MaxRuns
    /\ runs' = runs + 1
    /\ job' = [job EXCEPT ![p] = j]
    /\ alone' = (alone /\ \A q \in Proc : Free(q))
    /\ UNCHANGED <<disk, db, kept, disturbed>>

\* keys generate --save, of a key not made before, and keys import, of any.
KeysAdd(p, k) ==
    /\ made' = made \cup {k}
    /\ Start(p, [Idle EXCEPT !.cmd = "add-key", !.todo = <<"keys">>, !.key = k])
    /\ UNCHANGED stale

\* run_init_node: the first key, then config.json, then the node's own peer entry.
InitSteps(auto) == <<"first", "config">> \o (IF auto THEN <<"peers">> ELSE <<>>)

InitNode(p, port, auto) ==
    /\ Start(p, [Idle EXCEPT !.cmd = "init", !.todo = InitSteps(auto), !.port = port, !.flag = auto])
    /\ UNCHANGED <<made, stale>>

\* config set; the other keys do not matter to anything modelled.
ConfigSet(p, port) ==
    /\ Start(p, [Idle EXCEPT !.cmd = "set", !.todo = <<"config">>, !.port = port])
    /\ UNCHANGED <<made, stale>>

\* config reset --confirm
ConfigReset(p) ==
    /\ Start(p, [Idle EXCEPT !.cmd = "reset-config", !.todo = <<"config">>])
    /\ UNCHANGED <<made, stale>>

PeersAdd(p, url, k) ==
    /\ Start(p, [Idle EXCEPT !.cmd = "add-peer", !.todo = <<"peers">>, !.url = url, !.key = k])
    /\ UNCHANGED <<made, stale>>

\* reset_local_data: replace is the answer "2" of the dialogue.
Reset(p, remove, reinit, replace, k) ==
    /\ k \notin made
    /\ replace => reinit
    /\ made' = IF reinit THEN made \cup {k} ELSE made
    /\ stale' = (stale \/ (replace /\ ~remove))
    /\ Start(p, [Idle EXCEPT !.cmd = "reset", !.key = k, !.flag = replace,
                   !.todo = <<"wipe">> \o (IF remove THEN <<"unlink">> ELSE <<>>)
                            \o (IF reinit THEN <<"keys">> \o InitSteps(TRUE) ELSE <<>>)])

\* peers sync-all and logs show open the database, which creates it.
OpenDb ==
    /\ db' = TRUE
    /\ UNCHANGED <<disk, job, made, runs, kept, disturbed, alone, stale>>

-----------------------------------------------------------------------------
(* The steps of a command.                                                    *)

At(p, step, phase) == ~Free(p) /\ Head(job[p].todo) = step /\ job[p].phase = phase

Done(j) == [j EXCEPT !.todo = Tail(@), !.phase = "load", !.next = None]

\* Slip: a new key is put first.
NewKeysInFront(j) ==
    LET old == Loaded("keys") IN
    IF j.cmd = "add-key" THEN <<j.key>> \o old
    ELSE IF old = <<>> THEN <<j.key>>
    ELSE IF j.flag THEN [old EXCEPT ![1] = j.key]
    ELSE old

\* Slip: a reset that may keep the key replaces it.
NewKeysAlways(j) ==
    LET old == Loaded("keys") IN
    IF j.cmd = "add-key" THEN Append(old, j.key)
    ELSE IF old = <<>> THEN <<j.key>>
    ELSE [old EXCEPT ![1] = j.key]

\* What a command makes of keys.json. ensure_keypair_exists generates a key when
\* there is none and replaces the first when told to.
NewKeys(j) ==
    LET old == Loaded("keys") IN
    IF j.cmd = "add-key" THEN Append(old, j.key)
    ELSE IF old = <<>> THEN <<j.key>>
    ELSE IF j.flag THEN [old EXCEPT ![1] = j.key]
    ELSE old

NewConfig(j) ==
    CASE j.cmd = "set"          -> [Loaded("config") EXCEPT !.port = j.port]
      [] j.cmd = "reset-config" -> [DefaultConfig EXCEPT !.key = Loaded("config").key]
      [] OTHER                  -> [port |-> j.port, key |-> j.key]

Entry(j) == [url |-> IF j.cmd = "add-peer" THEN j.url ELSE j.port, key |-> j.key]

\* peers add looks an entry up by address, init-node its own by key.
Known(j) == \E i \in DOMAIN Loaded("peers") :
                IF j.cmd = "add-peer" THEN Loaded("peers")[i].url = j.url
                                      ELSE Loaded("peers")[i].key = j.key

NewPeers(j) == IF Known(j) THEN Loaded("peers") ELSE Append(Loaded("peers"), Entry(j))

New(f, j) == CASE f = "keys" -> NewKeys(j) [] f = "config" -> NewConfig(j) [] f = "peers" -> NewPeers(j)

\* config set and the keys commands fail on a torn file; config reset and reset go
\* on without it, and init-node does not read the configuration it writes.
Tolerant(j) == j.cmd \in {"reset", "reset-config", "init"}

\* Between reading f and having written it.
Handling(q, f) == ~Free(q) /\ Head(job[q].todo) = f /\ job[q].phase # "load"

Load(p, f) ==
    LET j == job[p] IN
    /\ At(p, f, "load")
    /\ job' = [job EXCEPT ![p] =
           IF Fails(f, Tolerant(j)) THEN Idle
           ELSE IF New(f, j) = Loaded(f) /\ f # "config" THEN Done(j)
           ELSE [j EXCEPT !.next = New(f, j), !.phase = "truncate"]]
    /\ disturbed' = IF \E q \in Proc \ {p} : Handling(q, f) THEN disturbed \cup {f} ELSE disturbed
    /\ UNCHANGED <<disk, db, made, runs, kept, alone, stale>>

\* The first key; none, or a keys.json that does not parse, ends the command.
FirstKey(p) ==
    /\ At(p, "first", "load")
    /\ job' = [job EXCEPT ![p] = IF Fails("keys", FALSE) \/ Loaded("keys") = <<>> THEN Idle
                                 ELSE [Done(@) EXCEPT !.key = Loaded("keys")[1]]]
    /\ UNCHANGED <<disk, db, made, runs, kept, disturbed, alone, stale>>

Truncate(p, f) ==
    /\ At(p, f, "truncate")
    /\ disk' = [disk EXCEPT ![f] = Torn]
    /\ job' = [job EXCEPT ![p].phase = "write"]
    /\ UNCHANGED <<db, made, runs, kept, disturbed, alone, stale>>

Fill(p, f) ==
    LET j == job[p] IN
    /\ At(p, f, "write")
    /\ disk' = [disk EXCEPT ![f] = j.next]
    /\ job' = [job EXCEPT ![p] = Done(j)]
    /\ kept' = CASE f = "config"                       -> kept
                 [] f = "keys" /\ j.cmd = "reset"      -> [kept EXCEPT !.keys = ToSet(j.next)]
                 [] OTHER                              -> [kept EXCEPT ![f] = @ \cup {Last(j.next)}]
    /\ UNCHANGED <<db, made, runs, disturbed, alone, stale>>

\* reset: the journal is cleared and the database removed.
Wipe(p) ==
    /\ At(p, "wipe", "load")
    /\ db' = FALSE
    /\ job' = [job EXCEPT ![p] = [Done(@) EXCEPT !.port = Loaded("config").port]]
    /\ UNCHANGED <<disk, made, runs, kept, disturbed, alone, stale>>

Unlink(p) ==
    /\ At(p, "unlink", "load")
    /\ disk' = [disk EXCEPT !["peers"] = None]
    /\ job' = [job EXCEPT ![p] = Done(@)]
    /\ kept' = [kept EXCEPT !.peers = {}]
    /\ disturbed' = IF \E q \in Proc \ {p} : Handling(q, "peers") THEN disturbed \cup {"peers"}
                    ELSE disturbed
    /\ UNCHANGED <<db, made, runs, alone, stale>>

Kill(p) ==
    /\ ~Free(p)
    /\ job' = [job EXCEPT ![p] = Idle]
    /\ alone' = FALSE
    /\ disturbed' = IF At(p, "peers", "write") THEN disturbed \cup {"peers"} ELSE disturbed
    /\ UNCHANGED <<disk, db, made, runs, kept, stale>>

-----------------------------------------------------------------------------
Next ==
    \/ \E p \in Proc, k \in Key : KeysAdd(p, k)
    \/ \E p \in Proc, port \in Port, auto \in BOOLEAN : InitNode(p, port, auto)
    \/ \E p \in Proc, port \in Port : ConfigSet(p, port)
    \/ \E p \in Proc : ConfigReset(p)
    \/ \E p \in Proc, url \in Url, k \in Key : PeersAdd(p, url, k)
    \/ \E p \in Proc, remove, reinit, replace \in BOOLEAN, k \in Key :
           Reset(p, remove, reinit, replace, k)
    \/ OpenDb
    \/ \E p \in Proc, f \in File : Load(p, f) \/ Truncate(p, f) \/ Fill(p, f)
    \/ \E p \in Proc : FirstKey(p) \/ Wipe(p) \/ Unlink(p) \/ Kill(p)

Spec == Init /\ [][Next]_vars

-----------------------------------------------------------------------------
(* Properties.                                                                *)

Quiet == alone /\ \A p \in Proc : Free(p)

Content(f) == IF f = "keys" THEN Seq(Held) ELSE IF f = "config" THEN Config ELSE Seq(PeerEntry)

Job(next) == [cmd : {"none", "add-key", "init", "set", "reset-config", "add-peer", "reset"},
              todo : Seq({"first", "wipe", "unlink"} \cup File), phase : {"load", "truncate", "write"},
              next : {next}, key : Held, url : Url \cup {None}, flag : BOOLEAN, port : Port]

\* The files hold what their loaders expect, and a command that is going to write a
\* file has read it and holds its next content.
TypeOK ==
    /\ DOMAIN disk = File /\ \A f \in File : disk[f] \in {None, Torn} \cup Content(f)
    /\ DOMAIN job = Proc /\ \A p \in Proc : job[p] \in Job(job[p].next)
    /\ \A p \in Proc, f \in File : Handling(p, f) => job[p].next \in Content(f)
    /\ made \subseteq Key /\ runs \in Nat /\ disturbed \subseteq File
    /\ kept \in [keys : SUBSET Held, peers : SUBSET PeerEntry]

\* A key or an entry that a command has saved stays, until a reset, with three
\* exceptions: two commands handled the file at a time; one died while it wrote
\* peers.json, which load_peers then reads as an empty list; or one died while it
\* wrote keys.json, which loses every key. load_keys refuses such a file, so that no
\* later command fills it with fewer keys and goes on.
HomeKept ==
    \A f \in {"keys", "peers"} :
        f \notin disturbed /\ disk[f] # Torn => kept[f] \subseteq ToSet(Loaded(f))

\* Commands one at a time leave in config.json no key but the one auth, sync-all and
\* init-node use, the first of keys.json: reset and init-node rewrite it together.
ConfigFollowsFirstKey ==
    Quiet => disk["config"] = None \/ disk["config"].key \in {NoKey, Head(Loaded("keys") \o <<NoKey>>)}

\* sync-all skips the entries that carry the first key, and so the node itself, under
\* every address it has had; unless a reset replaced the key and kept peers.json.
SelfSkipped ==
    Quiet /\ ~stale =>
        \A e \in ToSet(Loaded("peers")) : e.url \in Port => e.key = Head(Loaded("keys"))

=============================================================================
