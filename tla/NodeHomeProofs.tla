---------------------------- MODULE NodeHomeProofs ----------------------------
(***************************************************************************)
(* Proof that a node keeps its keys and its peers, for any number of         *)
(* processes, keys, addresses and commands, killed anywhere.                *)
(*                                                                          *)
(* The invariant follows a file through a command: as long as no two         *)
(* commands handle it at a time, the one that does holds in memory           *)
(* everything that finished commands have put into it. For commands one at a  *)
(* time a second one follows the key in use from keys.json to config.json and  *)
(* peers.json through the steps of init-node and of a reset.                  *)
(***************************************************************************)
EXTENDS NodeHome, SequenceFacts, TLAPS

Step == {"first", "wipe", "unlink"} \cup File
KeptFile == {"keys", "peers"}

\* Only keys generate, keys import and reset change keys.json.
KeyCommand(j) == "keys" \in ToSet(j.todo) => j.cmd \in {"add-key", "reset"}

\* reset replaces the keys.
Replaces(j, f) == f = "keys" /\ j.cmd = "reset"

Commands == \A p \in Proc : KeyCommand(job[p])

Planned == \A p \in Proc, f \in KeptFile : Handling(p, f) => job[p].next # <<>>

OneHandler ==
    \A p, q \in Proc, f \in KeptFile :
        f \notin disturbed /\ Handling(p, f) /\ Handling(q, f) => p = q

Carried ==
    \A p \in Proc, f \in KeptFile :
        f \notin disturbed /\ Handling(p, f) /\ ~Replaces(job[p], f) => kept[f] \subseteq ToSet(job[p].next)

\* peers.json is torn only while a command is writing it.
PeersWhole ==
    disk["peers"] = Torn /\ "peers" \notin disturbed => \E p \in Proc : At(p, "peers", "write")

HomeInv == Commands /\ Planned /\ OneHandler /\ Carried /\ PeersWhole /\ HomeKept

\* keys.json and peers.json are files.
LEMMA KeptIsFile == \A f \in KeptFile : f \in File /\ f # "config"
BY DEF KeptFile, File

\* A command at work holds a job of its kind, and steps ahead of it.
LEMMA AtWork ==
  ASSUME TypeOK, NEW p \in Proc, ~Free(p)
  PROVE  /\ job[p] \in Job(job[p].next) /\ job[p].todo \in Seq(Step) /\ job[p].todo # <<>>
         /\ Head(job[p].todo) \in Step /\ Tail(job[p].todo) \in Seq(Step)
         /\ Done(job[p]) \in Job(None) /\ Done(job[p]).phase = "load" /\ Done(job[p]).next = None
         /\ Done(job[p]).todo = Tail(job[p].todo) /\ Done(job[p]).cmd = job[p].cmd
         /\ Done(job[p]).key = job[p].key
<1>1. job[p] \in Job(job[p].next) /\ job[p].todo # <<>>
  BY DEF TypeOK, Free
<1>2. job[p].todo \in Seq(Step)
  BY <1>1 DEF Job, Step
<1>3. Head(job[p].todo) \in Step /\ Tail(job[p].todo) \in Seq(Step)
  BY <1>1, <1>2, ToSetTail
<1>4. Done(job[p]) \in Job(None)
  BY <1>1, <1>3 DEF Done, Job, Step
<1> QED BY <1>1, <1>2, <1>3, <1>4 DEF Done, Job

\* The content of a file that a command has not yet read, or of one it could not.
LEMMA LoadedContent ==
  ASSUME TypeOK, NEW f \in File
  PROVE  Loaded(f) \in Content(f)
<1>1. DefaultConfig \in Config
  BY HomeAssump DEF DefaultConfig, Config, Held
<1>2. disk[f] \in {None, Torn} \cup Content(f)
  BY DEF TypeOK
<1>3. CASE f = "config"
  BY <1>1, <1>2, <1>3 DEF Loaded, Content
<1>4. CASE f \in KeptFile
  <2>1. <<>> \in Content(f)
    BY <1>4 DEF Content, KeptFile
  <2> QED BY <1>2, <1>4, <2>1, KeptIsFile DEF Loaded
<1> QED BY <1>3, <1>4 DEF File, KeptFile

\* What a command makes of a file is a content of it. What it plans for keys.json or
\* peers.json is not empty, and leaves nothing out unless it is the key of a reset.
LEMMA NewContent ==
  ASSUME TypeOK, NEW p \in Proc, ~Free(p), NEW f \in File, Head(job[p].todo) = f,
         KeyCommand(job[p])
  PROVE  /\ New(f, job[p]) \in Content(f)
         /\ f \in KeptFile /\ New(f, job[p]) # Loaded(f) =>
               /\ New(f, job[p]) # <<>>
               /\ ~Replaces(job[p], f) => ToSet(Loaded(f)) \subseteq ToSet(New(f, job[p]))
<1> DEFINE j   == job[p]
           old == Loaded(f)
<1>1. old \in Content(f)
  BY LoadedContent
<1>2. j.key \in Held /\ j.port \in Port /\ j.url \in Url \cup {None} /\ f \in ToSet(j.todo)
  <2>1. ToSet(j.todo) = {Head(j.todo)} \cup ToSet(Tail(j.todo))
    BY AtWork, ToSetTail
  <2> QED BY <2>1, AtWork DEF Job
<1>3. CASE f = "config"
  <2>1. old \in Config /\ DefaultConfig \in Config
    BY <1>1, <1>3, HomeAssump DEF Content, DefaultConfig, Config, Held
  <2>2. NewConfig(j) \in Config
    BY <1>2, <1>3, <2>1 DEF NewConfig, Config
  <2> QED BY <1>3, <2>2 DEF New, Content, KeptFile
<1>4. CASE f = "keys"
  <2>1. old \in Seq(Held) /\ j.cmd \in {"add-key", "reset"}
    BY <1>1, <1>2, <1>4 DEF Content, KeyCommand
  <2>2. CASE j.cmd = "add-key"
    <3>1. New(f, j) = Append(old, j.key)
      BY <1>4, <2>2 DEF New, NewKeys
    <3>2. /\ Append(old, j.key) \in Seq(Held) /\ Append(old, j.key) # <<>>
          /\ ToSet(old) \subseteq ToSet(Append(old, j.key))
      BY <1>2, <2>1, ToSetAppend
    <3> QED BY <1>4, <3>1, <3>2 DEF Content
  <2>3. CASE j.cmd = "reset"
    <3>1. \/ New(f, j) = <<j.key>>
          \/ old # <<>> /\ New(f, j) = [old EXCEPT ![1] = j.key]
          \/ New(f, j) = old
      BY <1>4, <2>3 DEF New, NewKeys
    <3>2. /\ <<j.key>> \in Seq(Held) /\ <<j.key>> # <<>>
          /\ old # <<>> => /\ [old EXCEPT ![1] = j.key] \in Seq(Held)
                           /\ [old EXCEPT ![1] = j.key] # <<>>
      BY <1>2, <2>1
    <3> QED BY <1>4, <2>1, <2>3, <3>1, <3>2 DEF Content, Replaces
  <2> QED BY <2>1, <2>2, <2>3
<1>5. CASE f = "peers"
  <2>1. old \in Seq(PeerEntry)
    BY <1>1, <1>5 DEF Content
  <2>2. Entry(j) \in PeerEntry
    BY <1>2 DEF Entry, PeerEntry
  <2>3. New(f, j) = old \/ New(f, j) = Append(old, Entry(j))
    BY <1>5 DEF New, NewPeers
  <2>4. /\ Append(old, Entry(j)) \in Seq(PeerEntry) /\ Append(old, Entry(j)) # <<>>
        /\ ToSet(old) \subseteq ToSet(Append(old, Entry(j)))
    BY <2>1, <2>2, ToSetAppend
  <2> QED BY <1>5, <2>1, <2>3, <2>4 DEF Content
<1> QED BY <1>3, <1>4, <1>5 DEF File

-----------------------------------------------------------------------------
(* Steps that touch no file.                                                  *)

\* Who handles what after process p has come to hold job k.
LEMMA Handlers ==
  ASSUME TypeOK, NEW p \in Proc, NEW k, job' = [job EXCEPT ![p] = k]
  PROVE  /\ job'[p] = k /\ \A q \in Proc \ {p} : job'[q] = job[q]
         /\ \A q \in Proc \ {p}, f \in File : Handling(q, f)' <=> Handling(q, f)
         /\ \A f \in File : Handling(p, f)' <=> k.todo # <<>> /\ Head(k.todo) = f /\ k.phase # "load"
         /\ \A q \in Proc \ {p} : At(q, "peers", "write")' <=> At(q, "peers", "write")
BY DEF TypeOK, Handling, Free, At

\* A step after which p handles no file, and which changes none.
LEMMA CalmStep ==
  ASSUME TypeOK, HomeInv, NEW p \in Proc, NEW k, k \in Job(k.next), job' = [job EXCEPT ![p] = k],
         k.phase = "load" \/ k.todo = <<>>, KeyCommand(k),
         UNCHANGED <<disk, kept>>, disturbed \subseteq disturbed', disturbed' \subseteq File,
         At(p, "peers", "write") => "peers" \in disturbed',
         made' \subseteq Key, runs' \in Nat
  PROVE  TypeOK' /\ HomeInv'
<1>1. \A f \in File : ~Handling(p, f)'
  BY Handlers
<1>2. TypeOK'
  BY <1>1, Handlers DEF TypeOK
<1>3. Commands' /\ Planned' /\ OneHandler' /\ Carried' /\ HomeKept'
  <2>1. Commands'
    BY Handlers DEF HomeInv, Commands
  <2>2. ASSUME NEW q \in Proc, NEW f \in KeptFile, Handling(q, f)'
        PROVE  q # p /\ Handling(q, f) /\ job'[q] = job[q]
    BY <1>1, <2>2, KeptIsFile, Handlers
  <2>3. Planned'
    BY <2>2 DEF HomeInv, Planned
  <2>4. OneHandler'
    BY <2>2 DEF HomeInv, OneHandler
  <2>6. Carried'
    BY <2>2 DEF HomeInv, Carried, Replaces
  <2>5. HomeKept'
    BY DEF HomeInv, HomeKept, Loaded
  <2> QED BY <2>1, <2>3, <2>4, <2>5, <2>6
<1>4. PeersWhole'
  <2> SUFFICES ASSUME disk["peers"] = Torn, "peers" \notin disturbed'
               PROVE  \E q \in Proc : At(q, "peers", "write")'
    BY DEF PeersWhole
  <2>1. PICK q \in Proc : At(q, "peers", "write")
    BY DEF HomeInv, PeersWhole
  <2>2. q # p
    BY <2>1
  <2> QED BY <2>1, <2>2, Handlers
<1> QED BY <1>2, <1>3, <1>4 DEF HomeInv

\* A process with nothing to do takes up a command.
LEMMA StartHome ==
  ASSUME TypeOK, HomeInv, NEW p \in Proc, NEW j, j \in Job(j.next), j.phase = "load",
         KeyCommand(j), Start(p, j), made' \subseteq Key
  PROVE  TypeOK' /\ HomeInv'
<1>1. Free(p) /\ job' = [job EXCEPT ![p] = j] /\ UNCHANGED <<disk, kept, disturbed>> /\ runs' \in Nat
  BY DEF Start, TypeOK
<1>2. ~At(p, "peers", "write") /\ disturbed' \subseteq File
  BY <1>1 DEF At, TypeOK
<1> QED BY <1>1, <1>2, CalmStep

\* A command starts with a job of its kind, and only some have keys.json ahead.
LEMMA CommandHome ==
  ASSUME TypeOK, HomeInv, NEW p \in Proc,
         \/ \E k \in Key : KeysAdd(p, k)
         \/ \E port \in Port, auto \in BOOLEAN : InitNode(p, port, auto)
         \/ \E port \in Port : ConfigSet(p, port)
         \/ ConfigReset(p)
         \/ \E url \in Url, k \in Key : PeersAdd(p, url, k)
         \/ \E remove, reinit, replace \in BOOLEAN, k \in Key : Reset(p, remove, reinit, replace, k)
  PROVE  TypeOK' /\ HomeInv'
<1>1. /\ Idle \in Job(None) /\ Idle.phase = "load" /\ Idle.next = None
      /\ \A f \in Step : <<f>> \in Seq(Step) /\ ToSet(<<f>>) = {f}
      /\ \A k \in Key : k \in Held
  <2>1. Idle \in Job(None)
    BY HomeAssump DEF Idle, Job, Held
  <2> QED BY <2>1 DEF Idle, ToSet, Held
<1>2. InitSteps(TRUE) \in Seq(Step) /\ InitSteps(FALSE) \in Seq(Step)
  BY DEF InitSteps, Step, File
<1>3. \A auto \in BOOLEAN : "keys" \notin ToSet(InitSteps(auto))
  <2> DEFINE a == <<"first", "config">>
             b == <<"peers">>
             e == <<>>
  <2>1. /\ a \in Seq(Step) /\ b \in Seq(Step) /\ e \in Seq(Step)
        /\ "keys" \notin ToSet(a) /\ "keys" \notin ToSet(b) /\ "keys" \notin ToSet(e)
    BY DEF Step, File, ToSet
  <2>2. InitSteps(TRUE) = a \o b /\ InitSteps(FALSE) = a \o e
    BY DEF InitSteps
  <2> HIDE DEF a, b, e
  <2>3. ToSet(a \o b) = ToSet(a) \cup ToSet(b) /\ ToSet(a \o e) = ToSet(a) \cup ToSet(e)
    BY <2>1, ToSetConcat
  <2>4. "keys" \notin ToSet(InitSteps(TRUE)) /\ "keys" \notin ToSet(InitSteps(FALSE))
    BY <2>1, <2>2, <2>3
  <2> QED BY <2>4
<1>4. ASSUME NEW k \in Key, KeysAdd(p, k) PROVE TypeOK' /\ HomeInv'
  <2> DEFINE j == [Idle EXCEPT !.cmd = "add-key", !.todo = <<"keys">>, !.key = k]
  <2>1. j \in Job(None) /\ j.phase = "load" /\ j.next = None /\ j.cmd = "add-key"
    BY <1>1 DEF Job, Step, File
  <2>2. Start(p, j) /\ made' \subseteq Key
    BY <1>4 DEF KeysAdd, TypeOK
  <2> HIDE DEF j
  <2> QED BY <2>1, <2>2, StartHome DEF KeyCommand
<1>5. ASSUME NEW port \in Port, NEW auto \in BOOLEAN, InitNode(p, port, auto) PROVE TypeOK' /\ HomeInv'
  <2> DEFINE j == [Idle EXCEPT !.cmd = "init", !.todo = InitSteps(auto), !.port = port, !.flag = auto]
  <2>1. /\ j \in Job(None) /\ j.phase = "load" /\ j.next = None
        /\ j.todo = InitSteps(auto)
    BY <1>1, <1>2 DEF Job, Step
  <2>2. Start(p, j) /\ made' \subseteq Key
    BY <1>5 DEF InitNode, TypeOK
  <2> HIDE DEF j
  <2> QED BY <1>3, <2>1, <2>2, StartHome DEF KeyCommand
<1>6. ASSUME NEW port \in Port, ConfigSet(p, port) PROVE TypeOK' /\ HomeInv'
  <2> DEFINE j == [Idle EXCEPT !.cmd = "set", !.todo = <<"config">>, !.port = port]
  <2>1. j \in Job(None) /\ j.phase = "load" /\ j.next = None /\ j.todo = <<"config">>
    BY <1>1 DEF Job, Step, File
  <2>2. Start(p, j) /\ made' \subseteq Key
    BY <1>6 DEF ConfigSet, TypeOK
  <2> HIDE DEF j
  <2> QED BY <1>1, <2>1, <2>2, StartHome DEF KeyCommand, Step, File
<1>7. ASSUME ConfigReset(p) PROVE TypeOK' /\ HomeInv'
  <2> DEFINE j == [Idle EXCEPT !.cmd = "reset-config", !.todo = <<"config">>]
  <2>1. j \in Job(None) /\ j.phase = "load" /\ j.next = None /\ j.todo = <<"config">>
    BY <1>1 DEF Job, Step, File
  <2>2. Start(p, j) /\ made' \subseteq Key
    BY <1>7 DEF ConfigReset, TypeOK
  <2> HIDE DEF j
  <2> QED BY <1>1, <2>1, <2>2, StartHome DEF KeyCommand, Step, File
<1>8. ASSUME NEW url \in Url, NEW k \in Key, PeersAdd(p, url, k) PROVE TypeOK' /\ HomeInv'
  <2> DEFINE j == [Idle EXCEPT !.cmd = "add-peer", !.todo = <<"peers">>, !.url = url, !.key = k]
  <2>1. j \in Job(None) /\ j.phase = "load" /\ j.next = None /\ j.todo = <<"peers">>
    BY <1>1 DEF Job, Step, File
  <2>2. Start(p, j) /\ made' \subseteq Key
    BY <1>8 DEF PeersAdd, TypeOK
  <2> HIDE DEF j
  <2> QED BY <1>1, <2>1, <2>2, StartHome DEF KeyCommand, Step, File
<1>9. ASSUME NEW remove \in BOOLEAN, NEW reinit \in BOOLEAN, NEW replace \in BOOLEAN, NEW k \in Key,
             Reset(p, remove, reinit, replace, k)
      PROVE  TypeOK' /\ HomeInv'
  <2> DEFINE todo == <<"wipe">> \o (IF remove THEN <<"unlink">> ELSE <<>>)
                            \o (IF reinit THEN <<"keys">> \o InitSteps(TRUE) ELSE <<>>)
             j == [Idle EXCEPT !.cmd = "reset", !.key = k, !.flag = replace, !.todo = todo]
  <2>1. todo \in Seq(Step)
    <3>1. <<"wipe">> \in Seq(Step) /\ <<"unlink">> \in Seq(Step) /\ <<"keys">> \in Seq(Step)
          /\ <<>> \in Seq(Step)
      BY DEF Step, File
    <3>2. <<"keys">> \o InitSteps(TRUE) \in Seq(Step)
      BY <1>2, <3>1, ConcatElements
    <3>3. <<"wipe">> \o (IF remove THEN <<"unlink">> ELSE <<>>) \in Seq(Step)
      BY <3>1
    <3> QED BY <3>1, <3>2, <3>3, ConcatElements
  <2> HIDE DEF todo
  <2>2. j \in Job(None) /\ j.phase = "load" /\ j.next = None /\ j.cmd = "reset"
    BY <1>1, <2>1 DEF Job, Step
  <2>3. Start(p, j) /\ made' \subseteq Key
    BY <1>9 DEF Reset, TypeOK, todo
  <2> HIDE DEF j
  <2> QED BY <2>2, <2>3, StartHome DEF KeyCommand
<1> QED BY <1>4, <1>5, <1>6, <1>7, <1>8, <1>9

-----------------------------------------------------------------------------
(* Steps of a command.                                                        *)

\* Being at a step of a file is being at the head of the list.
LEMMA AtStep ==
  ASSUME TypeOK, HomeInv, NEW p \in Proc, NEW step, NEW phase, At(p, step, phase)
  PROVE  /\ ~Free(p) /\ Head(job[p].todo) = step /\ job[p].phase = phase /\ KeyCommand(job[p])
         /\ KeyCommand(Done(job[p]))
<1>1. ~Free(p) /\ Head(job[p].todo) = step /\ job[p].phase = phase /\ KeyCommand(job[p])
  BY DEF At, HomeInv, Commands
<1>2. ToSet(job[p].todo) = {Head(job[p].todo)} \cup ToSet(Tail(job[p].todo))
  BY <1>1, AtWork, ToSetTail
<1>3. Done(job[p]).todo = Tail(job[p].todo) /\ Done(job[p]).cmd = job[p].cmd
  BY <1>1, AtWork
<1> QED BY <1>1, <1>2, <1>3 DEF KeyCommand

\* A process that has come to an end, or to its next step.
LEMMA CalmJobs ==
  ASSUME TypeOK, HomeInv, NEW p \in Proc, ~Free(p)
  PROVE  /\ Idle \in Job(Idle.next) /\ Idle.todo = <<>> /\ KeyCommand(Idle)
         /\ Done(job[p]) \in Job(Done(job[p]).next) /\ Done(job[p]).phase = "load"
<1>1. Idle \in Job(None) /\ Idle.todo = <<>> /\ Idle.next = None
  BY HomeAssump DEF Idle, Job, Held
<1> QED BY <1>1, AtWork, ToSetEmpty DEF KeyCommand

\* init-node takes the first key, or ends for want of one.
LEMMA FirstKeyHome ==
  ASSUME TypeOK, HomeInv, NEW p \in Proc, FirstKey(p)
  PROVE  TypeOK' /\ HomeInv'
<1>1. At(p, "first", "load") /\ UNCHANGED <<disk, kept, disturbed, made, runs>>
  BY DEF FirstKey
<1>2. ~Free(p) /\ ~At(p, "peers", "write") /\ KeyCommand(Done(job[p]))
  BY <1>1, AtStep DEF At
<1>3. CASE Fails("keys", FALSE) \/ Loaded("keys") = <<>>
  <2>1. job' = [job EXCEPT ![p] = Idle]
    BY <1>3 DEF FirstKey
  <2> QED BY <1>1, <1>2, <2>1, CalmJobs, CalmStep DEF TypeOK
<1>4. CASE ~(Fails("keys", FALSE) \/ Loaded("keys") = <<>>)
  <2> DEFINE k == [Done(job[p]) EXCEPT !.key = Loaded("keys")[1]]
  <2>1. job' = [job EXCEPT ![p] = k]
    BY <1>4 DEF FirstKey
  <2>2. Loaded("keys")[1] \in Held
    <3>1. Loaded("keys") \in Seq(Held) /\ Loaded("keys") # <<>>
      BY <1>4, LoadedContent DEF Content, File
    <3> QED BY <3>1
  <2>3. /\ k \in Job(k.next) /\ k.phase = "load" /\ k.todo = Done(job[p]).todo
        /\ k.cmd = Done(job[p]).cmd
    BY <1>2, <2>2, AtWork DEF Job
  <2> HIDE DEF k
  <2>4. KeyCommand(k)
    BY <1>2, <2>3 DEF KeyCommand
  <2> QED BY <1>1, <1>2, <2>1, <2>3, <2>4, CalmStep DEF TypeOK
<1> QED BY <1>3, <1>4

\* A reset clears the database and reads the port it will configure again.
LEMMA WipeHome ==
  ASSUME TypeOK, HomeInv, NEW p \in Proc, Wipe(p)
  PROVE  TypeOK' /\ HomeInv'
<1> DEFINE k == [Done(job[p]) EXCEPT !.port = Loaded("config").port]
<1>1. /\ At(p, "wipe", "load") /\ UNCHANGED <<disk, kept, disturbed, made, runs>>
      /\ job' = [job EXCEPT ![p] = k]
  BY DEF Wipe
<1>2. ~Free(p) /\ ~At(p, "peers", "write") /\ KeyCommand(Done(job[p]))
  BY <1>1, AtStep DEF At
<1>3. Loaded("config").port \in Port
  BY LoadedContent DEF Content, File, Config
<1>4. /\ k \in Job(k.next) /\ k.phase = "load" /\ k.todo = Done(job[p]).todo
      /\ k.cmd = Done(job[p]).cmd
  BY <1>2, <1>3, AtWork DEF Job
<1> HIDE DEF k
<1>5. KeyCommand(k)
  BY <1>2, <1>4 DEF KeyCommand
<1> QED BY <1>1, <1>2, <1>4, <1>5, CalmStep DEF TypeOK

\* A killed command handles nothing any more; peers.json may stay torn, and then counts
\* as disturbed.
LEMMA KillHome ==
  ASSUME TypeOK, HomeInv, NEW p \in Proc, Kill(p)
  PROVE  TypeOK' /\ HomeInv'
<1>1. /\ ~Free(p) /\ job' = [job EXCEPT ![p] = Idle] /\ UNCHANGED <<disk, kept, made, runs>>
      /\ disturbed' = IF At(p, "peers", "write") THEN disturbed \cup {"peers"} ELSE disturbed
  BY DEF Kill
<1>2. disturbed \subseteq disturbed' /\ disturbed' \subseteq File
  BY <1>1 DEF TypeOK, File
<1> QED BY <1>1, <1>2, CalmJobs, CalmStep DEF TypeOK

\* A command reads a file. If another is handling it, the file counts as disturbed;
\* if not, peers.json is whole and what was kept goes into the plan.
LEMMA LoadHome ==
  ASSUME TypeOK, HomeInv, NEW p \in Proc, NEW f \in File, Load(p, f)
  PROVE  TypeOK' /\ HomeInv'
<1> DEFINE n == New(f, job[p])
           k == [job[p] EXCEPT !.next = n, !.phase = "truncate"]
<1>1. /\ At(p, f, "load") /\ UNCHANGED <<disk, kept, made, runs>>
      /\ disturbed' = IF \E q \in Proc \ {p} : Handling(q, f) THEN disturbed \cup {f} ELSE disturbed
  BY DEF Load
<1>2. /\ ~Free(p) /\ ~At(p, "peers", "write") /\ Head(job[p].todo) = f /\ job[p].phase = "load"
      /\ KeyCommand(job[p]) /\ KeyCommand(Done(job[p]))
  BY <1>1, AtStep DEF At
<1>3. disturbed \subseteq disturbed' /\ disturbed' \subseteq File /\ made' \subseteq Key /\ runs' \in Nat
  BY <1>1 DEF TypeOK
<1>4. CASE job' = [job EXCEPT ![p] = Idle] \/ job' = [job EXCEPT ![p] = Done(job[p])]
  BY <1>1, <1>2, <1>3, <1>4, CalmJobs, CalmStep
<1>5. CASE /\ ~Fails(f, Tolerant(job[p])) /\ (f \in KeptFile => n # Loaded(f))
           /\ job' = [job EXCEPT ![p] = k]
  <2>1. /\ n \in Content(f)
        /\ f \in KeptFile =>
             n # <<>> /\ (~Replaces(job[p], f) => ToSet(Loaded(f)) \subseteq ToSet(n))
    BY <1>2, <1>5, NewContent
  <2>2. /\ job[p] \in Job(job[p].next) /\ job[p].todo # <<>>
    BY <1>2, AtWork
  <2> HIDE DEF n
  <2>3. /\ k \in Job(k.next) /\ k.next = n /\ k.phase = "truncate" /\ k.todo = job[p].todo
        /\ k.cmd = job[p].cmd
    BY <2>2 DEF Job
  <2> HIDE DEF k
  <2>4. /\ job'[p] = k /\ \A q \in Proc \ {p} : job'[q] = job[q]
        /\ \A q \in Proc \ {p}, g \in File : Handling(q, g)' <=> Handling(q, g)
        /\ \A g \in File : Handling(p, g)' <=> g = f
        /\ \A q \in Proc \ {p} : At(q, "peers", "write")' <=> At(q, "peers", "write")
    <3>1. job' = [job EXCEPT ![p] = k]
      BY <1>5
    <3>2. ASSUME NEW g \in File PROVE Handling(p, g)' <=> g = f
      <4>1. Handling(p, g)' <=> (k.todo # <<>> /\ Head(k.todo) = g /\ k.phase # "load")
        BY <3>1, Handlers
      <4> QED BY <1>2, <2>2, <2>3, <4>1
    <3> QED BY <3>1, <3>2, Handlers
  <2>5. \A g \in File : ~Handling(p, g)
    BY <1>2 DEF Handling
  <2>6. TypeOK'
    <3>1. \A q \in Proc : job'[q] \in Job(job'[q].next)
      BY <2>3, <2>4 DEF TypeOK
    <3>2. ASSUME NEW q \in Proc, NEW g \in File, Handling(q, g)' PROVE job'[q].next \in Content(g)
      <4>1. CASE q = p
        BY <2>1, <2>3, <2>4, <3>2, <4>1
      <4>2. CASE q # p
        BY <2>4, <3>2, <4>2 DEF TypeOK
      <4> QED BY <4>1, <4>2
    <3>3. DOMAIN job' = Proc
      BY <1>5 DEF TypeOK
    <3> QED BY <1>1, <1>3, <3>1, <3>2, <3>3 DEF TypeOK
  <2>7. Commands'
    BY <1>2, <2>3, <2>4 DEF HomeInv, Commands, KeyCommand
  <2>8. Planned'
    <3> SUFFICES ASSUME NEW q \in Proc, NEW g \in KeptFile, Handling(q, g)' PROVE job'[q].next # <<>>
      BY DEF Planned
    <3>1. CASE q = p
      BY <2>1, <2>3, <2>4, <3>1, KeptIsFile
    <3>2. CASE q # p
      BY <2>4, <3>2, KeptIsFile DEF HomeInv, Planned
    <3> QED BY <3>1, <3>2
  <2>9. OneHandler'
    <3> SUFFICES ASSUME NEW q \in Proc, NEW r \in Proc, NEW g \in KeptFile, g \notin disturbed',
                        Handling(q, g)', Handling(r, g)'
                 PROVE  q = r
      BY DEF OneHandler
    <3>1. CASE q # p /\ r # p
      BY <1>3, <2>4, <3>1, KeptIsFile DEF HomeInv, OneHandler
    <3>2. CASE q = p /\ r # p
      BY <1>1, <2>4, <3>2, KeptIsFile
    <3>3. CASE q # p /\ r = p
      BY <1>1, <2>4, <3>3, KeptIsFile
    <3> QED BY <3>1, <3>2, <3>3
  <2>10. Carried'
    <3> SUFFICES ASSUME NEW q \in Proc, NEW g \in KeptFile, g \notin disturbed',
                        Handling(q, g)', ~Replaces(job'[q], g)
                 PROVE  kept[g] \subseteq ToSet(job'[q].next)
      BY <1>1 DEF Carried, Replaces
    <3>1. CASE q # p
      BY <1>3, <2>4, <3>1, KeptIsFile DEF HomeInv, Carried, Replaces
    <3>2. CASE q = p
      <4>1. g = f /\ job'[q].next = n /\ ~Replaces(job[p], f)
        BY <2>3, <2>4, <3>2, KeptIsFile DEF Replaces
      <4>2. f \notin disturbed /\ \A r \in Proc : ~Handling(r, f)
        BY <1>1, <2>5, <4>1, KeptIsFile
      <4>3. disk[f] # Torn
        <5>1. CASE f = "peers"
          <6>1. \A r \in Proc : At(r, "peers", "write") => Handling(r, "peers")
            BY DEF At, Handling
          <6> QED BY <4>2, <5>1, <6>1 DEF HomeInv, PeersWhole
        <5>2. CASE f = "keys"
          <6>1. f \in ToSet(job[p].todo)
            <7>1. ToSet(job[p].todo) = {Head(job[p].todo)} \cup ToSet(Tail(job[p].todo))
              BY <1>2, AtWork, ToSetTail
            <7> QED BY <1>2, <7>1
          <6>2. job[p].cmd = "add-key"
            BY <1>2, <4>1, <5>2, <6>1 DEF KeyCommand, Replaces
          <6> QED BY <1>5, <5>2, <6>2 DEF Fails, Tolerant
        <5> QED BY <4>1, <5>1, <5>2 DEF KeptFile
      <4>4. kept[f] \subseteq ToSet(Loaded(f))
        BY <4>1, <4>2, <4>3 DEF HomeInv, HomeKept, KeptFile
      <4> QED BY <2>1, <4>1, <4>4
    <3> QED BY <3>1, <3>2
  <2>11. PeersWhole'
    <3> SUFFICES ASSUME disk["peers"] = Torn, "peers" \notin disturbed'
                 PROVE  \E q \in Proc : At(q, "peers", "write")'
      BY <1>1 DEF PeersWhole
    <3>1. PICK q \in Proc : At(q, "peers", "write")
      BY <1>3 DEF HomeInv, PeersWhole
    <3>2. q # p
      BY <1>2, <3>1
    <3> QED BY <2>4, <3>1, <3>2
  <2>12. HomeKept'
    BY <1>1, <1>3 DEF HomeInv, HomeKept, Loaded
  <2> QED BY <2>6, <2>7, <2>8, <2>9, <2>10, <2>11, <2>12 DEF HomeInv
<1>6. \/ job' = [job EXCEPT ![p] = Idle] \/ job' = [job EXCEPT ![p] = Done(job[p])]
      \/ /\ ~Fails(f, Tolerant(job[p])) /\ (f \in KeptFile => n # Loaded(f))
         /\ job' = [job EXCEPT ![p] = k]
  BY KeptIsFile DEF Load
<1> QED BY <1>4, <1>5, <1>6

\* What a command at work on a file has in hand: nothing else, and a content for it.
LEMMA InHand ==
  ASSUME TypeOK, HomeInv, NEW p \in Proc, NEW f \in File, NEW phase, phase # "load", At(p, f, phase)
  PROVE  /\ ~Free(p) /\ Head(job[p].todo) = f /\ job[p].phase = phase /\ KeyCommand(job[p])
         /\ \A g \in File : Handling(p, g) <=> g = f
         /\ job[p].next \in Content(f) /\ job[p].next \notin {None, Torn}
         /\ f \in KeptFile => job[p].next # <<>>
<1>1. ~Free(p) /\ Head(job[p].todo) = f /\ job[p].phase = phase /\ KeyCommand(job[p])
  BY AtStep
<1>2. \A g \in File : Handling(p, g) <=> g = f
  BY <1>1 DEF Handling
<1>3. job[p].next \in Content(f)
  BY <1>2 DEF TypeOK
<1>4. job[p].next \notin {None, Torn}
  BY <1>3, MarkersAssump DEF Content
<1> QED BY <1>1, <1>2, <1>3, <1>4 DEF HomeInv, Planned

\* A command truncates the file it is going to write, and stays its handler.
LEMMA TruncateHome ==
  ASSUME TypeOK, HomeInv, NEW p \in Proc, NEW f \in File, Truncate(p, f)
  PROVE  TypeOK' /\ HomeInv'
<1> DEFINE k == [job[p] EXCEPT !.phase = "write"]
<1>1. /\ At(p, f, "truncate") /\ UNCHANGED <<kept, made, runs, disturbed>>
      /\ disk' = [disk EXCEPT ![f] = Torn] /\ job' = [job EXCEPT ![p] = k]
  BY DEF Truncate
<1>2. /\ ~Free(p) /\ Head(job[p].todo) = f /\ job[p].phase = "truncate" /\ KeyCommand(job[p])
      /\ \A g \in File : Handling(p, g) <=> g = f
  BY <1>1, InHand
<1>3. job[p] \in Job(job[p].next) /\ job[p].todo # <<>>
  BY <1>2, AtWork
<1>4. /\ k \in Job(k.next) /\ k.next = job[p].next /\ k.phase = "write" /\ k.todo = job[p].todo
      /\ k.cmd = job[p].cmd
  BY <1>3 DEF Job
<1> HIDE DEF k
<1>5. /\ job'[p] = k /\ \A q \in Proc \ {p} : job'[q] = job[q]
      /\ \A q \in Proc, g \in File : Handling(q, g)' <=> Handling(q, g)
  <2>1. ASSUME NEW g \in File PROVE Handling(p, g)' <=> Handling(p, g)
    <3>1. Handling(p, g)' <=> (k.todo # <<>> /\ Head(k.todo) = g /\ k.phase # "load")
      BY <1>1, Handlers
    <3> QED BY <1>2, <1>3, <1>4, <3>1
  <2> QED BY <1>1, <2>1, Handlers
<1>6. \A q \in Proc : job'[q].next = job[q].next /\ job'[q].cmd = job[q].cmd /\ job'[q].todo = job[q].todo
  BY <1>4, <1>5
<1>7. TypeOK'
  <2>1. DOMAIN disk' = File /\ \A g \in File : disk'[g] \in {None, Torn} \cup Content(g)
    BY <1>1 DEF TypeOK
  <2>2. DOMAIN job' = Proc /\ \A q \in Proc : job'[q] \in Job(job'[q].next)
    BY <1>1, <1>4, <1>5 DEF TypeOK
  <2>3. \A q \in Proc, g \in File : Handling(q, g)' => job'[q].next \in Content(g)
    BY <1>5, <1>6 DEF TypeOK
  <2> QED BY <1>1, <2>1, <2>2, <2>3 DEF TypeOK
<1>8. Commands' /\ Planned' /\ OneHandler' /\ Carried'
  <2>1. Commands'
    BY <1>6 DEF HomeInv, Commands, KeyCommand
  <2>2. Planned'
    BY <1>5, <1>6, KeptIsFile DEF HomeInv, Planned
  <2>3. OneHandler'
    BY <1>1, <1>5, KeptIsFile DEF HomeInv, OneHandler
  <2>4. Carried'
    BY <1>1, <1>5, <1>6, KeptIsFile DEF HomeInv, Carried, Replaces
  <2> QED BY <2>1, <2>2, <2>3, <2>4
<1>9. PeersWhole'
  <2> SUFFICES ASSUME disk'["peers"] = Torn, "peers" \notin disturbed'
               PROVE  \E q \in Proc : At(q, "peers", "write")'
    BY DEF PeersWhole
  <2>1. CASE f = "peers"
    BY <1>2, <1>3, <1>4, <1>5, <2>1 DEF At, Free
  <2>2. CASE f # "peers"
    <3>1. disk["peers"] = Torn
      BY <1>1, <2>2 DEF TypeOK, File
    <3>2. PICK q \in Proc : At(q, "peers", "write")
      BY <1>1, <3>1 DEF HomeInv, PeersWhole
    <3>3. q # p
      BY <1>2, <3>2 DEF At
    <3> QED BY <1>5, <3>2, <3>3 DEF At, Free
  <2> QED BY <2>1, <2>2
<1>10. HomeKept'
  <2> SUFFICES ASSUME NEW g \in KeptFile, g \notin disturbed, disk'[g] # Torn
               PROVE  kept[g] \subseteq ToSet(Loaded(g))'
    BY <1>1 DEF HomeKept, KeptFile
  <2>1. g # f /\ disk'[g] = disk[g]
    BY <1>1, KeptIsFile DEF TypeOK
  <2> QED BY <2>1 DEF HomeInv, HomeKept, Loaded, KeptFile
<1> QED BY <1>7, <1>8, <1>9, <1>10 DEF HomeInv

\* A step after which p handles nothing and nobody else has come to handle a file.
LEMMA NoHandlerAdded ==
  ASSUME TypeOK, HomeInv, NEW p \in Proc, ~Free(p), KeyCommand(Done(job[p])),
         job' = [job EXCEPT ![p] = Done(job[p])], disturbed \subseteq disturbed'
  PROVE  /\ DOMAIN job' = Proc /\ \A q \in Proc : job'[q] \in Job(job'[q].next)
         /\ \A q \in Proc, g \in File : Handling(q, g)' =>
               q # p /\ Handling(q, g) /\ job'[q] = job[q] /\ job'[q].next \in Content(g)
         /\ \A q \in Proc \ {p} : At(q, "peers", "write")' <=> At(q, "peers", "write")
         /\ Commands' /\ Planned' /\ OneHandler'
<1> DEFINE d == Done(job[p])
<1>1. d \in Job(d.next) /\ d.phase = "load"
  BY AtWork
<1> HIDE DEF d
<1>2. job' = [job EXCEPT ![p] = d] /\ KeyCommand(d)
  BY DEF d
<1>3. /\ job'[p] = d /\ \A q \in Proc \ {p} : job'[q] = job[q]
      /\ \A q \in Proc \ {p}, g \in File : Handling(q, g)' <=> Handling(q, g)
      /\ \A g \in File : ~Handling(p, g)'
      /\ \A q \in Proc \ {p} : At(q, "peers", "write")' <=> At(q, "peers", "write")
  BY <1>1, <1>2, Handlers
<1>4. \A q \in Proc, g \in File : Handling(q, g)' =>
          q # p /\ Handling(q, g) /\ job'[q] = job[q] /\ job'[q].next \in Content(g)
  BY <1>3 DEF TypeOK
<1>5. DOMAIN job' = Proc /\ \A q \in Proc : job'[q] \in Job(job'[q].next)
  BY <1>1, <1>2, <1>3 DEF TypeOK
<1>6. Commands'
  BY <1>2, <1>3 DEF HomeInv, Commands
<1>7. Planned'
  BY <1>4, KeptIsFile DEF HomeInv, Planned
<1>8. OneHandler'
  BY <1>4, KeptIsFile DEF HomeInv, OneHandler
<1> QED BY <1>3, <1>4, <1>5, <1>6, <1>7, <1>8

\* A command writes what it has in hand, which holds all that was kept and what it
\* adds: nobody else was handling the file, or it counts as disturbed.
LEMMA FillHome ==
  ASSUME TypeOK, HomeInv, NEW p \in Proc, NEW f \in File, Fill(p, f)
  PROVE  TypeOK' /\ HomeInv'
<1> DEFINE n == job[p].next
<1>1. /\ At(p, f, "write") /\ UNCHANGED <<made, runs, disturbed>>
      /\ disk' = [disk EXCEPT ![f] = n] /\ job' = [job EXCEPT ![p] = Done(job[p])]
  BY DEF Fill
<1>2. /\ ~Free(p) /\ Head(job[p].todo) = f /\ \A g \in File : Handling(p, g) <=> g = f
      /\ n \in Content(f) /\ n \notin {None, Torn} /\ (f \in KeptFile => n # <<>>)
  BY <1>1, InHand
<1>3. KeyCommand(Done(job[p]))
  BY <1>1, AtStep
<1> HIDE DEF n
<1>4. /\ DOMAIN job' = Proc /\ \A q \in Proc : job'[q] \in Job(job'[q].next)
      /\ \A q \in Proc, g \in File : Handling(q, g)' =>
            q # p /\ Handling(q, g) /\ job'[q] = job[q] /\ job'[q].next \in Content(g)
      /\ \A q \in Proc \ {p} : At(q, "peers", "write")' <=> At(q, "peers", "write")
      /\ Commands' /\ Planned' /\ OneHandler'
  BY <1>1, <1>2, <1>3, NoHandlerAdded
<1>5. /\ kept' \in [keys : SUBSET Held, peers : SUBSET PeerEntry]
      /\ \A g \in KeptFile \ {f} : kept'[g] = kept[g]
      /\ f \in KeptFile => kept'[f] \subseteq ToSet(n) \/ (~Replaces(job[p], f) /\ kept'[f] \subseteq kept[f] \cup ToSet(n))
  <2>1. kept \in [keys : SUBSET Held, peers : SUBSET PeerEntry]
    BY DEF TypeOK
  <2>2. CASE f = "config"
    BY <2>1, <2>2 DEF Fill, KeptFile
  <2>3. CASE f = "keys"
    <3>1. n \in Seq(Held) /\ n # <<>>
      BY <1>2, <2>3 DEF Content, KeptFile
    <3>2. ToSet(n) \subseteq Held /\ Last(n) \in ToSet(n)
      BY <3>1 DEF ToSet, Last
    <3>3. CASE job[p].cmd = "reset"
      <4>1. kept' = [kept EXCEPT !.keys = ToSet(n)]
        BY <2>3, <3>3 DEF Fill, n
      <4> QED BY <2>1, <2>3, <3>2, <4>1 DEF KeptFile
    <3>4. CASE job[p].cmd # "reset"
      <4>1. kept' = [kept EXCEPT !["keys"] = kept["keys"] \cup {Last(n)}]
        BY <2>1, <2>3, <3>4 DEF Fill, n
      <4>2. ~Replaces(job[p], f)
        BY <3>4 DEF Replaces
      <4> QED BY <2>1, <2>3, <3>2, <4>1, <4>2 DEF KeptFile
    <3> QED BY <3>3, <3>4
  <2>4. CASE f = "peers"
    <3>1. n \in Seq(PeerEntry) /\ n # <<>>
      BY <1>2, <2>4 DEF Content, KeptFile
    <3>2. ToSet(n) \subseteq PeerEntry /\ Last(n) \in ToSet(n)
      BY <3>1 DEF ToSet, Last
    <3>3. kept' = [kept EXCEPT !["peers"] = kept["peers"] \cup {Last(n)}]
      BY <2>1, <2>4 DEF Fill, n
    <3>4. ~Replaces(job[p], f)
      BY <2>4 DEF Replaces
    <3> QED BY <2>1, <2>4, <3>2, <3>3, <3>4 DEF KeptFile
  <2> QED BY <2>2, <2>3, <2>4 DEF File
<1>6. TypeOK'
  <2>1. DOMAIN disk' = File /\ \A g \in File : disk'[g] \in {None, Torn} \cup Content(g)
    BY <1>1, <1>2 DEF TypeOK
  <2> QED BY <1>1, <1>4, <1>5, <2>1 DEF TypeOK
<1>7. Carried'
  <2> SUFFICES ASSUME NEW q \in Proc, NEW g \in KeptFile, g \notin disturbed, Handling(q, g)',
                      ~Replaces(job'[q], g)
               PROVE  kept'[g] \subseteq ToSet(job'[q].next)
    BY <1>1 DEF Carried, Replaces
  <2>1. q # p /\ Handling(q, g) /\ job'[q] = job[q]
    BY <1>4, KeptIsFile
  <2>2. g # f
    BY <1>2, <2>1, KeptIsFile DEF HomeInv, OneHandler
  <2> QED BY <1>5, <2>1, <2>2 DEF HomeInv, Carried
<1>8. PeersWhole'
  <2> SUFFICES ASSUME disk'["peers"] = Torn, "peers" \notin disturbed'
               PROVE  \E q \in Proc : At(q, "peers", "write")'
    BY DEF PeersWhole
  <2>1. f # "peers" /\ disk["peers"] = Torn
    BY <1>1, <1>2 DEF TypeOK, File
  <2>2. PICK q \in Proc : At(q, "peers", "write")
    BY <1>1, <2>1 DEF HomeInv, PeersWhole
  <2>3. q # p
    BY <1>2, <2>1, <2>2 DEF At
  <2> QED BY <1>4, <2>2, <2>3
<1>9. HomeKept'
  <2> SUFFICES ASSUME NEW g \in KeptFile, g \notin disturbed, disk'[g] # Torn
               PROVE  kept'[g] \subseteq ToSet(Loaded(g))'
    BY <1>1 DEF HomeKept, KeptFile
  <2>1. CASE g = f
    <3>1. disk'[f] = n /\ Loaded(f)' = n
      BY <1>1, <1>2 DEF TypeOK, Loaded
    <3>2. ~Replaces(job[p], f) => kept[f] \subseteq ToSet(n)
      BY <1>2, <2>1 DEF HomeInv, Carried, n
    <3>3. kept'[f] \subseteq ToSet(n)
      BY <1>5, <2>1, <3>2
    <3> QED BY <2>1, <3>1, <3>3
  <2>2. CASE g # f
    <3>1. disk'[g] = disk[g] /\ kept'[g] = kept[g]
      BY <1>1, <1>5, <2>2, KeptIsFile DEF TypeOK
    <3> QED BY <3>1 DEF HomeInv, HomeKept, Loaded, KeptFile
  <2> QED BY <2>1, <2>2
<1> QED BY <1>4, <1>6, <1>7, <1>8, <1>9 DEF HomeInv

\* A reset removes peers.json, and nothing is kept in it any more.
LEMMA UnlinkHome ==
  ASSUME TypeOK, HomeInv, NEW p \in Proc, Unlink(p)
  PROVE  TypeOK' /\ HomeInv'
<1>1. /\ At(p, "unlink", "load") /\ UNCHANGED <<made, runs>>
      /\ disk' = [disk EXCEPT !["peers"] = None] /\ kept' = [kept EXCEPT !.peers = {}]
      /\ job' = [job EXCEPT ![p] = Done(job[p])]
      /\ disturbed' = IF \E q \in Proc \ {p} : Handling(q, "peers") THEN disturbed \cup {"peers"}
                      ELSE disturbed
  BY DEF Unlink, TypeOK
<1>2. ~Free(p) /\ KeyCommand(Done(job[p])) /\ disturbed \subseteq disturbed' /\ disturbed' \subseteq File
  BY <1>1, AtStep DEF TypeOK, File
<1>3. /\ DOMAIN job' = Proc /\ \A q \in Proc : job'[q] \in Job(job'[q].next)
      /\ \A q \in Proc, g \in File : Handling(q, g)' =>
            q # p /\ Handling(q, g) /\ job'[q] = job[q] /\ job'[q].next \in Content(g)
      /\ Commands' /\ Planned' /\ OneHandler'
  BY <1>1, <1>2, NoHandlerAdded
<1>4. /\ kept' \in [keys : SUBSET Held, peers : SUBSET PeerEntry]
      /\ kept'["peers"] = {} /\ kept'["keys"] = kept["keys"]
      /\ disk'["peers"] = None /\ \A g \in File \ {"peers"} : disk'[g] = disk[g]
      /\ DOMAIN disk' = File
  BY <1>1 DEF TypeOK, File
<1>5. TypeOK'
  BY <1>1, <1>2, <1>3, <1>4 DEF TypeOK
<1>6. Carried'
  BY <1>2, <1>3, <1>4, KeptIsFile DEF HomeInv, Carried, Replaces, KeptFile
<1>7. PeersWhole'
  BY <1>4, MarkersAssump DEF PeersWhole
<1>8. HomeKept'
  <2> SUFFICES ASSUME NEW g \in KeptFile, g \notin disturbed', disk'[g] # Torn
               PROVE  kept'[g] \subseteq ToSet(Loaded(g))'
    BY DEF HomeKept, KeptFile
  <2>1. CASE g = "keys"
    <3>1. disk'[g] = disk[g]
      BY <1>4, <2>1 DEF File
    <3> QED BY <1>2, <1>4, <2>1, <3>1 DEF HomeInv, HomeKept, Loaded
  <2>2. CASE g = "peers"
    BY <1>4, <2>2
  <2> QED BY <2>1, <2>2 DEF KeptFile
<1> QED BY <1>3, <1>5, <1>6, <1>7, <1>8 DEF HomeInv

-----------------------------------------------------------------------------
(* Commands one at a time.                                                    *)

\* What file f holds, or is coming to hold once the command that has read it is done.
Coming(f) == IF \E p \in Proc : Handling(p, f)
             THEN job[CHOOSE p \in Proc : Handling(p, f)].next
             ELSE Loaded(f)

\* The key in use: the first, if there is one.
First(keys) == IF keys = <<>> THEN NoKey ELSE Head(keys)

\* The steps of a reset that makes the node anew, from the keys on.
Renewal == {<<"keys", "first", "config", "peers">>, <<"first", "config", "peers">>, <<"config", "peers">>}

\* A reset that replaces the key and removes the peers has all of its steps.
FullReset == <<"wipe", "unlink", "keys", "first", "config", "peers">>

\* What a command may have ahead.
Ahead(cmd) ==
    CASE cmd = "add-key"                  -> {<<"keys">>}
      [] cmd \in {"set", "reset-config"}  -> {<<"config">>}
      [] cmd = "add-peer"                 -> {<<"peers">>}
      [] cmd = "init"                     -> {<<"first", "config", "peers">>, <<"first", "config">>,
                                              <<"config", "peers">>, <<"config">>, <<"peers">>}
      [] cmd = "reset"                    -> Renewal \cup
             {<<"wipe">>, <<"wipe", "unlink">>, <<"wipe", "keys", "first", "config", "peers">>,
              FullReset, <<"unlink">>, <<"unlink", "keys", "first", "config", "peers">>, <<"peers">>}
      [] OTHER                            -> {}

\* What a command at work knows of the files: once it has passed "first" it holds the key
\* in use, and a reset that replaces the key has removed the peers before.
Steady(j) ==
    /\ j.todo \in Ahead(j.cmd)
    /\ j.cmd = "add-peer" => j.url \in Url
    /\ j.cmd \in {"init", "reset"} /\ Head(j.todo) \in {"config", "peers"} =>
          Coming("keys") # <<>> /\ j.key = Head(Coming("keys"))
    /\ j.cmd = "reset" /\ Head(j.todo) = "first" => Coming("keys") # <<>>
    /\ j.cmd = "reset" /\ j.flag /\ ~stale =>
          /\ Head(j.todo) = "wipe" => j.todo = FullReset
          /\ Head(j.todo) = "keys" => Coming("peers") = <<>>

\* A reset that has still to bring config.json in line with keys.json.
Renewing(j) ==
    /\ j.cmd = "reset" /\ j.todo \in Renewal
    /\ Head(j.todo) = "config" => j.phase = "load"

Single == \A p, q \in Proc : ~Free(p) /\ ~Free(q) => p = q
Whole == \A f \in File : disk[f] = Torn => \E p \in Proc : At(p, f, "write")
AllSteady == \A p \in Proc : ~Free(p) => Steady(job[p])
ConfigComes ==
    \/ Coming("config").key \in {NoKey, First(Coming("keys"))}
    \/ \E p \in Proc : ~Free(p) /\ Renewing(job[p])
OwnEntries ==
    ~stale => \A e \in ToSet(Coming("peers")) :
                  e.url \in Port => Coming("keys") # <<>> /\ e.key = Head(Coming("keys"))

AloneInv == alone => Single /\ Whole /\ AllSteady /\ ConfigComes /\ OwnEntries

\* The first step of each list a reset or init-node may have ahead, and what comes after it.
LEMMA StepLists ==
  /\ <<"keys">> # <<>> /\ Head(<<"keys">>) = "keys" /\ Tail(<<"keys">>) = <<>>
  /\ <<"config">> # <<>> /\ Head(<<"config">>) = "config" /\ Tail(<<"config">>) = <<>>
  /\ <<"peers">> # <<>> /\ Head(<<"peers">>) = "peers" /\ Tail(<<"peers">>) = <<>>
  /\ <<"wipe">> # <<>> /\ Head(<<"wipe">>) = "wipe" /\ Tail(<<"wipe">>) = <<>>
  /\ <<"unlink">> # <<>> /\ Head(<<"unlink">>) = "unlink" /\ Tail(<<"unlink">>) = <<>>
  /\ <<"first", "config">> # <<>> /\ Head(<<"first", "config">>) = "first"
  /\ Tail(<<"first", "config">>) = <<"config">>
  /\ <<"config", "peers">> # <<>> /\ Head(<<"config", "peers">>) = "config"
  /\ Tail(<<"config", "peers">>) = <<"peers">>
  /\ <<"wipe", "unlink">> # <<>> /\ Head(<<"wipe", "unlink">>) = "wipe"
  /\ Tail(<<"wipe", "unlink">>) = <<"unlink">>
  /\ <<"first", "config", "peers">> # <<>> /\ Head(<<"first", "config", "peers">>) = "first"
  /\ Tail(<<"first", "config", "peers">>) = <<"config", "peers">>
  /\ <<"keys", "first", "config", "peers">> # <<>>
  /\ Head(<<"keys", "first", "config", "peers">>) = "keys"
  /\ Tail(<<"keys", "first", "config", "peers">>) = <<"first", "config", "peers">>
  /\ <<"unlink", "keys", "first", "config", "peers">> # <<>>
  /\ Head(<<"unlink", "keys", "first", "config", "peers">>) = "unlink"
  /\ Tail(<<"unlink", "keys", "first", "config", "peers">>) = <<"keys", "first", "config", "peers">>
  /\ <<"wipe", "keys", "first", "config", "peers">> # <<>>
  /\ Head(<<"wipe", "keys", "first", "config", "peers">>) = "wipe"
  /\ Tail(<<"wipe", "keys", "first", "config", "peers">>) = <<"keys", "first", "config", "peers">>
  /\ FullReset # <<>> /\ Head(FullReset) = "wipe"
  /\ Tail(FullReset) = <<"unlink", "keys", "first", "config", "peers">>
BY DEF FullReset

\* Where a command stands says which it is and what it has left.
LEMMA Standing ==
  ASSUME NEW cmd, NEW todo \in Ahead(cmd)
  PROVE  /\ todo # <<>>
         /\ Head(todo) = "keys" =>
              \/ cmd = "add-key" /\ Tail(todo) = <<>>
              \/ cmd = "reset" /\ todo \in Renewal /\ Tail(todo) = <<"first", "config", "peers">>
         /\ Head(todo) = "config" =>
              \/ cmd \in {"set", "reset-config"} /\ Tail(todo) = <<>>
              \/ cmd = "init" /\ Tail(todo) \in {<<>>, <<"peers">>}
              \/ cmd = "reset" /\ todo \in Renewal /\ Tail(todo) = <<"peers">>
         /\ Head(todo) = "peers" => cmd \in {"add-peer", "init", "reset"} /\ todo \notin Renewal /\ Tail(todo) = <<>>
         /\ Head(todo) = "first" =>
              \/ cmd = "init" /\ Tail(todo) \in {<<"config">>, <<"config", "peers">>}
              \/ cmd = "reset" /\ todo \in Renewal /\ Tail(todo) = <<"config", "peers">>
         /\ Head(todo) = "wipe" =>
              /\ cmd = "reset" /\ todo \notin Renewal
              /\ Tail(todo) \in {<<>>, <<"unlink">>, <<"keys", "first", "config", "peers">>,
                                 <<"unlink", "keys", "first", "config", "peers">>}
         /\ Head(todo) = "unlink" =>
              /\ cmd = "reset" /\ todo \notin Renewal
              /\ Tail(todo) \in {<<>>, <<"keys", "first", "config", "peers">>}
<1>1. CASE cmd = "reset"
  <2> DEFINE a == <<"keys", "first", "config", "peers">>
             b == <<"first", "config", "peers">>
             c == <<"config", "peers">>
             d == <<"peers">>
             u == <<"unlink">>
             v == <<"unlink", "keys", "first", "config", "peers">>
             w == <<"wipe">>
             x == <<"wipe", "unlink">>
             y == <<"wipe", "keys", "first", "config", "peers">>
             e == <<>>
  <2>1. /\ Head(a) = "keys" /\ Tail(a) = b /\ Head(b) = "first" /\ Tail(b) = c
        /\ Head(c) = "config" /\ Tail(c) = d /\ Head(d) = "peers" /\ Tail(d) = e
        /\ Head(u) = "unlink" /\ Tail(u) = e /\ Head(v) = "unlink" /\ Tail(v) = a
        /\ Head(w) = "wipe" /\ Tail(w) = e /\ Head(x) = "wipe" /\ Tail(x) = u
        /\ Head(y) = "wipe" /\ Tail(y) = a /\ Head(FullReset) = "wipe" /\ Tail(FullReset) = v
        /\ e \notin {a, b, c, d, u, v, w, x, y, FullReset}
    BY StepLists
  <2>2. todo \in {a, b, c, d, u, v, w, x, y, FullReset} /\ Renewal = {a, b, c}
    BY <1>1 DEF Ahead, Renewal
  <2>3. d \notin Renewal /\ \A t \in {u, v, w, x, y, FullReset} : t \notin Renewal
    BY <2>1, <2>2
  <2> HIDE DEF a, b, c, d, u, v, w, x, y, e
  <2>4. /\ todo # e
        /\ Head(todo) = "keys" => todo \in Renewal /\ Tail(todo) = b
        /\ Head(todo) = "config" => todo \in Renewal /\ Tail(todo) = d
        /\ Head(todo) = "peers" => todo \notin Renewal /\ Tail(todo) = e
        /\ Head(todo) = "first" => todo \in Renewal /\ Tail(todo) = c
        /\ Head(todo) = "wipe" => todo \notin Renewal /\ Tail(todo) \in {e, u, a, v}
        /\ Head(todo) = "unlink" => todo \notin Renewal /\ Tail(todo) \in {e, a}
    BY ONLY <2>1, <2>2, <2>3
  <2> QED BY <1>1, <2>4 DEF a, b, c, d, u, v, e
<1>2. CASE cmd = "init"
  BY ONLY <1>2, StepLists, todo \in Ahead(cmd) DEF Ahead, Renewal
<1>3. CASE cmd \notin {"reset", "init"}
  BY ONLY <1>3, StepLists, todo \in Ahead(cmd) DEF Ahead, Renewal
<1> QED BY <1>1, <1>2, <1>3

\* While one command works, what is coming to a file is what it has in hand or what is there.
LEMMA ComingOf ==
  ASSUME NEW p \in Proc, \A q \in Proc \ {p} : Free(q), NEW f
  PROVE  Coming(f) = IF Handling(p, f) THEN job[p].next ELSE Loaded(f)
<1>1. \A q \in Proc : Handling(q, f) => q = p
  BY DEF Handling
<1>2. CASE Handling(p, f)
  <2>1. (CHOOSE q \in Proc : Handling(q, f)) = p
    BY <1>1, <1>2
  <2> QED BY <1>2, <2>1 DEF Coming
<1> QED BY <1>1, <1>2 DEF Coming

\* The same, after the command has come to hold job k.
LEMMA ComingNext ==
  ASSUME TypeOK, NEW p \in Proc, \A q \in Proc \ {p} : Free(q), NEW k, job' = [job EXCEPT ![p] = k]
  PROVE  /\ job'[p] = k /\ \A q \in Proc \ {p} : job'[q] = job[q] /\ Free(q)'
         /\ Free(p)' <=> k.todo = <<>>
         /\ Single'
         /\ \A f \in File : Coming(f)' = IF k.todo # <<>> /\ Head(k.todo) = f /\ k.phase # "load"
                                         THEN k.next ELSE Loaded(f)'
<1>1. /\ job'[p] = k /\ \A q \in Proc \ {p} : job'[q] = job[q] /\ Free(q)'
      /\ Free(p)' <=> k.todo = <<>>
  BY DEF TypeOK, Free
<1>2. Single'
  BY <1>1 DEF Single
<1>3. ASSUME NEW f \in File
      PROVE  Coming(f)' = IF k.todo # <<>> /\ Head(k.todo) = f /\ k.phase # "load"
                          THEN k.next ELSE Loaded(f)'
  <2>1. \A q \in Proc : Handling(q, f)' => q = p
    BY <1>1 DEF Handling
  <2>2. Handling(p, f)' <=> k.todo # <<>> /\ Head(k.todo) = f /\ k.phase # "load"
    BY <1>1 DEF Handling
  <2>3. CASE Handling(p, f)'
    <3>1. (CHOOSE q \in Proc : Handling(q, f)') = p
      BY <2>1, <2>3
    <3>2. Coming(f)' = job'[p].next
      BY <2>3, <3>1, Zenon DEF Coming
    <3> QED BY <1>1, <2>2, <2>3, <3>2
  <2>4. CASE ~Handling(p, f)'
    BY <2>1, <2>2, <2>4 DEF Coming
  <2> QED BY <2>3, <2>4
<1> QED BY <1>1, <1>2, <1>3

\* A step of the one command, or its start, keeps the invariant if the command stays
\* steady and the files stay in agreement.
LEMMA AloneKept ==
  ASSUME TypeOK, NEW p \in Proc, \A q \in Proc \ {p} : Free(q), NEW k, job' = [job EXCEPT ![p] = k],
         \A f \in File : disk'[f] = Torn => At(p, f, "write")',
         k.todo # <<>> => Steady(job[p])',
         \/ Coming("config").key' \in {NoKey, First(Coming("keys")')}
         \/ k.todo # <<>> /\ Renewing(k),
         OwnEntries'
  PROVE  AloneInv'
<1>1. /\ job'[p] = k /\ \A q \in Proc \ {p} : job'[q] = job[q] /\ Free(q)'
      /\ (Free(p)' <=> k.todo = <<>>) /\ Single'
  BY ComingNext
<1>2. Whole'
  BY DEF Whole
<1>3. AllSteady'
  BY <1>1 DEF AllSteady
<1>4. ConfigComes'
  <2>1. CASE Coming("config").key' \in {NoKey, First(Coming("keys")')}
    <3>1. First(Coming("keys")') = First(Coming("keys"))'
      BY DEF First
    <3> QED BY <2>1, <3>1 DEF ConfigComes
  <2>2. CASE k.todo # <<>> /\ Renewing(k)
    <3>1. ~Free(p)' /\ Renewing(job[p])'
      BY <1>1, <2>2 DEF Renewing
    <3> QED BY <3>1 DEF ConfigComes
  <2> QED BY <2>1, <2>2
<1> QED BY <1>1, <1>2, <1>3, <1>4 DEF AloneInv

\* Alone, the command at work is the only one, and finds no torn file but its own.
LEMMA AloneAtWork ==
  ASSUME TypeOK, AloneInv, alone, NEW p \in Proc, ~Free(p)
  PROVE  /\ \A q \in Proc \ {p} : Free(q)
         /\ \A f \in File : disk[f] = Torn => At(p, f, "write")
         /\ Steady(job[p]) /\ job[p].todo \in Ahead(job[p].cmd) /\ OwnEntries
         /\ \/ Coming("config").key \in {NoKey, First(Coming("keys"))}
            \/ Renewing(job[p])
<1>1. \A q \in Proc \ {p} : Free(q)
  BY DEF AloneInv, Single
<1>2. \A f \in File : disk[f] = Torn => At(p, f, "write")
  BY <1>1 DEF AloneInv, Whole, At
<1>3. Steady(job[p]) /\ job[p].todo \in Ahead(job[p].cmd)
  BY DEF AloneInv, AllSteady, Steady
<1> QED BY <1>1, <1>2, <1>3 DEF AloneInv, ConfigComes

\* A command that starts when none is at work finds the files in agreement.
LEMMA StartAlone ==
  ASSUME TypeOK, AloneInv, NEW p \in Proc, NEW j, Start(p, j), j.phase = "load", j.todo \in Ahead(j.cmd),
         j.cmd = "add-peer" => j.url \in Url,
         j.cmd = "init" => Head(j.todo) = "first",
         j.cmd = "reset" => Head(j.todo) = "wipe",
         j.cmd = "reset" /\ j.flag /\ ~stale' => j.todo = FullReset,
         stale => stale'
  PROVE  AloneInv'
<1> SUFFICES ASSUME alone' PROVE AloneInv'
  BY DEF AloneInv
<1>1. /\ alone /\ \A q \in Proc : Free(q)
      /\ UNCHANGED disk /\ job' = [job EXCEPT ![p] = j]
  BY DEF Start
<1>2. \A f \in File : Coming(f)' = Loaded(f)' /\ Loaded(f)' = Loaded(f) /\ Coming(f) = Loaded(f)
  <2>1. \A f \in File : Coming(f)' = IF j.todo # <<>> /\ Head(j.todo) = f /\ j.phase # "load"
                                    THEN j.next ELSE Loaded(f)'
    BY ONLY TypeOK, <1>1, ComingNext
  <2>2. \A f \in File : Coming(f) = Loaded(f)
    BY <1>1, ComingOf DEF Handling
  <2>3. \A f \in File : Loaded(f)' = Loaded(f)
    BY <1>1 DEF Loaded
  <2> QED BY <2>1, <2>2, <2>3
<1>3. \A f \in File : disk'[f] # Torn
  BY <1>1 DEF AloneInv, Whole, At
<1>4. Steady(job[p])'
  <2>1. job'[p] = j
    BY <1>1 DEF TypeOK
  <2> QED BY <2>1 DEF Steady
<1>5. OwnEntries'
  BY <1>1, <1>2 DEF AloneInv, OwnEntries, File
<1>6. Coming("config").key' \in {NoKey, First(Coming("keys")')}
  <2>1. Coming("config").key \in {NoKey, First(Coming("keys"))}
    BY <1>1 DEF AloneInv, ConfigComes
  <2> QED BY <1>2, <2>1 DEF File
<1> QED BY <1>1, <1>3, <1>4, <1>5, <1>6, AloneKept

\* A command goes on to its next step, or ends, and no file changes.
LEMMA CalmAlone ==
  ASSUME TypeOK, AloneInv, alone, NEW p \in Proc, ~Free(p), job[p].phase = "load",
         NEW k, job' = [job EXCEPT ![p] = k], k.todo = <<>> \/ k.phase = "load", UNCHANGED <<disk, stale>>,
         k.todo # <<>> => Steady(job[p])',
         \/ Coming("config").key \in {NoKey, First(Coming("keys"))}
         \/ k.todo # <<>> /\ Renewing(k)
  PROVE  AloneInv'
<1>1. /\ \A q \in Proc \ {p} : Free(q)
      /\ \A f \in File : disk[f] # Torn
  BY AloneAtWork DEF At
<1>2. \A f \in File : Coming(f)' = Coming(f)
  <2>1. \A f \in File : Coming(f)' = Loaded(f)'
    BY <1>1, ComingNext
  <2>2. \A f \in File : Coming(f) = Loaded(f)
    BY <1>1, ComingOf DEF Handling
  <2>3. \A f \in File : Loaded(f)' = Loaded(f)
    BY DEF Loaded
  <2> QED BY <2>1, <2>2, <2>3
<1>3. OwnEntries'
  BY <1>2, AloneAtWork DEF OwnEntries, File
<1>4. \/ Coming("config").key' \in {NoKey, First(Coming("keys")')}
      \/ k.todo # <<>> /\ Renewing(k)
  BY <1>2 DEF File
<1> QED BY <1>1, <1>3, <1>4, AloneKept

\* A sequence is its first element before the rest.
LEMMA PutBefore ==
  ASSUME NEW S, NEW u \in Seq(S), u # <<>>
  PROVE  <<Head(u)>> \o Tail(u) = u /\ Head(u) \in S /\ Tail(u) \in Seq(S)
<1> DEFINE x == Head(u)
           t == Tail(u)
           v == <<x>> \o t
<1>1. /\ x \in S /\ t \in Seq(S) /\ Len(u) \in Nat /\ Len(t) + 1 = Len(u) /\ u[1] = x
      /\ \A i \in 1..Len(t) : u[i + 1] = t[i]
  BY ToSetTail
<1> HIDE DEF x, t
<1>2. /\ v \in Seq(S) /\ Len(v) = Len(t) + 1 /\ v[1] = x
      /\ \A i \in 1..Len(t) : v[i + 1] = t[i]
  BY <1>1
<1> HIDE DEF v
<1>3. ASSUME NEW i \in 1..Len(u) PROVE v[i] = u[i]
  <2>1. CASE i = 1
    BY <1>1, <1>2, <2>1
  <2>2. CASE i # 1
    <3>1. i - 1 \in 1..Len(t) /\ i = (i - 1) + 1
      BY <1>1, <1>3, <2>2
    <3> QED BY <1>1, <1>2, <3>1
  <2> QED BY <2>1, <2>2
<1>4. Len(v) = Len(u)
  BY <1>1, <1>2
<1>5. v = u
  BY <1>2, <1>3, <1>4
<1> QED BY <1>1, <1>5 DEF v, x, t

\* A sequence that has the elements of two, one after the other, is their concatenation.
LEMMA Joined ==
  ASSUME NEW S, NEW s \in Seq(S), NEW t \in Seq(S), NEW u \in Seq(S), Len(u) = Len(s) + Len(t),
         \A i \in 1..Len(s) : u[i] = s[i], \A i \in 1..Len(t) : u[Len(s) + i] = t[i]
  PROVE  s \o t = u
<1> DEFINE v == s \o t
<1>1. /\ v \in Seq(S) /\ Len(v) = Len(u) /\ Len(s) \in Nat /\ Len(t) \in Nat
      /\ \A i \in 1..Len(s) : v[i] = u[i]
      /\ \A i \in 1..Len(t) : v[Len(s) + i] = u[Len(s) + i]
  <2>1. /\ v \in Seq(S) /\ Len(v) = Len(s) + Len(t)
        /\ \A i \in 1..Len(s) : v[i] = s[i]
        /\ \A i \in 1..Len(t) : v[Len(s) + i] = t[i]
    BY ConcatElements
  <2>2. Len(s) \in Nat /\ Len(t) \in Nat
    OBVIOUS
  <2> HIDE DEF v
  <2> QED BY <2>1, <2>2
<1> HIDE DEF v
<1>2. ASSUME NEW i \in 1..Len(u) PROVE v[i] = u[i]
  <2>1. CASE i <= Len(s)
    BY <1>1, <1>2, <2>1
  <2>2. CASE i > Len(s)
    <3>1. i - Len(s) \in 1..Len(t) /\ i = Len(s) + (i - Len(s))
      BY <1>1, <1>2, <2>2
    <3> QED BY <1>1, <3>1
  <2> QED BY <1>1, <1>2, <2>1, <2>2
<1>3. v = u
  BY <1>1, <1>2
<1> QED BY <1>3 DEF v

\* The steps of init-node, written out.
LEMMA InitLists ==
  /\ <<"first", "config">> \o <<"peers">> = <<"first", "config", "peers">>
  /\ <<"first", "config">> \o <<>> = <<"first", "config">>
<1>1. <<"first", "config">> \o <<"peers">> = <<"first", "config", "peers">>
  <2> DEFINE a == <<"first", "config">>
             b == <<"peers">>
             c == <<"first", "config", "peers">>
  <2>1. a \in Seq(Step) /\ b \in Seq(Step) /\ c \in Seq(Step)
    BY DEF Step, File
  <2>2. /\ Len(a) = 2 /\ a[1] = "first" /\ a[2] = "config" /\ Len(b) = 1 /\ b[1] = "peers"
        /\ Len(c) = 3 /\ c[1] = "first" /\ c[2] = "config" /\ c[3] = "peers"
    OBVIOUS
  <2> HIDE DEF a, b, c
  <2>3. \A n \in 1..Len(a) : c[n] = a[n]
    BY <2>2
  <2>4. \A n \in 1..Len(b) : c[Len(a) + n] = b[n]
    BY <2>2
  <2>5. Len(c) = Len(a) + Len(b)
    BY <2>2
  <2>6. a \o b = c
    BY ONLY <2>1, <2>3, <2>4, <2>5, Joined
  <2> QED BY <2>6 DEF a, b, c
<1>2. <<"first", "config">> \o <<>> = <<"first", "config">>
  OBVIOUS
<1> QED BY <1>1, <1>2

\* The steps of a reset, written out.
LEMMA ResetSteps ==
  /\ InitSteps(TRUE) = <<"first", "config", "peers">> /\ InitSteps(FALSE) = <<"first", "config">>
  /\ <<"keys">> \o InitSteps(TRUE) = <<"keys", "first", "config", "peers">>
  /\ <<"wipe">> \o <<>> = <<"wipe">> /\ <<"wipe">> \o <<"unlink">> = <<"wipe", "unlink">>
  /\ <<"wipe">> \o <<"keys", "first", "config", "peers">> = <<"wipe", "keys", "first", "config", "peers">>
  /\ <<"wipe", "unlink">> \o <<>> = <<"wipe", "unlink">>
  /\ <<"wipe", "unlink">> \o <<"keys", "first", "config", "peers">> = FullReset
<1> DEFINE k == <<"keys", "first", "config", "peers">>
           i == <<"first", "config", "peers">>
           u == <<"unlink">>
           w == <<"wipe">>
           v == <<"unlink", "keys", "first", "config", "peers">>
           x == <<"wipe", "unlink">>
           y == <<"wipe", "keys", "first", "config", "peers">>
           e == <<>>
<1>1. /\ k \in Seq(Step) /\ u \in Seq(Step) /\ w \in Seq(Step) /\ v \in Seq(Step)
      /\ x \in Seq(Step) /\ y \in Seq(Step) /\ FullReset \in Seq(Step)
  BY DEF Step, File, FullReset
<1>2. InitSteps(TRUE) = i /\ InitSteps(FALSE) = <<"first", "config">>
  BY InitLists, Zenon DEF InitSteps
<1>3. /\ k # e /\ Head(k) = "keys" /\ Tail(k) = i
      /\ w # e /\ Head(w) = "wipe" /\ Tail(w) = e
      /\ v # e /\ Head(v) = "unlink" /\ Tail(v) = k
      /\ x # e /\ Head(x) = "wipe" /\ Tail(x) = u
      /\ y # e /\ Head(y) = "wipe" /\ Tail(y) = k
      /\ FullReset # e /\ Head(FullReset) = "wipe" /\ Tail(FullReset) = v
  BY StepLists
<1>4. w = <<"wipe">> /\ u = <<"unlink">> /\ e = <<>>
  OBVIOUS
<1> HIDE DEF k, i, u, w, v, x, y, e
<1>5. /\ <<"keys">> \o i = k /\ <<"wipe">> \o e = w /\ <<"unlink">> \o k = v /\ <<"wipe">> \o u = x
      /\ <<"wipe">> \o k = y /\ <<"wipe">> \o v = FullReset
  BY <1>1, <1>3, <1>4, PutBefore
<1>6. x \o k = FullReset
  <2>1. /\ Len(x) = 2 /\ x[1] = "wipe" /\ x[2] = "unlink"
        /\ Len(k) = 4 /\ k[1] = "keys" /\ k[2] = "first" /\ k[3] = "config" /\ k[4] = "peers"
    BY DEF x, k
  <2>2. /\ Len(FullReset) = 6 /\ FullReset[1] = "wipe" /\ FullReset[2] = "unlink"
        /\ FullReset[3] = "keys" /\ FullReset[4] = "first" /\ FullReset[5] = "config"
        /\ FullReset[6] = "peers"
    BY DEF FullReset
  <2>3. \A n \in 1..Len(x) : FullReset[n] = x[n]
    BY <2>1, <2>2
  <2>4. ASSUME NEW n \in 1..Len(k) PROVE FullReset[Len(x) + n] = k[n]
    <3>1. n \in {1, 2, 3, 4} /\ Len(x) = 2
      BY <2>1
    <3>2. CASE n = 1
      BY <2>1, <2>2, <3>2
    <3>3. CASE n = 2
      BY <2>1, <2>2, <3>3
    <3>4. CASE n = 3
      BY <2>1, <2>2, <3>4
    <3>5. CASE n = 4
      BY <2>1, <2>2, <3>5
    <3> QED BY <3>1, <3>2, <3>3, <3>4, <3>5
  <2>5. Len(FullReset) = Len(x) + Len(k)
    BY <2>1, <2>2
  <2> QED BY ONLY <1>1, <2>3, <2>4, <2>5, Joined
<1>7. x \o e = x
  BY <1>1, <1>4
<1>8. InitSteps(FALSE) = <<"first", "config">> /\ InitSteps(TRUE) = i
  BY <1>2
<1> QED BY <1>4, <1>5, <1>6, <1>7, <1>8 DEF k, i, u, w, v, x, y, e

\* Every command starts in agreement with the files.
LEMMA CommandAlone ==
  ASSUME TypeOK, AloneInv, NEW p \in Proc,
         \/ \E k \in Key : KeysAdd(p, k)
         \/ \E port \in Port, auto \in BOOLEAN : InitNode(p, port, auto)
         \/ \E port \in Port : ConfigSet(p, port)
         \/ ConfigReset(p)
         \/ \E url \in Url, k \in Key : PeersAdd(p, url, k)
         \/ \E remove, reinit, replace \in BOOLEAN, k \in Key : Reset(p, remove, reinit, replace, k)
  PROVE  AloneInv'
<1>1. ASSUME NEW k \in Key, KeysAdd(p, k) PROVE AloneInv'
  <2> DEFINE j == [Idle EXCEPT !.cmd = "add-key", !.todo = <<"keys">>, !.key = k]
  <2>1. j.cmd = "add-key" /\ j.phase = "load" /\ j.todo \in Ahead("add-key")
    BY DEF Idle, Ahead
  <2>2. Start(p, j) /\ (stale => stale')
    BY <1>1, Zenon DEF KeysAdd
  <2> HIDE DEF j
  <2> QED BY <2>1, <2>2, StartAlone
<1>2. ASSUME NEW port \in Port, NEW auto \in BOOLEAN, InitNode(p, port, auto) PROVE AloneInv'
  <2> DEFINE j == [Idle EXCEPT !.cmd = "init", !.todo = InitSteps(auto), !.port = port, !.flag = auto]
  <2>1. j.cmd = "init" /\ j.phase = "load" /\ j.todo = InitSteps(auto)
    BY DEF Idle
  <2>2. InitSteps(auto) \in Ahead("init") /\ Head(InitSteps(auto)) = "first"
    <3>1. InitSteps(auto) \in {<<"first", "config", "peers">>, <<"first", "config">>}
      BY ResetSteps
    <3> QED BY <3>1, StepLists DEF Ahead
  <2>3. Start(p, j) /\ (stale => stale')
    BY <1>2, Zenon DEF InitNode
  <2> HIDE DEF j
  <2> QED BY <2>1, <2>2, <2>3, StartAlone
<1>3. ASSUME NEW port \in Port, ConfigSet(p, port) PROVE AloneInv'
  <2> DEFINE j == [Idle EXCEPT !.cmd = "set", !.todo = <<"config">>, !.port = port]
  <2>1. j.cmd = "set" /\ j.phase = "load" /\ j.todo \in Ahead("set")
    BY DEF Idle, Ahead
  <2>2. Start(p, j) /\ (stale => stale')
    BY <1>3, Zenon DEF ConfigSet
  <2> HIDE DEF j
  <2> QED BY <2>1, <2>2, StartAlone
<1>4. ASSUME ConfigReset(p) PROVE AloneInv'
  <2> DEFINE j == [Idle EXCEPT !.cmd = "reset-config", !.todo = <<"config">>]
  <2>1. j.cmd = "reset-config" /\ j.phase = "load" /\ j.todo \in Ahead("reset-config")
    BY DEF Idle, Ahead
  <2>2. Start(p, j) /\ (stale => stale')
    BY <1>4, Zenon DEF ConfigReset
  <2> HIDE DEF j
  <2> QED BY <2>1, <2>2, StartAlone
<1>5. ASSUME NEW url \in Url, NEW k \in Key, PeersAdd(p, url, k) PROVE AloneInv'
  <2> DEFINE j == [Idle EXCEPT !.cmd = "add-peer", !.todo = <<"peers">>, !.url = url, !.key = k]
  <2>1. j.cmd = "add-peer" /\ j.phase = "load" /\ j.todo \in Ahead("add-peer") /\ j.url = url
    BY DEF Idle, Ahead
  <2>2. Start(p, j) /\ (stale => stale')
    BY <1>5, Zenon DEF PeersAdd
  <2> HIDE DEF j
  <2> QED BY <2>1, <2>2, StartAlone
<1>6. ASSUME NEW remove \in BOOLEAN, NEW reinit \in BOOLEAN, NEW replace \in BOOLEAN, NEW k \in Key,
             Reset(p, remove, reinit, replace, k)
      PROVE  AloneInv'
  <2> DEFINE todo == <<"wipe">> \o (IF remove THEN <<"unlink">> ELSE <<>>)
                            \o (IF reinit THEN <<"keys">> \o InitSteps(TRUE) ELSE <<>>)
             j == [Idle EXCEPT !.cmd = "reset", !.key = k, !.flag = replace, !.todo = todo]
  <2>1. /\ todo \in {<<"wipe">>, <<"wipe", "unlink">>, FullReset,
                     <<"wipe", "keys", "first", "config", "peers">>}
        /\ remove /\ reinit => todo = FullReset
    <3>1. /\ remove => <<"wipe">> \o (IF remove THEN <<"unlink">> ELSE <<>>) = <<"wipe", "unlink">>
          /\ ~remove => <<"wipe">> \o (IF remove THEN <<"unlink">> ELSE <<>>) = <<"wipe">>
          /\ reinit => (IF reinit THEN <<"keys">> \o InitSteps(TRUE) ELSE <<>>)
                          = <<"keys", "first", "config", "peers">>
      BY ResetSteps, Zenon
    <3>2. CASE remove /\ reinit
      BY <3>1, <3>2, ResetSteps, Zenon
    <3>3. CASE remove /\ ~reinit
      BY <3>1, <3>3, ResetSteps, Zenon
    <3>4. CASE ~remove /\ reinit
      BY <3>1, <3>4, ResetSteps, Zenon
    <3>5. CASE ~remove /\ ~reinit
      BY <3>1, <3>5, ResetSteps, Zenon
    <3> QED BY <3>2, <3>3, <3>4, <3>5
  <2>2. Start(p, j) /\ (stale => stale') /\ (~stale' /\ replace => remove) /\ (replace => reinit)
    BY <1>6, Zenon DEF Reset
  <2> HIDE DEF todo
  <2>3. j.cmd = "reset" /\ j.phase = "load" /\ j.todo = todo /\ j.flag = replace
    BY DEF Idle
  <2>4. todo \in Ahead("reset") /\ Head(todo) = "wipe"
    BY <2>1, StepLists DEF Ahead
  <2> HIDE DEF j
  <2> QED BY <2>1, <2>2, <2>3, <2>4, StartAlone
<1> QED BY <1>1, <1>2, <1>3, <1>4, <1>5, <1>6

\* A command with its next step ahead, or none.
LEMMA NextAhead ==
  ASSUME TypeOK, NEW p \in Proc, ~Free(p)
  PROVE  /\ Done(job[p]).cmd = job[p].cmd /\ Done(job[p]).key = job[p].key
         /\ Done(job[p]).url = job[p].url /\ (Done(job[p]).flag <=> job[p].flag)
         /\ Done(job[p]).phase = "load" /\ Done(job[p]).todo = Tail(job[p].todo)
<1>1. job[p] \in Job(job[p].next)
  BY AtWork
<1>2. /\ Done(job[p]).cmd = job[p].cmd /\ Done(job[p]).key = job[p].key
      /\ Done(job[p]).url = job[p].url
      /\ Done(job[p]).phase = "load" /\ Done(job[p]).todo = Tail(job[p].todo)
  BY <1>1 DEF Done, Job
<1>3. Done(job[p]).flag <=> job[p].flag
  BY <1>1 DEF Done, Job
<1> QED BY <1>2, <1>3

\* init-node takes the key in use; a reset finds one, as it has just made sure of it.
LEMMA FirstKeyAlone ==
  ASSUME TypeOK, AloneInv, alone, NEW p \in Proc, FirstKey(p)
  PROVE  AloneInv'
<1> DEFINE j == job[p]
           keys == Loaded("keys")
<1>1. /\ At(p, "first", "load") /\ UNCHANGED <<disk, stale>> /\ ~Free(p)
      /\ job[p].phase = "load" /\ Head(j.todo) = "first"
  BY DEF FirstKey, At
<1>2. /\ \A q \in Proc \ {p} : Free(q)
      /\ Steady(j) /\ j.todo \in Ahead(j.cmd)
      /\ Coming("config").key \in {NoKey, First(Coming("keys"))} \/ Renewing(j)
      /\ disk["keys"] # Torn
  BY <1>1, AloneAtWork DEF At, File
<1>3. /\ j.cmd \in {"init", "reset"}
      /\ j.cmd = "init" => Tail(j.todo) \in {<<"config">>, <<"config", "peers">>}
      /\ j.cmd = "reset" => Tail(j.todo) = <<"config", "peers">>
  BY <1>1, <1>2, Standing
<1>4. Coming("keys") = keys /\ Coming("keys")' = keys
  <2>1. Coming("keys") = Loaded("keys")
    BY <1>1, <1>2, ComingOf DEF Handling
  <2>2. PICK k : job' = [job EXCEPT ![p] = k] /\ (k = Idle \/ k = [Done(j) EXCEPT !.key = keys[1]])
    BY DEF FirstKey
  <2>3. k.todo = <<>> \/ k.phase = "load"
    <3>1. Done(j) \in Job(None) /\ Done(j).phase = "load"
      BY <1>1, AtWork
    <3>2. [Done(j) EXCEPT !.key = keys[1]].phase = "load"
      BY <3>1 DEF Job
    <3>3. Idle.todo = <<>>
      BY DEF Idle
    <3> QED BY <2>2, <3>2, <3>3
  <2>4. Coming("keys")' = Loaded("keys")'
    BY <1>2, <2>2, <2>3, ComingNext DEF File
  <2>5. Loaded("keys")' = Loaded("keys")
    BY <1>1 DEF Loaded
  <2> QED BY <2>1, <2>4, <2>5
<1>5. CASE keys = <<>>
  <2>1. job' = [job EXCEPT ![p] = Idle] /\ Idle.todo = <<>>
    BY <1>5 DEF FirstKey, Idle
  <2>2. ~Renewing(j)
    BY <1>1, <1>2, <1>4, <1>5 DEF Steady, Renewing
  <2> QED BY <1>1, <1>2, <2>1, <2>2, CalmAlone
<1>6. CASE keys # <<>>
  <2> DEFINE k == [Done(j) EXCEPT !.key = keys[1]]
  <2>1. job' = [job EXCEPT ![p] = k]
    BY <1>2, <1>6 DEF FirstKey, Fails
  <2>2. /\ k.cmd = j.cmd /\ k.phase = "load" /\ k.todo = Tail(j.todo) /\ k.key = keys[1]
        /\ k.key = Head(keys)
    <3>0. Done(j) \in Job(None)
      BY <1>1, AtWork
    <3>1. k.cmd = Done(j).cmd /\ k.phase = Done(j).phase /\ k.todo = Done(j).todo /\ k.key = keys[1]
      BY <3>0 DEF Job
    <3>2. Head(keys) = keys[1]
      BY <1>6
    <3> QED BY <1>1, <3>1, <3>2, NextAhead
  <2> HIDE DEF k
  <2>3. Head(k.todo) = "config" /\ k.todo # <<>> /\ k.todo \in Ahead(k.cmd)
    <3>1. k.todo \in {<<"config">>, <<"config", "peers">>} /\ k.cmd \in {"init", "reset"}
          /\ (k.cmd = "reset" => k.todo = <<"config", "peers">>)
      BY <1>3, <2>2
    <3> QED BY <3>1, StepLists DEF Ahead, Renewal
  <2>4. Steady(job[p])'
    <3>1. job'[p] = k
      BY <2>1 DEF TypeOK
    <3> QED BY <1>3, <1>4, <1>6, <2>2, <2>3, <3>1 DEF Steady
  <2>5. Coming("config").key \in {NoKey, First(Coming("keys"))} \/ Renewing(k)
    <3>1. Renewing(j) => k.cmd = "reset" /\ k.todo = <<"config", "peers">>
      BY <1>3, <2>2 DEF Renewing
    <3>2. Renewing(j) => Renewing(k)
      BY <2>2, <3>1 DEF Renewing, Renewal
    <3> QED BY <1>2, <3>2
  <2> QED BY <1>1, <2>1, <2>2, <2>3, <2>4, <2>5, CalmAlone
<1> QED BY <1>5, <1>6

\* A reset that has cleared the database goes on to the peers or to the keys.
LEMMA WipeAlone ==
  ASSUME TypeOK, AloneInv, alone, NEW p \in Proc, Wipe(p)
  PROVE  AloneInv'
<1> DEFINE j == job[p]
           k == [Done(j) EXCEPT !.port = Loaded("config").port]
<1>1. /\ At(p, "wipe", "load") /\ UNCHANGED <<disk, stale>> /\ job' = [job EXCEPT ![p] = k]
      /\ ~Free(p) /\ job[p].phase = "load" /\ Head(j.todo) = "wipe"
  BY DEF Wipe, At
<1>2. /\ Steady(j) /\ j.todo \in Ahead(j.cmd)
      /\ Coming("config").key \in {NoKey, First(Coming("keys"))} \/ Renewing(j)
  BY <1>1, AloneAtWork
<1>3. /\ j.cmd = "reset" /\ j.todo \notin Renewal
      /\ Tail(j.todo) \in {<<>>, <<"unlink">>, <<"keys", "first", "config", "peers">>,
                           <<"unlink", "keys", "first", "config", "peers">>}
  BY <1>1, <1>2, Standing
<1>4. /\ k.cmd = j.cmd /\ k.phase = "load" /\ k.todo = Tail(j.todo) /\ (k.flag <=> j.flag)
  <2>1. Done(j) \in Job(None)
    BY <1>1, AtWork
  <2>2. k.cmd = Done(j).cmd /\ k.phase = Done(j).phase /\ k.todo = Done(j).todo
    BY <2>1 DEF Job
  <2>3. k.flag <=> Done(j).flag
    BY <2>1 DEF Job
  <2> QED BY <1>1, <2>2, <2>3, NextAhead
<1> HIDE DEF k
<1>5. j.flag /\ ~stale => Head(k.todo) = "unlink"
  BY <1>1, <1>2, <1>3, <1>4, StepLists DEF Steady
<1>6. k.todo # <<>> => k.todo \in Ahead("reset") /\ Head(k.todo) \in {"unlink", "keys"}
  BY <1>3, <1>4, StepLists DEF Ahead, Renewal
<1>7. k.todo # <<>> => Steady(job[p])'
  <2>1. job'[p] = k
    BY <1>1 DEF TypeOK
  <2> QED BY <1>1, <1>3, <1>4, <1>5, <1>6, <2>1 DEF Steady
<1> QED BY <1>1, <1>2, <1>3, <1>4, <1>7, CalmAlone DEF Renewing

\* A killed command overlapped, as far as the files go, with the next.
LEMMA KillAlone ==
  ASSUME NEW p \in Proc, Kill(p)
  PROVE  AloneInv'
BY DEF Kill, AloneInv

\* A reset that has removed the peers has none to agree with the key it makes next.
LEMMA UnlinkAlone ==
  ASSUME TypeOK, AloneInv, alone, NEW p \in Proc, Unlink(p)
  PROVE  AloneInv'
<1> DEFINE j == job[p]
           k == Done(j)
<1>1. /\ At(p, "unlink", "load") /\ UNCHANGED stale /\ job' = [job EXCEPT ![p] = k]
      /\ disk' = [disk EXCEPT !["peers"] = None]
      /\ ~Free(p) /\ job[p].phase = "load" /\ Head(j.todo) = "unlink"
  BY DEF Unlink, At
<1>2. /\ \A q \in Proc \ {p} : Free(q)
      /\ \A f \in File : disk[f] # Torn
      /\ Steady(j) /\ j.todo \in Ahead(j.cmd)
      /\ Coming("config").key \in {NoKey, First(Coming("keys"))} \/ Renewing(j)
  BY <1>1, AloneAtWork DEF At
<1>3. /\ j.cmd = "reset" /\ j.todo \notin Renewal
      /\ Tail(j.todo) \in {<<>>, <<"keys", "first", "config", "peers">>}
  BY <1>1, <1>2, Standing
<1>4. k.cmd = j.cmd /\ k.phase = "load" /\ k.todo = Tail(j.todo)
  BY <1>1, NextAhead
<1> HIDE DEF k
<1>5. /\ disk'["peers"] = None /\ disk'["keys"] = disk["keys"] /\ disk'["config"] = disk["config"]
      /\ \A f \in File : disk'[f] # Torn
  BY <1>1, <1>2, MarkersAssump DEF TypeOK, File
<1>6. /\ Coming("keys")' = Coming("keys") /\ Coming("config")' = Coming("config")
      /\ Coming("peers")' = <<>>
  <2>1. \A f \in File : Coming(f)' = Loaded(f)'
    <3>1. \A f \in File : Coming(f)' = IF k.todo # <<>> /\ Head(k.todo) = f /\ k.phase # "load"
                                       THEN k.next ELSE Loaded(f)'
      BY ONLY TypeOK, <1>1, <1>2, ComingNext
    <3> QED BY <1>4, <3>1
  <2>2. \A f \in File : Coming(f) = Loaded(f)
    BY <1>1, <1>2, ComingOf DEF Handling
  <2>3. Loaded("keys")' = Loaded("keys") /\ Loaded("config")' = Loaded("config") /\ Loaded("peers")' = <<>>
    BY <1>5 DEF Loaded
  <2> QED BY <2>1, <2>2, <2>3 DEF File
<1>7. k.todo # <<>> => Steady(job[p])'
  <2>1. job'[p] = k
    BY <1>1 DEF TypeOK
  <2>2. k.todo # <<>> => k.todo \in Ahead("reset") /\ Head(k.todo) = "keys"
    BY <1>3, <1>4, StepLists DEF Ahead, Renewal
  <2> QED BY <1>3, <1>4, <1>6, <2>1, <2>2 DEF Steady
<1>8. Coming("config").key' \in {NoKey, First(Coming("keys")')}
  BY <1>2, <1>3, <1>6 DEF Renewing
<1>9. OwnEntries'
  BY <1>6, ToSetEmpty DEF OwnEntries
<1> QED BY <1>1, <1>2, <1>5, <1>7, <1>8, <1>9, AloneKept

\* A file that is torn while it is written is coming to hold what it was.
LEMMA TruncateAlone ==
  ASSUME TypeOK, HomeInv, AloneInv, alone, NEW p \in Proc, NEW f \in File, Truncate(p, f)
  PROVE  AloneInv'
<1> DEFINE j == job[p]
           k == [j EXCEPT !.phase = "write"]
<1>1. /\ At(p, f, "truncate") /\ UNCHANGED stale /\ job' = [job EXCEPT ![p] = k]
      /\ disk' = [disk EXCEPT ![f] = Torn]
  BY DEF Truncate
<1>2. /\ ~Free(p) /\ Head(j.todo) = f /\ j.phase = "truncate" /\ \A g \in File : Handling(p, g) <=> g = f
  BY <1>1, InHand
<1>3. /\ \A q \in Proc \ {p} : Free(q)
      /\ \A g \in File : disk[g] = Torn => At(p, g, "write")
      /\ Steady(j) /\ OwnEntries
      /\ Coming("config").key \in {NoKey, First(Coming("keys"))} \/ Renewing(j)
  BY <1>2, AloneAtWork
<1>4. /\ k.cmd = j.cmd /\ k.phase = "write" /\ k.todo = j.todo /\ k.key = j.key /\ k.url = j.url
      /\ k.next = j.next /\ (k.flag <=> j.flag) /\ j.todo # <<>>
  <2>1. j \in Job(j.next) /\ j.todo # <<>>
    BY <1>2, AtWork
  <2>2. /\ k.cmd = j.cmd /\ k.phase = "write" /\ k.todo = j.todo /\ k.key = j.key /\ k.url = j.url
        /\ k.next = j.next
    BY <2>1 DEF Job
  <2>3. k.flag <=> j.flag
    BY <2>1 DEF Job
  <2> QED BY <2>1, <2>2, <2>3
<1> HIDE DEF k
<1>5. job'[p] = k /\ disk'[f] = Torn /\ \A g \in File \ {f} : disk'[g] = disk[g]
  BY <1>1 DEF TypeOK
<1>6. \A g \in File : Coming(g)' = Coming(g)
  <2>1. \A g \in File : Coming(g)' = IF g = f THEN j.next ELSE Loaded(g)'
    <3>1. \A g \in File : Coming(g)' = IF k.todo # <<>> /\ Head(k.todo) = g /\ k.phase # "load"
                                       THEN k.next ELSE Loaded(g)'
      BY ONLY TypeOK, <1>1, <1>3, ComingNext
    <3> QED BY <1>2, <1>4, <3>1
  <2>2. \A g \in File : Coming(g) = IF g = f THEN j.next ELSE Loaded(g)
    BY <1>2, <1>3, ComingOf
  <2>3. \A g \in File \ {f} : Loaded(g)' = Loaded(g)
    BY <1>5 DEF Loaded
  <2> QED BY <2>1, <2>2, <2>3
<1>7. Steady(job[p])'
  BY <1>1, <1>3, <1>4, <1>5, <1>6 DEF Steady, File
<1>8. \A g \in File : disk'[g] = Torn => At(p, g, "write")'
  <2>1. ASSUME NEW g \in File, g # f PROVE disk'[g] # Torn
    BY <1>2, <1>3, <1>5, <2>1 DEF At
  <2>2. At(p, f, "write")'
    BY <1>2, <1>4, <1>5 DEF At, Free
  <2> QED BY <2>1, <2>2
<1>9. Coming("config").key' \in {NoKey, First(Coming("keys")')} \/ Renewing(k)
  <2>1. Renewing(j) => Renewing(k)
    BY <1>2, <1>4 DEF Renewing
  <2> QED BY <1>3, <1>6, <2>1 DEF File
<1>10. OwnEntries'
  BY <1>1, <1>3, <1>6 DEF OwnEntries, File
<1> QED BY <1>1, <1>3, <1>4, <1>7, <1>8, <1>9, <1>10, AloneKept

\* A file that has been written holds what was coming to it.
LEMMA FillAlone ==
  ASSUME TypeOK, HomeInv, AloneInv, alone, NEW p \in Proc, NEW f \in File, Fill(p, f)
  PROVE  AloneInv'
<1> DEFINE j == job[p]
           k == Done(j)
<1>1. /\ At(p, f, "write") /\ UNCHANGED stale /\ job' = [job EXCEPT ![p] = k]
      /\ disk' = [disk EXCEPT ![f] = j.next]
  BY DEF Fill
<1>2. /\ ~Free(p) /\ Head(j.todo) = f /\ j.phase = "write" /\ \A g \in File : Handling(p, g) <=> g = f
      /\ j.next \notin {None, Torn} /\ (f \in KeptFile => j.next # <<>>)
  BY <1>1, InHand
<1>3. /\ \A q \in Proc \ {p} : Free(q)
      /\ \A g \in File : disk[g] = Torn => At(p, g, "write")
      /\ Steady(j) /\ j.todo \in Ahead(j.cmd) /\ OwnEntries
      /\ Coming("config").key \in {NoKey, First(Coming("keys"))} \/ Renewing(j)
  BY <1>2, AloneAtWork
<1>4. /\ k.cmd = j.cmd /\ k.phase = "load" /\ k.todo = Tail(j.todo) /\ k.key = j.key
  BY <1>2, NextAhead
<1> HIDE DEF k
<1>5. job'[p] = k /\ disk'[f] = j.next /\ \A g \in File \ {f} : disk'[g] = disk[g]
  BY <1>1 DEF TypeOK
<1>6. \A g \in File : Coming(g)' = Coming(g)
  <2>1. \A g \in File : Coming(g)' = Loaded(g)'
    <3>1. \A g \in File : Coming(g)' = IF k.todo # <<>> /\ Head(k.todo) = g /\ k.phase # "load"
                                       THEN k.next ELSE Loaded(g)'
      BY ONLY TypeOK, <1>1, <1>3, ComingNext
    <3> QED BY <1>4, <3>1
  <2>2. \A g \in File : Coming(g) = IF g = f THEN j.next ELSE Loaded(g)
    BY <1>2, <1>3, ComingOf
  <2>3. \A g \in File \ {f} : Loaded(g)' = Loaded(g)
    BY <1>5 DEF Loaded
  <2>4. Loaded(f)' = j.next
    BY <1>2, <1>5 DEF Loaded
  <2> QED BY <2>1, <2>2, <2>3, <2>4
<1>7. f = "keys" => Coming("keys") # <<>>
  BY <1>2, <1>3, ComingOf DEF KeptFile
<1>8. /\ k.todo # <<>> => Steady(job[p])'
      /\ Renewing(j) => k.todo # <<>> /\ Renewing(k)
  <2>1. CASE f = "keys"
    <3>1. \/ j.cmd = "add-key" /\ k.todo = <<>>
          \/ j.cmd = "reset" /\ k.todo = <<"first", "config", "peers">>
      BY <1>2, <1>3, <1>4, <2>1, Standing
    <3>2. <<"first", "config", "peers">> \in Ahead("reset") /\ <<"first", "config", "peers">> \in Renewal
      BY DEF Ahead, Renewal
    <3>3. k.todo # <<>> => Steady(job[p])'
      BY <1>4, <1>5, <1>6, <1>7, <2>1, <3>1, <3>2, StepLists DEF Steady, File
    <3>4. Renewing(j) => k.todo # <<>> /\ Renewing(k)
      BY <1>4, <3>1, <3>2, StepLists DEF Renewing
    <3> QED BY <3>3, <3>4
  <2>2. CASE f = "config"
    <3>1. \/ k.todo = <<>>
          \/ j.cmd \in {"init", "reset"} /\ k.todo = <<"peers">>
      BY <1>2, <1>3, <1>4, <2>2, Standing
    <3>2. <<"peers">> \in Ahead("reset") /\ <<"peers">> \in Ahead("init") /\ Head(<<"peers">>) = "peers"
      BY DEF Ahead
    <3>3. j.cmd \in {"init", "reset"} => Coming("keys") # <<>> /\ j.key = Head(Coming("keys"))
      BY <1>2, <1>3, <2>2 DEF Steady
    <3>4. k.todo # <<>> => Steady(job[p])'
      BY <1>4, <1>5, <1>6, <3>1, <3>2, <3>3 DEF Steady, File
    <3>5. ~Renewing(j)
      BY <1>2, <2>2 DEF Renewing
    <3> QED BY <3>4, <3>5
  <2>3. CASE f = "peers"
    <3>1. k.todo = <<>> /\ j.todo \notin Renewal
      BY <1>2, <1>3, <1>4, <2>3, Standing
    <3> QED BY <3>1 DEF Renewing
  <2> QED BY <2>1, <2>2, <2>3 DEF File
<1>9. \A g \in File : disk'[g] # Torn
  BY <1>2, <1>3, <1>5 DEF At
<1>10. Coming("config").key' \in {NoKey, First(Coming("keys")')} \/ (k.todo # <<>> /\ Renewing(k))
  BY <1>3, <1>6, <1>8 DEF File
<1>11. OwnEntries'
  BY <1>1, <1>3, <1>6 DEF OwnEntries, File
<1> QED BY <1>1, <1>3, <1>8, <1>9, <1>10, <1>11, AloneKept

\* What a command that reads a file finds, and what it goes on with: its next step if it
\* has nothing to change, or what it is going to write.
LEMMA LoadFacts ==
  ASSUME TypeOK, HomeInv, AloneInv, alone, NEW p \in Proc, NEW f \in File, Load(p, f)
  PROVE  /\ ~Free(p) /\ Head(job[p].todo) = f /\ job[p].phase = "load"
         /\ UNCHANGED <<disk, stale>> /\ OwnEntries
         /\ \A q \in Proc \ {p} : Free(q)
         /\ \A g \in File : disk[g] # Torn /\ Coming(g) = Loaded(g)
         /\ Steady(job[p]) /\ job[p].todo \in Ahead(job[p].cmd)
         /\ Coming("config").key \in {NoKey, First(Coming("keys"))} \/ Renewing(job[p])
         /\ \/ /\ f # "config" /\ New(f, job[p]) = Loaded(f)
               /\ job' = [job EXCEPT ![p] = Done(job[p])]
               /\ \A g \in File : Coming(g)' = Coming(g)
            \/ \E k : /\ job' = [job EXCEPT ![p] = k]
                      /\ f # "config" => New(f, job[p]) # Loaded(f)
                      /\ k.todo = job[p].todo /\ k.todo # <<>> /\ k.phase = "truncate"
                      /\ k.cmd = job[p].cmd /\ k.key = job[p].key /\ k.url = job[p].url
                      /\ k.flag <=> job[p].flag
                      /\ Coming(f)' = New(f, job[p])
                      /\ \A g \in File \ {f} : Coming(g)' = Coming(g)
<1> DEFINE j == job[p]
           d == Done(j)
           n == New(f, j)
           k == [j EXCEPT !.next = n, !.phase = "truncate"]
<1>1. /\ ~Free(p) /\ Head(j.todo) = f /\ j.phase = "load" /\ UNCHANGED <<disk, stale>>
      /\ \A g \in File : Loaded(g)' = Loaded(g)
  BY DEF Load, At, Loaded
<1>2. /\ \A q \in Proc \ {p} : Free(q)
      /\ \A g \in File : disk[g] # Torn
      /\ Steady(j) /\ j.todo \in Ahead(j.cmd) /\ OwnEntries
      /\ Coming("config").key \in {NoKey, First(Coming("keys"))} \/ Renewing(j)
  BY <1>1, AloneAtWork DEF At
<1>3. \A g \in File : Coming(g) = Loaded(g)
  BY <1>1, <1>2, ComingOf DEF Handling
<1>4. ~Fails(f, Tolerant(j))
  BY <1>2 DEF Fails
<1>5. \/ f # "config" /\ n = Loaded(f) /\ job' = [job EXCEPT ![p] = d]
      \/ (f # "config" => n # Loaded(f)) /\ job' = [job EXCEPT ![p] = k]
  BY <1>4 DEF Load
<1>6. CASE f # "config" /\ n = Loaded(f) /\ job' = [job EXCEPT ![p] = d]
  <2>1. d.phase = "load"
    BY <1>1, NextAhead
  <2> HIDE DEF d
  <2>2. \A g \in File : Coming(g)' = IF d.todo # <<>> /\ Head(d.todo) = g /\ d.phase # "load"
                                     THEN d.next ELSE Loaded(g)'
    BY ONLY TypeOK, <1>2, <1>6, ComingNext
  <2>3. \A g \in File : Coming(g)' = Coming(g)
    BY <1>1, <1>3, <2>1, <2>2
  <2> QED BY <1>1, <1>2, <1>3, <1>6, <2>3 DEF d
<1>7. CASE (f # "config" => n # Loaded(f)) /\ job' = [job EXCEPT ![p] = k]
  <2>1. j \in Job(j.next) /\ j.todo # <<>>
    BY <1>1, AtWork
  <2> HIDE DEF n
  <2>2. /\ k.todo = j.todo /\ k.todo # <<>> /\ k.phase = "truncate" /\ k.next = n
        /\ k.cmd = j.cmd /\ k.key = j.key /\ k.url = j.url
    BY <2>1 DEF Job
  <2>3. k.flag <=> j.flag
    BY <2>1 DEF Job
  <2> HIDE DEF k
  <2>4. \A g \in File : Coming(g)' = IF k.todo # <<>> /\ Head(k.todo) = g /\ k.phase # "load"
                                     THEN k.next ELSE Loaded(g)'
    BY ONLY TypeOK, <1>2, <1>7, ComingNext
  <2>5. Coming(f)' = n /\ \A g \in File \ {f} : Coming(g)' = Coming(g)
    BY <1>1, <1>3, <2>2, <2>4
  <2> QED BY <1>1, <1>2, <1>3, <1>7, <2>2, <2>3, <2>5 DEF n
<1> QED BY <1>5, <1>6, <1>7

\* A command that reads keys.json gives the node a first key, keeps it, or, when told to
\* replace it, finds no peers left that know the old one.
LEMMA LoadKeysAlone ==
  ASSUME TypeOK, HomeInv, AloneInv, alone, NEW p \in Proc, Load(p, "keys")
  PROVE  AloneInv'
<1> DEFINE j == job[p]
           old == Loaded("keys")
           n == NewKeys(j)
<1>1. "keys" \in File /\ "peers" \in File /\ "config" \in File
  BY DEF File
<1>2. /\ ~Free(p) /\ Head(j.todo) = "keys" /\ j.phase = "load"
      /\ UNCHANGED <<disk, stale>> /\ OwnEntries
      /\ \A q \in Proc \ {p} : Free(q)
      /\ \A g \in File : disk[g] # Torn /\ Coming(g) = Loaded(g)
      /\ Steady(j) /\ j.todo \in Ahead(j.cmd)
      /\ Coming("config").key \in {NoKey, First(old)} \/ Renewing(j)
  BY <1>1, LoadFacts
<1>3. \/ j.cmd = "add-key" /\ Tail(j.todo) = <<>>
      \/ j.cmd = "reset" /\ j.todo \in Renewal /\ Tail(j.todo) = <<"first", "config", "peers">>
  BY <1>2, Standing
<1>4. old \in Seq(Held) /\ New("keys", j) = n /\ Coming("keys") = old
  BY <1>1, <1>2, LoadedContent DEF Content, New
<1>5. CASE /\ n = old /\ job' = [job EXCEPT ![p] = Done(j)]
           /\ \A g \in File : Coming(g)' = Coming(g)
  <2> DEFINE d == Done(j)
  <2>1. d.cmd = j.cmd /\ d.phase = "load" /\ d.todo = Tail(j.todo) /\ job'[p] = d
    BY <1>2, <1>5, NextAhead DEF TypeOK
  <2>2. job' = [job EXCEPT ![p] = d]
    BY <1>5
  <2> HIDE DEF d
  <2>3. j.cmd = "reset" => old # <<>>
    BY <1>5 DEF NewKeys
  <2>4. d.todo # <<>> => Steady(job[p])'
    <3>1. d.todo # <<>> => j.cmd = "reset" /\ d.todo = <<"first", "config", "peers">>
      BY <1>3, <2>1
    <3>2. <<"first", "config", "peers">> \in Ahead("reset")
      BY DEF Ahead, Renewal
    <3> QED BY <1>1, <1>4, <1>5, <2>1, <2>3, <3>1, <3>2, StepLists DEF Steady
  <2>5. Renewing(j) => d.todo # <<>> /\ Renewing(d)
    <3>1. Renewing(j) => d.cmd = "reset" /\ d.todo = <<"first", "config", "peers">>
      BY <1>3, <2>1 DEF Renewing
    <3> QED BY <3>1, StepLists DEF Renewing, Renewal
  <2> QED BY <1>2, <1>4, <2>1, <2>2, <2>4, <2>5, CalmAlone
<1>6. ASSUME NEW k, job' = [job EXCEPT ![p] = k], n # old,
             k.todo = j.todo, k.todo # <<>>, k.phase = "truncate", k.cmd = j.cmd, k.key = j.key,
             k.flag <=> j.flag, Coming("keys")' = n, \A g \in File \ {"keys"} : Coming(g)' = Coming(g)
      PROVE  AloneInv'
  <2>1. job'[p] = k
    BY <1>6 DEF TypeOK
  <2>2. /\ j.cmd = "add-key" => n = Append(old, j.key)
        /\ j.cmd = "reset" /\ old = <<>> => n = <<j.key>>
        /\ j.cmd = "reset" /\ old # <<>> => j.flag
    BY <1>6, Zenon DEF NewKeys
  <2>3. j.cmd = "add-key" => n # <<>> /\ (old # <<>> => Head(n) = Head(old))
    BY <1>4, <2>2
  <2>4. Steady(job[p])'
    BY <1>1, <1>2, <1>3, <1>6, <2>1 DEF Steady
  <2>5. Coming("config").key' \in {NoKey, First(Coming("keys")')} \/ Renewing(k)
    <3>1. CASE j.cmd = "add-key"
      <4>1. Coming("config").key \in {NoKey, First(old)}
        BY <1>2, <3>1 DEF Renewing
      <4>2. First(old) \in {NoKey, First(n)}
        BY <2>3, <3>1 DEF First
      <4> QED BY <1>1, <1>6, <4>1, <4>2
    <3>2. CASE j.cmd = "reset"
      BY <1>2, <1>3, <1>6, <3>2 DEF Renewing
    <3> QED BY <1>3, <3>1, <3>2
  <2>6. OwnEntries'
    <3> SUFFICES ASSUME ~stale, NEW e \in ToSet(Coming("peers")), e.url \in Port
                 PROVE  n # <<>> /\ e.key = Head(n)
      BY <1>1, <1>2, <1>6 DEF OwnEntries
    <3>1. old # <<>> /\ e.key = Head(old)
      BY <1>2, <1>4 DEF OwnEntries
    <3>2. j.cmd # "reset"
      BY <1>2, <1>3, <2>2, <3>1, ToSetEmpty DEF Steady
    <3> QED BY <1>3, <2>3, <3>1, <3>2
  <2>7. \A g \in File : disk'[g] # Torn
    BY <1>2
  <2> QED BY <1>2, <1>6, <2>4, <2>5, <2>6, <2>7, AloneKept
<1>7. \/ /\ n = old /\ job' = [job EXCEPT ![p] = Done(j)]
         /\ \A g \in File : Coming(g)' = Coming(g)
      \/ \E k : /\ job' = [job EXCEPT ![p] = k] /\ n # old
                /\ k.todo = j.todo /\ k.todo # <<>> /\ k.phase = "truncate"
                /\ k.cmd = j.cmd /\ k.key = j.key /\ k.url = j.url
                /\ k.flag <=> j.flag
                /\ Coming("keys")' = n /\ \A g \in File \ {"keys"} : Coming(g)' = Coming(g)
  BY <1>1, <1>4, LoadFacts
<1> QED BY <1>5, <1>6, <1>7

\* A command that reads config.json keeps its key, or puts the key in use there.
LEMMA LoadConfigAlone ==
  ASSUME TypeOK, HomeInv, AloneInv, alone, NEW p \in Proc, Load(p, "config")
  PROVE  AloneInv'
<1> DEFINE j == job[p]
           old == Loaded("config")
           n == NewConfig(j)
<1>1. "keys" \in File /\ "peers" \in File /\ "config" \in File
  BY DEF File
<1>2. /\ ~Free(p) /\ Head(j.todo) = "config" /\ j.phase = "load"
      /\ UNCHANGED <<disk, stale>> /\ OwnEntries
      /\ \A q \in Proc \ {p} : Free(q)
      /\ \A g \in File : disk[g] # Torn
      /\ Steady(j) /\ j.todo \in Ahead(j.cmd) /\ Coming("config") = old
      /\ Coming("config").key \in {NoKey, First(Coming("keys"))} \/ Renewing(j)
  BY <1>1, LoadFacts
<1>3. PICK k : /\ job' = [job EXCEPT ![p] = k]
               /\ k.todo = j.todo /\ k.todo # <<>> /\ k.phase = "truncate"
               /\ k.cmd = j.cmd /\ k.key = j.key /\ k.url = j.url /\ (k.flag <=> j.flag)
               /\ Coming("config")' = New("config", j)
               /\ \A g \in File \ {"config"} : Coming(g)' = Coming(g)
  BY <1>1, LoadFacts
<1>4. Coming("config")' = n /\ Coming("keys")' = Coming("keys") /\ Coming("peers")' = Coming("peers")
  BY <1>1, <1>3 DEF New
<1>5. \/ j.cmd \in {"set", "reset-config"}
      \/ j.cmd \in {"init", "reset"} /\ Coming("keys") # <<>> /\ j.key = Head(Coming("keys"))
  BY <1>2, Standing DEF Steady
<1>6. old \in Config
  BY <1>1, LoadedContent DEF Content
<1>7. n.key \in {NoKey, First(Coming("keys"))}
  <2>1. CASE j.cmd = "set"
    <3>1. n = [old EXCEPT !.port = j.port]
      BY <2>1 DEF NewConfig
    <3>2. n.key = old.key
      BY <1>6, <3>1 DEF Config
    <3> QED BY <1>2, <2>1, <3>2 DEF Renewing
  <2>2. CASE j.cmd = "reset-config"
    <3>1. n = [DefaultConfig EXCEPT !.key = old.key]
      BY <2>2 DEF NewConfig
    <3>2. n.key = old.key
      BY <3>1 DEF DefaultConfig
    <3> QED BY <1>2, <2>2, <3>2 DEF Renewing
  <2>3. CASE j.cmd \in {"init", "reset"}
    <3>1. n = [port |-> j.port, key |-> j.key]
      BY <2>3 DEF NewConfig
    <3> QED BY <1>5, <2>3, <3>1 DEF First
  <2> QED BY <1>5, <2>1, <2>2, <2>3
<1>8. job'[p] = k
  BY <1>3 DEF TypeOK
<1>9. Steady(job[p])'
  BY <1>2, <1>3, <1>4, <1>8 DEF Steady
<1>10. OwnEntries'
  BY <1>2, <1>4 DEF OwnEntries
<1>11. Coming("config").key' \in {NoKey, First(Coming("keys")')}
  BY <1>4, <1>7
<1>12. \A g \in File : disk'[g] # Torn
  BY <1>2
<1> QED BY <1>2, <1>3, <1>9, <1>10, <1>11, <1>12, AloneKept

\* A command that reads peers.json adds another node's address, or the node's own with
\* the key in use.
LEMMA LoadPeersAlone ==
  ASSUME TypeOK, HomeInv, AloneInv, alone, NEW p \in Proc, Load(p, "peers")
  PROVE  AloneInv'
<1> DEFINE j == job[p]
           old == Loaded("peers")
           n == NewPeers(j)
<1>1. "keys" \in File /\ "peers" \in File /\ "config" \in File
  BY DEF File
<1>2. /\ ~Free(p) /\ Head(j.todo) = "peers" /\ j.phase = "load"
      /\ UNCHANGED <<disk, stale>> /\ OwnEntries
      /\ \A q \in Proc \ {p} : Free(q)
      /\ \A g \in File : disk[g] # Torn
      /\ Steady(j) /\ j.todo \in Ahead(j.cmd) /\ Coming("peers") = old
      /\ Coming("config").key \in {NoKey, First(Coming("keys"))} \/ Renewing(j)
  BY <1>1, LoadFacts
<1>3. j.cmd \in {"add-peer", "init", "reset"} /\ j.todo \notin Renewal /\ Tail(j.todo) = <<>>
  BY <1>2, Standing
<1>4. Coming("config").key \in {NoKey, First(Coming("keys"))}
  BY <1>2, <1>3 DEF Renewing
<1>5. CASE job' = [job EXCEPT ![p] = Done(j)]
  <2> DEFINE d == Done(j)
  <2>1. job' = [job EXCEPT ![p] = d] /\ d.todo = <<>>
    BY <1>2, <1>3, <1>5, NextAhead
  <2> HIDE DEF d
  <2> QED BY <1>2, <1>4, <2>1, CalmAlone
<1>6. ASSUME NEW k, job' = [job EXCEPT ![p] = k], n # old,
             k.todo = j.todo, k.todo # <<>>, k.phase = "truncate", k.cmd = j.cmd, k.key = j.key,
             k.url = j.url, k.flag <=> j.flag, Coming("peers")' = n,
             \A g \in File \ {"peers"} : Coming(g)' = Coming(g)
      PROVE  AloneInv'
  <2>1. job'[p] = k
    BY <1>6 DEF TypeOK
  <2>2. Steady(job[p])'
    BY <1>1, <1>2, <1>6, <2>1 DEF Steady
  <2>3. Coming("config").key' \in {NoKey, First(Coming("keys")')}
    BY <1>1, <1>4, <1>6
  <2>4. OwnEntries'
    <3> SUFFICES ASSUME ~stale, NEW e \in ToSet(n), e.url \in Port
                 PROVE  Coming("keys") # <<>> /\ e.key = Head(Coming("keys"))
      BY <1>1, <1>2, <1>6 DEF OwnEntries
    <3>1. old \in Seq(PeerEntry) /\ n = Append(old, Entry(j))
      BY <1>1, <1>6, LoadedContent DEF Content, NewPeers
    <3>2. Entry(j) \in PeerEntry
      <4>1. j.key \in Held /\ j.port \in Port /\ j.url \in Url \cup {None}
        BY <1>2, AtWork DEF Job
      <4> QED BY <4>1 DEF Entry, PeerEntry
    <3>3. e \in ToSet(old) \/ e = Entry(j)
      <4>1. ToSet(Append(old, Entry(j))) = ToSet(old) \cup {Entry(j)}
        BY <3>1, <3>2, ToSetAppend
      <4> QED BY <3>1, <4>1
    <3>4. CASE e \in ToSet(old)
      BY <1>2, <3>4 DEF OwnEntries
    <3>5. CASE e = Entry(j)
      <4>1. j.cmd # "add-peer"
        BY <1>2, <3>5, HomeAssump DEF Entry, Steady
      <4>2. e.key = j.key
        BY <3>5 DEF Entry
      <4> QED BY <1>2, <1>3, <4>1, <4>2 DEF Steady
    <3> QED BY <3>3, <3>4, <3>5
  <2>5. \A g \in File : disk'[g] # Torn
    BY <1>2
  <2> QED BY <1>2, <1>6, <2>2, <2>3, <2>4, <2>5, AloneKept
<1>7. \/ job' = [job EXCEPT ![p] = Done(j)]
      \/ \E k : /\ job' = [job EXCEPT ![p] = k] /\ New("peers", j) # old
                /\ k.todo = j.todo /\ k.todo # <<>> /\ k.phase = "truncate"
                /\ k.cmd = j.cmd /\ k.key = j.key /\ k.url = j.url
                /\ k.flag <=> j.flag
                /\ Coming("peers")' = New("peers", j)
                /\ \A g \in File \ {"peers"} : Coming(g)' = Coming(g)
  BY <1>1, LoadFacts
<1>8. New("peers", j) = n
  BY DEF New
<1> QED BY <1>5, <1>6, <1>7, <1>8

\* Every command, and every step of one, keeps the files in agreement as long as no two
\* overlap.
LEMMA AloneStep == TypeOK /\ HomeInv /\ AloneInv /\ [Next]_vars => AloneInv'
<1> SUFFICES ASSUME TypeOK, HomeInv, AloneInv, [Next]_vars PROVE AloneInv'
  OBVIOUS
<1>1. ASSUME NEW p \in Proc,
             \/ \E k \in Key : KeysAdd(p, k)
             \/ \E port \in Port, auto \in BOOLEAN : InitNode(p, port, auto)
             \/ \E port \in Port : ConfigSet(p, port)
             \/ ConfigReset(p)
             \/ \E url \in Url, k \in Key : PeersAdd(p, url, k)
             \/ \E remove, reinit, replace \in BOOLEAN, k \in Key : Reset(p, remove, reinit, replace, k)
      PROVE  AloneInv'
  BY <1>1, CommandAlone
<1>2. ASSUME NEW p \in Proc, NEW f \in File, Load(p, f) \/ Truncate(p, f) \/ Fill(p, f)
      PROVE  AloneInv'
  <2>1. alone' = alone
    BY <1>2 DEF Load, Truncate, Fill
  <2>2. CASE ~alone
    BY <2>1, <2>2 DEF AloneInv
  <2>3. CASE alone
    BY <1>2, <2>3, LoadKeysAlone, LoadConfigAlone, LoadPeersAlone, TruncateAlone, FillAlone DEF File
  <2> QED BY <2>2, <2>3
<1>3. ASSUME NEW p \in Proc, FirstKey(p) \/ Wipe(p) \/ Unlink(p) PROVE AloneInv'
  <2>1. alone' = alone
    BY <1>3, Zenon DEF FirstKey, Wipe, Unlink
  <2>2. CASE ~alone
    BY <2>1, <2>2 DEF AloneInv
  <2>3. CASE alone
    BY <1>3, <2>3, FirstKeyAlone, WipeAlone, UnlinkAlone
  <2> QED BY <2>2, <2>3
<1>4. CASE UNCHANGED <<disk, job, alone, stale>>
  <2>1. \A f \in File : Coming(f)' = Coming(f)
    BY <1>4 DEF Coming, Handling, Free, Loaded
  <2>2. Single' <=> Single
    BY <1>4 DEF Single, Free
  <2>3. Whole' <=> Whole
    BY <1>4 DEF Whole, At, Free
  <2>4. \A p \in Proc : Steady(job[p])' <=> Steady(job[p])
    BY <1>4, <2>1 DEF Steady, File
  <2>5. AllSteady' <=> AllSteady
    BY <1>4, <2>4 DEF AllSteady, Free
  <2>6. ConfigComes' <=> ConfigComes
    BY <1>4, <2>1 DEF ConfigComes, Free, Renewing, File
  <2>7. OwnEntries' <=> OwnEntries
    BY <1>4, <2>1 DEF OwnEntries, File
  <2> QED BY <1>4, <2>2, <2>3, <2>5, <2>6, <2>7 DEF AloneInv
<1> QED BY <1>1, <1>2, <1>3, <1>4, KillAlone DEF Next, OpenDb, vars

\* A node with no files has nothing to disagree.
LEMMA AloneInit == Init => AloneInv
<1> SUFFICES ASSUME Init PROVE AloneInv
  OBVIOUS
<1>1. /\ \A p \in Proc : Free(p)
      /\ \A f \in File : disk[f] = None /\ Coming(f) = Loaded(f)
  <2>1. \A p \in Proc : Free(p)
    BY DEF Init, Free, Idle
  <2> QED BY <2>1 DEF Init, Coming, Handling
<1>2. Coming("config") = DefaultConfig /\ Coming("peers") = <<>>
  BY <1>1 DEF Loaded, File
<1>3. Single /\ Whole /\ AllSteady
  BY <1>1, MarkersAssump DEF Single, Whole, AllSteady
<1>4. ConfigComes /\ OwnEntries
  BY <1>2, ToSetEmpty DEF ConfigComes, OwnEntries, DefaultConfig
<1> QED BY <1>3, <1>4 DEF AloneInv

\* When no command is at work, what is coming to a file is what it holds.
LEMMA AloneQuiet ==
  ASSUME TypeOK, AloneInv, Quiet
  PROVE  /\ Loaded("config").key \in {NoKey, First(Loaded("keys"))}
         /\ \A f \in File : disk[f] # Torn
         /\ ~stale => \A e \in ToSet(Loaded("peers")) :
               e.url \in Port => Loaded("keys") # <<>> /\ e.key = Head(Loaded("keys"))
<1>1. alone /\ \A p \in Proc : Free(p)
  BY DEF Quiet
<1>2. \A f \in File : Coming(f) = Loaded(f)
  BY <1>1 DEF Coming, Handling
<1>3. \A f \in File : disk[f] # Torn
  BY <1>1 DEF AloneInv, Whole, At
<1> QED BY <1>1, <1>2, <1>3 DEF AloneInv, ConfigComes, OwnEntries, File

-----------------------------------------------------------------------------
(* The theorems.                                                              *)

\* A node starts with no files and nothing kept.
LEMMA HomeInit == Init => TypeOK /\ HomeInv
<1> SUFFICES ASSUME Init PROVE TypeOK /\ HomeInv
  OBVIOUS
<1>1. Idle \in Job(Idle.next) /\ Idle.todo = <<>> /\ ToSet(Idle.todo) = {}
  BY HomeAssump, ToSetEmpty DEF Idle, Job, Held
<1>2. \A p \in Proc : job[p] = Idle /\ Free(p) /\ \A f \in File : ~Handling(p, f)
  BY <1>1 DEF Init, Free, Handling
<1>3. TypeOK
  BY <1>1, <1>2 DEF Init, TypeOK
<1>4. HomeInv
  BY <1>1, <1>2, KeptIsFile, MarkersAssump
  DEF Init, HomeInv, Commands, KeyCommand, Planned, OneHandler, Carried, PeersWhole, HomeKept, File
<1> QED BY <1>3, <1>4

\* Every command, and every step of one, keeps the invariant.
LEMMA HomeStep == TypeOK /\ HomeInv /\ [Next]_vars => TypeOK' /\ HomeInv'
<1> SUFFICES ASSUME TypeOK, HomeInv, [Next]_vars PROVE TypeOK' /\ HomeInv'
  OBVIOUS
<1>1. ASSUME NEW p \in Proc,
             \/ \E k \in Key : KeysAdd(p, k)
             \/ \E port \in Port, auto \in BOOLEAN : InitNode(p, port, auto)
             \/ \E port \in Port : ConfigSet(p, port)
             \/ ConfigReset(p)
             \/ \E url \in Url, k \in Key : PeersAdd(p, url, k)
             \/ \E remove, reinit, replace \in BOOLEAN, k \in Key : Reset(p, remove, reinit, replace, k)
      PROVE  TypeOK' /\ HomeInv'
  BY <1>1, CommandHome
<1>2. ASSUME NEW p \in Proc, NEW f \in File, Load(p, f) \/ Truncate(p, f) \/ Fill(p, f)
      PROVE  TypeOK' /\ HomeInv'
  BY <1>2, LoadHome, TruncateHome, FillHome
<1>3. ASSUME NEW p \in Proc, FirstKey(p) \/ Wipe(p) \/ Unlink(p) \/ Kill(p)
      PROVE  TypeOK' /\ HomeInv'
  BY <1>3, FirstKeyHome, WipeHome, UnlinkHome, KillHome
<1>4. CASE UNCHANGED <<disk, job, made, runs, kept, disturbed>>
  <2>1. TypeOK'
    BY <1>4 DEF TypeOK, Handling, Free
  <2>2. HomeInv'
    BY <1>4 DEF HomeInv, Commands, Planned, OneHandler, Carried, PeersWhole, HomeKept, Handling,
                Free, At, Loaded
  <2> QED BY <2>1, <2>2
<1> QED BY <1>1, <1>2, <1>3, <1>4 DEF Next, OpenDb, vars

\* The files hold what their loaders expect, whatever a crash leaves of them, and a
\* command that writes one has read it before.
THEOREM HomeTypeCorrect == Spec => []TypeOK
<1> QED BY HomeInit, HomeStep, PTL DEF Spec

\* A key or a peer entry that a command has saved stays until a reset, unless two
\* commands handled the file at a time or one died while it wrote peers.json.
THEOREM FilesAreKept == Spec => []HomeKept
<1>1. HomeInv => HomeKept
  BY DEF HomeInv
<1> QED BY <1>1, HomeInit, HomeStep, PTL DEF Spec

\* Commands one at a time leave in config.json no key but the first of keys.json, whatever
\* the commands and their order.
THEOREM ConfigKeyAgrees == Spec => []ConfigFollowsFirstKey
<1>1. TypeOK /\ AloneInv => ConfigFollowsFirstKey
  <2> SUFFICES ASSUME TypeOK, AloneInv, Quiet, disk["config"] # None
               PROVE  disk["config"].key \in {NoKey, Head(Loaded("keys") \o <<NoKey>>)}
    BY DEF ConfigFollowsFirstKey
  <2>1. /\ Loaded("config").key \in {NoKey, First(Loaded("keys"))}
        /\ disk["config"] # Torn /\ Loaded("keys") \in Seq(Held)
    BY AloneQuiet, LoadedContent DEF File, Content
  <2>2. Loaded("config") = disk["config"]
    BY <2>1 DEF Loaded
  <2> DEFINE keys == Loaded("keys")
  <2>3. keys \in Seq(Held)
    BY <2>1
  <2>4. First(keys) = Head(keys \o <<NoKey>>)
    <3> HIDE DEF keys
    <3>1. NoKey \in Held
      BY DEF Held
    <3>2. CASE keys = <<>>
      BY <3>1, <3>2 DEF First
    <3>3. CASE keys # <<>>
      BY <2>3, <3>1, <3>3 DEF First
    <3> QED BY <3>2, <3>3
  <2> QED BY <2>1, <2>2, <2>4
<1> QED BY <1>1, HomeInit, HomeStep, AloneInit, AloneStep, PTL DEF Spec

\* Every entry of the node's own addresses in peers.json carries the first key, so that
\* sync-all skips it, unless a reset replaced the key and kept the peers.
THEOREM OwnEntriesAreSkipped == Spec => []SelfSkipped
<1>1. TypeOK /\ AloneInv => SelfSkipped
  BY AloneQuiet DEF SelfSkipped, Quiet
<1> QED BY <1>1, HomeInit, HomeStep, AloneInit, AloneStep, PTL DEF Spec

=============================================================================
