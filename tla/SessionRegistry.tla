--------------------------- MODULE SessionRegistry ---------------------------
(***************************************************************************)
(* Sessions and who owns them: the registry of descriptors and claims      *)
(* (crates/ferridriver-session/src/registry.rs), binding a browser and the *)
(* tables of the bindings of one process (bind.rs), and the CLI that       *)
(* closes a session by its descriptor (ferridriver-cli, session.rs).       *)
(*                                                                         *)
(* A server is its own generation: the code draws it at random.  What a    *)
(* server does between its start and its stop is SessionServing.           *)
(***************************************************************************)
EXTENDS FiniteSets

CONSTANTS
  Servers,     \* the bindings that are tried
  Ids,         \* session ids
  Processes,
  Closers,     \* CLI processes running `session close`
  None,
  Browsers,
  Asked,       \* the ids and the browsers the servers may be asked to bind
  ProcessOf,   \* ProcessOf[s] \in Processes
  Global,      \* the servers bound with bind_global, whose tables are per process
  EndpointOf   \* EndpointOf[s]: equal for servers given the same TCP port

ASSUME RegistryAssumption ==
  /\ None \notin Servers \cup Ids
  /\ Asked \subseteq [id : [Servers -> Ids], browser : [Servers -> Browsers]]
  /\ ProcessOf \in [Servers -> Processes]
  /\ Global \subseteq Servers
  /\ DOMAIN EndpointOf = Servers

VARIABLES
  lock,       \* lock[i]: who holds the file lock on <id>.lock
  descriptor, \* descriptor[i]: the server <id>.json names
  stage,      \* stage[s]: how far bind_dispatcher and bind_global are
  id,         \* id[s]: the id that bind is called with
  browser,    \* browser[s]: the browser it is called with
  claim,      \* claim[s]: the RegistryClaim, "removed" between its two halves
  listening,  \* the servers whose listener is open
  closing,    \* the servers whose dispatcher closed for a CLOSE command
  stopped,    \* Lifecycle::stopped
  table,      \* live_sessions of the global servers' processes
  bindings,   \* browser_bindings, as the servers they point to
  taking,     \* taking[s]: whether somebody is about to take s out of the table
  leaving,    \* leaving[s]: what is left to do by whoever took s out of the table
  closer,     \* what each CLI close has read and reached
  alive       \* the processes that run

disk == <<lock, descriptor>>
asked == <<id, browser>>
binding == <<stage, asked, claim, listening>>
ends == <<closing, stopped>>
tables == <<table, bindings, taking, leaving>>
others == <<closer, alive>>
vars == <<disk, binding, ends, tables, others>>

At(name) == [at |-> name, read |-> None, reached |-> None]

Init ==
  /\ lock = [i \in Ids |-> None]
  /\ descriptor = [i \in Ids |-> None]
  /\ stage = [s \in Servers |-> "idle"]
  /\ \E asking \in Asked : id = asking.id /\ browser = asking.browser
  /\ claim = [s \in Servers |-> "none"]
  /\ listening = {} /\ closing = {} /\ stopped = {}
  /\ table = [i \in Ids |-> None]
  /\ bindings = {}
  /\ taking = [s \in Servers |-> "no"]
  /\ leaving = [s \in Servers |-> "no"]
  /\ closer = [c \in Closers |-> At("idle")]
  /\ alive = Processes

Runs(s) == ProcessOf[s] \in alive

-----------------------------------------------------------------------------
(* bind_dispatcher *)
Advance(s, from, to) ==
  /\ Runs(s) /\ stage[s] = from
  /\ stage' = [stage EXCEPT ![s] = to]

(* An error drops the claim, and with it the lock. *)
Fails(s, from) ==
  /\ Advance(s, from, "failed")
  /\ claim' = [claim EXCEPT ![s] = "none"]
  /\ lock' = [lock EXCEPT ![id[s]] = None]

(* Registry::claim: the lock, and under it the look at the descriptor. *)
Claimable(s) == lock[id[s]] = None /\ descriptor[id[s]] = None

TryClaim(s) ==
  /\ \/ /\ Claimable(s)
        /\ Advance(s, "idle", "claimed")
        /\ lock' = [lock EXCEPT ![id[s]] = s]
        /\ claim' = [claim EXCEPT ![s] = "held"]
     \/ /\ ~Claimable(s)
        /\ Advance(s, "idle", "failed")
        /\ UNCHANGED <<lock, claim>>
  /\ UNCHANGED <<descriptor, asked, listening, ends, tables, others>>

EndpointFree(s) == \A t \in listening : EndpointOf[t] # EndpointOf[s]

Listen(s) ==
  /\ \/ Fails(s, "claimed") /\ UNCHANGED listening
     \/ /\ EndpointFree(s)
        /\ Advance(s, "claimed", "listening")
        /\ listening' = listening \cup {s}
        /\ UNCHANGED <<lock, claim>>
  /\ UNCHANGED <<descriptor, asked, ends, tables, others>>

(* RegistryClaim::publish, without replacing a file; then the lifecycle takes the *)
(* claim and the serve task starts.                                               *)
Publish(s) ==
  /\ \/ /\ descriptor[id[s]] # None
        /\ Fails(s, "listening")
        /\ listening' = listening \ {s}
        /\ UNCHANGED descriptor
     \/ /\ descriptor[id[s]] = None
        /\ Advance(s, "listening", "serving")
        /\ descriptor' = [descriptor EXCEPT ![id[s]] = s]
        /\ claim' = [claim EXCEPT ![s] = "published"]
        /\ UNCHANGED <<lock, listening>>
  /\ UNCHANGED <<asked, ends, tables, others>>

-----------------------------------------------------------------------------
(* bind_global's store_live: a browser has one live binding; a binding still in *)
(* the table under this id is replaced and dropped.                             *)
BrowserTaken(s) ==
  \E t \in bindings : /\ ProcessOf[t] = ProcessOf[s] /\ browser[t] = browser[s]
                      /\ t \notin stopped

ByBrowser(s) == {t \in bindings : ProcessOf[t] = ProcessOf[s] /\ browser[t] = browser[s]}

StoreLive(s) ==
  /\ s \in Global /\ ~BrowserTaken(s)
  /\ Advance(s, "serving", "stored")
  /\ table' = [table EXCEPT ![id[s]] = s]
  /\ bindings' = ((bindings \ ByBrowser(s)) \ {table[id[s]]}) \cup {s}
  /\ leaving' = IF table[id[s]] = None THEN leaving
                ELSE [leaving EXCEPT ![table[id[s]]] = "drop"]
  /\ UNCHANGED <<disk, asked, claim, listening, ends, taking, others>>

StoreRefused(s) ==
  /\ s \in Global /\ BrowserTaken(s)
  /\ Advance(s, "serving", "refused")
  /\ leaving' = [leaving EXCEPT ![s] = "drop"]
  /\ UNCHANGED <<disk, asked, claim, listening, ends, table, bindings, taking, others>>

(* take_live of unbind(id) *)
TakeLive(i) ==
  /\ table[i] # None
  /\ Runs(table[i])
  /\ table' = [table EXCEPT ![i] = None]
  /\ leaving' = [leaving EXCEPT ![table[i]] = "clear"]
  /\ UNCHANGED <<disk, binding, ends, bindings, taking, others>>

(* unbind_browser: the binding first, then the session it points to. *)
TakeBinding(s) ==
  /\ s \in bindings /\ Runs(s)
  /\ bindings' = bindings \ {s}
  /\ taking' = [taking EXCEPT ![s] = IF @ = "no" THEN "due" ELSE @]
  /\ UNCHANGED <<disk, binding, ends, table, leaving, others>>

(* The task bind_global spawned, once the server has stopped. *)
WatcherWakes(s) ==
  /\ s \in stopped /\ stage[s] = "stored" /\ taking[s] = "no" /\ Runs(s)
  /\ taking' = [taking EXCEPT ![s] = "due"]
  /\ UNCHANGED <<disk, binding, ends, table, bindings, leaving, others>>

SameServer(s) == table[id[s]] = s

TakeSession(s) ==
  /\ taking[s] = "due" /\ Runs(s)
  /\ taking' = [taking EXCEPT ![s] = "done"]
  /\ \/ /\ SameServer(s)
        /\ table' = [table EXCEPT ![id[s]] = None]
        /\ leaving' = [leaving EXCEPT ![table[id[s]]] = "clear"]
     \/ ~SameServer(s) /\ UNCHANGED <<table, leaving>>
  /\ UNCHANGED <<disk, binding, ends, bindings, others>>

ClearsBrowser(s) ==         \* mutant: the browser's binding is cleared, whichever it is
  /\ leaving[s] = "clear" /\ Runs(s)
  /\ bindings' = bindings \ ByBrowser(s)
  /\ leaving' = [leaving EXCEPT ![s] = "drop"]
  /\ UNCHANGED <<disk, binding, ends, table, taking, others>>

ClearBinding(s) ==
  /\ leaving[s] = "clear" /\ Runs(s)
  /\ bindings' = bindings \ {s}
  /\ leaving' = [leaving EXCEPT ![s] = "drop"]
  /\ UNCHANGED <<disk, binding, ends, table, taking, others>>

(* Dropping the BoundSession: the task is aborted and the claim given up. *)
DropSession(s) ==
  /\ leaving[s] = "drop" /\ Runs(s)
  /\ stopped' = stopped \cup {s}
  /\ leaving' = [leaving EXCEPT ![s] = "gone"]
  /\ UNCHANGED <<disk, binding, closing, table, bindings, taking, others>>

(* The CLI's host keeps its binding in a local and drops it on a signal. *)
HostDrops(s) ==
  /\ s \notin Global /\ stage[s] = "serving" /\ Runs(s) /\ s \notin stopped
  /\ stopped' = stopped \cup {s}
  /\ UNCHANGED <<disk, binding, closing, tables, others>>

-----------------------------------------------------------------------------
(* unpublish, under the publication mutex: the file, then the claim with its lock. *)
LeavesFile(s) ==            \* mutant: a stopped server leaves its descriptor
  /\ claim[s] = "published" /\ s \in stopped /\ Runs(s)
  /\ claim' = [claim EXCEPT ![s] = "removed"]
  /\ UNCHANGED <<disk, stage, asked, listening, ends, tables, others>>

RemoveFile(s) ==
  /\ claim[s] = "published" /\ s \in closing \cup stopped /\ Runs(s)
  /\ descriptor' = [descriptor EXCEPT ![id[s]] = None]
  /\ claim' = [claim EXCEPT ![s] = "removed"]
  /\ UNCHANGED <<lock, stage, asked, listening, ends, tables, others>>

Unlock(s) ==
  /\ claim[s] = "removed" /\ Runs(s)
  /\ claim' = [claim EXCEPT ![s] = "none"]
  /\ lock' = [lock EXCEPT ![id[s]] = None]
  /\ UNCHANGED <<descriptor, stage, asked, listening, ends, tables, others>>

(* serve() returns or is aborted, and its listener goes with it. *)
StopListening(s) ==
  /\ s \in listening \cap stopped /\ Runs(s)
  /\ listening' = listening \ {s}
  /\ UNCHANGED <<disk, stage, asked, claim, ends, tables, others>>

-----------------------------------------------------------------------------
(* `session close`: the descriptor is read, read again by attach, and the request *)
(* names the first.                                                               *)
Step(c, from, next) ==
  /\ closer[c].at = from
  /\ closer' = [closer EXCEPT ![c] = next]
  /\ UNCHANGED <<disk, binding, ends, tables, alive>>

ReadDescriptor(c, i) ==
  /\ descriptor[i] # None
  /\ Step(c, "idle", [At("read") EXCEPT !.read = descriptor[i]])

Attach(c) ==
  /\ closer[c].at = "read"
  /\ LET named == descriptor[id[closer[c].read]]
         there == {s \in listening : named # None /\ EndpointOf[s] = EndpointOf[named]}
     IN \/ \E s \in there :
             Step(c, "read", [closer[c] EXCEPT !.at = "attached", !.reached = s])
        \/ there = {} /\ Step(c, "read", [closer[c] EXCEPT !.at = "failed"])

SameEndpoint(c) == EndpointOf[closer[c].read] = EndpointOf[closer[c].reached]  \* mutant: no generation

Identifies(c) == closer[c].read = closer[c].reached

(* The server closes its browser and gives up its claim; the close may also fail, *)
(* the server may be gone before it, and a request for another is refused.        *)
ServerCloses(c) ==
  LET s == closer[c].reached
  IN /\ closer[c].at = "attached" /\ Identifies(c)
     /\ stage[s] \in {"serving", "stored", "refused"} /\ s \notin stopped /\ Runs(s)
     /\ closing' = closing \cup {s}
     /\ closer' = [closer EXCEPT ![c].at = "closing"]
     /\ UNCHANGED <<disk, binding, stopped, tables, alive>>

CloseFails(c) ==
  \/ Step(c, "attached", [closer[c] EXCEPT !.at = "failed"])
  \/ /\ closer[c].at = "closing"
     /\ closer[c].reached \in stopped \/ ~Runs(closer[c].reached)
     /\ Step(c, "closing", [closer[c] EXCEPT !.at = "failed"])

RepliesFirst(c) ==          \* mutant: the reply does not wait for unpublish
  /\ closer[c].at = "closing" /\ Runs(closer[c].reached)
  /\ closer' = [closer EXCEPT ![c].at = "closed"]
  /\ stopped' = stopped \cup {closer[c].reached}
  /\ UNCHANGED <<disk, binding, closing, tables, alive>>

(* The reply is sent after unpublish, the stop follows it. *)
CloseReplies(c) ==
  /\ closer[c].at = "closing" /\ Runs(closer[c].reached)
  /\ claim[closer[c].reached] = "none"
  /\ closer' = [closer EXCEPT ![c].at = "closed"]
  /\ stopped' = stopped \cup {closer[c].reached}
  /\ UNCHANGED <<disk, binding, closing, tables, alive>>

-----------------------------------------------------------------------------
(* Registry::remove, by an unbind of an id this process does not serve: refused while *)
(* somebody holds the lock, which is kept for the removal alone.                       *)
PruneAnyway(i) ==           \* mutant: the lock is not tried
  /\ descriptor' = [descriptor EXCEPT ![i] = None]
  /\ UNCHANGED <<lock, binding, ends, tables, others>>

Prune(i) ==
  /\ lock[i] = None
  /\ descriptor' = [descriptor EXCEPT ![i] = None]
  /\ UNCHANGED <<lock, binding, ends, tables, others>>

(* A process dies and its memory with it: the system releases its locks and closes its *)
(* listeners, the descriptors stay.                                                    *)
Crash(p) ==
  LET Lost(old, new) == [s \in Servers |-> IF ProcessOf[s] = p THEN new ELSE old[s]]
      Kept(set) == {s \in set : ProcessOf[s] # p}
      Without(names) == [i \in Ids |-> IF names[i] \in Kept(Servers) THEN names[i] ELSE None]
  IN /\ p \in alive
     /\ alive' = alive \ {p}
     /\ lock' = Without(lock) /\ table' = Without(table)
     /\ listening' = Kept(listening) /\ bindings' = Kept(bindings)
     /\ closing' = Kept(closing) /\ stopped' = Kept(stopped)
     /\ stage' = Lost(stage, "failed") /\ claim' = Lost(claim, "none")
     /\ taking' = Lost(taking, "no") /\ leaving' = Lost(leaving, "no")
     /\ UNCHANGED <<descriptor, asked, closer>>

-----------------------------------------------------------------------------
Bind(s) ==
  \/ TryClaim(s) \/ Listen(s) \/ Publish(s) \/ StoreLive(s) \/ StoreRefused(s)
Teardown(s) ==
  \/ TakeSession(s) \/ ClearBinding(s) \/ DropSession(s) \/ WatcherWakes(s)
  \/ RemoveFile(s) \/ Unlock(s) \/ StopListening(s)
Close(c) == Attach(c) \/ ServerCloses(c) \/ CloseFails(c) \/ CloseReplies(c)

Next ==
  \/ \E s \in Servers : Bind(s) \/ Teardown(s) \/ TakeBinding(s) \/ HostDrops(s)
  \/ \E i \in Ids : TakeLive(i) \/ Prune(i)
  \/ \E c \in Closers : Close(c) \/ \E i \in Ids : ReadDescriptor(c, i)
  \/ \E p \in Processes : Crash(p)

Spec == Init /\ [][Next]_vars

(* Tasks are polled and calls that were begun go on; nobody has to begin one. *)
Fairness ==
  /\ \A s \in Servers : WF_vars(Teardown(s))
  /\ \A c \in Closers : WF_vars(Close(c))

FairSpec == Spec /\ Fairness

-----------------------------------------------------------------------------
TypeOK ==
  /\ lock \in [Ids -> Servers \cup {None}]
  /\ descriptor \in [Ids -> Servers \cup {None}]
  /\ stage \in [Servers -> {"idle", "claimed", "listening", "serving", "stored",
                            "refused", "failed"}]
  /\ id \in [Servers -> Ids] /\ browser \in [Servers -> Browsers]
  /\ claim \in [Servers -> {"none", "held", "published", "removed"}]
  /\ listening \subseteq Servers /\ closing \subseteq Servers /\ stopped \subseteq Servers
  /\ table \in [Ids -> Global \cup {None}] /\ bindings \subseteq Global
  /\ taking \in [Servers -> {"no", "due", "done"}]
  /\ leaving \in [Servers -> {"no", "clear", "drop", "gone"}]
  /\ closer \in [Closers -> [at : {"idle", "read", "attached", "closing", "closed", "failed"},
                             read : Servers \cup {None}, reached : Servers \cup {None}]]
  /\ \A c \in Closers :
       /\ closer[c].at \in {"read", "attached", "closing", "closed"} => closer[c].read \in Servers
       /\ closer[c].at \in {"attached", "closing", "closed"} => closer[c].reached \in Servers
  /\ alive \subseteq Processes

(* While a published claim is held by a running process, the descriptor is its own and *)
(* the lock too: no bind, no unbind, no prune and nobody's crash takes them away       *)
(* (registry.rs:143-156, 187-190).                             *)
OwnersKeepTheirDescriptor ==
  \A s \in Servers : claim[s] = "published" /\ Runs(s) =>
    descriptor[id[s]] = s /\ lock[id[s]] = s

(* A server that was closed before its bind_global got to store it: store_live lets it *)
(* replace whoever has its id now (bind.rs:88).                                        *)
LateStore == \E t \in closing : StoreLive(t)

(* A live session leaves a table only because somebody unbinds it, its id or its      *)
(* browser, or its process dies, or by that late store: never because an older binding *)
(* of the same id or of the same browser is being cleaned up (bind.rs:51, 244-262).    *)
OnlyItsOwnUnbinding ==
  [][\A s \in Global :
       stage[s] = "stored" /\ s \notin closing \cup stopped /\ taking[s] = "no"
         /\ leaving[s] = "no" /\ ProcessOf[s] \in alive' =>
           /\ table[id[s]] = s /\ s \in bindings
           /\ table'[id[s]] = s \/ TakeLive(id[s]) \/ LateStore
           /\ s \in bindings' \/ TakeBinding(s) \/ LateStore]_vars

(* `session close` closes the session whose descriptor it read, or none: another one   *)
(* that has taken over the id or the port since then refuses (session.rs:534-550,      *)
(* lifecycle.rs:101).                                                                  *)
CloseHitsItsTarget ==
  [][\A s \in closing' \ closing : \E c \in Closers : closer[c].read = s]_vars

(* When the CLI is told that the session is closed its id is free: neither descriptor *)
(* nor lock are its any more.                                                          *)
ClosedMeansReleased ==
  \A c \in Closers : closer[c].at = "closed" =>
    LET s == closer[c].read IN descriptor[id[s]] # s /\ lock[id[s]] # s

Forgotten(s) ==
  /\ descriptor[id[s]] # s /\ lock[id[s]] # s /\ s \notin listening
  /\ table[id[s]] # s /\ s \notin bindings

(* A session that has stopped leaves nothing behind in a process that lives on. *)
StoppedIsForgotten ==
  \A s \in Servers : s \in stopped ~> ~Runs(s) \/ Forgotten(s)
=============================================================================
