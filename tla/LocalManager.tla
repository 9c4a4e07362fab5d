---------------------------- MODULE LocalManager ----------------------------
(***************************************************************************)
(* The connections that SDK clients create in a media proxy: the local     *)
(* manager (media-proxy/src/mesh/manager_local.cc) under the SDK API       *)
(* server, the proxy API client (proxy_api.cc) with the group manager's    *)
(* apply_config() and reconcile_config() (manager_multipoint.cc), and the  *)
(* part of the agent they talk to (control-plane-agent/api/proxy/proxy.go).*)
(*                                                                         *)
(* Every connection has an SDK thread, named after it, that serves the     *)
(* calls of its client one after the other.  The thread of the proxy API   *)
(* client registers the proxy, closes all connections after a registration,*)
(* and applies the configs of the agent.  The mutex of the local manager   *)
(* is held over the RPCs to the agent; the look-up of a connection is not  *)
(* under it.                                                               *)
(*                                                                         *)
(* The agent keeps everything in memory: a restart forgets the proxy and   *)
(* its connections, and the proxy gets a new id.  Its serial event         *)
(* processor may handle a request after the proxy's RPC has timed out.  A  *)
(* config may be sent at any time, since a change at any other proxy makes *)
(* the agent send a config to every proxy.  Identifiers the agent assigns  *)
(* to connections are the connections themselves.                          *)
(***************************************************************************)
EXTENDS Naturals, Sequences, FiniteSets

CONSTANTS Conns,         \* the connections that clients ask for
          Kinds,         \* the sets of connections that may be receivers
          Groups,
          GroupOf,       \* GroupOf[c]: the multipoint group c asks for
          Api,           \* the thread of the proxy API client
          Null,
          MaxRestarts,   \* bound on the restarts of the agent
          MaxTimeouts    \* bound on the RPCs that run into their deadline

Threads == Conns \cup {Api}

ASSUME LocalManagerAssumption ==
    /\ Kinds \subseteq SUBSET Conns
    /\ Api \notin Conns /\ Null \notin Threads
    /\ GroupOf \in [Conns -> Groups]
    /\ MaxRestarts \in Nat /\ MaxTimeouts \in Nat

\* Proxy ids are the incarnations of the agent that gave them; 0 is "".
Proxies == 1 .. MaxRestarts + 1

\* A group of a config: its id is made of the group's and the proxy's id.
Keys == Groups \X Proxies

VARIABLES
    receivers,    \* connections of transmitting clients: LocalRx
    pc,           \* pc[t]: where thread t is
    cur,          \* cur[t]: the connection thread t works on, or Null
    mx,           \* the thread that holds LocalManager::mx, or Null
    alive,        \* the connection objects that are allocated
    registry_sdk, \* the ids in registry_sdk: "none", "null" or "conn"
    registry,     \* the connections in registry
    link,         \* link[c]: the group c is linked to, or Null
    input,        \* input[k]: the receiver that feeds group k, or Null
    groups,       \* the groups that exist in the group manager
    cfg,          \* GroupManager::cfg
    old,          \* the config that reconcile_config() starts from
    ids,          \* the ids shutdown() has still to delete
    proxy_id,     \* ProxyAPIClient::_proxy_id
    rpc,          \* the RPC under way: "none", "queued", "ok" or "err"
    epoch,        \* agent: its incarnation
    queue,        \* agent: queue of the event processor
    linked,       \* agent: connections linked to a group and to the proxy
    snap,         \* agent: the proxy's connections, as the sender read them
    command,      \* agent: the config on its way to the proxy, or Null
    timeouts      \* RPCs that have timed out

sdkvars   == <<alive, registry_sdk, registry>>
groupvars == <<link, input, groups, cfg, old>>
agentvars == <<epoch, queue, linked, snap, command>>
vars      == <<receivers, pc, cur, mx, alive, registry_sdk, registry, link, input,
               groups, cfg, old, ids, proxy_id, rpc, epoch, queue, linked, snap,
               command, timeouts>>

Configs == [proxy : Proxies \cup {0}, conns : SUBSET Conns]

\* The group of connection c in config f, and the groups of f.
KeyIn(f, c)  == <<GroupOf[c], f.proxy>>
KeysOf(f)    == {KeyIn(f, c) : c \in f.conns}

Init ==
    /\ receivers \in Kinds
    /\ pc = [t \in Threads |-> IF t = Api THEN "register" ELSE "start"]
    /\ cur = [t \in Threads |-> IF t = Api THEN Null ELSE t]
    /\ mx = Null
    /\ alive = {} /\ registry = {}
    /\ registry_sdk = [c \in Conns |-> "none"]
    /\ link = [c \in Conns |-> Null]
    /\ input = [k \in Keys |-> Null]
    /\ groups = {}
    /\ cfg = [proxy |-> 0, conns |-> {}] /\ old = cfg
    /\ ids = {} /\ proxy_id = 0 /\ rpc = "none"
    /\ epoch = 1 /\ queue = <<>> /\ linked = {}
    /\ snap = Null /\ command = Null
    /\ timeouts = 0
-----------------------------------------------------------------------------
Goto(t, where) == pc' = [pc EXCEPT ![t] = where]

\* lock() and unlock(), the latter by the deferred call.
Lock(t)   == mx = Null /\ mx' = t
Unlock(t) == mx = t /\ mx' = Null

\* An RPC becomes an event of the agent's queue; "client" tells what is left
\* of the caller: it waits, or it is gone.
Post(op, c) ==
    /\ rpc' = "queued"
    /\ queue' = Append(queue, [op |-> op, conn |-> c, proxy |-> proxy_id,
                               client |-> "waits"])
-----------------------------------------------------------------------------
\* create_connection_sdk(), up to the mutex: the id is reserved, the object
\* allocated and configured.
CreateConnection(c) ==
    /\ pc[c] = "start"
    /\ Goto(c, "creating")
    /\ registry_sdk' = [registry_sdk EXCEPT ![c] = "null"]
    /\ alive' = alive \cup {c}
    /\ UNCHANGED <<cur, mx, registry, groupvars, ids, proxy_id, rpc,
                   agentvars, timeouts, receivers>>

\* The early returns of create_connection_sdk() after the allocation.
Discard(c) ==
    /\ Goto(c, "done")
    /\ registry_sdk' = [registry_sdk EXCEPT ![c] = "none"]
    /\ alive' = alive \ {c}

\* configure_memif() fails.
ConfigureFails(c) ==
    /\ pc[c] = "creating"
    /\ Discard(c)
    /\ UNCHANGED <<cur, mx, registry, groupvars, ids, proxy_id, rpc,
                   agentvars, timeouts, receivers>>

\* The mutex is taken and the connection registered with the agent.
RegisterConnection(c) ==
    /\ pc[c] = "creating"
    /\ Lock(c)
    /\ Goto(c, "registering")
    /\ Post("register", c)
    /\ UNCHANGED <<cur, sdkvars, groupvars, ids, proxy_id, epoch, linked,
                   snap, command, timeouts, receivers>>

\* Mutant: a failed registration returns with the mutex locked.
RegisterFailsLocked(c) ==
    /\ pc[c] = "registering" /\ rpc = "err"
    /\ rpc' = "none"
    /\ Discard(c)
    /\ UNCHANGED <<cur, mx, registry, groupvars, ids, proxy_id, agentvars,
                   timeouts, receivers>>

RegisterFails(c) ==
    /\ pc[c] = "registering" /\ rpc = "err"
    /\ rpc' = "none"
    /\ Discard(c) /\ Unlock(c)
    /\ UNCHANGED <<cur, registry, groupvars, ids, proxy_id, agentvars,
                   timeouts, receivers>>

\* Mutant: the connection is not deleted.
EstablishFailsKeeps(c) ==
    /\ pc[c] = "registering" /\ rpc = "ok"
    /\ rpc' = "none"
    /\ Goto(c, "done") /\ Unlock(c)
    /\ registry_sdk' = [registry_sdk EXCEPT ![c] = "none"]
    /\ UNCHANGED <<cur, alive, registry, groupvars, ids, proxy_id, agentvars,
                   timeouts, receivers>>

\* establish() fails: the agent is not told.
EstablishFails(c) ==
    /\ pc[c] = "registering" /\ rpc = "ok"
    /\ rpc' = "none"
    /\ Discard(c) /\ Unlock(c)
    /\ UNCHANGED <<cur, registry, groupvars, ids, proxy_id, agentvars,
                   timeouts, receivers>>

\* establish() succeeds, the connection enters both registries.
EstablishSucceeds(c) ==
    /\ pc[c] = "registering" /\ rpc = "ok"
    /\ rpc' = "none"
    /\ Goto(c, "up") /\ Unlock(c)
    /\ registry_sdk' = [registry_sdk EXCEPT ![c] = "conn"]
    /\ registry' = registry \cup {c}
    /\ UNCHANGED <<cur, alive, groupvars, ids, proxy_id, agentvars,
                   timeouts, receivers>>
-----------------------------------------------------------------------------
\* activate_connection_sdk(): the look-up, then resume() under the mutex.
\* An id that is no longer registered leaves the client where it is.
ActivateLookup(c) ==
    /\ pc[c] = "up" /\ registry_sdk[c] = "conn"
    /\ Goto(c, "activating")
    /\ UNCHANGED <<cur, mx, sdkvars, groupvars, ids, proxy_id, rpc, agentvars,
                   timeouts, receivers>>

ActivateResume(c) ==
    /\ pc[c] = "activating" /\ mx = Null /\ c \in alive
    /\ Goto(c, "up")
    /\ UNCHANGED <<cur, mx, sdkvars, groupvars, ids, proxy_id, rpc, agentvars,
                   timeouts, receivers>>

\* delete_connection_sdk() for the client of connection c: the look-up.
DeleteLookup(c) ==
    /\ pc[c] = "up"
    /\ Goto(c, IF registry_sdk[c] = "conn" THEN "deleting" ELSE "done")
    /\ UNCHANGED <<cur, mx, sdkvars, groupvars, ids, proxy_id, rpc, agentvars,
                   timeouts, receivers>>

\* The mutex is taken and the connection unregistered.  The agent refuses a
\* connection it does not know before it posts an event.
UnregisterConnection(t) ==
    /\ pc[t] = "deleting" /\ cur[t] \in alive
    /\ Lock(t)
    /\ Goto(t, "unregistering")
    /\ IF cur[t] \in linked THEN Post("unregister", cur[t])
       ELSE rpc' = "err" /\ UNCHANGED queue
    /\ UNCHANGED <<cur, sdkvars, groupvars, ids, proxy_id, epoch, linked,
                   snap, command, timeouts, receivers>>

\* Clearing the links between a connection and its group, from the
\* connection's side.
Unlinked(c)    == [link EXCEPT ![c] = Null]
InputWithout(c) == [k \in Keys |-> IF input[k] = c /\ link[c] = k THEN Null
                                   ELSE input[k]]

\* Mutant: the connection leaves the SDK registry only.
DeleteUnlinkHalf(t) ==
    /\ pc[t] = "unregistering" /\ rpc \in {"ok", "err"} /\ cur[t] \in alive
    /\ rpc' = "none"
    /\ link' = Unlinked(cur[t]) /\ input' = InputWithout(cur[t])
    /\ registry_sdk' = [registry_sdk EXCEPT ![cur[t]] = "none"]
    /\ Goto(t, "unlinked") /\ Unlock(t)
    /\ UNCHANGED <<cur, alive, registry, groups, cfg, old, ids, proxy_id,
                   agentvars, timeouts, receivers>>

\* The RPC has returned, its result is ignored; the connection is unlinked
\* and leaves both registries.
DeleteUnlink(t) ==
    /\ pc[t] = "unregistering" /\ rpc \in {"ok", "err"} /\ cur[t] \in alive
    /\ rpc' = "none"
    /\ link' = Unlinked(cur[t]) /\ input' = InputWithout(cur[t])
    /\ registry' = registry \ {cur[t]}
    /\ registry_sdk' = [registry_sdk EXCEPT ![cur[t]] = "none"]
    /\ Goto(t, "unlinked") /\ Unlock(t)
    /\ UNCHANGED <<cur, alive, groups, cfg, old, ids, proxy_id, agentvars,
                   timeouts, receivers>>

\* shutdown() and delete of the object, outside the mutex.
DeleteObject(t) ==
    /\ pc[t] = "unlinked" /\ cur[t] \in alive
    /\ alive' = alive \ {cur[t]}
    /\ Goto(t, IF t = Api THEN "shutdown" ELSE "done")
    /\ cur' = IF t = Api THEN [cur EXCEPT ![t] = Null] ELSE cur
    /\ UNCHANGED <<mx, registry_sdk, registry, groupvars, ids, proxy_id,
                   rpc, agentvars, timeouts, receivers>>

\* A thread goes on with a connection that another thread has deleted: the
\* behaviour of the thread is undefined, and is not modelled further.
UseDeleted(t) ==
    /\ cur[t] \notin alive
    /\ \/ pc[t] \in {"activating", "deleting"} /\ mx = Null
       \/ pc[t] = "unregistering" /\ rpc \in {"ok", "err"}
       \/ pc[t] = "unlinked"
    /\ Goto(t, "crashed")
    /\ UNCHANGED <<cur, mx, sdkvars, groupvars, ids, proxy_id, rpc, agentvars,
                   timeouts, receivers>>
-----------------------------------------------------------------------------
\* ProxyAPIClient::Run: an unregistered proxy registers ...
RegisterMediaProxy ==
    /\ pc[Api] = "register"
    /\ proxy_id' = epoch
    /\ Goto(Api, "closing")
    /\ UNCHANGED <<cur, mx, sdkvars, groupvars, ids, rpc, agentvars, timeouts,
                   receivers>>

\* ... and closes all connections: LocalManager::shutdown() takes all ids,
ShutdownBegin ==
    /\ pc[Api] = "closing"
    /\ ids' = {c \in Conns : registry_sdk[c] # "none"}
    /\ Goto(Api, "shutdown")
    /\ UNCHANGED <<cur, mx, sdkvars, groupvars, proxy_id, rpc, agentvars,
                   timeouts, receivers>>

\* and calls delete_connection_sdk() for each, which gives up at once when the
\* id is gone or has no connection yet.
ShutdownLookup(c) ==
    /\ pc[Api] = "shutdown" /\ c \in ids
    /\ ids' = ids \ {c}
    /\ IF registry_sdk[c] = "conn"
       THEN cur' = [cur EXCEPT ![Api] = c] /\ Goto(Api, "deleting")
       ELSE UNCHANGED <<cur, pc>>
    /\ UNCHANGED <<mx, sdkvars, groupvars, proxy_id, rpc, agentvars, timeouts,
                   receivers>>

ShutdownEnd ==
    /\ pc[Api] = "shutdown" /\ ids = {}
    /\ Goto(Api, "connect")
    /\ UNCHANGED <<cur, mx, sdkvars, groupvars, ids, proxy_id, rpc, agentvars,
                   timeouts, receivers>>

\* StartCommandQueue(): the agent opens the stream, or does not know the
\* proxy.  What an earlier incarnation sent was part of an earlier stream.
StartCommandQueue ==
    /\ pc[Api] = "connect"
    /\ IF proxy_id = epoch
       THEN Goto(Api, "stream") /\ UNCHANGED proxy_id
       ELSE Goto(Api, "register") /\ proxy_id' = 0
    /\ command' = IF command # Null /\ command.proxy # epoch THEN Null ELSE command
    /\ UNCHANGED <<cur, mx, sdkvars, groupvars, ids, rpc, epoch, queue, linked,
                   snap, timeouts, receivers>>

\* Read() fails; a command is lost with the stream, or still in the agent's
\* queue of the proxy.
StreamBreaks ==
    /\ pc[Api] = "stream"
    /\ Goto(Api, "connect")
    /\ command' \in {command, Null}
    /\ UNCHANGED <<cur, mx, sdkvars, groupvars, ids, proxy_id, rpc, epoch,
                   queue, linked, snap, timeouts, receivers>>

\* An ApplyConfig command: confirmed first, then apply_config() commits the
\* config and finds the differences.
ApplyConfig ==
    /\ pc[Api] = "stream" /\ command # Null
    /\ command' = Null
    /\ cfg' = command
    /\ IF KeysOf(command) = KeysOf(cfg) /\ command.conns = cfg.conns
       THEN old' = command /\ UNCHANGED pc
       ELSE old' = cfg /\ Goto(Api, "applying")
    /\ UNCHANGED <<cur, mx, sdkvars, link, input, groups, ids, proxy_id, rpc,
                   epoch, queue, linked, snap, timeouts, receivers>>

DeletedGroups == KeysOf(old) \ KeysOf(cfg)

\* Connections of the registry to unlink from a group that stays, to link.
DeletedConns ==
    {c \in registry \cap (old.conns \ cfg.conns) : KeyIn(old, c) \in KeysOf(cfg)}
AddedConns ==
    {c \in registry \cap cfg.conns :
        c \notin old.conns \/ KeyIn(cfg, c) \notin KeysOf(old)}

\* Mutant: reconcile_config() without the local manager's mutex.
Reconcilable == pc[Api] = "applying"
MayReconcileUnlocked == Reconcilable

\* The mutex that reconcile_config() holds from its first change to its last.
MayReconcile == Reconcilable /\ mx = Null

\* Links after reconcile_config().  A deleted group clears the link of its
\* input only.
NewLink(c) ==
    IF c \in AddedConns THEN KeyIn(cfg, c)
    ELSE IF c \in DeletedConns \/ \E k \in DeletedGroups : input[k] = c THEN Null
    ELSE link[c]
NewInput(k) ==
    LET added == {c \in AddedConns \cap receivers : KeyIn(cfg, c) = k}
    IN  IF added # {} THEN CHOOSE c \in added : TRUE
        ELSE IF k \in DeletedGroups \/ input[k] \in DeletedConns THEN Null
        ELSE input[k]

\* reconcile_config(): no other thread of the control side can run between
\* its steps, which Multipoint has one by one.
ReconcileConfig ==
    /\ MayReconcile
    /\ link' = [c \in Conns |-> NewLink(c)]
    /\ input' = [k \in Keys |-> NewInput(k)]
    /\ groups' = (groups \ DeletedGroups) \cup KeysOf(cfg)
    /\ old' = cfg
    /\ Goto(Api, "stream")
    /\ UNCHANGED <<cur, mx, sdkvars, cfg, ids, proxy_id, rpc, agentvars,
                   timeouts, receivers>>
-----------------------------------------------------------------------------
\* The answer to the proxy, when the RPC of event e is still waiting.
Answer(e, result) == rpc' = IF e.client = "waits" THEN result ELSE rpc

\* Mutant: a group takes any number of receivers.
AcceptsAny(c) == TRUE

\* group_compatible(): a second receiver in a group is refused.
Accepts(c) ==
    c \in receivers => \A d \in linked \cap receivers : GroupOf[d] # GroupOf[c]

\* The agent's event on-register-connection.  It links no connection of a
\* proxy id it does not know; it may also refuse one for its payload or for a
\* receiver at another proxy.
HandleRegister ==
    /\ queue # <<>> /\ Head(queue).op = "register"
    /\ LET e == Head(queue)
       IN  \/ /\ e.proxy = epoch /\ Accepts(e.conn)
              /\ linked' = linked \cup {e.conn}
              /\ Answer(e, "ok")
           \/ UNCHANGED linked /\ Answer(e, "err")
    /\ queue' = Tail(queue)
    /\ UNCHANGED <<pc, cur, mx, sdkvars, groupvars, ids, proxy_id, epoch, snap,
                   command, timeouts, receivers>>

\* The agent's event on-unregister-connection.
HandleUnregister ==
    /\ queue # <<>> /\ Head(queue).op = "unregister"
    /\ linked' = linked \ {Head(queue).conn}
    /\ Answer(Head(queue), "ok")
    /\ queue' = Tail(queue)
    /\ UNCHANGED <<pc, cur, mx, sdkvars, groupvars, ids, proxy_id, epoch, snap,
                   command, timeouts, receivers>>

\* The deadline of the RPC passes before its answer is there.  (An answer that
\* is late on its way leaves the same state once the event is handled.)
RpcTimeout ==
    /\ rpc = "queued" /\ timeouts < MaxTimeouts
    /\ timeouts' = timeouts + 1
    /\ rpc' = "err"
    /\ queue' = [i \in DOMAIN queue |-> [queue[i] EXCEPT !.client = "gone"]]
    /\ UNCHANGED <<pc, cur, mx, sdkvars, groupvars, ids, proxy_id, epoch,
                   linked, snap, command, receivers>>

\* ApplyProxyConfigQueue.Run reads the proxy, with its connections ...
ReadProxy ==
    /\ proxy_id = epoch /\ snap = Null /\ command = Null
    /\ snap' = linked
    /\ UNCHANGED <<pc, cur, mx, sdkvars, groupvars, ids, proxy_id, rpc, epoch,
                   queue, linked, command, timeouts, receivers>>

\* ... then the groups.  The config has the connections found in both; it is
\* dropped when the proxy has no command stream.
SendConfig ==
    /\ snap # Null
    /\ snap' = Null
    /\ command' \in {Null, [proxy |-> epoch, conns |-> snap \cap linked]}
    /\ UNCHANGED <<pc, cur, mx, sdkvars, groupvars, ids, proxy_id, rpc, epoch,
                   queue, linked, timeouts, receivers>>

\* The agent restarts.  A command may have reached the proxy before.
Restart ==
    /\ epoch <= MaxRestarts
    /\ epoch' = epoch + 1
    /\ queue' = <<>> /\ linked' = {} /\ snap' = Null
    /\ rpc' = IF rpc = "queued" THEN "err" ELSE rpc
    /\ UNCHANGED <<pc, cur, mx, sdkvars, groupvars, ids, proxy_id, command,
                   timeouts, receivers>>
-----------------------------------------------------------------------------
CreateSteps(c) ==
    \/ CreateConnection(c) \/ ConfigureFails(c)
    \/ RegisterConnection(c) \/ RegisterFails(c)
    \/ EstablishFails(c) \/ EstablishSucceeds(c)

DeleteSteps(t) ==
    \/ UnregisterConnection(t) \/ DeleteUnlink(t) \/ DeleteObject(t)
    \/ UseDeleted(t)

ApiSteps ==
    \/ RegisterMediaProxy \/ ShutdownBegin \/ ShutdownEnd
    \/ \E c \in Conns : ShutdownLookup(c)
    \/ StartCommandQueue \/ StreamBreaks \/ ApplyConfig \/ ReconcileConfig

AgentSteps ==
    \/ HandleRegister \/ HandleUnregister \/ RpcTimeout
    \/ ReadProxy \/ SendConfig \/ Restart

Next ==
    \/ \E c \in Conns : \/ CreateSteps(c)
                        \/ ActivateLookup(c) \/ ActivateResume(c)
                        \/ DeleteLookup(c)
    \/ \E t \in Threads : DeleteSteps(t)
    \/ ApiSteps
    \/ AgentSteps

Spec == Init /\ [][Next]_vars
-----------------------------------------------------------------------------
Events == [op : {"register", "unregister"}, conn : Conns,
           proxy : Proxies \cup {0}, client : {"waits", "gone"}]

\* The variables hold values the code can give them.
Types ==
    /\ receivers \in Kinds
    /\ pc \in [Threads -> {"start", "creating", "registering",
                           "up", "activating", "deleting", "unregistering",
                           "unlinked", "done", "register", "closing",
                           "shutdown", "connect", "stream", "applying",
                           "crashed"}]
    /\ cur \in [Threads -> Conns \cup {Null}]
    /\ mx \in Threads \cup {Null}
    /\ alive \subseteq Conns /\ registry \subseteq Conns /\ ids \subseteq Conns
    /\ registry_sdk \in [Conns -> {"none", "null", "conn"}]
    /\ link \in [Conns -> Keys \cup {Null}]
    /\ input \in [Keys -> receivers \cup {Null}]
    /\ groups \subseteq Keys
    /\ cfg \in Configs /\ old \in Configs
    /\ proxy_id \in Proxies \cup {0} /\ epoch \in Proxies
    /\ rpc \in {"none", "queued", "ok", "err"}
    /\ queue \in Seq(Events)
    /\ linked \subseteq Conns
    /\ snap \in (SUBSET Conns) \cup {Null}
    /\ command \in Configs \cup {Null}
    /\ timeouts \in 0 .. MaxTimeouts

\* Types; an RPC is under way only while its thread holds the mutex.
TypeOK ==
    /\ Types
    /\ rpc # "none" =>
           mx # Null /\ pc[mx] \in {"registering", "unregistering", "crashed"}

\* When no config is being reconciled, the connections in the registry are
\* linked exactly as the last config says: none was missed because it entered
\* the registry after the config that names it was reconciled, although a
\* missing connection is skipped and never retried (manager_multipoint.cc:254).
\* The variables keep their types.
LinkedAsConfigured ==
    /\ TypeOK
    /\ ~Reconcilable =>
        \A c \in registry :
            link[c] = IF c \in cfg.conns THEN KeyIn(cfg, c) ELSE Null

\* A connection in the registry is linked to no group that has been deleted,
\* and a group is fed by no receiver that has been: reconcile_config() deletes
\* a group without unlinking its local outputs (manager_multipoint.cc:193).
NoDanglingLink ==
    /\ \A c \in registry : link[c] \in groups \cup {Null}
    /\ \A k \in groups : input[k] \in registry \cup {Null}

\* At most one receiver is linked to a group, and the group knows it: a
\* second one would replace the input and keep its own link
\* (manager_multipoint.cc:366).
OneInput ==
    \A c \in registry \cap receivers :
        link[c] # Null => input[link[c]] = c

\* A connection object that is in neither registry is in the hands of the one
\* call that creates or deletes it: no early return leaks it, and a
\* connection enters and leaves both registries together.
NoLeak ==
    /\ registry = {c \in Conns : registry_sdk[c] = "conn"}
    /\ \A c \in alive \ registry :
           \E t \in Threads : /\ cur[t] = c
                              /\ pc[t] \in {"creating", "registering",
                                            "unlinked"}

\* The thread that holds the mutex never waits in vain: the answer to its RPC
\* is there, or its request is in the agent's queue, where it needs nothing of
\* the proxy to be handled.  So a restart or a late event leaves no thread with
\* the mutex, and the configs that need it (proxy_api.cc:384) cannot block
\* those calls (manager_local.cc:101, 183).
HolderIsAnswered ==
    mx # Null =>
        \/ rpc \in {"ok", "err"}
        \/ /\ rpc = "queued"
           /\ \E i \in DOMAIN queue : /\ queue[i].client = "waits"
                                      /\ queue[i].conn = cur[mx]

\* No call goes on with a connection that another one has deleted.  "The local
\* connection manager has it own mutex, which makes this one redundant"
\* (conn_registry.h:63) says that the manager's mutex covers the uses of the
\* registry; the look-ups of activate, delete and shutdown() are outside it.
NoUseAfterDelete == \A t \in Threads : pc[t] # "crashed"
=============================================================================
